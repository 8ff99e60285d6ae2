SPECIFICATION Spec
CONSTANTS
  Clients = {c1, c2}
  Stuck = {c1}
  ChanCap = 1
  MaxEvents = 3
INVARIANTS NoPanic InOrderUnlessFull
PROPERTY StreamsEnd
CHECK_DEADLOCK FALSE
