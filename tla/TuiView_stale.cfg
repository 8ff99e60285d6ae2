SPECIFICATION ViewSpec
CONSTANTS
  Cap = 2
  MaxSeq = 2
  MaxRerenders = 0
  Raws <- MCRaws
  NotOk = NotOk
  Renderings <- MCRenderings
  ContFirst = {}
  Marked = {}
  Marker = "empty"
  MarkerRow = "marker"
  Outcome <- MCOutcome
  Height <- MCHeight
  Scrollback = 3
  MaxReloads = 0
  MaxKeys = 1
INVARIANT RingIsCurrent
CHECK_DEADLOCK FALSE
