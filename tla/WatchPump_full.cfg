SPECIFICATION Spec
CONSTANTS
  Files = {f1}
  EventCap = 1
  Tui = FALSE
  Scenarios <- MCSame
  MaxLines = 3
  MaxReloads = 1
PROPERTY NoInFlightLost
CHECK_DEADLOCK FALSE
