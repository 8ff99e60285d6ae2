SPECIFICATION ViewSpec
CONSTANTS
  Cap = 2
  MaxSeq = 3
  MaxRerenders = 0
  Raws <- MCRaws
  NotOk = NotOk
  Renderings <- MCRenderings
  ContFirst = {}
  Marked = {}
  Marker = "empty"
  MarkerRow = "marker"
  Outcome <- MCOutcome
  Height <- MCHeight
  Scrollback = 3
  MaxReloads = 1
  MaxKeys = 2
INVARIANTS ViewTypeOK ReconcilePending ViewInOrder
PROPERTY ViewConverges
CHECK_DEADLOCK FALSE
