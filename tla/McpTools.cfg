SPECIFICATION McpSpec
CONSTANTS
  Cap = 2
  MaxSeq = 3
  MaxRerenders = 1
  Raws = {r1, r2}
  NotOk = NotOk
  Renderings <- MCRenderings
  ContFirst <- MCContFirst
  Marked <- MCMarked
  DefaultContext = 1
  MaxContext = 2
  DefaultLimit = 2
  MaxLimit = 3
  Inputs <- MCInputs
INVARIANTS
  McpTypeOK RingContiguous BlocksCurrent
  ReplyCoherent AccessorsExact ViewportReplyOnScreen
CHECK_DEADLOCK FALSE
SYMMETRY MCSymmetry
