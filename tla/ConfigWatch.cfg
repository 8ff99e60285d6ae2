SPECIFICATION Spec
CONSTANTS
  MaxEdits = 5
  MaxSiblings = 2
INVARIANTS Covered ReloadsAreCaused
PROPERTY EditIsApplied
CHECK_DEADLOCK FALSE
