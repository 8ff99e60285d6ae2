SPECIFICATION Spec
CONSTANTS
  Inodes = {i1, i2, i3}
  None = None
  Scenarios <- MCScenarios
  MaxBytes = 3
INVARIANTS TypeOK ReadOnceInOrder LinesAreNotJoined
PROPERTIES AttachedLinesArrive ConvergesToEnd
CHECK_DEADLOCK FALSE
