SPECIFICATION Spec
CONSTANTS
  Inodes = {i1, i2}
  None = None
  Scenarios <- MCReuse
  MaxBytes = 2
PROPERTY RetriesUntilOpen
CHECK_DEADLOCK FALSE
