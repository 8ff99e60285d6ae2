SPECIFICATION Spec
CONSTANTS
  Dirs <- MCDirs
  Files <- MCFiles
  Dotted <- MCDotted
  NoGroup = NoGroup
  Scenarios <- MCScenarios
  MaxReloads = 1
  MaxRemovals = 1
INVARIANTS MatcherAgreesWithAssign TailedOnce WatchedDirsAreComplete
CHECK_DEADLOCK FALSE
