SPECIFICATION Spec
CONSTANTS
  Bad = Bad
  Broken <- MCBroken
  Absent <- MCAbsent
  DefaultKeys <- MCDefaultKeys
  ReservedKeys = {"1"}
  KeyNames = {"q", "c", "x", "1"}
  Lower <- MCLower
  Missing <- MCMissing
  CommandLines <- MCCommandLines
  Disks <- MCDisks
  Documents <- MCDocuments
  Templates <- MCTemplates
  Selections <- MCSelections
  MaxEdits = 2
INVARIANTS ReloadIsRestart CliGroupsLead InitKeepsLoading
CHECK_DEADLOCK FALSE
