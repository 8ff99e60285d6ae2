SPECIFICATION Spec
CONSTANTS
  Kinds <- MCKinds
  Groups = {"a", "b"}
  GroupOf <- MCGroupOf
  RowsOf <- MCRowsOf
  StartOff = {}
  Scrollback = 3
  ContentHeight = 2
  MaxLines = 3
  MaxToggles = 2
INVARIANTS TypeOK CopyAgrees SelectionInRange
PROPERTIES BrowsingIsStill UnstickKeepsScreen MovesShowTarget
CHECK_DEADLOCK FALSE
