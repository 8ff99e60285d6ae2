SPECIFICATION Spec
CONSTANTS
  Files = {f1}
  EventCap = 1
  Tui = TRUE
  Scenarios <- MCScenarios
  MaxLines = 3
  MaxReloads = 1
INVARIANTS SkippedIsGone
PROPERTIES ImplementsDelivery LinesArrive UiResponds ReloadCompletes QuitCompletes CatchUpAnswered
CHECK_DEADLOCK FALSE
