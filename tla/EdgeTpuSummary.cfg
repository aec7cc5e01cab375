SPECIFICATION Spec
CONSTANTS
  Tables <- MCTables
  Settings <- MCSettings
  LeftBehind <- MCLeftBehind
  MaxSessions = 2
INVARIANT SummaryIsPreferred
CHECK_DEADLOCK FALSE
