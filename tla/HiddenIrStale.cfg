SPECIFICATION Spec
CONSTANTS
  Executors <- MCExecutors
  Settings <- MCSettings
  LeftBehind <- MCLeftBehind
  Partition <- MCPartition
  MaxOps = 2
  MaxSessions = 1
  MaxCalls = 0
INVARIANTS
  ObservesThisCompile
CHECK_DEADLOCK FALSE
