SPECIFICATION Spec
CONSTANTS
  Executors <- MCExecutors
  Settings <- MCSettings
  LeftBehind <- MCLeftBehind
  Partition <- MCPartition
  MaxOps = 2
  MaxSessions = 2
  MaxCalls = 3
INVARIANTS
  AdapterTypeOK
  ModelIsLargest
  LoadedModelAgrees
  PartitionsArePairs
CHECK_DEADLOCK FALSE
