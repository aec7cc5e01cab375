SPECIFICATION SessionsSpec
CONSTANTS
  OptionSet <- MCOptionSet
  GpuSettings <- MCGpuSettings
  GpuProjects <- MCGpuProjects
  Mix <- MCMix
  Buckets = 8
  Tables <- MCTables
  Settings <- MCSettings
  LeftBehind <- MCLeftBehind
  MaxSessions = 2
INVARIANTS
  BackendsTypeOK
  PlacementIsFromListedLog
  CountsAddUp
  LogIsListedOnce
  OneModel
  LaunchesAreMeasured
  AnnotatedInStep
  ValidRunsAreServed
CHECK_DEADLOCK FALSE
