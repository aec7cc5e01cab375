SPECIFICATION TracerSpec
CONSTANTS
  Name <- MCName
  Calls <- MCCalls
  Batches <- MCBatches
  Capacity = 2
  MaxEvents = 5
  MaxOpens = 2
INVARIANTS
  StatsNeverStale
  LevelHonoured
  GoneLosesFew
CHECK_DEADLOCK FALSE
