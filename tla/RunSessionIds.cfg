SPECIFICATION Spec
CONSTANTS
  Name <- MCName
  ToolNames <- MCToolNames
  Batches <- MCBatches
  Identified <- MCIdentified
  Capacity = 6
  MaxEvents = 40
  MaxOpens = 1
  MaxOps = 2
INVARIANTS
  NoMetricEventsAtIds
CHECK_DEADLOCK FALSE
