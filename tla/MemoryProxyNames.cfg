SPECIFICATION Spec
CONSTANTS
  Graphs <- MCGpuGraphs
  Word = 256
INVARIANTS
  PeakCoversResident
CHECK_DEADLOCK FALSE
