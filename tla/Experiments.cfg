SPECIFICATION Spec
CONSTANTS
  Names = {"", "a"}
  Dirs = {"x"}
  Modes = {"", "baseline"}
  ModeLists <- MCModeLists
  Numbers = {0, 2}
  MaxLines = 4
  MaxSessions = 3
INVARIANTS
  ExperimentTypeOK
  SpecsMatchConfig
  BatchIsComplete
  RecordPointsToItsRun
  SessionsStopAtFailure
CHECK_DEADLOCK FALSE
