SPECIFICATION Spec
CONSTANTS
  Names = {"", "a"}
  Dirs = {"x"}
  Modes = {"", "baseline"}
  ModeLists <- MCModeLists
  Numbers = {0, 2}
  MaxLines = 4
  MaxSessions = 3
INVARIANT BatchHasIndex
CHECK_DEADLOCK FALSE
