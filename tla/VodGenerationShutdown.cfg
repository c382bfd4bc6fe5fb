CONSTANTS
  User = {"u"}
  MaxSessions = 1
SPECIFICATION Spec
CHECK_DEADLOCK FALSE
INVARIANT ShutdownLeavesNoFFmpeg
