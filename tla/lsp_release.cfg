SPECIFICATION Spec
CONSTANTS
  MaxCalls = 2
  MaxServer = 0
  ServerIds = {}
  Transports = {"stdio", "tcp"}
INVARIANT ReleasedHoweverItEnds
CHECK_DEADLOCK FALSE
