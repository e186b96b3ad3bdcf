SPECIFICATION FairSpec
CONSTANTS
  MaxCalls = 3
  MaxServer = 1
  ServerIds = {2, 9}
  Transports = {"stdio", "tcp"}
INVARIANTS RegisteredIsAwaited ReaderLeavesNoWaiter CleanedUpIsReleased
PROPERTY EveryCallEnds
CHECK_DEADLOCK FALSE
