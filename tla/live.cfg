SPECIFICATION FairSpec
CONSTANTS
  ed = ed
  a = a
  Clients = {ed}
  Paths = {a}
  MaxRequests = 3
  MaxSeq = 3
  MaxCancels = 1
  MaxEvents = 1
  Streams = {TRUE,FALSE}
  CancelReuses = FALSE
INVARIANTS TrackedIsNewest AtMostOneLateMessage CancelledIsSilent
PROPERTIES PromiseSpec EveryRequestSettles
CHECK_DEADLOCK FALSE
