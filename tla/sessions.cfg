SPECIFICATION FairSessionsSpec
CONSTANTS
  MaxConns = 3
  MaxClients = 2
  MaxLines = 2
  MaxPipeLines = 1
  MaxSeq = 2
  MaxFiles = 1
  Ops = {"diff", "review", "cancel", "flood"}
INVARIANTS SlotsAreHeld AtMostOneLateResult OnlyOthersSilenceReviews
PROPERTY SlotIsFreed
CHECK_DEADLOCK FALSE
