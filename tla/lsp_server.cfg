SPECIFICATION FairSpec
CONSTANTS
  a = a
  b = b
  Docs = {a, b}
  MaxTexts = 3
  MaxLenses = 1
  Faults = TRUE
INVARIANTS SettledCacheIsNewest CachesAgree ClosedHoldsOnlyOvertaken LensesCatchUp
PROPERTY PromiseSpec
CHECK_DEADLOCK FALSE
