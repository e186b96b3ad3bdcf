SPECIFICATION FairSpec
CONSTANTS
  a = a
  b = b
  Files = {a, b}
  InRepo = {a}
  MaxOps = 3
INVARIANTS NoSaveLost OnlyEscapeesOutliveStop
PROPERTY PromiseSpec
CHECK_DEADLOCK FALSE
