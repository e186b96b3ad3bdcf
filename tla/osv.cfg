SPECIFICATION Spec
CONSTANTS
  p1 = p1
  p2 = p2
  Proc = {p1, p2}
  MaxLoads = 2
  MaxDays = 1
SYMMETRY Symmetry
INVARIANTS ListedIsRefused FetchBudget
CHECK_DEADLOCK FALSE
