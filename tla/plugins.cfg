SPECIFICATION FairSpec
CONSTANTS
  t1 = t1
  t2 = t2
  js = js
  py = py
  ps = ps
  Thread = {t1, t2}
  Entry = {js, py, ps}
  Excluded = {ps}
  Trusted = {js}
  Guarded = {js, py}
  MaxReplacements = 1
  Nobody = Nobody
  MaxOps = 1
  MaxTraps = 1
INVARIANTS GuestsRunSafely LoadedOnce EmptyListHasCauses
PROPERTY EveryOperationEnds
CHECK_DEADLOCK FALSE
