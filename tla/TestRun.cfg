SPECIFICATION FairSpec
CONSTANTS
  Executions = {x1, x2}
  Tests = {t1, t2}
  TestOf <- MCTestOf
  x1 = x1  x2 = x2  t1 = t1  t2 = t2
INVARIANTS TypeOK NoResultLost VerdictsEarned FailuresExact AbortAfterInterrupt
PROPERTIES UncancelledRunEnds
CHECK_DEADLOCK FALSE
