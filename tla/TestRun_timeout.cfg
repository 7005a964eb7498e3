SPECIFICATION FairSpec
CONSTANTS
  Executions = {x1, x2}
  Tests = {t1, t2}
  TestOf <- MCTestOf
  x1 = x1  x2 = x2  t1 = t1  t2 = t2
PROPERTIES TimeoutEnforced
CHECK_DEADLOCK FALSE
