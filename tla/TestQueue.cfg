SPECIFICATION FairSpec
CONSTANTS
  Workers = {w1, w2, w3}
  Entries = {x1, x2, p1, s1, s2}
  Serial = {s1, s2}
  Exclusion <- MCExclusion
  NoExclusion = NoExclusion
  None = None
  x1 = x1  x2 = x2  p1 = p1  s1 = s1  s2 = s2  fileX = fileX
INVARIANTS TypeOK MutualExclusion SerialAlone ExactlyOnce ReturnsQuiescent
PROPERTIES ImplementsSchedule ParallelTestsRun ExecuteReturns
CHECK_DEADLOCK FALSE
