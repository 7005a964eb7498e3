SPECIFICATION FairSpec
CONSTANTS
  Workers = {w1, w2}
  Entries = {x1, x2, s1}
  Serial = {s1}
  Exclusion <- MCExclusion
  NoExclusion = NoExclusion
  None = None
  x1 = x1  x2 = x2  p1 = p1  s1 = s1  s2 = s2  fileX = fileX
PROPERTIES SerialTestsRun
CHECK_DEADLOCK FALSE
