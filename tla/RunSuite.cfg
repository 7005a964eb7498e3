SPECIFICATION FairSpec
CONSTANTS
  Tests = {smoke1, serial1, x1, x2}
  Smoke = {smoke1}
  Serial = {serial1}
  Exclusion <- MCExclusion
  NoExclusion = NoExclusion
  Count = 1
  FlakeLimits = {0, 1, 2}
  smoke1 = smoke1  serial1 = serial1  x1 = x1  x2 = x2  fileX = fileX
INVARIANTS TypeOK GreenIsEarned RedIsEarned SmokeFirst ReportComplete RetriesEarned
PROPERTIES RunEnds
CHECK_DEADLOCK FALSE
