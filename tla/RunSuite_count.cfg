SPECIFICATION Spec
CONSTANTS
  Tests = {x1}
  Smoke = {}
  Serial = {}
  Exclusion <- MCExclusion
  NoExclusion = NoExclusion
  Count = 2
  FlakeLimits = {0}
  smoke1 = smoke1  serial1 = serial1  x1 = x1  x2 = x2  fileX = fileX
INVARIANTS FlakesFound
CHECK_DEADLOCK FALSE
