SPECIFICATION Spec
CONSTANTS
  MaxTime = 5
  NumConds = 2
  Statuses = {"a", "b", "c"}
INVARIANTS IntervalsAreRuns EventsInWindow ChangesByName
CHECK_DEADLOCK FALSE
