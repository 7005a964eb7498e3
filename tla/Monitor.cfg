SPECIFICATION Spec
CONSTANTS
  NumPollers = 2
  MaxTime = 4
INVARIANTS TypeOK PrintedOnce FinalPass FailureBeforeDown
CHECK_DEADLOCK FALSE
