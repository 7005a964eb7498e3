SPECIFICATION Spec
CONSTANTS
  Kinds = {"event"}
  Order <- MCOrder
  System = {"b"}
  MaxVersion = 2
  MaxCalls = 3
  MaxDeltas = 2
  MaxLog = 3
INVARIANTS RecordedInOrder
CHECK_DEADLOCK FALSE
