SPECIFICATION FairSpec
CONSTANTS
  Kinds = {"pod", "node", "clusteroperator", "clusterversion", "event"}
  Order <- MCOrder
  System = {"b"}
  MaxVersion = 2
  MaxCalls = 3
  MaxDeltas = 2
  MaxLog = 2
INVARIANTS TypeOK NoGap StoreTracks LogTellsState ErrorsReal OutageRecordedOnce
PROPERTIES ExpiredRelists
CHECK_DEADLOCK FALSE
