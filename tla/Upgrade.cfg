SPECIFICATION FairSpec
CONSTANTS
  Commands <- MCCommands
  Clusters <- MCClusters
  Ops = {"o1", "o2"}
  Percents = {100}
  Steps = 2
  MaxForeign = 1
  MaxReboots = 2
INVARIANTS TypeOK PassIsEarned OneLateReboot
PROPERTIES ForeignStops UpgradeEnds
