SPECIFICATION FairSpec
CONSTANTS
  Keys <- OneKey
  BareName <- SnapshotNamed
  Workers <- OneWorker
  Existing <- OneKey
  Refused <- Second
  MaxChanges = 2
  MaxFaults = 0
  None = None
PROPERTY EveryJobIsReflected
CHECK_DEADLOCK FALSE
