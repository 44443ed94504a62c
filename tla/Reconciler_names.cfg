SPECIFICATION FairSpec
CONSTANTS
  Keys <- Namesakes
  BareName <- SnapshotNamed
  Workers <- TwoWorkers
  Existing <- OneKey
  Refused <- Second
  MaxChanges = 2
  MaxFaults = 1
  None = None
INVARIANT TypeOK
INVARIANT IInv
INVARIANT OneRunPerName
INVARIANT ExecutorsOwnSnapshots
INVARIANT FailureIsOwn
INVARIANT NothingForgotten
PROPERTY ClaimsSpec
PROPERTY PickedUp
CHECK_DEADLOCK FALSE
