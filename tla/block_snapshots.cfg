SPECIFICATION FairSpec
CONSTANTS
  Handlers = {h1, h2}
  Names = {n1}
  Ids = {i1, i2, i3}
  None = none
  ReadyPolls = 2
  MaxFaults = 4
CHECK_DEADLOCK FALSE
INVARIANTS OneSnapshotPerName ReadyIsAvailable NothingLeftBehind
PROPERTIES RefinesRegistry SnapshotsSettle DeletionsSettle
