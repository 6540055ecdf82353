SPECIFICATION FairSpec
CONSTANTS
  Handlers = {h1, h2}
  Names = {n1, n2}
  Ids = {i1, i2}
  Sizes = {1}
  Asked <- AnySize
  None = none
  MaxFaults = 2
CHECK_DEADLOCK FALSE
INVARIANTS OneVolumePerName BoundVolumeIsThere NothingLeftBehind
PROPERTIES RefinesRegistry ClaimsSettle DeletionsSettle
