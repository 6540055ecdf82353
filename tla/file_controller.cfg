SPECIFICATION FairSpec
CONSTANTS
  Handlers = {h1, h2}
  Names = {n1}
  Ids = {i1, i2}
  Sizes = {1, 2}
  Asked <- AnySize
  None = none
  MaxPolls = 2
  MaxFaults = 2
INVARIANTS PendingIsHeld OneSharePerName ConfirmedCapacity ConfirmedShareIsBuilt ExpandMeetsRequest
PROPERTIES RefinesRegistry CallsEnd ClaimsSettle
