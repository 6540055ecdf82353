SPECIFICATION FairSpec
CONSTANTS
  Handlers = {h1, h2}
  Volumes = {v1}
  Nodes = {n1, n2}
  None = none
  AttachPolls = 2
  DetachPolls = 1
  MaxFaults = 2
  MaxMoves = 3
CHECK_DEADLOCK FALSE
INVARIANTS AttachedWhenRecorded DetachedWhenRecorded
PROPERTIES RefinesAttachments LeavesOnRequest Converges
