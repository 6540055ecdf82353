SPECIFICATION FairSpec
CONSTANTS
  Handlers = {h1, h2}
  Volumes = {v1}
  None = none
  MaxFaults = 3
  MaxMoves = 3
  MaxMounts = 4
CHECK_DEADLOCK FALSE
INVARIANTS PodSeesVolume MountedOnce MountedWhileAttached
PROPERTIES RefinesMounts PodsSettle
