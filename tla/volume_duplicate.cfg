SPECIFICATION Spec
CONSTANTS
  Handlers = {h1, h2}
  Names = {n1}
  Ids = {i1, i2}
  Sizes = {1}
  Asked <- AnySize
  None = none
  MaxFaults = 2
CHECK_DEADLOCK FALSE
INVARIANTS OneVolumePerNameAlways
