SPECIFICATION Spec
CONSTANTS
  Handlers = {h1, h2}
  Names = {n1}
  Ids = {i1, i2}
  Sizes = {1}
  Asked <- AnySize
  None = none
  MaxPolls = 2
  MaxFaults = 2
INVARIANTS OneSharePerNameAlways
