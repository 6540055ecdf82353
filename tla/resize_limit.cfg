SPECIFICATION Spec
CONSTANTS
  GiB = 2
  Handlers = {h1, h2}
  Requests = {1, 3, 4, 5}
  Limits = {0, 3}
  MaxFaults = 2
  MaxMoves = 2
  ExtendsToSame = TRUE
CHECK_DEADLOCK FALSE
INVARIANTS LimitKept
