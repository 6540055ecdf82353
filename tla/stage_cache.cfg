SPECIFICATION Spec
CONSTANTS
  Handlers = {h1, h2}
  Volumes = {v1}
  Exports = {e1, e2}
  None = none
  MaxFaults = 2
  MaxMoves = 3
CHECK_DEADLOCK FALSE
INVARIANTS CacheHoldsResults
