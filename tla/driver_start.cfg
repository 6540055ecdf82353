SPECIFICATION FairSpec
CONSTANTS
  Programs = {bc, bn, fn, fb}
  Block = {bc, bn}
  Controllers = {bc, fb}
  Nodes = {bn, fn, fb}
  MaxFaults = 2
  bc = bc
  bn = bn
  fn = fn
  fb = fb
PROPERTIES ServesAgain ComesNearer
