SPECIFICATION FairSpec
CONSTANTS
  p1 = p1
  Peers = {p1}
  MaxT = 3
  Capacity = 1
  Window = 2
  MaxFaults = 2
INVARIANTS
  HoldsAcked
PROPERTIES
  CatchesUp
CHECK_DEADLOCK FALSE
