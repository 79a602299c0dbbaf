SPECIFICATION Spec
CONSTANTS
  o1 = o1
  o2 = o2
  w1 = w1
  w2 = w2
  w3 = w3
  x1 = x1
  x2 = x2
  x3 = x3
  NoOwner = NoOwner
  NoWriter = NoWriter
  Owners = {o1, o2}
  Writers = {w1, w2, w3}
  Txs = {x1, x2, x3}
  Backend = "native"
  MaxT = 2
  MaxVersion = 2
  MaxBatch = 2
  MaxFaults = 1
  MaxPasses = 2
SYMMETRY Symmetry
INVARIANTS
  AckedDurable
  SuccessorComplete
  IndexCoversAcked
CHECK_DEADLOCK FALSE
