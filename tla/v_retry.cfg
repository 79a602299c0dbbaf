SPECIFICATION Spec
CONSTANTS
  o1 = o1
  o2 = o2
  w1 = w1
  w2 = w2
  x1 = x1
  NoOwner = NoOwner
  NoWriter = NoWriter
  Owners = {o1, o2}
  Writers = {w1, w2}
  Txs = {x1}
  Backend = "native"
  MaxT = 2
  MaxVersion = 2
  MaxBatch = 1
  MaxFaults = 0
  MaxPasses = 0
SYMMETRY Symmetry
INVARIANTS
  RetryCommitsOnce
CHECK_DEADLOCK FALSE
