SPECIFICATION Spec
CONSTANTS
  o1 = o1
  o2 = o2
  w1 = w1
  w2 = w2
  w3 = w3
  x1 = x1
  x2 = x2
  NoOwner = NoOwner
  NoWriter = NoWriter
  Owners = {o1, o2}
  Writers = {w1, w2, w3}
  Txs = {x1, x2}
  Backend = "fs"
  MaxT = 3
  MaxVersion = 2
  MaxBatch = 2
  MaxFaults = 1
  MaxPasses = 1
SYMMETRY Symmetry
INVARIANTS
  LogReadable
  HolderNeverForked
PROPERTIES
  ImplementsDurableLog
CHECK_DEADLOCK FALSE
