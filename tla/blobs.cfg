SPECIFICATION FairSpec
CONSTANTS
  Nodes = {n1, n2}
  n1 = n1
  n2 = n2
  d1 = d1
  d2 = d2
  Deployments <- OneOrPair
  Dbs = {d1, d2}
  Leaves <- Leaf2
  Content <- Turns
  None = None
  MaxT = 2
  MaxLives = 2
  MaxLease = 2
INVARIANTS
  RootIntact
PROPERTIES
  CarriedFromLive
  GarbageSwept
CHECK_DEADLOCK FALSE
