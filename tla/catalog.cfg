CONSTANTS
  n1 = n1
  n2 = n2
  c1 = c1
  c2 = c2
  None = None
  Nodes = {n1, n2}
  Clients = {c1, c2}
  MaxLease = 4
  Source <- MCSource
  Deployments <- MCDeployments
SPECIFICATION FairSpec
INVARIANTS
  CatalogHolds
  EncryptedSealed
  ForkWhole
PROPERTIES
  Served
CHECK_DEADLOCK FALSE
