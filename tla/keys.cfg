CONSTANTS
  h1 = h1
  h2 = h2
  k1 = k1
  k2 = k2
  None = None
  Hosts = {h1, h2}
  Keks = {k1, k2}
  Deployments <- MCDeployments
  MaxEpoch = 3
SPECIFICATION FairSpec
INVARIANTS
  LogOpenable
  Counted
PROPERTIES
  FenceHolds
  CatchesUp
CHECK_DEADLOCK FALSE
