SPECIFICATION Spec
CONSTANTS
  None = None
  Sessions = {s1, s2}
  s1 = s1
  s2 = s2
  Many = {}
  Unique = {1}
  Ref = {}
  Component = {}
  Block = 2
  Deployments <- MCDeployments
PROPERTIES
  CommitSerial
  AbortedNeverCommits
  RepeatableRead
CHECK_DEADLOCK FALSE
