SPECIFICATION Spec
CONSTANTS
  None = None
  Deployments <- MCDeployments
INVARIANTS
  ArchiveTrue
  ArchiveOpens
  RestoreWhole
PROPERTIES
  ArchiveKept
CHECK_DEADLOCK FALSE
