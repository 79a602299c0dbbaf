SPECIFICATION FairSpec
CONSTANTS
  Node = {a, b}
  First = a
  Modes = {TRUE, FALSE}
  MaxTerm <- TwoTerms
  MaxStep = 1
  MaxFault = 1
INVARIANTS
  MergeCarriesAcked
  AckedStepsKept
  EndsTold
  CompensatedOnce
PROPERTIES
  OverdueEnds
CHECK_DEADLOCK FALSE
