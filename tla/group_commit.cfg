SPECIFICATION FairSpec
CONSTANTS
  r1 = r1
  r2 = r2
  r3 = r3
  k1 = k1
  None = None
  Reqs = {r1, r2, r3}
  Keywords = {k1}
  Uses <- MCUses
  Expects <- MCExpects
  MaxBatch = 2
  MaxFaults = 1
  MaxTakeovers = 1
  MayReject = TRUE
INVARIANTS
  CommitsInArrivalOrder
  AnswersTrue
  ConditionalExact
PROPERTIES
  CallersReturn
CHECK_DEADLOCK FALSE
