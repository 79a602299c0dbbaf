SPECIFICATION Spec
CONSTANTS
  Many <- ManyAttrs
  Unique <- UniqueAttrs
  Ref <- ManyAttrs
  Component <- ManyAttrs
  Keyword <- KeywordAttrs
  Bases <- OneBase
  EarlyTxs <- Early
  ParentTxs <- OnParent
  StepTxs <- OnBranch
  Block = 2
  Reserves <- SomeReserves
  MaxParent = 2
  MaxStep = 2
  MaxReport = 1
INVARIANTS
  SchemaHolds
  SquashExact
PROPERTIES
  MergeExact
  SeenBeforeOverwritten
  NothingResurrected
CHECK_DEADLOCK FALSE
