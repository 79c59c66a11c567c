CONSTANTS
  Scripts <- MCScripts
  PipeSize = 2
  MaxToken = 3
  Contexts <- Both
  Ignore <- IgnoreTwo
  OutsideSignals = TRUE
SPECIFICATION FairSpec
INVARIANTS
  TypeOK
  ReportComplete
  OkMeansAccepted
PROPERTIES
  Returns
  DeadlineReturns
CHECK_DEADLOCK FALSE
