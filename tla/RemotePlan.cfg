CONSTANTS
  Tool = {t1, t2}
  Chunks = 2
  TextBusy = TRUE
  PkillWorks = FALSE
  MaxRuns = 2
  MaxDisturbances = 1
SPECIFICATION FairSpec
INVARIANTS
  TypeOK
  OneAgentEach
  OwnWholePlan
PROPERTIES
  OldPlanKept
  DownloadEnds
CHECK_DEADLOCK FALSE
