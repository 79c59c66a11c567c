CONSTANTS
  N = 2
  Additional <- MCAdditional
  Destined <- AllDestined
  Windows = {1}
  Domains <- PlanOrder
  Dirs <- AllDirs
  NoDir = NoDir
  StatTimeouts = FALSE
  BreaksAt <- Steps
  MaxDisturbances = 1
SPECIFICATION Spec
PROPERTY OnlyVMDir
