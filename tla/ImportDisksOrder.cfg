CONSTANTS
  N = 2
  Additional <- MCAdditional
  Destined <- AllDestined
  Windows = {1}
  Domains <- AnyOrder
  Dirs <- FullDirs
  NoDir = NoDir
  StatTimeouts = FALSE
  BreaksAt <- Steps
  MaxDisturbances = 1
SPECIFICATION Spec
INVARIANT PlacedByPlan
