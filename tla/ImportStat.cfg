CONSTANTS
  N = 2
  Additional <- MCAdditional
  Destined <- AllDestined
  Windows = {1}
  Domains <- PlanOrder
  Dirs <- FullDirs
  NoDir = NoDir
  StatTimeouts = TRUE
  BreaksAt <- Steps
  MaxDisturbances = 2
SPECIFICATION StatSpec
PROPERTIES
  ImportSpec
  RerunsCompleteTheRest
