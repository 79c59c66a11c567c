CONSTANTS
  N = 2
  Additional <- MCAdditional
  Destined <- AllDestined
  Windows = {1}
  Domains <- PlanOrder
  Dirs = {}
  NoDir = NoDir
  StatTimeouts = FALSE
  BreaksAt <- OnlyConvert
  MaxDisturbances = 2
SPECIFICATION FairWholePlan
PROPERTY RerunsComplete
