CONSTANTS
  N = 2
  Additional <- MCAdditional
  Destined <- AllDestined
  Windows = {1}
  Domains <- OtherCount
  Dirs <- AllDirs
  NoDir = NoDir
  StatTimeouts = TRUE
  BreaksAt <- Steps
  MaxDisturbances = 3
SPECIFICATION Spec
INVARIANTS
  TypeOK
  PlacedByPosition
  OnlyCompleteImages
  OkMeansImported
PROPERTIES
  NoMoveUnderRunningServer
  ImportedDisksKept
  HalfwayGetsNoFurther
  OnlyOriginDir
  TakeoverSpec
