CONSTANTS
  Scripts <- Long
  PipeSize = 2
  MaxToken = 3
  Contexts = {"none"}
  Ignore <- IgnoreTwo
  OutsideSignals = FALSE
SPECIFICATION FairSpec
PROPERTY ReturnsAlways
CHECK_DEADLOCK FALSE
