CONSTANTS
  windows = windows
  linux = linux
  data = data
  Primary = Primary
  Truncated = Truncated
  N = 2
  Disk <- MCDisk
  Extra <- MCExtra
  Guest <- MCGuest
  OwnCR <- MCOwnCR
  Size <- MCSize
  Settings <- MCSettings
  PartialListing = FALSE
  MaxDisturbances = 3
  AgentCR = {0, 1}
  NoSettings = NoSettings
  Cut = Cut
  MaxMishaps = 1
SPECIFICATION FairWorkflowSpec
INVARIANTS
  WorkflowTypeOK
  RecordedServersMatch
  RecordedDestinationsMatch
  OneOrphanPerInterruptedRun
  ReadyForImport
  RequestsComplete
PROPERTIES
  NoSecondServer
  RegistrySpec
  RerunsComplete
