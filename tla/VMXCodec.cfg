CONSTANTS
  Names <- MCNames
  Text <- MCText
  Number <- MCNumber
  Unsigned <- MCUnsigned
  Nearest <- MCNearest
  Unquote <- MCUnquote
  Long <- MCLong
  FirstPart <- MCFirstPart
  Rest <- MCRest
  Files <- MCFiles
  Machines <- MCMachines
  Adapters <- MCAdapters
  PerAdapter <- MCPerAdapter
  MaxNICs = 2
SPECIFICATION CodecSpec
INVARIANTS
  TypeOK
  OutcomeOfFile
  DecodedAsWritten
  MACAsWritten
  RoundTrip
CHECK_DEADLOCK FALSE
