SPECIFICATION MessagesSpec
CONSTANTS
  Modulus = 16384
  KnownNumbers <- SchemaNumbers
  MaxKeys = 2
  MaxValues = 1
  TimestampRange = {1000}
  MaxPieces = 2
  Magnitudes = {0, 1, 127, 128, 300, 8191}
  None = None
  NoTime = NoTime
  Parts = {"central_lock", "doors"}
  Paths <- MCPaths
  MaxFacts = 2
  ReportTimes = {1, 2, 7}
  MaxClock = 7
INVARIANTS
  UnknownFieldsAreSkipped
  SentIsReadBack
  RecordIsBounded
  LastWordStands
  ReadingsAreShown
  RecordIsPrivate
PROPERTIES
  CountdownRunsDown
