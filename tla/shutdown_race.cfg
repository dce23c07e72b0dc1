SPECIFICATION Spec
CONSTANTS
  Attributes = {"exterior"}
  AlwaysStreamed = {"exterior"}
  ActiveStreamed = {}
  Changing = {}
  Attr <- Attributes
  Rank <- MCRank
  Readings <- MCReadings
  Stamped <- MCStamped
  Dated <- MCDated
  MaxRev = 2
  LastRev <- MCLastRev
  Content <- MCContent
  InvalidLimit = 2
  AlwaysOn <- AlwaysStreamed
  ActiveOnly <- ActiveStreamed
  Busy <- MCBusy
  MaxRetries = 2
  StreamTrouble = {}
  Poll = Poll
  Refresher = {}
  CommandAttrs <- MCCommandAttrs
  Delays = 2
  StreamedDelays = 1
  Outcomes = {"ok", "failed"}
  MayUnload = TRUE
  MaxGen = 3
INVARIANTS
  StreamsAreCancelled
CHECK_DEADLOCK FALSE
