SPECIFICATION Spec
CONSTANTS
  Attributes = {"climate"}
  AlwaysStreamed = {"climate"}
  ActiveStreamed = {}
  Changing = {"climate"}
  Attr <- Attributes
  Rank <- MCRank
  Readings <- MCReadings
  Stamped <- MCStamped
  Dated <- MCDated
  MaxRev = 3
  LastRev <- MCLastRev
  Content <- MCContent
  InvalidLimit = 1
  AlwaysOn <- AlwaysStreamed
  ActiveOnly <- ActiveStreamed
  Busy <- MCBusy
  MaxRetries = 2
  StreamTrouble = {"closed", "auth", "failed", "unimplemented"}
  Poll = Poll
  Refresher = {r1}
  CommandAttrs <- MCCommandAttrs
  Delays = 1
  StreamedDelays = 1
  Outcomes = {"ok", "none", "invalid", "auth"}
  MayUnload = TRUE
  MaxGen = 3
INVARIANTS
  TypeOK
PROPERTIES
  MergedNeverRewinds
CHECK_DEADLOCK FALSE
