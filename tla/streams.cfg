SPECIFICATION Spec
CONSTANTS
  Attributes = {"exterior", "location"}
  AlwaysStreamed = {"exterior"}
  ActiveStreamed = {"location"}
  Changing = {"exterior"}
  Attr <- Attributes
  Rank <- MCRank
  Readings <- MCReadings
  Stamped <- MCStamped
  Dated <- MCDated
  MaxRev = 3
  LastRev <- MCLastRev
  Content <- MCContent
  InvalidLimit = 2
  AlwaysOn <- AlwaysStreamed
  ActiveOnly <- ActiveStreamed
  Busy <- MCBusy
  MaxRetries = 2
  StreamTrouble = {"closed"}
  Poll = Poll
  Refresher = {}
  CommandAttrs <- MCCommandAttrs
  Delays = 2
  StreamedDelays = 1
  Outcomes = {"ok", "failed"}
  MayUnload = FALSE
  MaxGen = 4
INVARIANTS
  EntitiesShowSnapshot
  BusyCarIsWatched
  ActiveOnlyStreamsStop
CHECK_DEADLOCK FALSE
