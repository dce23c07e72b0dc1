SPECIFICATION Spec
CONSTANTS
  Attributes = {"software", "availability"}
  AlwaysStreamed = {}
  ActiveStreamed = {}
  Changing = {"software"}
  Attr <- Attributes
  Rank <- MCRank
  Readings <- MCReadings
  Stamped <- MCStamped
  Dated <- MCDated
  MaxRev = 2
  LastRev <- MCLastRev
  Content <- MCContent
  InvalidLimit = 2
  AlwaysOn <- AlwaysStreamed
  ActiveOnly <- ActiveStreamed
  Busy <- MCBusy
  MaxRetries = 2
  StreamTrouble = {}
  Poll = Poll
  Refresher = {r1}
  CommandAttrs <- MCCommandAttrs
  Delays = 2
  StreamedDelays = 1
  Outcomes = {"ok"}
  MayUnload = FALSE
  MaxGen = 3
INVARIANTS
  EntitiesShowSnapshot
CHECK_DEADLOCK FALSE
