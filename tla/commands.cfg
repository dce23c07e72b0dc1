SPECIFICATION LiveSpec
CONSTANTS
  Entities = {"lock", "climate", "charging", "target_soc", "timer_seat_heat"}
  Values = {"on", "off"}
  TTL = 2
  Retries = 1
  MaxMessages = 1
  MaxChanges = 1
  MaxTrouble = 1
INVARIANTS
  TypeOK
  ShownIsAccounted
  RefusalFails
  FailedIsNotShown
  RefreshReachesEntity
PROPERTIES
  OverrideHolds
  CallIsRemoteCall
  Settles
  CommandEnds
CHECK_DEADLOCK FALSE
