SPECIFICATION LiveSpec
CONSTANTS
  c1 = c1
  c2 = c2
  Caller = {c1, c2}
  Hasty = {c1}
  Setup = Setup
  Nobody = Nobody
  MayReject = TRUE
  MaxGrants = 5
  MaxLost = 2
INVARIANTS
  OneRenewal
  RefreshTokenIsCurrent
PROPERTIES
  LoginsAreSpaced
  ServiceSpec
  EveryCallEnds
  Recovers
