SPECIFICATION Spec
CONSTANTS
  Cars = {"A"}
  Failed = "failed"
  Flows = {f1, f2}
  DemoCar = "D"
  MaxPasswords = 2
  MaxUnloads = 2
SYMMETRY Interchangeable
INVARIANTS
  TypeOK
  OneEntryPerCar
  RunsOnWhatTheEntrySays
  ChannelsHaveAnEntry
  ServicesFindTheirCar
PROPERTIES
  EntriesAreKept
