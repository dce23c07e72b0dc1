SPECIFICATION TimersSpec
CONSTANTS
  Times = {0, 1, 2}
  Ids = {1, 2}
  Statuses = {0, 1, 5}
  Slots = {0, 1}
  Plans <- MCPlans
  Queries <- MCQueries
  MaxEdits = 2
INVARIANTS
  HeardRefusalFails
  CalendarShowsStarts
  CalendarKeepsSchedule
PROPERTIES
  MergedIsFuture
  EditHitsItsTimer
CHECK_DEADLOCK FALSE
