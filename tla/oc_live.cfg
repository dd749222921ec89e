SPECIFICATION Spec
CONSTANTS
  Mine0 = 2
  Others0 = 1
  NCloses = 2
  Entries = 0
  MaxForeign = 1
  MaxFires = 1
  MaxQueue = 2
  Ties = TRUE
INVARIANTS TypeOK ReportsTrue BookMatchesVenue
CHECK_DEADLOCK FALSE
