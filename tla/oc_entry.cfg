SPECIFICATION Spec
CONSTANTS
  Mine0 = 2
  Others0 = 1
  NCloses = 1
  Entries = 1
  MaxForeign = 1
  MaxFires = 0
  MaxQueue = 2
  Ties = TRUE
INVARIANTS ReportsTrue ForeignCloseNoticed HeldIsAwaited
CHECK_DEADLOCK FALSE
