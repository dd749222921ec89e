SPECIFICATION Spec
CONSTANTS
  Orders = {o1}
  Qty = 2
  FillAnswers = TRUE
  HistoryFails = TRUE
  HistoryLags = TRUE
  MaxDrops = 1
  MaxCrashes = 2
  MaxReplays = 1
CHECK_DEADLOCK FALSE
INVARIANT IInv
INVARIANT NeverOverbooked
INVARIANT AdoptionAlignsCursor
PROPERTY CursorOnlyGrows
PROPERTY FilledRowsKept
PROPERTY LedgerSpec
