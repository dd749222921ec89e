SPECIFICATION Spec
CONSTANTS
  Orders = {o1}
  Qty = 3
  FillAnswers = FALSE
  HistoryFails = TRUE
  HistoryLags = TRUE
  MaxDrops = 0
  MaxCrashes = 0
  MaxReplays = 1
CHECK_DEADLOCK FALSE
INVARIANT NoFillSkipped
