SPECIFICATION Spec
CONSTANTS
  Orders = {o1}
  Qty = 1
  FillAnswers = TRUE
  HistoryFails = FALSE
  HistoryLags = FALSE
  MaxDrops = 0
  MaxCrashes = 0
  MaxReplays = 0
CHECK_DEADLOCK FALSE
INVARIANT NoFillSkipped
