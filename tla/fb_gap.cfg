SPECIFICATION FairSpec
CONSTANTS
  Orders = {o1}
  Qty = 1
  FillAnswers = FALSE
  HistoryFails = FALSE
  HistoryLags = FALSE
  MaxDrops = 2
  MaxCrashes = 0
  MaxReplays = 1
CHECK_DEADLOCK FALSE
PROPERTY KnownFillBooked
