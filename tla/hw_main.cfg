SPECIFICATION FairSpec
CONSTANTS
  Rows = {r1, r2}
  Positions = {}
  Stalled = {r1}
  PageRows = 1
  Budget = 1
  Overlap = 1
  Skew = 1
  Anchors = {0, 1}
  MaxTime = 3
  NDeals = 2
  Fails = 1
  Restarts = 1
  Ties = FALSE
  NoWalk = NoWalk
INVARIANTS IInv Complete FewOwed
PROPERTIES TurnsTaken
CHECK_DEADLOCK FALSE
