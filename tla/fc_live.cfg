SPECIFICATION FairSpec
CONSTANTS
  Lag = 1
  Evidence = 2
  MaxSlot = 7
  Shut = {3, 6, 7}
  MaxQueue = 1
  MaxLosses = 2
  MaxFaults = 1
  MaxCancels = 1
CHECK_DEADLOCK FALSE
INVARIANT IInv
PROPERTY FeedSpec
PROPERTY OutageBarsDelivered
