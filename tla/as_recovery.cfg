SPECIFICATION FairSpec
CONSTANTS
  r1 = r1
  Requests = {r1}
  Push = push
  NoOne = NoOne
  MaxConns = 3
  MaxLosses = 2
  MaxOverruns = 1
CHECK_DEADLOCK FALSE
INVARIANT IInv
INVARIANT ReportTruthful
PROPERTY NothingSentInQuarantine
PROPERTY PushedLossRepaired
PROPERTY CallersReturn
