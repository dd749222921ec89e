SPECIFICATION FairSpec
CONSTANTS
  a = a  b = b  c = c  a1 = a1  a2 = a2  b1 = b1  c1 = c1
  NoOne = NoOne
  Procs = {a, b, c}
  EnvOf <- ThreeBots
  Tasks = {a1, a2, b1, c1}
  ProcOf <- FourRefreshes
  Consents = {}
  MaxPairs = 3
  MaxCrashes = 1
  MaxLost = 1
  MaxFailed = 1
CHECK_DEADLOCK FALSE
INVARIANT IInv
INVARIANT RefreshTokenAccepted
PROPERTY UsedPairNeverOlder
PROPERTY FileNeverOlder
PROPERTY LockFreed
