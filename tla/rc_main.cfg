SPECIFICATION FairSpec
CONSTANTS
  Mine0 = 2
  Others0 = 1
  NDeals = 3
  Losses = 2
  Crashes = 2
  Resumes = 1
  CrashUnseen = FALSE
  GoneFirst = FALSE
INVARIANTS JournalCovers BookCovers ReportNotLost IInv
PROPERTIES RecoveredExact ShrinkJudged
CHECK_DEADLOCK FALSE
