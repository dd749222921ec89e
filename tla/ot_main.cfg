SPECIFICATION FairSpec
CONSTANTS
  Volume = 3
  OwnTerms <- Own3
  Edits <- Others3
  Venues <- WholeTaken
  NAmends = 1
  NEdits = 1
  NFills = 2
  Losses = 1
  Restarts = 1
  MaxQueue = 1
  VenueSets = TRUE
  None = None
INVARIANTS KnowledgeSound
PROPERTIES ReportsTrue EditNoticed
CHECK_DEADLOCK FALSE
