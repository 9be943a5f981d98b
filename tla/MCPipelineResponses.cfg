SPECIFICATION FairSpec
CONSTANTS
  Handlers = {h1, h2}
  NumWorkers = 1
  mMaxRequest = 2
  Attach = TRUE
  Reports = {"Ready", "Error", "Terminated", "Paused"}
  MaxPauses = 1
  MaxRejected = 1
INVARIANT
  FinishIsHeard
PROPERTIES
  OnlyFinishedLeave
  FinishedLeaveWithRoom
CHECK_DEADLOCK FALSE
