SPECIFICATION FairSpec
CONSTANTS
  Handlers = {h1, h2, h3}
  NumWorkers = 2
  mMaxRequest = 2
  Attach = FALSE
  Reports = {"Error"}
  MaxPauses = 0
  MaxRejected = 2
INVARIANTS
  OneOwner
PROPERTIES
  QueuedIsAccepted
  ShutdownCompletes
CHECK_DEADLOCK FALSE
