SPECIFICATION FairSpec
CONSTANTS
  Handlers = {h1, h2}
  NumWorkers = 1
  mMaxRequest = 1
  Attach = TRUE
  Reports = {"Terminated"}
  MaxPauses = 0
  MaxRejected = 0
PROPERTY
  ResponsesAreProcessed
CHECK_DEADLOCK FALSE
