SPECIFICATION FairSpec
CONSTANTS
  Handles = {h1}
  FetchSizes = {0, 1, 2}
  MaxRows = 4
  MaxQueries = 3
INVARIANTS
  SessionIdleWhenReady
  UnheldIsReady
  NullMeansComplete
PROPERTY
  ReadingEnds
CHECK_DEADLOCK FALSE
