SPECIFICATION Spec
CONSTANTS
  Objects <- MCObjects
  Collections <- MCCollections
  TopicOf <- MCTopicOf
  Databases <- MCDatabases
  ChunkSize = 2
  FileSize = 2
  None = None
INVARIANTS
  NothingUnrelated
  StationsComplete
  EventProgramsComplete
  WrittenOnce
  GoodDataExports
CHECK_DEADLOCK FALSE
