SPECIFICATION Spec
CONSTANTS
  Threads = {t1, t2, t3}
  hash_thread_id <- MCHash
  InitialSizes = {2, 4}
  MaxFailures = 1
  Null = Null
INVARIANTS
  SlotFree
PROPERTIES
  OwnProducer
  CallsReturn
