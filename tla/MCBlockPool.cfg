SPECIFICATION Spec
CONSTANTS
  Threads = {t1, t2, t3}
  PoolBlock = b1
  initialBlockPool <- MCPool
  HeapBlocks = {b2}
  SHOULD_BE_ON_FREELIST = 8
  MaxOwned = 2
  Null = Null
INVARIANTS
  OneOwner
  TakenWasOnList
  NothingLost
CHECK_DEADLOCK FALSE
SYMMETRY Symmetry
