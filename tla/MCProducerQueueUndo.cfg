SPECIFICATION Spec
CONSTANTS
  Consumers = {c1, c2}
  Blocks = {b1, b2, b3}
  PoolBlocks = {b1}
  BLOCK_SIZE = 2
  INITIAL_INDEX_SIZE = 2
  MaxIndexSize = 4
  IndexMod = 20
  StartIndex = 16
  MaxItems = 8
  MaxBulk = 3
  MaxOvercommit = 1
  Null = Null
INVARIANT ClaimsAreFound
CHECK_DEADLOCK FALSE
SYMMETRY Symmetry
