SPECIFICATION Spec
CONSTANTS
  MAX_BLOCK_SIZE = 2
  MaxSizes = {1, 3, 4}
  MaxBlocks = 5
  MaxItems = 6
INVARIANTS
  TakesOldest
  RefusesRightly
  SizeIsBetween
  DestructorExact
CHECK_DEADLOCK FALSE
