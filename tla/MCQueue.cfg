SPECIFICATION FairSpec
CONSTANTS
  Producers = {p1, p2}
  Consumers = {c1, c2}
  UsecsPerSec = 4
  NsecsPerUsec = 2
  MaxItems = 2
  Timeouts <- AllTimeouts
INVARIANTS
  TokenBacked
  NoLostWakeup
  SemaphoreSettles
PROPERTIES
  WaitReturns
  EventuallyDelivered
  ImplementsWorkQueue
CHECK_DEADLOCK FALSE
