---------------------- MODULE ConcurrentQueueConstants ----------------------
(***************************************************************************)
(* What the modules about the producers of a ConcurrentQueue have in       *)
(* common: ProducerQueue, the queue of one producer, and ProducerList, the *)
(* list of all.                                                            *)
(***************************************************************************)
CONSTANTS
  Consumers,       \* threads that dequeue
  MaxItems,        \* bound: elements ever enqueued
  MaxBulk,         \* bound: elements per bulk operation
  Null
=============================================================================
