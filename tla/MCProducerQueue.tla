-------------------------- MODULE MCProducerQueue --------------------------
(***************************************************************************)
(* Instances of ProducerQueue for TLC.  Consumers and blocks outside the   *)
(* initial pool are interchangeable.                                       *)
(***************************************************************************)
EXTENDS ProducerQueue, TLC

Symmetry == Permutations(Consumers) \cup Permutations(Blocks \ PoolBlocks)
=============================================================================
