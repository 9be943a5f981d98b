---------------------------- MODULE MCBlockPool ----------------------------
(* Model-checking instance of BlockPool: one block made with the queue.    *)
EXTENDS BlockPool, TLC

CONSTANT PoolBlock

MCPool == <<PoolBlock>>

\* All threads do the same.
Symmetry == Permutations(Threads)
=============================================================================
