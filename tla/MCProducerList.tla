-------------------------- MODULE MCProducerList ---------------------------
(* Model-checking instance of ProducerList.                                *)
EXTENDS ProducerList, TLC

Symmetry == Permutations(Owners)
=============================================================================
