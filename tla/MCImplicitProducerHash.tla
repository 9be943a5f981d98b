---------------------- MODULE MCImplicitProducerHash -----------------------
(* Model-checking instance of ImplicitProducerHash: all ids collide.       *)
EXTENDS ImplicitProducerHash

MCHash == [t \in Threads |-> 3]
=============================================================================
