------------------------------ MODULE MCQueue ------------------------------
(***************************************************************************)
(* Instances of BlockingConcurrentQueue for TLC.  A second is scaled down  *)
(* to 4 microseconds of 2 nanoseconds each.                                *)
(***************************************************************************)
EXTENDS BlockingConcurrentQueue

\* LogicHandler's mWaitDurationIdle: a whole second.
IdleTimeouts == {4}

\* LogicHandler's mWaitDurationBusy: a fraction of a second.
BusyTimeouts == {1}

\* Both, as an executor loop passes them in turn.
AllTimeouts == IdleTimeouts \cup BusyTimeouts
=============================================================================
