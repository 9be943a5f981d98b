---------------------------- MODULE MCDatastore ----------------------------
(* Instances of DatastoreSession for TLC.                                  *)
EXTENDS DatastoreSession
=============================================================================
