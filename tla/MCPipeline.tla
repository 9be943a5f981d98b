----------------------------- MODULE MCPipeline -----------------------------
(* Instances of RequestPipeline for TLC.                                   *)
EXTENDS RequestPipeline
=============================================================================
