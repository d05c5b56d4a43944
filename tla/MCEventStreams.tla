---------------------------- MODULE MCEventStreams ----------------------------
(* Two clients and one connection, two runs. *)
EXTENDS EventStreams

CONSTANTS c1, c2
=============================================================================
