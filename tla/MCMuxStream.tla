---------------------------- MODULE MCMuxStream ----------------------------
(* One stream between two peers, for TLC. *)
EXTENDS MuxStream
=============================================================================
