----------------------------- MODULE MCShutdown -----------------------------
(* Instances of Shutdown for TLC: two requests and one socket. *)
EXTENDS Shutdown
=============================================================================
