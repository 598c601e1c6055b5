----------------------------- MODULE MCLoopback ------------------------------
(* Loopback on small instances.                                            *)
EXTENDS Loopback
==============================================================================
