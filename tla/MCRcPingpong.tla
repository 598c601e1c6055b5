---------------------------- MODULE MCRcPingpong -----------------------------
(* RcPingpong on small instances.                                          *)
EXTENDS RcPingpong
==============================================================================
