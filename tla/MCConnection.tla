---------------------------- MODULE MCConnection -----------------------------
(* Connection for a few starts of each side.                               *)
EXTENDS Connection
==============================================================================
