--------------------------- MODULE MCRefRingBuffer ---------------------------
(* RefRingBuffer on small instances: at most MaxItems items are published.  *)
EXTENDS RefRingBuffer

CONSTANT MaxItems

MCNext == Next /\ wend' <= MaxItems

MCSpec == Init /\ [][MCNext]_vars
==============================================================================
