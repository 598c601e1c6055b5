----------------------------- MODULE MCRingBench -----------------------------
(* RingBench on small instances.                                           *)
EXTENDS RingBench

MCItems == 0 .. DataSize - 1
==============================================================================
