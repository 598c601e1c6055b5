--------------------------- MODULE MCCppRingBuffer ---------------------------
(* CppRingBuffer on small instances.                                       *)
EXTENDS CppRingBuffer

MCCounts == {-1, 5}

MCReadAll == {-1}
==============================================================================
