----------------------------- MODULE MCPipeline ------------------------------
(* Pipeline on small instances.                                            *)
EXTENDS Pipeline

Args(b, c, s) == [batch |-> b, cmsg |-> c, smsg |-> s]

\* Aligned arguments, and messages that are longer and shorter than the server
\* expects.
MCArguments == {Args(1, 2, 2), Args(2, 2, 2), Args(1, 2, 1), Args(1, 1, 2)}

\* As many a batch as two messages.
MCLargeBatch == {Args(2, 1, 1)}
==============================================================================
