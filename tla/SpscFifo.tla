------------------------------ MODULE SpscFifo -------------------------------
(***************************************************************************)
(* What a single-producer single-consumer ring buffer promises: a FIFO     *)
(* stream of at most Capacity items in flight.  sent is every item ever    *)
(* published, got every item whose slot the consumer has given back.       *)
(***************************************************************************)
EXTENDS Integers, Sequences

CONSTANTS Capacity, Items

VARIABLES sent, got

vars == <<sent, got>>

\* s is an initial segment of t.
Begins(s, t) == /\ Len(s) <= Len(t)
                /\ \A k \in 1 .. Len(s) : s[k] = t[k]

Init == sent = <<>> /\ got = <<>>

\* The producer publishes a run of items for which there is room.
Publish == /\ Begins(sent, sent')
           /\ Len(sent') - Len(got) <= Capacity
           /\ UNCHANGED got

\* The consumer takes the oldest items, and only items already published.
Consume == /\ Begins(got, got')
           /\ Begins(got', sent)
           /\ UNCHANGED sent

Next == Publish \/ Consume

Spec == Init /\ [][Next]_vars
==============================================================================
