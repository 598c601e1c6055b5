----------------------------- MODULE Attachment ------------------------------
(***************************************************************************)
(* What the start of an adapter and a host promises, and what the ring     *)
(* buffer and Pipeline take for granted: a ring has one host at most, ever *)
(* (there is one producer and one consumer), a host one ring at most, and  *)
(* a ring is offered to a host only when it is initialised.                *)
(***************************************************************************)
CONSTANTS Adapters, Hosts, None

VARIABLES
  offered,   \* adapters whose ring is initialised and may be mapped
  ring       \* the adapter whose ring a host has mapped, or None

vars == <<offered, ring>>

Init == offered = {} /\ ring = [h \in Hosts |-> None]

Offer(a) ==
  /\ a \notin offered
  /\ offered' = offered \cup {a}
  /\ UNCHANGED ring

Withdraw(a) ==
  /\ a \in offered
  /\ offered' = offered \ {a}
  /\ UNCHANGED ring

Attach(h, a) ==
  /\ a \in offered
  /\ ring[h] = None
  /\ \A g \in Hosts : ring[g] # a
  /\ ring' = [ring EXCEPT ![h] = a]
  /\ UNCHANGED offered

Next == \E a \in Adapters : Offer(a) \/ Withdraw(a) \/ \E h \in Hosts : Attach(h, a)

Spec == Init /\ [][Next]_vars
==============================================================================
