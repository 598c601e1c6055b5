--------------------------- MODULE AtomicExtension ---------------------------
(***************************************************************************)
(* The two shared AtomicUsize counters, head and tail, under the           *)
(* release/acquire memory model.  Each counter is stored by one thread and *)
(* loaded by both, so a counter is the sequence of stores that the other   *)
(* thread may still observe: a load returns any of them and forgets the    *)
(* older ones (coherence), and the storing thread always sees its last.    *)
(*                                                                         *)
(* A store is a record: val is the value stored, and rel says what an      *)
(* acquiring load synchronises with: every access of the storing thread to *)
(* a slot at a position below rel happens before that load.  A release     *)
(* store of v publishes the accesses below v, a relaxed one publishes      *)
(* nothing.                                                                *)
(***************************************************************************)
EXTENDS Integers, Sequences

Store == [val : Nat, rel : Nat]

\* AtomicUsize::new(0)
Zeroed == << [val |-> 0, rel |-> 0] >>

Latest(stores) == stores[Len(stores)].val

\* A store that repeats the last one cannot be told from it.
Put(stores, s) ==
  IF stores[Len(stores)] = s THEN stores ELSE Append(stores, s)

\* Mutant of StoreRelease: the ordering is forgotten.
StoreReleaseAsRelaxed(stores, v) == Put(stores, [val |-> v, rel |-> 0])

StoreRelease(stores, v) == Put(stores, [val |-> v, rel |-> v])

\* The stores a thread may still observe once it has observed the i-th.
ObserveFrom(stores, i) == SubSeq(stores, i, Len(stores))

\* What a thread knows to have happened before, after loading store s.
LoadAcquire(known, s) == IF s.rel > known THEN s.rel ELSE known
==============================================================================
