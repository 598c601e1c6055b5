---------------------------- MODULE RefRingBuffer ----------------------------
(***************************************************************************)
(* The Rust ring buffer (shared/src/ref_ring_buffer): one Sender and one   *)
(* Receiver on two threads, or in two processes that map the same shared   *)
(* memory, exchange items through slots guarded by the counters head and   *)
(* tail.  Steps are the loads, slot accesses and stores of the code: the   *)
(* two loads of an operation are one step, because the counter a thread    *)
(* stores itself cannot change under it.                                   *)
(*                                                                         *)
(* A thread holds at most one chunk at a time, as every caller in the      *)
(* repository does, and commits a chunk when it has gone through it.       *)
(***************************************************************************)
EXTENDS RingOps, AtomicExtension

CONSTANTS
  Items,      \* what a slot may hold: T
  NoItem,     \* MaybeUninit::uninit()
  Sizes       \* the lengths that callers ask for

ASSUME SizesAssumption == Sizes \subseteq Nat

VARIABLES
  headStores, tailStores,  \* the two atomics, see AtomicExtension
  slots,                   \* the shared buffer
  wIdx, rIdx,   \* position of the last write and read of each slot, or -1
  wSees,        \* reads below this position happened before the writer's next step
  rSees,        \* writes below this position happened before the reader's next step
  wpc, wstart, wend, wbuf, \* the writer: its chunk, and what it put there so far
  rpc, rstart, rend, rbuf, \* the reader: its chunk, and what it saw there so far
  sent, got     \* history: every item published, every item read and given back

wvars == <<wpc, wstart, wend, wbuf>>
rvars == <<rpc, rstart, rend, rbuf>>
vars  == <<headStores, tailStores, slots, wIdx, rIdx, wSees, rSees,
           wvars, rvars, sent, got>>

Head0 == Latest(headStores)
Tail0 == Latest(tailStores)

Init ==
  /\ headStores = Zeroed
  /\ tailStores = Zeroed
  /\ slots = [s \in Slots |-> NoItem]
  /\ wIdx  = [s \in Slots |-> -1]
  /\ rIdx  = [s \in Slots |-> -1]
  /\ wSees = 0
  /\ rSees = 0
  /\ wpc = "idle" /\ wstart = 0 /\ wend = 0 /\ wbuf = <<>>
  /\ rpc = "idle" /\ rstart = 0 /\ rend = 0 /\ rbuf = <<>>
  /\ sent = <<>>
  /\ got  = <<>>
------------------------------------------------------------------------------
(* The writer.                                                             *)

\* head_ref().load_acquire() by the writer: observes the i-th possible store.
WriterLoadsHead(i) ==
  /\ wpc = "idle"
  /\ headStores' = ObserveFrom(headStores, i)
  /\ wSees' = LoadAcquire(wSees, headStores[i])

WriterTakes(pc, start, end) ==
  /\ wpc' = pc
  /\ wstart' = start
  /\ wend' = end
  /\ wbuf' = <<>>

\* WriteChunk::try_reserve: a contiguous chunk of exactly size slots, or None.
TryReserve(size, i) ==
  LET head == headStores[i].val
  IN  /\ WriterLoadsHead(i)
      /\ \/ /\ Reservable(head, Tail0) < size
            /\ UNCHANGED wvars
         \/ /\ Reservable(head, Tail0) >= size
            /\ WriterTakes("chunk", Tail0, Tail0 + size)
      /\ UNCHANGED <<tailStores, slots, wIdx, rIdx, rSees, rvars, sent, got>>

\* Sender::write up to its copies: as much of len items as there is room for.
StartWrite(len, i) ==
  LET room == Least(len, Writable(headStores[i].val, Tail0))
  IN  /\ WriterLoadsHead(i)
      /\ \/ /\ room = 0
            /\ UNCHANGED wvars
         \/ /\ room # 0
            /\ WriterTakes("copy", Tail0, Tail0 + room)
      /\ UNCHANGED <<tailStores, slots, wIdx, rIdx, rSees, rvars, sent, got>>

\* The slot that the writer fills next.
NextWriteSlot ==
  IF wpc = "chunk" THEN SliceSlot(wstart, Len(wbuf))
                   ELSE CopySlot(wstart, wend - wstart, Len(wbuf))

\* One element put through DerefMut, or copied by copy_nonoverlapping.
WriteSlot(item) ==
  /\ wpc # "idle"
  /\ Len(wbuf) < wend - wstart
  /\ slots' = [slots EXCEPT ![NextWriteSlot] = item]
  /\ wIdx' = [wIdx EXCEPT ![NextWriteSlot] = wstart + Len(wbuf)]
  /\ wbuf' = Append(wbuf, item)
  /\ UNCHANGED <<headStores, tailStores, rIdx, wSees, rSees, wpc, wstart, wend,
                 rvars, sent, got>>

\* Mutant of PublishTail: a chunk is published before all of it is filled.
PublishTailEarly ==
  /\ Len(wbuf) <= wend - wstart
  /\ tailStores' = StoreRelease(tailStores, wend)
  /\ sent' = sent \o wbuf
  /\ WriterTakes("idle", wend, wend)
  /\ UNCHANGED <<headStores, slots, wIdx, rIdx, wSees, rSees, rvars, got>>

\* Publishes the filled chunk: a release store of its end to tail.
PublishTail ==
  /\ Len(wbuf) = wend - wstart
  /\ tailStores' = StoreRelease(tailStores, wend)
  /\ sent' = sent \o wbuf
  /\ WriterTakes("idle", wend, wend)
  /\ UNCHANGED <<headStores, slots, wIdx, rIdx, wSees, rSees, rvars, got>>

\* WriteChunk::commit
CommitWrite == wpc = "chunk" /\ PublishTail

\* Sender::write from its last copy to its return.
FinishWrite == wpc = "copy" /\ PublishTail

\* A WriteChunk that goes out of scope without commit publishes nothing.
DropWriteChunk ==
  /\ wpc = "chunk"
  /\ WriterTakes("idle", wstart, wstart)
  /\ UNCHANGED <<headStores, tailStores, slots, wIdx, rIdx, wSees, rSees, rvars,
                 sent, got>>
------------------------------------------------------------------------------
(* The reader.                                                             *)

\* tail_ref().load_acquire() by the reader: observes the i-th possible store.
ReaderLoadsTail(i) ==
  /\ rpc = "idle"
  /\ tailStores' = ObserveFrom(tailStores, i)
  /\ rSees' = LoadAcquire(rSees, tailStores[i])

ReaderTakes(pc, start, end) ==
  /\ rpc' = pc
  /\ rstart' = start
  /\ rend' = end
  /\ rbuf' = <<>>

\* Receiver::read_exact: a contiguous chunk of exactly len items, or None.
ReadExact(len, i) ==
  LET tail == tailStores[i].val
  IN  /\ ReaderLoadsTail(i)
      /\ \/ /\ Readable(Head0, tail) < len
            /\ UNCHANGED rvars
         \/ /\ Readable(Head0, tail) >= len
            /\ ReaderTakes("chunk", Head0, Head0 + len)
      /\ UNCHANGED <<headStores, slots, wIdx, rIdx, wSees, wvars, sent, got>>

\* Receiver::read: all there is up to the end of the buffer, perhaps nothing.
Read(i) ==
  /\ ReaderLoadsTail(i)
  /\ ReaderTakes("chunk", Head0, Head0 + Readable(Head0, tailStores[i].val))
  /\ UNCHANGED <<headStores, slots, wIdx, rIdx, wSees, wvars, sent, got>>

NextReadSlot == SliceSlot(rstart, Len(rbuf))

\* One element seen through Deref.
ReadSlot ==
  /\ rpc = "chunk"
  /\ Len(rbuf) < rend - rstart
  /\ rbuf' = Append(rbuf, slots[NextReadSlot])
  /\ rIdx' = [rIdx EXCEPT ![NextReadSlot] = rstart + Len(rbuf)]
  /\ UNCHANGED <<headStores, tailStores, slots, wIdx, wSees, rSees, wvars,
                 rpc, rstart, rend, sent, got>>

\* ReadChunk::commit: gives the slots back by a release store of end to head.
CommitRead ==
  /\ rpc = "chunk"
  /\ Len(rbuf) = rend - rstart
  /\ headStores' = StoreRelease(headStores, rend)
  /\ got' = got \o rbuf
  /\ ReaderTakes("idle", rend, rend)
  /\ UNCHANGED <<tailStores, slots, wIdx, rIdx, wSees, rSees, wvars, sent>>

\* Mutant of DropReadChunk: a ReadChunk that gives its slots back when dropped.
DropReadChunkGivesBack ==
  /\ rpc = "chunk"
  /\ headStores' = StoreRelease(headStores, rend)
  /\ ReaderTakes("idle", rend, rend)
  /\ UNCHANGED <<tailStores, slots, wIdx, rIdx, wSees, rSees, wvars, sent, got>>

\* A ReadChunk that goes out of scope without commit: its items stay unread.
DropReadChunk ==
  /\ rpc = "chunk"
  /\ ReaderTakes("idle", rstart, rstart)
  /\ UNCHANGED <<headStores, tailStores, slots, wIdx, rIdx, wSees, rSees, wvars,
                 sent, got>>
------------------------------------------------------------------------------
Writer ==
  \/ \E size \in Sizes, i \in DOMAIN headStores : TryReserve(size, i)
  \/ \E len \in Sizes, i \in DOMAIN headStores : StartWrite(len, i)
  \/ \E item \in Items : WriteSlot(item)
  \/ CommitWrite
  \/ FinishWrite
  \/ DropWriteChunk

Reader ==
  \/ \E len \in Sizes, i \in DOMAIN tailStores : ReadExact(len, i)
  \/ \E i \in DOMAIN tailStores : Read(i)
  \/ ReadSlot
  \/ CommitRead
  \/ DropReadChunk

Next == Writer \/ Reader

Spec == Init /\ [][Next]_vars
------------------------------------------------------------------------------
(* Type correctness.  That rbuf holds only Items says that the reader never *)
(* sees a slot that was never written, which for MaybeUninit is undefined   *)
(* behaviour (Deref of ReadChunk transmutes it to an initialised slice).    *)
TypeOK ==
  /\ headStores \in Seq(Store) /\ headStores # <<>>
  /\ tailStores \in Seq(Store) /\ tailStores # <<>>
  /\ slots \in [Slots -> Items \cup {NoItem}]
  /\ wIdx \in [Slots -> Nat \cup {-1}]
  /\ rIdx \in [Slots -> Nat \cup {-1}]
  /\ wSees \in Nat
  /\ rSees \in Nat
  /\ wpc \in {"idle", "chunk", "copy"}
  /\ wstart \in Nat /\ wend \in Nat /\ wbuf \in Seq(Items)
  /\ rpc \in {"idle", "chunk"}
  /\ rstart \in Nat /\ rend \in Nat /\ rbuf \in Seq(Items)
  /\ sent \in Seq(Items)
  /\ got \in Seq(Items)

(* Data-race freedom, the point of the release stores and acquire loads:    *)
(* whenever a thread is about to touch a slot, the other thread's last      *)
(* conflicting access to it happened before ("acquire load for tail will    *)
(* ensure that the data is written before this line", receiver.rs:55).      *)
NoDataRace ==
  /\ wpc # "idle" /\ Len(wbuf) < wend - wstart => rIdx[NextWriteSlot] < wSees
  /\ rpc # "idle" /\ Len(rbuf) < rend - rstart => wIdx[NextReadSlot] < rSees

WriterSlots ==
  CASE wpc = "idle"  -> {}
    [] wpc = "chunk" -> {SliceSlot(wstart, k) : k \in 0 .. wend - wstart - 1}
    [] wpc = "copy"  -> {CopySlot(wstart, wend - wstart, k) : k \in 0 .. wend - wstart - 1}

ReaderSlots ==
  IF rpc = "idle" THEN {} ELSE {SliceSlot(rstart, k) : k \in 0 .. rend - rstart - 1}

(* The &mut [T] that a WriteChunk derefs to never aliases the &[T] that a   *)
(* ReadChunk derefs to, though both are cut from one buffer through raw     *)
(* pointers and the compiler checks nothing.                                *)
ExclusiveSlots == WriterSlots \cap ReaderSlots = {}

(* The slices a chunk derefs to lie inside the buffer: indexing by          *)
(* start .. start + length never panics ("only return continuous memory     *)
(* slice regardless of the buffer is wrapped around",                       *)
(* ref_ring_buffer.rs:68 and receiver.rs:44), and Sender::write's two       *)
(* memcpys stay inside it too.                                              *)
ChunksContiguous == WriterSlots \cup ReaderSlots \subseteq Slots

(* The usize subtractions of the code never underflow, however stale the    *)
(* counter is that the other thread stored: tail - head and                 *)
(* buffer_size - (tail - head).                                             *)
NoUnderflow ==
  /\ \A i \in DOMAIN headStores : Tail0 - headStores[i].val \in 0 .. BufferSize
  /\ \A i \in DOMAIN tailStores : tailStores[i].val - Head0 \in 0 .. BufferSize

(* Everything the reader has seen, including in a chunk it still holds, is  *)
(* what the writer published, in order, with nothing lost, repeated or torn *)
(* by a wrap around the end of the buffer.                                  *)
Fifo == INSTANCE SpscFifo WITH Capacity <- BufferSize

ReadsPublished == Fifo!Begins(got \o rbuf, sent)

(* The ring buffer implements the bounded FIFO stream SpscFifo: no step     *)
(* unpublishes, reorders, loses or invents an item, or has more than        *)
(* BufferSize items in flight.                                              *)
FifoSpec == Fifo!Spec
------------------------------------------------------------------------------
(* The inductive invariant behind the properties above.                    *)

\* Counters only grow, and every store that may be observed is a release.
StoresGrow(stores) ==
  /\ \A i \in DOMAIN stores : stores[i].rel = stores[i].val
  /\ \A i, j \in DOMAIN stores : i <= j => stores[i].val <= stores[j].val

\* The oldest value of a counter that a thread may still load bounds it:
\* head <= oldest tail <= tail <= oldest head + BufferSize.
CountersInv ==
  /\ StoresGrow(headStores)
  /\ StoresGrow(tailStores)
  /\ wSees = headStores[1].val
  /\ rSees = tailStores[1].val
  /\ Head0 <= tailStores[1].val
  /\ Tail0 <= headStores[1].val + BufferSize

\* The writer's chunk is the positions from tail on, all free.
WriterInv ==
  IF wpc = "idle" THEN wbuf = <<>>
  ELSE /\ wstart = Tail0
       /\ wstart <= wend
       /\ wend <= headStores[1].val + BufferSize
       /\ Len(wbuf) <= wend - wstart
       /\ wpc = "chunk" => wend - wstart <= ToEnd(wstart)

\* The reader's chunk is the positions from head on, all published.
ReaderInv ==
  IF rpc = "idle" THEN rbuf = <<>>
  ELSE /\ rstart = Head0
       /\ rstart <= rend
       /\ rend <= tailStores[1].val
       /\ Len(rbuf) <= rend - rstart
       /\ rend - rstart <= ToEnd(rstart)

\* The positions in flight hold what was published there, and the positions
\* the writer has filled hold what it put there.
SlotsInv ==
  /\ \A i \in Head0 .. (Tail0 - 1) :
       /\ slots[i % BufferSize] = sent[i + 1]
       /\ wIdx[i % BufferSize] = i
  /\ \A k \in 1 .. Len(wbuf) :
       /\ slots[(Tail0 + k - 1) % BufferSize] = wbuf[k]
       /\ wIdx[(Tail0 + k - 1) % BufferSize] = Tail0 + k - 1

\* The reader has only ever read positions that it knows to be published.
ReadInv ==
  \A s \in Slots : rIdx[s] # -1 =>
    /\ rIdx[s] % BufferSize = s
    /\ rIdx[s] < tailStores[1].val

\* The counters count the history, and the reader's items are the writer's.
HistoryInv ==
  /\ Tail0 = Len(sent)
  /\ Head0 = Len(got)
  /\ \A k \in 1 .. Len(got) : got[k] = sent[k]
  /\ \A k \in 1 .. Len(rbuf) : rbuf[k] = sent[Head0 + k]

(* The inductive invariant.                                                *)
IndInv ==
  /\ TypeOK
  /\ CountersInv
  /\ WriterInv
  /\ ReaderInv
  /\ HistoryInv
  /\ SlotsInv
  /\ ReadInv
==============================================================================
