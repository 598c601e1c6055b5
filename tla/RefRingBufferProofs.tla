------------------------- MODULE RefRingBufferProofs -------------------------
(***************************************************************************)
(* The safety properties of RefRingBuffer, for every BufferSize, Items and *)
(* Sizes; then, in the second part, those of the benchmark that uses it,   *)
(* RingBench.                                                              *)
(***************************************************************************)
EXTENDS RingBench, RingOpsProofs, SequenceTheorems

\* A load moves the window of observable stores without changing the latest.
LEMMA ObserveFromProperties ==
  ASSUME NEW st \in Seq(Store), st # <<>>, StoresGrow(st), NEW i \in DOMAIN st
  PROVE  /\ ObserveFrom(st, i) \in Seq(Store)
         /\ ObserveFrom(st, i) # <<>>
         /\ StoresGrow(ObserveFrom(st, i))
         /\ Latest(ObserveFrom(st, i)) = Latest(st)
         /\ ObserveFrom(st, i)[1] = st[i]
         /\ st[1].val <= st[i].val
         /\ st[i].val <= Latest(st)
<1> DEFINE n == Len(st)
           o == SubSeq(st, i, n)
<1>1. n \in Nat /\ n >= 1 /\ i \in 1 .. n /\ DOMAIN st = 1 .. n
  BY EmptySeq, LenProperties
<1>2. /\ o \in Seq(Store)
      /\ Len(o) = n - i + 1
      /\ \A k \in 1 .. n - i + 1 : o[k] = st[i + k - 1]
  BY <1>1, SubSeqProperties
<1>3. DOMAIN o = 1 .. n - i + 1
  BY <1>2, LenProperties
<1>4. o # <<>>
  BY <1>1, <1>2
<1>5. StoresGrow(o)
  BY <1>1, <1>2, <1>3, SMTT(30) DEF StoresGrow
<1>6. Latest(o) = Latest(st)
  BY <1>1, <1>2 DEF Latest
<1>7. o[1] = st[i]
  BY <1>1, <1>2
<1>8. st[1].val <= st[i].val /\ st[i].val <= Latest(st)
  BY <1>1 DEF StoresGrow, Latest
<1> QED
  BY <1>2, <1>4, <1>5, <1>6, <1>7, <1>8 DEF ObserveFrom

\* A release store extends the window by its value.
LEMMA StoreReleaseProperties ==
  ASSUME NEW st \in Seq(Store), st # <<>>, StoresGrow(st),
         NEW v \in Nat, Latest(st) <= v
  PROVE  /\ StoreRelease(st, v) \in Seq(Store)
         /\ StoreRelease(st, v) # <<>>
         /\ StoresGrow(StoreRelease(st, v))
         /\ Latest(StoreRelease(st, v)) = v
         /\ StoreRelease(st, v)[1] = st[1]
<1> DEFINE n == Len(st)
           s == [val |-> v, rel |-> v]
           a == Append(st, s)
<1>1. n \in Nat /\ n >= 1 /\ DOMAIN st = 1 .. n
  BY EmptySeq, LenProperties
<1>2. CASE st[n] = s
  BY <1>2 DEF StoreRelease, Put, Latest
<1>3. CASE st[n] # s
  <2>1. StoreRelease(st, v) = a
    BY <1>3 DEF StoreRelease, Put
  <2>2. s \in Store
    BY DEF Store
  <2>3. /\ a \in Seq(Store)
        /\ Len(a) = n + 1
        /\ \A k \in 1 .. n : a[k] = st[k]
        /\ a[n + 1] = s
    BY <2>2, AppendProperties
  <2>4. DOMAIN a = 1 .. n + 1
    BY <2>3, LenProperties
  <2>5. ASSUME NEW k \in 1 .. n PROVE st[k].val \in Nat /\ st[k].val <= v
    <3>1. st[k] \in Store /\ st[n] \in Store
      BY <1>1, ElementOfSeq
    <3>2. st[k].val <= st[n].val
      BY <1>1 DEF StoresGrow
    <3> QED
      BY <3>1, <3>2 DEF Store, Latest
  <2>6. StoresGrow(a)
    <3>1. \A k \in 1 .. n + 1 : a[k].rel = a[k].val
      BY <1>1, <2>3 DEF StoresGrow
    <3>2. ASSUME NEW i \in 1 .. n + 1, NEW j \in 1 .. n + 1, i <= j
          PROVE  a[i].val <= a[j].val
      <4>1. CASE j = n + 1
        BY <1>1, <2>3, <2>5, <4>1
      <4>2. CASE j # n + 1
        BY <1>1, <2>3, <3>2, <4>2 DEF StoresGrow
      <4> QED
        BY <4>1, <4>2
    <3> QED
      BY <2>4, <3>1, <3>2 DEF StoresGrow
  <2>7. a # <<>> /\ a[1] = st[1] /\ Latest(a) = v
    BY <1>1, <2>3 DEF Latest
  <2> QED
    BY <2>1, <2>3, <2>6, <2>7
<1> QED
  BY <1>2, <1>3
\* The two parts of a concatenation.
LEMMA ConcatParts ==
  ASSUME NEW S, NEW s \in Seq(S), NEW t \in Seq(S)
  PROVE  /\ s \o t \in Seq(S)
         /\ Len(s \o t) = Len(s) + Len(t)
         /\ \A k \in 1 .. Len(s) : (s \o t)[k] = s[k]
         /\ \A k \in 1 .. Len(t) : (s \o t)[Len(s) + k] = t[k]
<1>1. /\ s \o t \in Seq(S)
      /\ Len(s \o t) = Len(s) + Len(t)
      /\ \A k \in 1 .. Len(s) + Len(t) :
           (s \o t)[k] = IF k <= Len(s) THEN s[k] ELSE t[k - Len(s)]
  BY ConcatProperties
<1>2. Len(s) \in Nat /\ Len(t) \in Nat
  BY LenProperties
<1>3. ASSUME NEW k \in 1 .. Len(s) PROVE (s \o t)[k] = s[k]
  <2>1. k \in 1 .. Len(s) + Len(t) /\ k <= Len(s)
    BY <1>2
  <2> QED
    BY <1>1, <2>1
<1>4. ASSUME NEW k \in 1 .. Len(t) PROVE (s \o t)[Len(s) + k] = t[k]
  <2>1. /\ Len(s) + k \in 1 .. Len(s) + Len(t)
        /\ ~ (Len(s) + k <= Len(s))
        /\ (Len(s) + k) - Len(s) = k
    BY <1>2
  <2> QED
    BY <1>1, <2>1
<1> QED
  BY <1>1, <1>3, <1>4
------------------------------------------------------------------------------
\* The arithmetic that the invariant is about.
LEMMA Facts ==
  ASSUME IndInv
  PROVE  /\ BufferSize \in Nat /\ BufferSize >= 1
         /\ Head0 \in Nat /\ Tail0 \in Nat
         /\ headStores[1].val \in Nat /\ tailStores[1].val \in Nat
         /\ headStores[1].val <= Head0
         /\ Head0 <= tailStores[1].val
         /\ tailStores[1].val <= Tail0
         /\ Tail0 <= headStores[1].val + BufferSize
         /\ Len(wbuf) \in Nat /\ Len(rbuf) \in Nat
<1>1. /\ 1 \in DOMAIN headStores /\ 1 \in DOMAIN tailStores
      /\ Len(headStores) \in 1 .. Len(headStores)
      /\ Len(tailStores) \in 1 .. Len(tailStores)
  BY EmptySeq, LenProperties DEF IndInv, TypeOK
<1>2. /\ headStores[1] \in Store /\ tailStores[1] \in Store
      /\ headStores[Len(headStores)] \in Store
      /\ tailStores[Len(tailStores)] \in Store
  BY <1>1, ElementOfSeq, LenProperties DEF IndInv, TypeOK
<1>3. headStores[1].val <= Head0 /\ tailStores[1].val <= Tail0
  BY <1>1, ObserveFromProperties DEF IndInv, TypeOK, CountersInv, Head0, Tail0
<1>4. /\ headStores[1].val \in Nat /\ tailStores[1].val \in Nat
      /\ Head0 \in Nat /\ Tail0 \in Nat
  BY <1>2 DEF Head0, Tail0, Latest, Store
<1>5. Len(wbuf) \in Nat /\ Len(rbuf) \in Nat
  BY LenProperties DEF IndInv, TypeOK
<1>6. BufferSize \in Nat /\ BufferSize >= 1
  BY BufferSizeAssumption
<1> QED
  BY <1>3, <1>4, <1>5, <1>6 DEF IndInv, CountersInv

\* What the writer's load of head preserves and learns.
LEMMA WriterLoads ==
  ASSUME IndInv, NEW i \in DOMAIN headStores, WriterLoadsHead(i),
         UNCHANGED <<tailStores, rSees>>
  PROVE  /\ headStores' \in Seq(Store) /\ headStores' # <<>>
         /\ headStores'[1].val = headStores[i].val
         /\ headStores[i].val \in Nat
         /\ headStores[1].val <= headStores[i].val
         /\ headStores[i].val <= Head0
         /\ Head0' = Head0 /\ Tail0' = Tail0
         /\ wSees' \in Nat
         /\ CountersInv'
<1>1. /\ headStores' \in Seq(Store)
      /\ headStores' # <<>>
      /\ StoresGrow(headStores')
      /\ Latest(headStores') = Latest(headStores)
      /\ headStores'[1] = headStores[i]
      /\ headStores[1].val <= headStores[i].val
      /\ headStores[i].val <= Latest(headStores)
  BY ObserveFromProperties DEF WriterLoadsHead, IndInv, TypeOK, CountersInv
<1>2. Head0' = Head0 /\ Tail0' = Tail0
  BY <1>1 DEF Head0, Tail0
<1>3. headStores[i] \in Store
  BY ElementOfSeq, LenProperties DEF IndInv, TypeOK
<1>4. headStores[i].val \in Nat /\ headStores[i].rel = headStores[i].val
  BY <1>3 DEF Store, IndInv, CountersInv, StoresGrow
<1>5. wSees' = headStores[i].val
  BY <1>1, <1>4, Facts DEF WriterLoadsHead, LoadAcquire, IndInv, CountersInv
<1>6. CountersInv'
  BY <1>1, <1>2, <1>4, <1>5, Facts, SMTT(30) DEF IndInv, CountersInv
<1> QED
  BY <1>1, <1>2, <1>4, <1>5, <1>6 DEF Head0

\* What the reader's load of tail preserves and learns.
LEMMA ReaderLoads ==
  ASSUME IndInv, NEW i \in DOMAIN tailStores, ReaderLoadsTail(i),
         UNCHANGED <<headStores, wSees>>
  PROVE  /\ tailStores' \in Seq(Store) /\ tailStores' # <<>>
         /\ tailStores'[1].val = tailStores[i].val
         /\ tailStores[i].val \in Nat
         /\ tailStores[1].val <= tailStores[i].val
         /\ tailStores[i].val <= Tail0
         /\ Head0' = Head0 /\ Tail0' = Tail0
         /\ rSees' \in Nat
         /\ CountersInv'
<1>1. /\ tailStores' \in Seq(Store)
      /\ tailStores' # <<>>
      /\ StoresGrow(tailStores')
      /\ Latest(tailStores') = Latest(tailStores)
      /\ tailStores'[1] = tailStores[i]
      /\ tailStores[1].val <= tailStores[i].val
      /\ tailStores[i].val <= Latest(tailStores)
  BY ObserveFromProperties DEF ReaderLoadsTail, IndInv, TypeOK, CountersInv
<1>2. Head0' = Head0 /\ Tail0' = Tail0
  BY <1>1 DEF Head0, Tail0
<1>3. tailStores[i] \in Store
  BY ElementOfSeq, LenProperties DEF IndInv, TypeOK
<1>4. tailStores[i].val \in Nat /\ tailStores[i].rel = tailStores[i].val
  BY <1>3 DEF Store, IndInv, CountersInv, StoresGrow
<1>5. rSees' = tailStores[i].val
  BY <1>1, <1>4, Facts DEF ReaderLoadsTail, LoadAcquire, IndInv, CountersInv
<1>6. CountersInv'
  BY <1>1, <1>2, <1>4, <1>5, Facts DEF IndInv, CountersInv
<1> QED
  BY <1>1, <1>2, <1>4, <1>5, <1>6 DEF Tail0

\* The window sizes that the operations compute from a load.
LEMMA Windows ==
  ASSUME NEW head \in Nat, NEW tail \in Nat
  PROVE  /\ ToEnd(head) \in Nat /\ ToEnd(tail) \in Nat
         /\ Writable(head, tail) \in Int
         /\ Reservable(head, tail) <= Writable(head, tail)
         /\ Reservable(head, tail) <= ToEnd(tail)
         /\ Reservable(head, tail) \in Int
         /\ Readable(head, tail) <= tail - head
         /\ Readable(head, tail) <= ToEnd(head)
         /\ Readable(head, tail) \in Int
         /\ head <= tail => Readable(head, tail) \in Nat
<1>1. ToEnd(head) \in Nat /\ ToEnd(tail) \in Nat
  BY DivMod, BufferSizeAssumption DEF ToEnd, Slots
<1> QED
  BY <1>1, BufferSizeAssumption DEF Writable, Reservable, Readable, Least
------------------------------------------------------------------------------
(* Each action preserves the inductive invariant.                          *)

LEMMA InitIndInv == Init => IndInv
<1> SUFFICES ASSUME Init PROVE IndInv
  OBVIOUS
<1>1. /\ Zeroed \in Seq(Store) /\ Zeroed # <<>> /\ Len(Zeroed) = 1
      /\ Zeroed[1].val = 0 /\ DOMAIN Zeroed = {1} /\ Zeroed[1].rel = 0
  BY DEF Zeroed, Store
<1>2. Head0 = 0 /\ Tail0 = 0
  BY <1>1 DEF Init, Head0, Tail0, Latest
<1>3. TypeOK
  BY <1>1, EmptySeq DEF Init, TypeOK
<1>4. CountersInv
  BY <1>1, <1>2, BufferSizeAssumption DEF Init, CountersInv, StoresGrow
<1>5. WriterInv /\ ReaderInv
  BY DEF Init, WriterInv, ReaderInv
<1>6. SlotsInv /\ HistoryInv
  BY <1>2, EmptySeq DEF Init, SlotsInv, HistoryInv
<1>7. ReadInv
  BY DEF Init, ReadInv
<1> QED
  BY <1>3, <1>4, <1>5, <1>6, <1>7 DEF IndInv

LEMMA TryReserveStep ==
  ASSUME IndInv, NEW size \in Sizes, NEW i \in DOMAIN headStores,
         TryReserve(size, i)
  PROVE  IndInv'
<1> DEFINE head == headStores[i].val
<1>1. /\ WriterLoadsHead(i)
      /\ wpc = "idle" /\ wbuf = <<>>
      /\ UNCHANGED <<tailStores, slots, wIdx, rIdx, rSees, rpc, rstart, rend,
                     rbuf, sent, got>>
  BY DEF TryReserve, WriterLoadsHead, IndInv, WriterInv, rvars
<1>2. /\ headStores' \in Seq(Store) /\ headStores' # <<>>
      /\ headStores'[1].val = head
      /\ head \in Nat /\ head <= Head0
      /\ headStores[1].val <= head
      /\ Head0' = Head0 /\ Tail0' = Tail0
      /\ wSees' \in Nat
      /\ CountersInv'
  BY <1>1, WriterLoads
<1>3. \/ wpc' = "idle" /\ wstart' = wstart /\ wend' = wend /\ wbuf' = wbuf
      \/ /\ Reservable(head, Tail0) >= size
         /\ wpc' = "chunk" /\ wstart' = Tail0 /\ wend' = Tail0 + size
         /\ wbuf' = <<>>
  BY <1>1 DEF TryReserve, WriterTakes, wvars
<1>4. size \in Nat /\ Tail0 \in Nat /\ Tail0 + size \in Nat
  BY SizesAssumption, Facts
<1>5. wbuf' = <<>> /\ Len(wbuf') = 0
  BY <1>1, <1>3, EmptySeq
<1>6. TypeOK'
  <2>1. /\ wpc' \in {"idle", "chunk", "copy"}
        /\ wstart' \in Nat /\ wend' \in Nat /\ wbuf' \in Seq(Items)
    BY <1>1, <1>3, <1>4, <1>5, EmptySeq DEF IndInv, TypeOK
  <2> QED
    BY <1>1, <1>2, <2>1 DEF IndInv, TypeOK
<1>7. WriterInv'
  <2>1. CASE wpc' = "idle"
    BY <1>5, <2>1 DEF WriterInv
  <2>2. CASE wpc' # "idle"
    <3>1. /\ ToEnd(Tail0) \in Nat
          /\ Writable(head, Tail0) = BufferSize - (Tail0 - head)
          /\ Reservable(head, Tail0) \in Int
          /\ Reservable(head, Tail0) <= Writable(head, Tail0)
          /\ Reservable(head, Tail0) <= ToEnd(Tail0)
      BY <1>2, <1>4, Windows DEF Writable
    <3>2. Reservable(head, Tail0) >= size
      BY <1>3, <2>2
    <3>3. /\ Tail0 <= Tail0 + size
          /\ Tail0 + size <= head + BufferSize
          /\ Len(wbuf') <= (Tail0 + size) - Tail0
          /\ (Tail0 + size) - Tail0 <= ToEnd(Tail0)
      BY <1>2, <1>4, <1>5, <3>1, <3>2, BufferSizeAssumption, SMTT(60)
    <3> QED
      BY <1>2, <1>3, <2>2, <3>3 DEF WriterInv
  <2> QED
    BY <2>1, <2>2
<1>8. ReaderInv'
  BY <1>1, <1>2 DEF IndInv, ReaderInv
<1>9. SlotsInv'
  BY <1>1, <1>2, <1>5 DEF IndInv, SlotsInv
<1>10. ReadInv' /\ HistoryInv'
  BY <1>1, <1>2 DEF IndInv, ReadInv, HistoryInv
<1> QED
  BY <1>2, <1>6, <1>7, <1>8, <1>9, <1>10 DEF IndInv

LEMMA StartWriteStep ==
  ASSUME IndInv, NEW len \in Sizes, NEW i \in DOMAIN headStores,
         StartWrite(len, i)
  PROVE  IndInv'
<1> DEFINE head == headStores[i].val
           room == Least(len, Writable(head, Tail0))
<1>1. /\ WriterLoadsHead(i)
      /\ wpc = "idle" /\ wbuf = <<>>
      /\ UNCHANGED <<tailStores, slots, wIdx, rIdx, rSees, rpc, rstart, rend,
                     rbuf, sent, got>>
  BY DEF StartWrite, WriterLoadsHead, IndInv, WriterInv, rvars
<1>2. /\ headStores' \in Seq(Store) /\ headStores' # <<>>
      /\ headStores'[1].val = head
      /\ head \in Nat /\ head <= Head0
      /\ headStores[1].val <= head
      /\ Head0' = Head0 /\ Tail0' = Tail0
      /\ wSees' \in Nat
      /\ CountersInv'
  BY <1>1, WriterLoads
<1>3. \/ wpc' = "idle" /\ wstart' = wstart /\ wend' = wend /\ wbuf' = wbuf
      \/ /\ wpc' = "copy" /\ wstart' = Tail0 /\ wend' = Tail0 + room
         /\ wbuf' = <<>>
  BY <1>1 DEF StartWrite, WriterTakes, wvars
<1>4. /\ room \in Nat /\ Tail0 \in Nat /\ Tail0 + room \in Nat
      /\ room <= BufferSize - (Tail0 - head)
  <2>1. /\ Tail0 \in Nat /\ BufferSize \in Nat /\ headStores[1].val \in Nat
        /\ Tail0 <= headStores[1].val + BufferSize /\ Head0 <= Tail0
    BY Facts
  <2>2. len \in Nat
    BY SizesAssumption
  <2>3. Tail0 <= head + BufferSize
    BY <1>2, <2>1
  <2> QED
    BY <1>2, <2>1, <2>2, <2>3, SMTT(60) DEF Least, Writable
<1>5. wbuf' = <<>> /\ Len(wbuf') = 0
  BY <1>1, <1>3, EmptySeq
<1>6. TypeOK'
  <2>1. /\ wpc' \in {"idle", "chunk", "copy"}
        /\ wstart' \in Nat /\ wend' \in Nat /\ wbuf' \in Seq(Items)
    BY <1>1, <1>3, <1>4, <1>5, EmptySeq DEF IndInv, TypeOK
  <2> QED
    BY <1>1, <1>2, <2>1 DEF IndInv, TypeOK
<1>7. WriterInv'
  <2>1. CASE wpc' = "idle"
    BY <1>5, <2>1 DEF WriterInv
  <2>2. CASE wpc' # "idle"
    <3>1. /\ Tail0 <= Tail0 + room
          /\ Tail0 + room <= head + BufferSize
          /\ Len(wbuf') <= (Tail0 + room) - Tail0
      BY <1>2, <1>4, <1>5, BufferSizeAssumption, SMTT(30)
    <3> QED
      BY <1>2, <1>3, <2>2, <3>1 DEF WriterInv
  <2> QED
    BY <2>1, <2>2
<1>8. ReaderInv'
  BY <1>1, <1>2 DEF IndInv, ReaderInv
<1>9. SlotsInv'
  BY <1>1, <1>2, <1>5 DEF IndInv, SlotsInv
<1>10. ReadInv' /\ HistoryInv'
  BY <1>1, <1>2 DEF IndInv, ReadInv, HistoryInv
<1> QED
  BY <1>2, <1>6, <1>7, <1>8, <1>9, <1>10 DEF IndInv

\* The slot that the writer fills next is that of the position it is at.
LEMMA NextWriteSlotIs ==
  ASSUME IndInv, wpc # "idle", Len(wbuf) < wend - wstart
  PROVE  /\ NextWriteSlot = (Tail0 + Len(wbuf)) % BufferSize
         /\ NextWriteSlot \in Slots
         /\ wstart = Tail0
         /\ Tail0 + Len(wbuf) \in Nat
         /\ Tail0 + Len(wbuf) < headStores[1].val + BufferSize
<1>1. /\ wstart = Tail0 /\ wstart \in Nat /\ wend \in Nat
      /\ wend <= headStores[1].val + BufferSize
      /\ wpc = "chunk" => wend - wstart <= ToEnd(wstart)
      /\ wpc \in {"chunk", "copy"}
  BY DEF IndInv, TypeOK, WriterInv
<1>2. /\ headStores[1].val \in Nat /\ BufferSize \in Nat
      /\ headStores[1].val <= Tail0 /\ Len(wbuf) \in Nat
  BY Facts, SMTT(30)
<1>3. ToEnd(wstart) \in Nat
  BY <1>1, Windows
<1>4. CASE wpc = "chunk"
  <2>1. Len(wbuf) < ToEnd(wstart)
    BY <1>1, <1>2, <1>3, <1>4
  <2> QED
    BY <1>1, <1>2, <1>4, <2>1, SliceSlots DEF NextWriteSlot
<1>5. CASE wpc = "copy"
  <2>1. wend - wstart \in Nat /\ wend - wstart <= BufferSize
    BY <1>1, <1>2
  <2>2. NextWriteSlot = CopySlot(wstart, wend - wstart, Len(wbuf))
    BY <1>5 DEF NextWriteSlot
  <2>3. /\ NextWriteSlot = (wstart + Len(wbuf)) % BufferSize
        /\ NextWriteSlot \in Slots
    BY <1>1, <1>2, <2>1, <2>2, CopySlots
  <2> QED
    BY <1>1, <1>2, <2>1, <2>3, SMTT(30)
<1> QED
  BY <1>1, <1>4, <1>5

\* The slot that the reader sees next is that of the position it is at.
LEMMA NextReadSlotIs ==
  ASSUME IndInv, rpc # "idle", Len(rbuf) < rend - rstart
  PROVE  /\ NextReadSlot = (Head0 + Len(rbuf)) % BufferSize
         /\ NextReadSlot \in Slots
         /\ rstart = Head0
         /\ Head0 + Len(rbuf) \in Nat
         /\ Head0 + Len(rbuf) < tailStores[1].val
<1>1. /\ rstart = Head0 /\ rstart \in Nat /\ rend \in Nat
      /\ rend <= tailStores[1].val
      /\ rend - rstart <= ToEnd(rstart)
  BY DEF IndInv, TypeOK, ReaderInv
<1>2. Len(rbuf) \in Nat /\ tailStores[1].val \in Nat
  BY Facts
<1>3. ToEnd(rstart) \in Nat
  BY <1>1, Windows
<1>4. Len(rbuf) < ToEnd(rstart)
  BY <1>1, <1>2, <1>3
<1> QED
  BY <1>1, <1>2, <1>4, SliceSlots DEF NextReadSlot

LEMMA WriteSlotStep ==
  ASSUME IndInv, NEW item \in Items, WriteSlot(item)
  PROVE  IndInv'
<1> DEFINE n == Len(wbuf)
           p == Tail0 + n
<1>1. /\ wpc # "idle" /\ n < wend - wstart
      /\ slots' = [slots EXCEPT ![NextWriteSlot] = item]
      /\ wIdx' = [wIdx EXCEPT ![NextWriteSlot] = wstart + n]
      /\ wbuf' = Append(wbuf, item)
      /\ UNCHANGED <<headStores, tailStores, rIdx, wSees, rSees, wpc, wstart,
                     wend, rpc, rstart, rend, rbuf, sent, got>>
  BY DEF WriteSlot, rvars
<1>2. /\ NextWriteSlot = p % BufferSize /\ NextWriteSlot \in Slots
      /\ wstart = Tail0 /\ p \in Nat /\ p < headStores[1].val + BufferSize
  BY <1>1, NextWriteSlotIs
<1>3. /\ wbuf' \in Seq(Items) /\ Len(wbuf') = n + 1 /\ n \in Nat
      /\ \A k \in 1 .. n : wbuf'[k] = wbuf[k]
      /\ wbuf'[n + 1] = item
  BY <1>1, AppendProperties, LenProperties DEF IndInv, TypeOK
<1>4. Head0' = Head0 /\ Tail0' = Tail0
  BY <1>1 DEF Head0, Tail0
<1>5. TypeOK'
  BY <1>1, <1>2, <1>3 DEF IndInv, TypeOK
<1>6. CountersInv'
  BY <1>1, <1>4 DEF IndInv, CountersInv
<1>7. WriterInv'
  BY <1>1, <1>3, <1>4 DEF IndInv, TypeOK, WriterInv
<1>8. ReaderInv'
  BY <1>1, <1>4 DEF IndInv, ReaderInv
<1>9. SlotsInv'
  <2>1. /\ Head0 \in Nat /\ Tail0 \in Nat /\ BufferSize \in Nat
        /\ headStores[1].val \in Nat /\ headStores[1].val <= Head0
    BY Facts
  <2>2. slots \in [Slots -> Items \cup {NoItem}] /\ wIdx \in [Slots -> Nat \cup {-1}]
    BY DEF IndInv, TypeOK
  <2>3. ASSUME NEW i \in Nat, headStores[1].val <= i, i < p
        PROVE  /\ slots'[i % BufferSize] = slots[i % BufferSize]
               /\ wIdx'[i % BufferSize] = wIdx[i % BufferSize]
    <3>1. i < p /\ p < i + BufferSize
      BY <1>2, <2>1, <2>3
    <3>2. i % BufferSize # p % BufferSize
      BY <1>2, <3>1, ModDistinct
    <3> QED
      BY <1>1, <1>2, <2>2, <3>2
  <2>4. slots'[p % BufferSize] = item /\ wIdx'[p % BufferSize] = p
    BY <1>1, <1>2, <2>2
  <2>5. ASSUME NEW i \in Head0 .. (Tail0 - 1)
        PROVE  slots'[i % BufferSize] = sent[i + 1] /\ wIdx'[i % BufferSize] = i
    <3>1. i \in Nat /\ headStores[1].val <= i /\ i < p
      BY <1>3, <2>1
    <3>2. slots[i % BufferSize] = sent[i + 1] /\ wIdx[i % BufferSize] = i
      BY DEF IndInv, SlotsInv
    <3> QED
      BY <2>3, <3>1, <3>2
  <2>6. ASSUME NEW k \in 1 .. n + 1
        PROVE  /\ slots'[(Tail0 + k - 1) % BufferSize] = wbuf'[k]
               /\ wIdx'[(Tail0 + k - 1) % BufferSize] = Tail0 + k - 1
    <3>1. CASE k = n + 1
      <4>1. Tail0 + k - 1 = p
        BY <1>3, <2>1, <3>1
      <4> QED
        BY <1>3, <2>4, <3>1, <4>1
    <3>2. CASE k # n + 1
      <4>1. /\ k \in 1 .. n /\ Tail0 + k - 1 \in Nat
            /\ headStores[1].val <= Tail0 + k - 1 /\ Tail0 + k - 1 < p
        <5>1. headStores[1].val <= Tail0
          BY <2>1, Facts, SMTT(30)
        <5>2. k \in Nat /\ k >= 1 /\ k <= n
          BY <1>3, <3>2
        <5> HIDE DEF n
        <5>3. /\ k \in 1 .. n /\ Tail0 + k - 1 \in Nat
              /\ headStores[1].val <= Tail0 + k - 1 /\ Tail0 + k - 1 < Tail0 + n
          BY <1>3, <2>1, <5>1, <5>2
        <5> QED
          BY <5>3
      <4>2. /\ slots[(Tail0 + k - 1) % BufferSize] = wbuf[k]
            /\ wIdx[(Tail0 + k - 1) % BufferSize] = Tail0 + k - 1
        BY <4>1 DEF IndInv, SlotsInv
      <4> QED
        BY <1>3, <2>3, <4>1, <4>2
    <3> QED
      BY <3>1, <3>2
  <2> QED
    BY <1>1, <1>3, <1>4, <2>5, <2>6 DEF SlotsInv
<1>10. ReadInv' /\ HistoryInv'
  BY <1>1, <1>4 DEF IndInv, ReadInv, HistoryInv
<1> QED
  BY <1>5, <1>6, <1>7, <1>8, <1>9, <1>10 DEF IndInv

LEMMA PublishTailStep ==
  ASSUME IndInv, wpc # "idle", PublishTail
  PROVE  IndInv'
<1> DEFINE n == Len(wbuf)
<1>1. /\ n = wend - wstart
      /\ tailStores' = StoreRelease(tailStores, wend)
      /\ sent' = sent \o wbuf
      /\ wpc' = "idle" /\ wstart' = wend /\ wend' = wend /\ wbuf' = <<>>
      /\ UNCHANGED <<headStores, slots, wIdx, rIdx, wSees, rSees, rpc, rstart,
                     rend, rbuf, got>>
  BY DEF PublishTail, WriterTakes, rvars
<1>2. /\ wstart = Tail0 /\ wend \in Nat
      /\ wend <= headStores[1].val + BufferSize
  BY DEF IndInv, TypeOK, WriterInv
<1>3. /\ n \in Nat /\ Head0 \in Nat /\ Tail0 \in Nat /\ wend = Tail0 + n
      /\ tailStores[1].val \in Nat /\ Head0 <= tailStores[1].val
      /\ tailStores[1].val <= Tail0
  BY <1>1, <1>2, Facts
<1>4. /\ tailStores' \in Seq(Store) /\ tailStores' # <<>>
      /\ StoresGrow(tailStores') /\ Latest(tailStores') = wend
      /\ tailStores'[1] = tailStores[1]
  <2>1. /\ tailStores \in Seq(Store) /\ tailStores # <<>>
        /\ StoresGrow(tailStores)
    BY DEF IndInv, TypeOK, CountersInv
  <2>2. Latest(tailStores) <= wend
    BY <1>3 DEF Tail0
  <2> QED
    BY <1>1, <1>2, <2>1, <2>2, StoreReleaseProperties
<1>5. Head0' = Head0 /\ Tail0' = wend
  BY <1>1, <1>4 DEF Head0, Tail0
<1>6. /\ sent' \in Seq(Items) /\ Len(sent') = Len(sent) + n
      /\ \A k \in 1 .. Len(sent) : sent'[k] = sent[k]
      /\ \A k \in 1 .. n : sent'[Len(sent) + k] = wbuf[k]
  <2>1. sent \in Seq(Items) /\ wbuf \in Seq(Items)
    BY DEF IndInv, TypeOK
  <2>2. /\ sent \o wbuf \in Seq(Items)
        /\ Len(sent \o wbuf) = Len(sent) + n
        /\ \A k \in 1 .. Len(sent) : (sent \o wbuf)[k] = sent[k]
        /\ \A k \in 1 .. n : (sent \o wbuf)[Len(sent) + k] = wbuf[k]
    BY <2>1, ConcatParts
  <2> QED
    BY <1>1, <2>2
<1>7. Len(sent) = Tail0 /\ Len(got) = Head0
  BY DEF IndInv, HistoryInv
<1>8. TypeOK'
  BY <1>1, <1>2, <1>4, <1>6, EmptySeq DEF IndInv, TypeOK
<1>9. CountersInv'
  BY <1>1, <1>2, <1>4, <1>5 DEF IndInv, CountersInv
<1>10. WriterInv'
  BY <1>1 DEF WriterInv
<1>11. ReaderInv'
  BY <1>1, <1>4, <1>5 DEF IndInv, ReaderInv
<1>12. SlotsInv'
  <2>1. ASSUME NEW i \in Head0 .. (wend - 1)
        PROVE  slots[i % BufferSize] = sent'[i + 1] /\ wIdx[i % BufferSize] = i
    <3>1. CASE i < Tail0
      <4>1. i \in Head0 .. (Tail0 - 1) /\ i + 1 \in 1 .. Len(sent)
        BY <1>3, <1>7, <3>1
      <4> QED
        BY <1>6, <4>1 DEF IndInv, SlotsInv
    <3>2. CASE ~ (i < Tail0)
      <4> DEFINE k == i - Tail0 + 1
      <4>1. k \in 1 .. n /\ Tail0 + k - 1 = i /\ Len(sent) + k = i + 1
        BY <1>3, <1>7, <3>2
      <4>2. slots[(Tail0 + k - 1) % BufferSize] = wbuf[k]
        BY <4>1 DEF IndInv, SlotsInv
      <4>3. wIdx[(Tail0 + k - 1) % BufferSize] = Tail0 + k - 1
        BY <4>1 DEF IndInv, SlotsInv
      <4>4. sent'[Len(sent) + k] = wbuf[k]
        BY <1>6, <4>1
      <4> QED
        BY <4>1, <4>2, <4>3, <4>4
    <3> QED
      BY <3>1, <3>2
  <2>2. 1 .. Len(wbuf') = {}
    BY <1>1, EmptySeq
  <2> QED
    BY <1>1, <1>5, <2>1, <2>2 DEF SlotsInv
<1>13. ReadInv'
  BY <1>1, <1>4 DEF IndInv, ReadInv
<1>14. HistoryInv'
  <2>1. Tail0' = Len(sent') /\ Head0' = Len(got')
    BY <1>1, <1>3, <1>5, <1>6, <1>7
  <2>2. ASSUME NEW k \in 1 .. Len(got) PROVE got[k] = sent'[k]
    <3>1. k \in 1 .. Len(sent)
      BY <1>3, <1>7
    <3> QED
      BY <1>6, <3>1 DEF IndInv, HistoryInv
  <2>3. ASSUME NEW k \in 1 .. Len(rbuf) PROVE rbuf[k] = sent'[Head0 + k]
    <3>1. rpc # "idle"
      BY EmptySeq DEF IndInv, ReaderInv
    <3>2. /\ rstart = Head0 /\ rend <= tailStores[1].val
          /\ Len(rbuf) <= rend - rstart /\ rend \in Nat
      BY <3>1 DEF IndInv, TypeOK, ReaderInv
    <3>3. Head0 + k \in 1 .. Len(sent)
      BY <1>3, <1>7, <3>2, Facts, SMTT(30)
    <3> QED
      BY <1>6, <3>3 DEF IndInv, HistoryInv
  <2> QED
    BY <1>1, <1>5, <2>1, <2>2, <2>3 DEF HistoryInv
<1> QED
  BY <1>8, <1>9, <1>10, <1>11, <1>12, <1>13, <1>14 DEF IndInv

LEMMA DropWriteChunkStep ==
  ASSUME IndInv, DropWriteChunk
  PROVE  IndInv'
<1>1. /\ wpc' = "idle" /\ wstart' = wstart /\ wend' = wstart /\ wbuf' = <<>>
      /\ UNCHANGED <<headStores, tailStores, slots, wIdx, rIdx, wSees, rSees,
                     rpc, rstart, rend, rbuf, sent, got>>
  BY DEF DropWriteChunk, WriterTakes, rvars
<1>2. Head0' = Head0 /\ Tail0' = Tail0
  BY <1>1 DEF Head0, Tail0
<1>3. TypeOK'
  BY <1>1, EmptySeq DEF IndInv, TypeOK
<1>4. CountersInv' /\ ReaderInv' /\ ReadInv' /\ HistoryInv'
  BY <1>1, <1>2 DEF IndInv, CountersInv, ReaderInv, ReadInv, HistoryInv
<1>5. WriterInv'
  BY <1>1 DEF WriterInv
<1>6. 1 .. Len(wbuf') = {}
  BY <1>1, EmptySeq
<1>7. SlotsInv'
  BY <1>1, <1>2, <1>6 DEF IndInv, SlotsInv
<1> QED
  BY <1>3, <1>4, <1>5, <1>7 DEF IndInv

\* A reader's load of tail disturbs neither the writer's chunk nor the slots.
LEMMA ReaderLoadsKeep ==
  ASSUME IndInv, NEW i \in DOMAIN tailStores, ReaderLoadsTail(i),
         UNCHANGED <<headStores, slots, wIdx, rIdx, wSees, wpc, wstart, wend,
                     wbuf, sent, got>>
  PROVE  WriterInv' /\ SlotsInv' /\ ReadInv'
<1>1. /\ Head0' = Head0 /\ Tail0' = Tail0
      /\ tailStores'[1].val = tailStores[i].val
      /\ tailStores[i].val \in Nat
      /\ tailStores[1].val <= tailStores[i].val
  BY ReaderLoads
<1>2. WriterInv' /\ SlotsInv'
  BY <1>1 DEF IndInv, WriterInv, SlotsInv
<1>3. ReadInv'
  <2>1. tailStores[1].val \in Nat /\ rIdx \in [Slots -> Nat \cup {-1}]
    BY Facts DEF IndInv, TypeOK
  <2>2. ASSUME NEW s \in Slots, rIdx[s] # -1
        PROVE  rIdx[s] % BufferSize = s /\ rIdx[s] < tailStores[i].val
    <3>1. rIdx[s] % BufferSize = s /\ rIdx[s] < tailStores[1].val
      BY <2>2 DEF IndInv, ReadInv
    <3>2. rIdx[s] \in Nat
      BY <2>1, <2>2
    <3> QED
      BY <1>1, <2>1, <3>1, <3>2
  <2> QED
    BY <1>1, <2>2 DEF ReadInv
<1> QED
  BY <1>2, <1>3

\* A reader that has just taken a chunk of n positions, all published.
LEMMA ReaderTakesStep ==
  ASSUME IndInv, NEW n \in Nat, NEW i \in DOMAIN tailStores,
         ReaderLoadsTail(i),
         UNCHANGED <<headStores, slots, wIdx, rIdx, wSees, wpc, wstart, wend,
                     wbuf, sent, got>>,
         n <= Readable(Head0, tailStores[i].val),
         ReaderTakes("chunk", Head0, Head0 + n)
  PROVE  IndInv'
<1>1. /\ tailStores' \in Seq(Store) /\ tailStores' # <<>>
      /\ tailStores'[1].val = tailStores[i].val
      /\ tailStores[i].val \in Nat
      /\ Head0' = Head0 /\ Tail0' = Tail0
      /\ rSees' \in Nat
      /\ CountersInv'
  BY ReaderLoads
<1>2. WriterInv' /\ SlotsInv' /\ ReadInv'
  BY ReaderLoadsKeep
<1>3. /\ rpc' = "chunk" /\ rstart' = Head0 /\ rend' = Head0 + n
      /\ rbuf' = <<>> /\ Len(rbuf') = 0
  BY EmptySeq DEF ReaderTakes
<1>4. Head0 \in Nat
  BY Facts
<1>5. TypeOK'
  <2>1. rend' \in Nat /\ rstart' \in Nat /\ rbuf' \in Seq(Items)
    BY <1>3, <1>4, EmptySeq
  <2> QED
    BY <1>1, <1>3, <2>1 DEF IndInv, TypeOK
<1>6. ReaderInv'
  <2>1. /\ ToEnd(Head0) \in Nat
        /\ Readable(Head0, tailStores[i].val) <= tailStores[i].val - Head0
        /\ Readable(Head0, tailStores[i].val) <= ToEnd(Head0)
        /\ Readable(Head0, tailStores[i].val) \in Int
    BY <1>1, <1>4, Windows
  <2>2. /\ Head0 <= Head0 + n
        /\ Head0 + n <= tailStores[i].val
        /\ (Head0 + n) - Head0 <= ToEnd(Head0)
        /\ 0 <= (Head0 + n) - Head0
    BY <1>1, <1>4, <2>1
  <2> QED
    BY <1>1, <1>3, <2>2 DEF ReaderInv
<1>7. HistoryInv'
  BY <1>1, <1>3 DEF IndInv, HistoryInv
<1> QED
  BY <1>1, <1>2, <1>5, <1>6, <1>7 DEF IndInv

LEMMA ReadExactStep ==
  ASSUME IndInv, NEW len \in Sizes, NEW i \in DOMAIN tailStores,
         ReadExact(len, i)
  PROVE  IndInv'
<1> DEFINE tail == tailStores[i].val
<1>1. /\ ReaderLoadsTail(i)
      /\ UNCHANGED <<headStores, slots, wIdx, rIdx, wSees, wpc, wstart, wend,
                     wbuf, sent, got>>
  BY DEF ReadExact, wvars
<1>2. len \in Nat
  BY SizesAssumption
<1>3. /\ tailStores' \in Seq(Store) /\ tailStores' # <<>>
      /\ tailStores'[1].val = tail /\ tail \in Nat
      /\ tailStores[1].val <= tail
      /\ Head0' = Head0 /\ Tail0' = Tail0
      /\ rSees' \in Nat
      /\ CountersInv'
  BY <1>1, ReaderLoads
<1>4. CASE UNCHANGED rvars
  <2>1. UNCHANGED <<rpc, rstart, rend, rbuf>> /\ rpc = "idle"
    BY <1>1, <1>4 DEF rvars, ReaderLoadsTail
  <2>2. TypeOK'
    BY <1>1, <1>3, <2>1 DEF IndInv, TypeOK
  <2>3. ReaderInv' /\ HistoryInv'
    BY <1>1, <1>3, <2>1 DEF IndInv, ReaderInv, HistoryInv
  <2>4. WriterInv' /\ SlotsInv' /\ ReadInv'
    BY <1>1, ReaderLoadsKeep
  <2> QED
    BY <1>3, <2>2, <2>3, <2>4 DEF IndInv
<1>5. CASE /\ Readable(Head0, tail) >= len
           /\ ReaderTakes("chunk", Head0, Head0 + len)
  <2>1. Readable(Head0, tail) \in Int
    BY <1>3, Facts, Windows
  <2>2. len <= Readable(Head0, tail)
    BY <1>2, <1>5, <2>1
  <2> QED
    BY <1>1, <1>2, <1>5, <2>2, ReaderTakesStep
<1> QED
  BY <1>4, <1>5 DEF ReadExact

LEMMA ReadStep ==
  ASSUME IndInv, NEW i \in DOMAIN tailStores, Read(i)
  PROVE  IndInv'
<1> DEFINE n == Readable(Head0, tailStores[i].val)
<1>1. /\ ReaderLoadsTail(i)
      /\ ReaderTakes("chunk", Head0, Head0 + n)
      /\ UNCHANGED <<headStores, slots, wIdx, rIdx, wSees, wpc, wstart, wend,
                     wbuf, sent, got>>
  BY DEF Read, wvars
<1>2. /\ Head0 \in Nat /\ tailStores[i].val \in Nat
      /\ Head0 <= tailStores[i].val
  <2>1. /\ Head0 \in Nat /\ tailStores[1].val \in Nat
        /\ Head0 <= tailStores[1].val
    BY Facts
  <2>2. tailStores[i].val \in Nat /\ tailStores[1].val <= tailStores[i].val
    BY <1>1, ReaderLoads
  <2> QED
    BY <2>1, <2>2
<1>3. n \in Nat
  BY <1>2, Windows
<1>4. n <= n
  BY <1>3
<1> QED
  BY <1>1, <1>3, <1>4, ReaderTakesStep

LEMMA ReadSlotStep ==
  ASSUME IndInv, ReadSlot
  PROVE  IndInv'
<1> DEFINE n == Len(rbuf)
           q == Head0 + n
           seen == slots[NextReadSlot]
<1>1. /\ rpc # "idle" /\ n < rend - rstart
      /\ rbuf' = Append(rbuf, seen)
      /\ rIdx' = [rIdx EXCEPT ![NextReadSlot] = rstart + n]
      /\ UNCHANGED <<headStores, tailStores, slots, wIdx, wSees, rSees, wpc,
                     wstart, wend, wbuf, rpc, rstart, rend, sent, got>>
  BY DEF ReadSlot, wvars
<1>2. /\ NextReadSlot = q % BufferSize /\ NextReadSlot \in Slots
      /\ rstart = Head0 /\ q \in Nat /\ q < tailStores[1].val
  BY <1>1, NextReadSlotIs
<1>3. /\ Head0 \in Nat /\ Tail0 \in Nat /\ n \in Nat
      /\ tailStores[1].val \in Nat /\ tailStores[1].val <= Tail0
  BY Facts
<1>4. seen = sent[q + 1] /\ seen \in Items
  <2>1. q \in Head0 .. (Tail0 - 1) /\ q + 1 \in 1 .. Tail0
    BY <1>2, <1>3
  <2>2. seen = sent[q + 1]
    BY <1>2, <2>1 DEF IndInv, SlotsInv
  <2>3. sent \in Seq(Items) /\ Len(sent) = Tail0
    BY DEF IndInv, TypeOK, HistoryInv
  <2> QED
    BY <2>1, <2>2, <2>3, ElementOfSeq
<1>5. /\ rbuf' \in Seq(Items) /\ Len(rbuf') = n + 1
      /\ \A k \in 1 .. n : rbuf'[k] = rbuf[k]
      /\ rbuf'[n + 1] = seen
  <2>1. rbuf \in Seq(Items)
    BY DEF IndInv, TypeOK
  <2> QED
    BY <1>1, <1>4, <2>1, AppendProperties
<1>6. Head0' = Head0 /\ Tail0' = Tail0
  BY <1>1 DEF Head0, Tail0
<1>7. TypeOK'
  BY <1>1, <1>2, <1>5 DEF IndInv, TypeOK
<1>8. CountersInv' /\ WriterInv' /\ SlotsInv'
  BY <1>1, <1>6 DEF IndInv, CountersInv, WriterInv, SlotsInv
<1>9. ReaderInv'
  BY <1>1, <1>2, <1>3, <1>5, <1>6 DEF IndInv, TypeOK, ReaderInv
<1>10. ReadInv'
  <2>1. rIdx \in [Slots -> Nat \cup {-1}]
    BY DEF IndInv, TypeOK
  <2>2. ASSUME NEW s \in Slots, rIdx'[s] # -1
        PROVE  rIdx'[s] % BufferSize = s /\ rIdx'[s] < tailStores[1].val
    <3>1. CASE s = NextReadSlot
      BY <1>1, <1>2, <2>1, <3>1
    <3>2. CASE s # NextReadSlot
      BY <1>1, <2>1, <2>2, <3>2 DEF IndInv, ReadInv
    <3> QED
      BY <3>1, <3>2
  <2> QED
    BY <1>1, <2>2 DEF ReadInv
<1>11. HistoryInv'
  <2>1. ASSUME NEW k \in 1 .. n + 1 PROVE rbuf'[k] = sent[Head0 + k]
    <3>1. CASE k = n + 1
      <4>1. Head0 + k = q + 1
        BY <1>3, <3>1
      <4> QED
        BY <1>4, <1>5, <3>1, <4>1
    <3>2. CASE k # n + 1
      <4>1. k \in 1 .. n
        BY <1>3, <3>2
      <4> QED
        BY <1>5, <4>1 DEF IndInv, HistoryInv
    <3> QED
      BY <3>1, <3>2
  <2> QED
    BY <1>1, <1>5, <1>6, <2>1 DEF IndInv, HistoryInv
<1> QED
  BY <1>7, <1>8, <1>9, <1>10, <1>11 DEF IndInv

LEMMA CommitReadStep ==
  ASSUME IndInv, CommitRead
  PROVE  IndInv'
<1> DEFINE n == Len(rbuf)
<1>1. /\ rpc # "idle" /\ n = rend - rstart
      /\ headStores' = StoreRelease(headStores, rend)
      /\ got' = got \o rbuf
      /\ rpc' = "idle" /\ rstart' = rend /\ rend' = rend /\ rbuf' = <<>>
      /\ UNCHANGED <<tailStores, slots, wIdx, rIdx, wSees, rSees, wpc, wstart,
                     wend, wbuf, sent>>
  BY DEF CommitRead, ReaderTakes, wvars
<1>2. rstart = Head0 /\ rend \in Nat /\ rend <= tailStores[1].val
  BY <1>1 DEF IndInv, TypeOK, ReaderInv
<1>3. /\ n \in Nat /\ Head0 \in Nat /\ Tail0 \in Nat /\ rend = Head0 + n
      /\ Head0 <= rend
  BY <1>1, <1>2, Facts
<1>4. /\ headStores' \in Seq(Store) /\ headStores' # <<>>
      /\ StoresGrow(headStores') /\ Latest(headStores') = rend
      /\ headStores'[1] = headStores[1]
  <2>1. /\ headStores \in Seq(Store) /\ headStores # <<>>
        /\ StoresGrow(headStores)
    BY DEF IndInv, TypeOK, CountersInv
  <2>2. Latest(headStores) <= rend
    BY <1>3 DEF Head0
  <2> QED
    BY <1>1, <1>2, <2>1, <2>2, StoreReleaseProperties
<1>5. Head0' = rend /\ Tail0' = Tail0
  BY <1>1, <1>4 DEF Head0, Tail0
<1>6. /\ got' \in Seq(Items) /\ Len(got') = Len(got) + n
      /\ \A k \in 1 .. Len(got) : got'[k] = got[k]
      /\ \A k \in 1 .. n : got'[Len(got) + k] = rbuf[k]
  <2>1. got \in Seq(Items) /\ rbuf \in Seq(Items)
    BY DEF IndInv, TypeOK
  <2>2. /\ got \o rbuf \in Seq(Items)
        /\ Len(got \o rbuf) = Len(got) + n
        /\ \A k \in 1 .. Len(got) : (got \o rbuf)[k] = got[k]
        /\ \A k \in 1 .. n : (got \o rbuf)[Len(got) + k] = rbuf[k]
    BY <2>1, ConcatParts
  <2> QED
    BY <1>1, <2>2
<1>7. Len(sent) = Tail0 /\ Len(got) = Head0
  BY DEF IndInv, HistoryInv
<1>8. TypeOK'
  BY <1>1, <1>2, <1>4, <1>6, EmptySeq DEF IndInv, TypeOK
<1>9. CountersInv'
  BY <1>1, <1>2, <1>4, <1>5 DEF IndInv, CountersInv
<1>10. WriterInv'
  BY <1>1, <1>4, <1>5 DEF IndInv, WriterInv
<1>11. ReaderInv'
  BY <1>1 DEF ReaderInv
<1>12. SlotsInv'
  <2>1. \A i \in rend .. (Tail0 - 1) : i \in Head0 .. (Tail0 - 1)
    BY <1>2, <1>3
  <2> QED
    BY <1>1, <1>5, <2>1 DEF IndInv, SlotsInv
<1>13. ReadInv'
  BY <1>1 DEF IndInv, ReadInv
<1>14. HistoryInv'
  <2>1. Tail0' = Len(sent') /\ Head0' = Len(got')
    BY <1>1, <1>3, <1>5, <1>6, <1>7
  <2>2. ASSUME NEW k \in 1 .. Head0 + n PROVE got'[k] = sent[k]
    <3>1. CASE k <= Head0
      <4>1. k \in 1 .. Len(got)
        BY <1>3, <1>7, <3>1
      <4> QED
        BY <1>6, <4>1 DEF IndInv, HistoryInv
    <3>2. CASE ~ (k <= Head0)
      <4>1. k - Head0 \in 1 .. n /\ Head0 + (k - Head0) = k
        BY <1>3, <3>2
      <4>2. got'[Head0 + (k - Head0)] = rbuf[k - Head0]
        BY <1>6, <1>7, <4>1
      <4>3. rbuf[k - Head0] = sent[Head0 + (k - Head0)]
        BY <4>1 DEF IndInv, HistoryInv
      <4> QED
        BY <4>1, <4>2, <4>3
    <3> QED
      BY <3>1, <3>2
  <2>3. 1 .. Len(rbuf') = {}
    BY <1>1, EmptySeq
  <2> QED
    BY <1>1, <1>6, <1>7, <2>1, <2>2, <2>3 DEF HistoryInv
<1> QED
  BY <1>4, <1>8, <1>9, <1>10, <1>11, <1>12, <1>13, <1>14 DEF IndInv

LEMMA DropReadChunkStep ==
  ASSUME IndInv, DropReadChunk
  PROVE  IndInv'
<1>1. /\ rpc' = "idle" /\ rstart' = rstart /\ rend' = rstart /\ rbuf' = <<>>
      /\ UNCHANGED <<headStores, tailStores, slots, wIdx, rIdx, wSees, rSees,
                     wpc, wstart, wend, wbuf, sent, got>>
  BY DEF DropReadChunk, ReaderTakes, wvars
<1>2. Head0' = Head0 /\ Tail0' = Tail0
  BY <1>1 DEF Head0, Tail0
<1>3. TypeOK'
  BY <1>1, EmptySeq DEF IndInv, TypeOK
<1>4. CountersInv' /\ WriterInv' /\ SlotsInv' /\ ReadInv'
  BY <1>1, <1>2 DEF IndInv, CountersInv, WriterInv, SlotsInv, ReadInv
<1>5. ReaderInv'
  BY <1>1 DEF ReaderInv
<1>6. 1 .. Len(rbuf') = {}
  BY <1>1, EmptySeq
<1>7. HistoryInv'
  BY <1>1, <1>2, <1>6 DEF IndInv, HistoryInv
<1> QED
  BY <1>3, <1>4, <1>5, <1>7 DEF IndInv

LEMMA StutterStep ==
  ASSUME IndInv, UNCHANGED vars
  PROVE  IndInv'
<1>1. UNCHANGED <<headStores, tailStores, slots, wIdx, rIdx, wSees, rSees,
                  wpc, wstart, wend, wbuf, rpc, rstart, rend, rbuf, sent, got>>
  BY DEF vars, wvars, rvars
<1>2. Head0' = Head0 /\ Tail0' = Tail0
  BY <1>1 DEF Head0, Tail0
<1> QED
  BY <1>1, <1>2 DEF IndInv, TypeOK, CountersInv, WriterInv, ReaderInv, SlotsInv,
                    ReadInv, HistoryInv

LEMMA NextIndInv == IndInv /\ [Next]_vars => IndInv'
<1> SUFFICES ASSUME IndInv, [Next]_vars PROVE IndInv'
  OBVIOUS
<1>1. CASE \E size \in Sizes, i \in DOMAIN headStores : TryReserve(size, i)
  BY <1>1, TryReserveStep
<1>2. CASE \E len \in Sizes, i \in DOMAIN headStores : StartWrite(len, i)
  BY <1>2, StartWriteStep
<1>3. CASE \E item \in Items : WriteSlot(item)
  BY <1>3, WriteSlotStep
<1>4. CASE CommitWrite \/ FinishWrite
  BY <1>4, PublishTailStep DEF CommitWrite, FinishWrite
<1>5. CASE DropWriteChunk
  BY <1>5, DropWriteChunkStep
<1>6. CASE \E len \in Sizes, i \in DOMAIN tailStores : ReadExact(len, i)
  BY <1>6, ReadExactStep
<1>7. CASE \E i \in DOMAIN tailStores : Read(i)
  BY <1>7, ReadStep
<1>8. CASE ReadSlot
  BY <1>8, ReadSlotStep
<1>9. CASE CommitRead
  BY <1>9, CommitReadStep
<1>10. CASE DropReadChunk
  BY <1>10, DropReadChunkStep
<1>11. CASE UNCHANGED vars
  BY <1>11, StutterStep
<1> QED
  BY <1>1, <1>2, <1>3, <1>4, <1>5, <1>6, <1>7, <1>8, <1>9, <1>10, <1>11
  DEF Next, Writer, Reader

\* The invariant is inductive: it holds in every reachable state, whatever the
\* size of the buffer, the items and the lengths that callers ask for.
THEOREM Invariance == Spec => []IndInv
BY InitIndInv, NextIndInv, PTL DEF Spec
------------------------------------------------------------------------------
(* What the invariant says about the properties.                           *)

\* A position of the writer's chunk and its slot.
LEMMA WriterPosition ==
  ASSUME IndInv, NEW s \in WriterSlots
  PROVE  \E p \in Nat : /\ s = p % BufferSize /\ s \in Slots
                       /\ Tail0 <= p /\ p < headStores[1].val + BufferSize
<1>1. /\ headStores[1].val \in Nat /\ BufferSize \in Nat /\ Tail0 \in Nat
      /\ headStores[1].val <= Tail0
  BY Facts
<1>2. wpc \in {"chunk", "copy"}
  BY DEF WriterSlots, IndInv, TypeOK
<1>3. /\ wstart = Tail0 /\ wend \in Nat /\ wstart <= wend
      /\ wend <= headStores[1].val + BufferSize
      /\ wpc = "chunk" => wend - wstart <= ToEnd(wstart)
  BY <1>2 DEF IndInv, TypeOK, WriterInv
<1>4. CASE wpc = "chunk"
  <2>1. PICK k \in 0 .. wend - wstart - 1 : s = SliceSlot(wstart, k)
    BY <1>4 DEF WriterSlots
  <2>2. k \in Nat /\ wstart + k \in Nat /\ wstart \in Nat
    BY <1>1, <1>3, <2>1
  <2>3. ToEnd(wstart) \in Nat
    BY <2>2, Windows
  <2>4. k < ToEnd(wstart) /\ wstart + k < wend
    BY <1>1, <1>3, <1>4, <2>1, <2>3
  <2>5. s = (wstart + k) % BufferSize /\ s \in Slots
    BY <2>1, <2>2, <2>4, SliceSlots
  <2>6. Tail0 <= wstart + k /\ wstart + k < headStores[1].val + BufferSize
    BY <1>1, <1>3, <2>2, <2>4
  <2> QED
    BY <2>2, <2>5, <2>6
<1>5. CASE wpc = "copy"
  <2>1. PICK k \in 0 .. wend - wstart - 1 : s = CopySlot(wstart, wend - wstart, k)
    BY <1>5 DEF WriterSlots
  <2>2. k \in Nat /\ wstart + k \in Nat /\ wstart \in Nat
    BY <1>1, <1>3, <2>1
  <2>3. /\ wend - wstart \in Nat /\ wend - wstart <= BufferSize
        /\ k < wend - wstart /\ wstart + k < wend
    BY <1>1, <1>3, <2>1
  <2>4. s = (wstart + k) % BufferSize /\ s \in Slots
    BY <2>1, <2>2, <2>3, CopySlots
  <2>5. Tail0 <= wstart + k /\ wstart + k < headStores[1].val + BufferSize
    BY <1>1, <1>3, <2>2, <2>3
  <2> QED
    BY <2>2, <2>4, <2>5
<1> QED
  BY <1>2, <1>4, <1>5

\* A position of the reader's chunk and its slot.
LEMMA ReaderPosition ==
  ASSUME IndInv, NEW s \in ReaderSlots
  PROVE  \E q \in Nat : /\ s = q % BufferSize /\ s \in Slots
                       /\ Head0 <= q /\ q < tailStores[1].val
<1>1. Head0 \in Nat /\ tailStores[1].val \in Nat
  BY Facts
<1>2. rpc # "idle"
  BY DEF ReaderSlots
<1>3. /\ rstart = Head0 /\ rend \in Nat /\ rstart <= rend
      /\ rend <= tailStores[1].val
      /\ rend - rstart <= ToEnd(rstart)
  BY <1>2 DEF IndInv, TypeOK, ReaderInv
<1>4. PICK k \in 0 .. rend - rstart - 1 : s = SliceSlot(rstart, k)
  BY <1>2 DEF ReaderSlots
<1>5. k \in Nat /\ rstart + k \in Nat /\ rstart \in Nat
  BY <1>1, <1>3, <1>4
<1>6. ToEnd(rstart) \in Nat
  BY <1>5, Windows
<1>7. k < ToEnd(rstart) /\ rstart + k < rend
  BY <1>1, <1>3, <1>4, <1>6
<1>8. s = (rstart + k) % BufferSize /\ s \in Slots
  BY <1>4, <1>5, <1>7, SliceSlots
<1>9. Head0 <= rstart + k /\ rstart + k < tailStores[1].val
  BY <1>1, <1>3, <1>5, <1>7
<1> QED
  BY <1>5, <1>8, <1>9

LEMMA IndInvExclusive == ASSUME IndInv PROVE ExclusiveSlots /\ ChunksContiguous
<1>1. /\ Head0 \in Nat /\ Tail0 \in Nat /\ BufferSize \in Nat
      /\ headStores[1].val \in Nat /\ tailStores[1].val \in Nat
      /\ headStores[1].val <= Head0 /\ tailStores[1].val <= Tail0
  BY Facts
<1>2. ASSUME NEW s \in WriterSlots, s \in ReaderSlots PROVE FALSE
  <2>1. PICK p \in Nat : /\ s = p % BufferSize
                        /\ Tail0 <= p /\ p < headStores[1].val + BufferSize
    BY WriterPosition
  <2>2. PICK q \in Nat : /\ s = q % BufferSize
                        /\ Head0 <= q /\ q < tailStores[1].val
    BY <1>2, ReaderPosition
  <2>3. q < p /\ p < q + BufferSize
    BY <1>1, <2>1, <2>2
  <2> QED
    BY <2>1, <2>2, <2>3, ModDistinct
<1>3. ExclusiveSlots
  BY <1>2 DEF ExclusiveSlots
<1>4. ChunksContiguous
  BY WriterPosition, ReaderPosition DEF ChunksContiguous
<1> QED
  BY <1>3, <1>4

LEMMA IndInvNoDataRace == ASSUME IndInv PROVE NoDataRace
<1>1. /\ Head0 \in Nat /\ Tail0 \in Nat /\ BufferSize \in Nat
      /\ headStores[1].val \in Nat /\ tailStores[1].val \in Nat
      /\ tailStores[1].val <= Tail0
      /\ Len(wbuf) \in Nat /\ Len(rbuf) \in Nat
      /\ wSees = headStores[1].val /\ rSees = tailStores[1].val
  BY Facts DEF IndInv, CountersInv
<1>2. ASSUME wpc # "idle", Len(wbuf) < wend - wstart
      PROVE  rIdx[NextWriteSlot] < wSees
  <2> DEFINE p == Tail0 + Len(wbuf)
             q == rIdx[NextWriteSlot]
  <2>1. /\ NextWriteSlot = p % BufferSize /\ NextWriteSlot \in Slots
        /\ p \in Nat /\ p < headStores[1].val + BufferSize
    BY <1>2, NextWriteSlotIs
  <2>2. q \in Nat \cup {-1}
    BY <2>1 DEF IndInv, TypeOK
  <2>3. CASE q = -1
    BY <1>1, <2>3
  <2>4. CASE q # -1
    <3>1. q % BufferSize = p % BufferSize /\ q < tailStores[1].val
      BY <2>1, <2>4 DEF IndInv, ReadInv
    <3>2. q \in Nat /\ q < p
      BY <1>1, <2>2, <2>4, <3>1
    <3>3. ~ (p < q + BufferSize)
      BY <2>1, <3>1, <3>2, ModDistinct
    <3> QED
      BY <1>1, <2>1, <3>2, <3>3, SMTT(30)
  <2> QED
    BY <2>3, <2>4
<1>3. ASSUME rpc # "idle", Len(rbuf) < rend - rstart
      PROVE  wIdx[NextReadSlot] < rSees
  <2> DEFINE q == Head0 + Len(rbuf)
  <2>1. /\ NextReadSlot = q % BufferSize
        /\ q \in Nat /\ q < tailStores[1].val
    BY <1>3, NextReadSlotIs
  <2>2. q \in Head0 .. (Tail0 - 1)
    BY <1>1, <2>1, SMTT(30)
  <2>3. wIdx[q % BufferSize] = q
    BY <2>2 DEF IndInv, SlotsInv
  <2> QED
    BY <1>1, <2>1, <2>3
<1> QED
  BY <1>2, <1>3 DEF NoDataRace

LEMMA IndInvNoUnderflow == ASSUME IndInv PROVE NoUnderflow
<1>1. /\ Head0 \in Nat /\ Tail0 \in Nat /\ BufferSize \in Nat
      /\ headStores[1].val \in Nat /\ tailStores[1].val \in Nat
      /\ headStores[1].val <= Head0 /\ Head0 <= tailStores[1].val
      /\ tailStores[1].val <= Tail0 /\ Tail0 <= headStores[1].val + BufferSize
  BY Facts
<1>2. ASSUME NEW i \in DOMAIN headStores
      PROVE  Tail0 - headStores[i].val \in 0 .. BufferSize
  <2>1. /\ headStores[1].val <= headStores[i].val
        /\ headStores[i].val <= Head0
    BY ObserveFromProperties DEF IndInv, TypeOK, CountersInv, Head0
  <2>2. headStores[i].val \in Nat
    <3>1. headStores[i] \in Store
      BY ElementOfSeq, LenProperties DEF IndInv, TypeOK
    <3> QED
      BY <3>1 DEF Store
  <2> QED
    BY <1>1, <2>1, <2>2
<1>3. ASSUME NEW i \in DOMAIN tailStores
      PROVE  tailStores[i].val - Head0 \in 0 .. BufferSize
  <2>1. /\ tailStores[1].val <= tailStores[i].val
        /\ tailStores[i].val <= Tail0
    BY ObserveFromProperties DEF IndInv, TypeOK, CountersInv, Tail0
  <2>2. tailStores[i].val \in Nat
    <3>1. tailStores[i] \in Store
      BY ElementOfSeq, LenProperties DEF IndInv, TypeOK
    <3> QED
      BY <3>1 DEF Store
  <2> QED
    BY <1>1, <2>1, <2>2
<1> QED
  BY <1>2, <1>3 DEF NoUnderflow

LEMMA IndInvReadsPublished == ASSUME IndInv PROVE ReadsPublished
<1> DEFINE seen == got \o rbuf
<1>1. /\ Head0 \in Nat /\ Tail0 \in Nat /\ Len(rbuf) \in Nat
      /\ tailStores[1].val \in Nat /\ tailStores[1].val <= Tail0
      /\ Head0 <= tailStores[1].val
      /\ Len(got) = Head0 /\ Len(sent) = Tail0
  BY Facts DEF IndInv, HistoryInv
<1>2. /\ Len(seen) = Head0 + Len(rbuf)
      /\ \A k \in 1 .. Head0 : seen[k] = got[k]
      /\ \A k \in 1 .. Len(rbuf) : seen[Head0 + k] = rbuf[k]
  <2>1. got \in Seq(Items) /\ rbuf \in Seq(Items)
    BY DEF IndInv, TypeOK
  <2>2. /\ Len(seen) = Len(got) + Len(rbuf)
        /\ \A k \in 1 .. Len(got) : seen[k] = got[k]
        /\ \A k \in 1 .. Len(rbuf) : seen[Len(got) + k] = rbuf[k]
    BY <2>1, ConcatParts
  <2> QED
    BY <1>1, <2>2
<1>3. Head0 + Len(rbuf) <= Tail0
  <2>1. CASE rpc = "idle"
    <3>1. Len(rbuf) = 0
      BY <2>1, EmptySeq DEF IndInv, ReaderInv
    <3> QED
      BY <1>1, <3>1
  <2>2. CASE rpc # "idle"
    <3>1. /\ rstart = Head0 /\ rend \in Nat /\ rend <= tailStores[1].val
          /\ Len(rbuf) <= rend - rstart
      BY <2>2 DEF IndInv, TypeOK, ReaderInv
    <3> QED
      BY <1>1, <3>1
  <2> QED
    BY <2>1, <2>2
<1>4. ASSUME NEW k \in 1 .. Head0 + Len(rbuf) PROVE seen[k] = sent[k]
  <2>1. CASE k <= Head0
    <3>1. k \in 1 .. Head0
      BY <1>1, <2>1
    <3> QED
      BY <1>1, <1>2, <3>1 DEF IndInv, HistoryInv
  <2>2. CASE ~ (k <= Head0)
    <3>1. k - Head0 \in 1 .. Len(rbuf) /\ Head0 + (k - Head0) = k
      BY <1>1, <2>2
    <3>2. rbuf[k - Head0] = sent[Head0 + (k - Head0)]
      BY <3>1 DEF IndInv, HistoryInv
    <3>3. seen[Head0 + (k - Head0)] = rbuf[k - Head0]
      BY <1>2, <3>1
    <3> QED
      BY <3>1, <3>2, <3>3
  <2> QED
    BY <2>1, <2>2
<1> QED
  BY <1>1, <1>2, <1>3, <1>4 DEF ReadsPublished, Fifo!Begins

\* Type correctness: in particular the reader never sees an uninitialised slot.
THEOREM TypeCorrect == Spec => []TypeOK
<1>1. IndInv => TypeOK
  BY DEF IndInv
<1> QED
  BY <1>1, Invariance, PTL

\* No two conflicting accesses to a slot are ever unordered.
THEOREM DataRaceFree == Spec => []NoDataRace
<1>1. IndInv => NoDataRace
  BY IndInvNoDataRace
<1> QED
  BY <1>1, Invariance, PTL

\* The slices of a WriteChunk and of a ReadChunk never overlap.
THEOREM Exclusive == Spec => []ExclusiveSlots
<1>1. IndInv => ExclusiveSlots
  BY IndInvExclusive
<1> QED
  BY <1>1, Invariance, PTL

\* The slices of the chunks, and the memcpys, stay inside the buffer.
THEOREM Contiguous == Spec => []ChunksContiguous
<1>1. IndInv => ChunksContiguous
  BY IndInvExclusive
<1> QED
  BY <1>1, Invariance, PTL

\* No usize subtraction underflows, whatever stale counter a load returns.
THEOREM Underflow == Spec => []NoUnderflow
<1>1. IndInv => NoUnderflow
  BY IndInvNoUnderflow
<1> QED
  BY <1>1, Invariance, PTL

\* The reader only ever sees what was published, in order.
THEOREM Reads == Spec => []ReadsPublished
<1>1. IndInv => ReadsPublished
  BY IndInvReadsPublished
<1> QED
  BY <1>1, Invariance, PTL
------------------------------------------------------------------------------
(* The ring buffer implements the FIFO stream: every step publishes a run  *)
(* of items for which there is room, takes the oldest items, or stutters.  *)

\* The history of a reachable state, in terms of the history variables alone.
LEMMA IndInvHistory ==
  ASSUME IndInv
  PROVE  /\ Len(sent) - Len(got) <= BufferSize
         /\ Fifo!Begins(got, sent)
<1>1. /\ Head0 \in Nat /\ Tail0 \in Nat /\ BufferSize \in Nat
      /\ headStores[1].val \in Nat /\ headStores[1].val <= Head0
      /\ tailStores[1].val \in Nat /\ tailStores[1].val <= Tail0
      /\ Head0 <= tailStores[1].val /\ Tail0 <= headStores[1].val + BufferSize
  BY Facts
<1>2. /\ Tail0 = Len(sent) /\ Head0 = Len(got)
      /\ \A k \in 1 .. Len(got) : got[k] = sent[k]
  BY DEF IndInv, HistoryInv
<1> QED
  BY <1>1, <1>2 DEF Fifo!Begins

LEMMA PublishIsPublish ==
  ASSUME IndInv, PublishTail, Len(sent') - Len(got') <= BufferSize
  PROVE  Fifo!Publish
<1>1. sent \in Seq(Items) /\ wbuf \in Seq(Items)
  BY DEF IndInv, TypeOK
<1>2. sent' = sent \o wbuf /\ got' = got
  BY DEF PublishTail
<1>3. /\ Len(sent \o wbuf) = Len(sent) + Len(wbuf)
      /\ \A k \in 1 .. Len(sent) : (sent \o wbuf)[k] = sent[k]
  BY <1>1, ConcatParts
<1>4. Len(sent) \in Nat /\ Len(wbuf) \in Nat
  BY <1>1, LenProperties
<1>5. Fifo!Begins(sent, sent')
  BY <1>2, <1>3, <1>4 DEF Fifo!Begins
<1> QED
  BY <1>2, <1>5 DEF Fifo!Publish

LEMMA CommitIsConsume ==
  ASSUME IndInv, CommitRead, Fifo!Begins(got', sent')
  PROVE  Fifo!Consume
<1>1. got \in Seq(Items) /\ rbuf \in Seq(Items)
  BY DEF IndInv, TypeOK
<1>2. got' = got \o rbuf /\ sent' = sent
  BY DEF CommitRead
<1>3. /\ Len(got \o rbuf) = Len(got) + Len(rbuf)
      /\ \A k \in 1 .. Len(got) : (got \o rbuf)[k] = got[k]
  BY <1>1, ConcatParts
<1>4. Len(got) \in Nat /\ Len(rbuf) \in Nat
  BY <1>1, LenProperties
<1>5. Fifo!Begins(got, got')
  BY <1>2, <1>3, <1>4 DEF Fifo!Begins
<1> QED
  BY <1>2, <1>5 DEF Fifo!Consume

LEMMA StepSimulation ==
  ASSUME IndInv, [Next]_vars,
         Len(sent') - Len(got') <= BufferSize, Fifo!Begins(got', sent')
  PROVE  [Fifo!Next]_(Fifo!vars)
<1>1. CASE CommitWrite \/ FinishWrite
  BY <1>1, PublishIsPublish DEF CommitWrite, FinishWrite, Fifo!Next
<1>2. CASE CommitRead
  BY <1>2, CommitIsConsume DEF Fifo!Next
<1>3. CASE UNCHANGED <<sent, got>>
  BY <1>3 DEF Fifo!vars
<1> QED
  BY <1>1, <1>2, <1>3
  DEF Next, Writer, Reader, TryReserve, StartWrite, WriteSlot, DropWriteChunk,
      ReadExact, Read, ReadSlot, DropReadChunk, vars

\* Every behaviour of the ring buffer, whatever the two threads do and however
\* stale their loads, is a behaviour of the bounded FIFO stream.
THEOREM ImplementsFifo == Spec => FifoSpec
<1>1. Init => Fifo!Init
  BY DEF Init, Fifo!Init
<1>2. IndInv => Len(sent) - Len(got) <= BufferSize /\ Fifo!Begins(got, sent)
  BY IndInvHistory
<1>3. /\ IndInv
      /\ [Next]_vars
      /\ (Len(sent) - Len(got) <= BufferSize /\ Fifo!Begins(got, sent))'
      => [Fifo!Next]_(Fifo!vars)
  BY StepSimulation DEF Fifo!Begins
<1> QED
  BY <1>1, <1>2, <1>3, Invariance, PTL DEF Spec, FifoSpec, Fifo!Spec
------------------------------------------------------------------------------
(***************************************************************************)
(* The benchmark for every buffer size, batch size and amount of data: its *)
(* threads use the ring buffer as RefRingBuffer describes, none of its     *)
(* assertions fails, and a batch that does not divide the buffer leaves    *)
(* the writer before the end of the first lap for ever.                    *)
(***************************************************************************)
LEMMA BatchFacts ==
  ASSUME batch \in Batches
  PROVE  /\ batch \in Nat /\ batch > 0 /\ batch \in Sizes
         /\ Iterations \in Nat
         /\ Iterations * batch <= DataSize
<1>1. batch \in Nat /\ batch > 0 /\ batch \in Sizes /\ DataSize \in Nat
  BY BenchAssumption, SizesAssumption
<1>2. DataSize = batch * (DataSize \div batch) + (DataSize % batch)
  BY <1>1
<1>3. DataSize \div batch \in Nat /\ DataSize % batch \in Nat
  BY <1>1
<1> QED
  BY <1>1, <1>2, <1>3 DEF Iterations

LEMMA Times ==
  ASSUME NEW b \in Nat, NEW m \in Nat, NEW n \in Nat
  PROVE  /\ m * b \in Nat
         /\ (m + 1) * b = m * b + b
         /\ m <= n => m * b <= n * b
<1>1. m <= n => n * b = m * b + (n - m) * b /\ n - m \in Nat
  OBVIOUS
<1>2. \A k \in Nat : k * b >= 0
  OBVIOUS
<1> QED
  BY <1>1, <1>2

\* A number of whole batches that fits fits in the quotient.
LEMMA WholeBatches ==
  ASSUME NEW b \in Nat, b > 0, NEW n \in Nat, n * b <= BufferSize
  PROVE  n * b <= (BufferSize \div b) * b
<1> DEFINE q == BufferSize \div b
<1>1. /\ BufferSize \in Nat /\ q \in Nat
      /\ BufferSize = b * q + (BufferSize % b) /\ BufferSize % b < b
  BY BufferSizeAssumption
<1>2. ASSUME n > q PROVE FALSE
  <2>1. q + 1 <= n /\ q + 1 \in Nat
    BY <1>1, <1>2
  <2>2. (q + 1) * b <= n * b /\ (q + 1) * b = q * b + b
    BY <1>1, <2>1, Times
  <2>3. q * b = b * q
    BY <1>1
  <2> QED
    BY <1>1, <2>2, <2>3
<1>3. n <= q
  BY <1>1, <1>2
<1> QED
  BY <1>1, <1>3, Times

\* Where the last whole batch ends.
LEMMA LastBatch ==
  ASSUME NEW b \in Nat, b > 0, BufferSize % b # 0
  PROVE  /\ (BufferSize \div b) * b \in Nat
         /\ (BufferSize \div b) * b < BufferSize
<1>1. /\ BufferSize \in Nat /\ BufferSize \div b \in Nat
      /\ BufferSize = b * (BufferSize \div b) + (BufferSize % b)
      /\ BufferSize % b \in Nat
  BY BufferSizeAssumption
<1>2. b * (BufferSize \div b) = (BufferSize \div b) * b
  BY <1>1
<1> QED
  BY <1>1, <1>2, Times

\* Before the end of the first lap a position is its own slot.
LEMMA FirstLap ==
  ASSUME NEW i \in Nat, i < BufferSize
  PROVE  ToEnd(i) = BufferSize - i
<1>1. i \in Slots /\ i = BufferSize * 0 + i
  BY BufferSizeAssumption DEF Slots
<1>2. (BufferSize * 0 + i) % BufferSize = i
  BY <1>1, ModUnique
<1>3. i % BufferSize = i
  BY <1>1, <1>2
<1> QED
  BY <1>3 DEF ToEnd
------------------------------------------------------------------------------
(* The threads' steps are steps of the ring buffer.                        *)

\* An item the writer puts is one of 0 .. DATA_SIZE - 1.
LEMMA CountIsItem ==
  ASSUME IndInv, BenchInv, wpc = "chunk", Len(wbuf) < wend - wstart
  PROVE  wcount \in Items
<1>1. /\ wstart = Tail0 /\ wend = Tail0 + batch /\ Tail0 = witer * batch
      /\ wcount = Tail0 + Len(wbuf) /\ witer < Iterations /\ witer \in Nat
  BY DEF IndInv, WriterInv, BenchInv, WriterBatch
<1>2. /\ batch \in Nat /\ Iterations \in Nat /\ Iterations * batch <= DataSize
      /\ DataSize \in Nat /\ Items = 0 .. DataSize - 1
  BY BatchFacts, BenchAssumption DEF BenchInv
<1>3. Tail0 \in Nat /\ Len(wbuf) \in Nat
  BY Facts
<1>4. (witer + 1) * batch = witer * batch + batch
  BY <1>1, <1>2, Times
<1>5. (witer + 1) * batch <= Iterations * batch
  <2>1. witer + 1 \in Nat /\ witer + 1 <= Iterations
    BY <1>1, <1>2
  <2> QED
    BY <1>2, <2>1, Times
<1>6. (witer + 1) * batch \in Nat /\ Iterations * batch \in Nat
  BY <1>1, <1>2, Times
<1>7. wcount < (witer + 1) * batch
  BY <1>1, <1>2, <1>3, <1>4, <1>6
<1> QED
  BY <1>1, <1>2, <1>3, <1>5, <1>6, <1>7

LEMMA BenchStepIsStep ==
  ASSUME IndInv, BenchInv, [BenchNext]_allVars
  PROVE  [Next]_vars
<1>1. batch \in Sizes /\ wpc \in {"idle", "chunk"}
  BY BatchFacts DEF BenchInv, WriterBatch
<1>2. CASE \E i \in DOMAIN headStores : WriterTries(i)
  BY <1>1, <1>2 DEF WriterTries, Next, Writer
<1>3. CASE WriterPuts
  <2>1. wpc = "chunk" /\ Len(wbuf) < wend - wstart /\ WriteSlot(wcount)
    BY <1>1, <1>3 DEF WriterPuts, WriteSlot
  <2> QED
    BY <2>1, CountIsItem DEF Next, Writer
<1>4. CASE WriterCommits
  BY <1>4 DEF WriterCommits, Next, Writer
<1>5. CASE \E i \in DOMAIN tailStores : ReaderTries(i)
  BY <1>1, <1>5 DEF ReaderTries, Next, Reader
<1>6. CASE ReaderChecks
  BY <1>6 DEF ReaderChecks, Next, Reader
<1>7. CASE ReaderCommits
  BY <1>7 DEF ReaderCommits, Next, Reader
<1>8. CASE UNCHANGED allVars \/ Joined
  BY <1>8 DEF allVars, Joined
<1> QED
  BY <1>2, <1>3, <1>4, <1>5, <1>6, <1>7, <1>8
  DEF BenchNext, BenchWriter, BenchReader
------------------------------------------------------------------------------
(* BenchInv is inductive.                                                  *)

LEMMA InitBenchInv == BenchInit => BenchInv
<1> SUFFICES ASSUME BenchInit PROVE BenchInv
  OBVIOUS
<1>1. Init /\ batch \in Batches /\ wcount = 0 /\ rcount = 0 /\ witer = 0 /\ riter = 0
  BY DEF BenchInit
<1>2. Head0 = 0 /\ Tail0 = 0
  BY <1>1, EmptySeq DEF Init, Head0, Tail0, Latest, Zeroed
<1>3. batch \in Nat /\ batch > 0 /\ Iterations \in Nat
  BY <1>1, BatchFacts
<1>4. 0 * batch = 0
  BY <1>3
<1>5. Len(<<>>) = 0 /\ 1 .. 0 = {}
  BY EmptySeq
<1>6. WriterBatch /\ ReaderBatch /\ Counted
  BY <1>1, <1>2, <1>3, <1>4, <1>5
  DEF Init, WriterBatch, ReaderBatch, Counted
<1>7. StuckAtWrap
  <2> SUFFICES ASSUME BufferSize % batch # 0
               PROVE  wend <= (BufferSize \div batch) * batch
    BY DEF StuckAtWrap
  <2>1. (BufferSize \div batch) * batch \in Nat
    BY <1>3, LastBatch
  <2> QED
    BY <1>1, <2>1 DEF Init
<1> QED
  BY <1>1, <1>6, <1>7 DEF BenchInv

\* What the writer's and the reader's parts are about.
LEMMA KeepsWriter ==
  ASSUME BenchInv, Tail0' = Tail0,
         UNCHANGED <<batch, wcount, witer, wpc, wstart, wend, wbuf, sent>>
  PROVE  batch' \in Batches /\ WriterBatch' /\ Counted' /\ StuckAtWrap'
<1>1. Iterations' = Iterations
  BY DEF Iterations
<1> QED
  BY <1>1 DEF BenchInv, WriterBatch, Counted, StuckAtWrap

LEMMA KeepsReader ==
  ASSUME BenchInv, Head0' = Head0,
         UNCHANGED <<batch, rcount, riter, rpc, rstart, rend, rbuf>>
  PROVE  ReaderBatch'
<1>1. Iterations' = Iterations
  BY DEF Iterations
<1> QED
  BY <1>1 DEF BenchInv, ReaderBatch

LEMMA WriterTriesKeeps ==
  ASSUME IndInv, BenchInv, NEW i \in DOMAIN headStores, WriterTries(i)
  PROVE  BenchInv'
<1> DEFINE head == headStores[i].val
<1>1. /\ witer < Iterations /\ TryReserve(batch, i)
      /\ UNCHANGED <<batch, wcount, rcount, witer, riter>>
  BY DEF WriterTries, benchVars
<1>2. /\ wpc = "idle" /\ WriterLoadsHead(i)
      /\ UNCHANGED <<tailStores, rSees, slots, rpc, rstart, rend, rbuf, sent>>
  BY <1>1 DEF TryReserve, WriterLoadsHead, rvars
<1>3. Head0' = Head0 /\ Tail0' = Tail0 /\ head \in Nat
  BY <1>2, WriterLoads
<1>4. ReaderBatch'
  BY <1>1, <1>2, <1>3, KeepsReader
<1>5. CASE UNCHANGED wvars
  BY <1>1, <1>2, <1>3, <1>4, <1>5, KeepsWriter DEF BenchInv, wvars
<1>6. CASE /\ Reservable(head, Tail0) >= batch
           /\ WriterTakes("chunk", Tail0, Tail0 + batch)
  <2>1. /\ wpc' = "chunk" /\ wstart' = Tail0 /\ wend' = Tail0 + batch
        /\ wbuf' = <<>> /\ wbuf = <<>> /\ wend = Tail0
    BY <1>2, <1>6 DEF WriterTakes, IndInv, WriterInv, BenchInv, WriterBatch
  <2>2. Iterations' = Iterations
    BY <1>1 DEF Iterations
  <2>3. batch' \in Batches /\ WriterBatch' /\ Counted'
    BY <1>1, <1>2, <1>3, <2>1, <2>2 DEF BenchInv, WriterBatch, Counted
  <2>4. StuckAtWrap'
    <3> SUFFICES ASSUME BufferSize % batch # 0
                 PROVE  Tail0 + batch <= (BufferSize \div batch) * batch
      BY <1>1, <2>1 DEF StuckAtWrap
    <3> DEFINE last == (BufferSize \div batch) * batch
    <3>1. batch \in Nat /\ batch > 0
      BY BatchFacts DEF BenchInv
    <3>2. last \in Nat /\ last < BufferSize /\ Tail0 <= last
      BY <2>1, <3>1, LastBatch DEF BenchInv, StuckAtWrap
    <3>3. Tail0 \in Nat /\ BufferSize \in Nat
      BY Facts
    <3>4. ToEnd(Tail0) = BufferSize - Tail0
      BY <3>2, <3>3, FirstLap
    <3>5. /\ Reservable(head, Tail0) <= ToEnd(Tail0)
          /\ Reservable(head, Tail0) \in Int
      BY <1>3, <3>3, Windows
    <3>6. Tail0 + batch <= BufferSize
      BY <1>6, <3>1, <3>3, <3>4, <3>5
    <3>7. witer \in Nat /\ Tail0 = witer * batch
      BY DEF BenchInv, WriterBatch
    <3>8. (witer + 1) * batch = Tail0 + batch
      BY <3>1, <3>7, Times
    <3>9. (witer + 1) * batch <= BufferSize /\ witer + 1 \in Nat
      BY <3>6, <3>7, <3>8
    <3>10. (witer + 1) * batch <= last
      BY <3>1, <3>9, WholeBatches
    <3> QED
      BY <3>8, <3>10
  <2> QED
    BY <1>4, <2>3, <2>4 DEF BenchInv
<1> QED
  BY <1>1, <1>5, <1>6 DEF TryReserve

LEMMA WriterPutsKeeps ==
  ASSUME IndInv, BenchInv, WriterPuts
  PROVE  BenchInv'
<1> DEFINE n == Len(wbuf)
<1>1. /\ wpc # "idle" /\ n < wend - wstart /\ wbuf' = Append(wbuf, wcount)
      /\ wcount' = wcount + 1
      /\ UNCHANGED <<batch, rcount, witer, riter, headStores, tailStores, wpc,
                     wstart, wend, rpc, rstart, rend, rbuf, sent>>
  BY DEF WriterPuts, WriteSlot, rvars
<1>2. wpc = "chunk" /\ wcount = Tail0 + n
  BY <1>1 DEF BenchInv, WriterBatch
<1>3. wcount \in Items
  BY <1>1, <1>2, CountIsItem
<1>4. /\ Len(wbuf') = n + 1 /\ n \in Nat
      /\ \A k \in 1 .. n : wbuf'[k] = wbuf[k]
      /\ wbuf'[n + 1] = wcount
  BY <1>1, <1>3, AppendProperties, LenProperties DEF IndInv, TypeOK
<1>5. Head0' = Head0 /\ Tail0' = Tail0 /\ Iterations' = Iterations /\ Tail0 \in Nat
  BY <1>1, Facts DEF Head0, Tail0, Iterations
<1>6. ReaderBatch'
  BY <1>1, <1>5, KeepsReader
<1>7. WriterBatch'
  BY <1>1, <1>2, <1>4, <1>5 DEF BenchInv, WriterBatch
<1>8. Counted'
  <2>1. \A k \in 1 .. Len(sent) : sent[k] = k - 1
    BY DEF BenchInv, Counted
  <2>2. ASSUME NEW k \in 1 .. n + 1 PROVE wbuf'[k] = Tail0 + k - 1
    <3>1. CASE k = n + 1
      BY <1>2, <1>4, <1>5, <3>1
    <3>2. CASE k # n + 1
      BY <1>4, <3>2 DEF BenchInv, Counted
    <3> QED
      BY <3>1, <3>2
  <2> QED
    BY <1>1, <1>4, <1>5, <2>1, <2>2 DEF Counted
<1> QED
  BY <1>1, <1>6, <1>7, <1>8 DEF BenchInv, StuckAtWrap

\* Joins what is published to what the writer has put.
LEMMA CountGoesOn ==
  ASSUME IndInv, BenchInv
  PROVE  \A k \in 1 .. Len(sent \o wbuf) : (sent \o wbuf)[k] = k - 1
<1> DEFINE n == Len(wbuf)
           all == sent \o wbuf
<1>1. /\ sent \in Seq(Items) /\ wbuf \in Seq(Items)
      /\ Tail0 = Len(sent) /\ Tail0 \in Nat /\ n \in Nat
  BY Facts DEF IndInv, TypeOK, HistoryInv
<1>2. /\ Len(all) = Tail0 + n
      /\ \A k \in 1 .. Tail0 : all[k] = sent[k]
      /\ \A k \in 1 .. n : all[Tail0 + k] = wbuf[k]
  BY <1>1, ConcatParts
<1>3. /\ \A k \in 1 .. Tail0 : sent[k] = k - 1
      /\ \A k \in 1 .. n : wbuf[k] = Tail0 + k - 1
  BY <1>1 DEF BenchInv, Counted
<1> SUFFICES ASSUME NEW k \in 1 .. Tail0 + n PROVE all[k] = k - 1
  BY <1>2
<1> HIDE DEF all
<1>4. CASE k <= Tail0
  <2>1. k \in 1 .. Tail0
    BY <1>1, <1>4
  <2> QED
    BY <1>2, <1>3, <2>1
<1>5. CASE ~ (k <= Tail0)
  <2> DEFINE j == k - Tail0
  <2>1. j \in 1 .. n /\ Tail0 + j = k
    BY <1>1, <1>5
  <2>2. all[Tail0 + j] = Tail0 + j - 1
    BY <1>2, <1>3, <2>1
  <2> QED
    BY <1>1, <2>1, <2>2
<1> QED
  BY <1>4, <1>5

LEMMA WriterCommitsKeeps ==
  ASSUME IndInv, BenchInv, WriterCommits
  PROVE  BenchInv'
<1> DEFINE n == Len(wbuf)
<1>1. /\ wpc = "chunk" /\ n = wend - wstart
      /\ tailStores' = StoreRelease(tailStores, wend) /\ sent' = sent \o wbuf
      /\ wpc' = "idle" /\ wend' = wend /\ wbuf' = <<>>
      /\ witer' = witer + 1
      /\ UNCHANGED <<batch, wcount, rcount, riter, headStores, rpc, rstart,
                     rend, rbuf>>
  BY DEF WriterCommits, CommitWrite, PublishTail, WriterTakes, rvars
<1>2. /\ wstart = Tail0 /\ wend = Tail0 + batch /\ Tail0 = witer * batch
      /\ wcount = Tail0 + n /\ witer \in Nat /\ witer < Iterations
  BY <1>1 DEF IndInv, WriterInv, BenchInv, WriterBatch
<1>3. batch \in Nat /\ Iterations \in Nat /\ Tail0 \in Nat /\ wend \in Nat
  <2>1. Tail0 \in Nat /\ wend \in Nat
    BY Facts DEF IndInv, TypeOK
  <2> QED
    BY <2>1, BatchFacts DEF BenchInv
<1>4. Latest(StoreRelease(tailStores, wend)) = wend
  <2>1. tailStores \in Seq(Store) /\ tailStores # <<>> /\ StoresGrow(tailStores)
    BY DEF IndInv, TypeOK, CountersInv
  <2>2. Latest(tailStores) <= wend
    BY <1>2, <1>3 DEF Tail0
  <2> QED
    BY <1>3, <2>1, <2>2, StoreReleaseProperties
<1>5. Tail0' = wend /\ Head0' = Head0 /\ Iterations' = Iterations
  BY <1>1, <1>4 DEF Tail0, Head0, Iterations
<1>6. (witer + 1) * batch = witer * batch + batch
  BY <1>2, <1>3, Times
<1>7. Len(<<>>) = 0 /\ 1 .. 0 = {}
  BY EmptySeq
<1>8. WriterBatch'
  BY <1>1, <1>2, <1>3, <1>5, <1>6, <1>7 DEF WriterBatch
<1>9. ReaderBatch'
  BY <1>1, <1>5, KeepsReader
<1>10. Counted'
  BY <1>1, <1>7, CountGoesOn DEF Counted
<1> QED
  BY <1>1, <1>8, <1>9, <1>10 DEF BenchInv, StuckAtWrap

LEMMA ReaderTriesKeeps ==
  ASSUME IndInv, BenchInv, NEW i \in DOMAIN tailStores, ReaderTries(i)
  PROVE  BenchInv'
<1> DEFINE tail == tailStores[i].val
<1>1. /\ riter < Iterations /\ ReadExact(batch, i)
      /\ UNCHANGED <<batch, wcount, rcount, witer, riter>>
  BY DEF ReaderTries, benchVars
<1>2. /\ rpc = "idle" /\ ReaderLoadsTail(i)
      /\ UNCHANGED <<headStores, wSees, wpc, wstart, wend, wbuf, sent>>
  BY <1>1 DEF ReadExact, ReaderLoadsTail, wvars
<1>3. Head0' = Head0 /\ Tail0' = Tail0 /\ Iterations' = Iterations
  BY <1>1, <1>2, ReaderLoads DEF Iterations
<1>4. batch' \in Batches /\ WriterBatch' /\ Counted' /\ StuckAtWrap'
  BY <1>1, <1>2, <1>3, KeepsWriter
<1>5. CASE UNCHANGED rvars
  BY <1>1, <1>3, <1>4, <1>5, KeepsReader DEF BenchInv, rvars
<1>6. CASE ReaderTakes("chunk", Head0, Head0 + batch)
  <2>1. /\ rpc' = "chunk" /\ rend' = Head0 + batch /\ rbuf' = <<>>
        /\ rbuf = <<>>
    BY <1>2, <1>6 DEF ReaderTakes, IndInv, ReaderInv
  <2>2. ReaderBatch'
    BY <1>1, <1>3, <2>1 DEF BenchInv, ReaderBatch
  <2> QED
    BY <1>4, <2>2 DEF BenchInv
<1> QED
  BY <1>1, <1>5, <1>6 DEF ReadExact

LEMMA ReaderChecksKeeps ==
  ASSUME IndInv, BenchInv, ReaderChecks
  PROVE  BenchInv'
<1> DEFINE n == Len(rbuf)
           seen == slots[NextReadSlot]
<1>1. /\ rpc = "chunk" /\ n < rend - rstart /\ rbuf' = Append(rbuf, seen)
      /\ rcount' = rcount + 1
      /\ UNCHANGED <<batch, wcount, witer, riter, headStores, tailStores, wpc,
                     wstart, wend, wbuf, rpc, rstart, rend, sent>>
  BY DEF ReaderChecks, ReadSlot, wvars
<1>2. Head0' = Head0 /\ Tail0' = Tail0 /\ Iterations' = Iterations /\ Head0 \in Nat
  BY <1>1, Facts DEF Head0, Tail0, Iterations
<1>3. seen \in Items \cup {NoItem} /\ rbuf \in Seq(Items \cup {NoItem}) /\ n \in Nat
  <2>1. NextReadSlot \in Slots
    BY <1>1, NextReadSlotIs
  <2>2. rbuf \in Seq(Items) /\ slots \in [Slots -> Items \cup {NoItem}]
    BY DEF IndInv, TypeOK
  <2>3. rbuf \in Seq(Items \cup {NoItem})
    BY <2>2
  <2> QED
    BY <2>1, <2>2, <2>3, Facts
<1>4. Len(rbuf') = n + 1
  BY <1>1, <1>3, AppendProperties
<1>5. ReaderBatch'
  BY <1>1, <1>2, <1>3, <1>4 DEF BenchInv, ReaderBatch
<1> QED
  BY <1>1, <1>2, <1>5, KeepsWriter DEF BenchInv

LEMMA ReaderCommitsKeeps ==
  ASSUME IndInv, BenchInv, ReaderCommits
  PROVE  BenchInv'
<1> DEFINE n == Len(rbuf)
<1>1. /\ rpc = "chunk" /\ n = rend - rstart
      /\ headStores' = StoreRelease(headStores, rend)
      /\ rpc' = "idle" /\ rend' = rend /\ rbuf' = <<>>
      /\ riter' = riter + 1
      /\ UNCHANGED <<batch, wcount, rcount, witer, tailStores, wpc, wstart,
                     wend, wbuf, sent>>
  BY DEF ReaderCommits, CommitRead, ReaderTakes, wvars
<1>2. /\ rstart = Head0 /\ rend = Head0 + batch /\ Head0 = riter * batch
      /\ rcount = Head0 + n /\ riter \in Nat /\ riter < Iterations
  BY <1>1 DEF IndInv, ReaderInv, BenchInv, ReaderBatch
<1>3. batch \in Nat /\ Iterations \in Nat /\ Head0 \in Nat /\ rend \in Nat
  <2>1. Head0 \in Nat /\ rend \in Nat
    BY Facts DEF IndInv, TypeOK
  <2> QED
    BY <2>1, BatchFacts DEF BenchInv
<1>4. Latest(StoreRelease(headStores, rend)) = rend
  <2>1. headStores \in Seq(Store) /\ headStores # <<>> /\ StoresGrow(headStores)
    BY DEF IndInv, TypeOK, CountersInv
  <2>2. Latest(headStores) <= rend
    BY <1>2, <1>3 DEF Head0
  <2> QED
    BY <1>3, <2>1, <2>2, StoreReleaseProperties
<1>5. Head0' = rend /\ Tail0' = Tail0 /\ Iterations' = Iterations
  BY <1>1, <1>4 DEF Tail0, Head0, Iterations
<1>6. (riter + 1) * batch = riter * batch + batch
  BY <1>2, <1>3, Times
<1>7. Len(<<>>) = 0
  BY EmptySeq
<1>8. ReaderBatch'
  BY <1>1, <1>2, <1>3, <1>5, <1>6, <1>7 DEF ReaderBatch
<1> QED
  BY <1>1, <1>5, <1>8, KeepsWriter DEF BenchInv

LEMMA BenchNextInv ==
  ASSUME IndInv, BenchInv, [BenchNext]_allVars
  PROVE  IndInv' /\ BenchInv'
<1>1. IndInv'
  BY BenchStepIsStep, NextIndInv
<1>2. CASE \E i \in DOMAIN headStores : WriterTries(i)
  BY <1>1, <1>2, WriterTriesKeeps
<1>3. CASE WriterPuts
  BY <1>1, <1>3, WriterPutsKeeps
<1>4. CASE WriterCommits
  BY <1>1, <1>4, WriterCommitsKeeps
<1>5. CASE \E i \in DOMAIN tailStores : ReaderTries(i)
  BY <1>1, <1>5, ReaderTriesKeeps
<1>6. CASE ReaderChecks
  BY <1>1, <1>6, ReaderChecksKeeps
<1>7. CASE ReaderCommits
  BY <1>1, <1>7, ReaderCommitsKeeps
<1>8. CASE UNCHANGED allVars \/ Joined
  <2>1. UNCHANGED <<batch, wcount, rcount, witer, riter, headStores, tailStores,
                    wpc, wstart, wend, wbuf, rpc, rstart, rend, rbuf, sent>>
    BY <1>8 DEF allVars, Joined, benchVars, vars, wvars, rvars
  <2>2. Head0' = Head0 /\ Tail0' = Tail0
    BY <2>1 DEF Head0, Tail0
  <2> QED
    BY <1>1, <2>1, <2>2, KeepsWriter, KeepsReader DEF BenchInv
<1> QED
  BY <1>2, <1>3, <1>4, <1>5, <1>6, <1>7, <1>8
  DEF BenchNext, BenchWriter, BenchReader
------------------------------------------------------------------------------
LEMMA BenchInvAssertions == ASSUME IndInv, BenchInv PROVE AssertionsHold
<1> DEFINE n == Len(rbuf)
           q == Head0 + n
<1>1. ASSUME rpc = "chunk", n < rend - rstart PROVE slots[NextReadSlot] = rcount
  <2>1. /\ NextReadSlot = q % BufferSize /\ q \in Nat
        /\ q < tailStores[1].val
    BY <1>1, NextReadSlotIs
  <2>2. /\ Head0 \in Nat /\ Tail0 \in Nat /\ tailStores[1].val \in Nat
        /\ tailStores[1].val <= Tail0 /\ n \in Nat
    BY Facts
  <2>3. q \in Head0 .. (Tail0 - 1) /\ q + 1 \in 1 .. Tail0
    BY <2>1, <2>2
  <2>4. slots[q % BufferSize] = sent[q + 1]
    BY <2>3 DEF IndInv, SlotsInv
  <2>5. sent[q + 1] = q
    BY <2>2, <2>3 DEF IndInv, HistoryInv, BenchInv, Counted
  <2>6. rcount = q
    BY DEF BenchInv, ReaderBatch
  <2> QED
    BY <2>1, <2>4, <2>5, <2>6
<1>2. Done => Head0 = Tail0
  BY DEF Done, BenchInv, WriterBatch, ReaderBatch
<1> QED
  BY <1>1, <1>2 DEF AssertionsHold

LEMMA BenchInvariance == BenchSpec => [](IndInv /\ BenchInv)
<1>1. BenchInit => IndInv /\ BenchInv
  BY InitIndInv, InitBenchInv DEF BenchInit
<1>2. IndInv /\ BenchInv /\ [BenchNext]_allVars => (IndInv /\ BenchInv)'
  BY BenchNextInv
<1> QED
  BY <1>1, <1>2, PTL DEF BenchSpec

\* The benchmark's threads only do what RefRingBuffer allows, so what is proved
\* of the ring buffer holds of it.
THEOREM UsesTheRing == BenchSpec => Spec
<1>1. BenchInit => Init
  BY DEF BenchInit
<1>2. IndInv /\ BenchInv /\ [BenchNext]_allVars => [Next]_vars
  BY BenchStepIsStep
<1> QED
  BY <1>1, <1>2, BenchInvariance, PTL DEF BenchSpec, Spec

\* Neither assertion of the benchmark fails.
THEOREM BenchAssertions == BenchSpec => []AssertionsHold
<1>1. IndInv /\ BenchInv => AssertionsHold
  BY BenchInvAssertions
<1> QED
  BY <1>1, BenchInvariance, PTL

\* A batch that does not divide the buffer is never served past the last whole
\* batch of the first lap.
THEOREM NeverPastTheLastBatch == BenchSpec => []StuckAtWrap
<1>1. BenchInv => StuckAtWrap
  BY DEF BenchInv
<1> QED
  BY <1>1, BenchInvariance, PTL

\* From a whole number of batches on there is room for one more before the end.
LEMMA WholeToEnd ==
  ASSUME NEW b \in Nat, b > 0, BufferSize % b = 0, NEW n \in Nat
  PROVE  ToEnd(n * b) >= b
<1> DEFINE m == BufferSize \div b
           q == (n * b) \div BufferSize
           r == (n * b) % BufferSize
<1>1. BufferSize \in Nat /\ m \in Nat /\ BufferSize = b * m
  BY BufferSizeAssumption
<1>2. n * b \in Nat
  BY Times
<1>3. r \in Nat /\ r < BufferSize /\ q \in Nat /\ n * b = BufferSize * q + r
  BY <1>1, <1>2, DivMod DEF Slots
<1> HIDE DEF m, q, r
<1>4. r = b * (n - m * q) /\ n - m * q \in Int
  <2>1. BufferSize * q = b * (m * q) /\ m * q \in Nat
    BY <1>1, <1>3
  <2>2. r = n * b - b * (m * q)
    BY <1>1, <1>2, <1>3, <2>1
  <2> QED
    BY <2>1, <2>2
<1>5. PICK k \in Int : k = n - m * q
  BY <1>4
<1>6. k < m
  <2>1. SUFFICES ASSUME m <= k PROVE FALSE
    BY <1>1
  <2>2. k \in Nat /\ m * b <= k * b
    BY <1>1, <2>1, Times
  <2>3. r = k * b /\ BufferSize = m * b
    BY <1>1, <1>4, <1>5
  <2> QED
    BY <1>1, <1>3, <2>2, <2>3
<1>7. r + b <= BufferSize
  <2>1. k >= 0
    <3>1. SUFFICES ASSUME k <= -1 PROVE FALSE
      OBVIOUS
    <3>2. b * k <= b * (-1)
      BY <3>1
    <3> QED
      BY <1>3, <1>4, <1>5, <3>2
  <2>2. k + 1 \in Nat /\ (k + 1) * b <= m * b /\ (k + 1) * b = k * b + b
    BY <1>1, <1>6, <2>1, Times
  <2>3. r = k * b /\ BufferSize = m * b
    BY <1>1, <1>4, <1>5
  <2> QED
    BY <2>2, <2>3
<1> QED
  BY <1>1, <1>3, <1>7 DEF ToEnd, r

\* If the batch divides the buffer, one of the threads can always go on.
THEOREM OneCanGoOn == BenchSpec => []NeverBothSpin
<1>1. ASSUME IndInv, BenchInv PROVE NeverBothSpin
  <2> SUFFICES ASSUME BufferSize % batch = 0, ~ WriterMoves, ~ ReaderMoves PROVE Done
    BY DEF NeverBothSpin
  <2> USE <1>1
  <2>1. /\ batch \in Nat /\ batch > 0 /\ Iterations \in Nat
        /\ Head0 \in Nat /\ Tail0 \in Nat /\ Head0 <= Tail0
        /\ BufferSize \in Nat /\ BufferSize >= 1
    BY Facts, BatchFacts DEF BenchInv
  <2>2. /\ witer \in Nat /\ riter \in Nat /\ witer <= Iterations /\ riter <= Iterations
        /\ Tail0 = witer * batch /\ Head0 = riter * batch
    BY DEF BenchInv, WriterBatch, ReaderBatch
  <2>3. ToEnd(Tail0) >= batch /\ ToEnd(Head0) >= batch
    BY <2>1, <2>2, WholeToEnd
  <2>4. ToEnd(Tail0) \in Int /\ ToEnd(Head0) \in Int
    BY <2>1 DEF ToEnd
  <2>5. CASE Head0 < Tail0
    <3>1. riter < witer
      <4>1. SUFFICES ASSUME witer <= riter PROVE FALSE
        BY <2>2
      <4>2. witer * batch <= riter * batch
        BY <2>1, <2>2, <4>1, Times
      <4> QED
        BY <2>1, <2>2, <2>5, <4>2
    <3>2. riter + 1 \in Nat /\ (riter + 1) * batch <= Tail0 /\ (riter + 1) * batch = Head0 + batch
      BY <2>1, <2>2, <3>1, Times
    <3>3. Tail0 - Head0 >= batch
      BY <2>1, <3>2
    <3>4. Readable(Head0, Tail0) >= batch
      BY <2>1, <2>3, <2>4, <3>3 DEF Readable, Least
    <3> QED
      <4>1. riter < Iterations
        BY <2>1, <2>2, <3>1
      <4> QED
        BY <3>4, <4>1 DEF ReaderMoves
  <2>6. CASE Head0 = Tail0
    <3>1. batch <= BufferSize
      <4>1. 0 * batch = 0 /\ ToEnd(0 * batch) >= batch
        BY <2>1, WholeToEnd
      <4>2. ToEnd(0) = BufferSize
        BY <2>1, FirstLap
      <4> QED
        BY <4>1, <4>2
    <3>2. Reservable(Head0, Tail0) >= batch
      BY <2>1, <2>3, <2>4, <2>6, <3>1 DEF Reservable, Writable, Least
    <3>3. witer = Iterations
      BY <2>1, <2>2, <3>2 DEF WriterMoves
    <3>4. riter = Iterations
      <4>1. SUFFICES ASSUME riter < Iterations PROVE FALSE
        BY <2>1, <2>2
      <4>2. riter + 1 \in Nat /\ riter + 1 <= Iterations
        BY <2>1, <2>2, <4>1
      <4>3. (riter + 1) * batch <= Iterations * batch /\ (riter + 1) * batch = Head0 + batch
        BY <2>1, <2>2, <4>2, Times
      <4> QED
        BY <2>1, <2>2, <2>6, <3>3, <4>3
    <3> QED
      BY <3>3, <3>4 DEF Done
  <2> QED
    BY <2>1, <2>5, <2>6
<1> QED
  BY <1>1, BenchInvariance, PTL
==============================================================================
