--------------------------- MODULE PipelineProofs ---------------------------
(***************************************************************************)
(* The safety of the whole pipeline for every size of the rings, of the    *)
(* messages and of the batches: IndInv of Pipeline is inductive, and the   *)
(* properties follow from it.                                              *)
(***************************************************************************)
EXTENDS Pipeline, RingOpsProofs, SequenceTheorems

\* A queue of one work request or one completion.
LEMMA One ==
  ASSUME NEW x
  PROVE  /\ Append(<<>>, x) = <<x>> /\ Tail(<<x>>) = <<>>
         /\ <<x>>[1] = x /\ <<x>> # <<>> /\ DOMAIN <<x>> = {1}
  OBVIOUS

LEMMA OneTyped ==
  ASSUME NEW S
  PROVE  <<>> \in Seq(S) /\ \A x \in S : <<x>> \in Seq(S)
  OBVIOUS

LEMMA Facts ==
  ASSUME IndInv
  PROVE  /\ CHead \in Nat /\ CTail \in Nat /\ SHead \in Nat /\ STail \in Nat
         /\ CSlots \in [Slots -> Nat \cup {NoItem}]
         /\ SSlots \in [Slots -> Nat \cup {NoItem}]
         /\ CMsg \in Nat /\ CMsg > 0 /\ SMsg \in Nat /\ SMsg > 0
         /\ batch \in Nat /\ batch > 0
         /\ BufferSize \in Nat /\ BufferSize > 0
         /\ sent \in Seq(Nat) /\ got \in Seq(Nat)
         /\ "client" \in Sides /\ "server" \in Sides
  BY BufferSizeAssumption, SMTT(30)
  DEF IndInv, TypeOK, Rings, Sides, CHead, CTail, SHead, STail, CSlots, SSlots,
      CMsg, SMsg

\* The rings after one of the four counters has been stored.
LEMMA HeadStored ==
  ASSUME TypeOK, NEW s \in Sides, NEW x \in Nat, ring' = [ring EXCEPT ![s].head = x]
  PROVE  /\ ring' \in [Sides -> Rings]
         /\ ring'[s].head = x /\ ring'[s].tail = ring[s].tail
         /\ ring'[s].slots = ring[s].slots
         /\ \A t \in Sides \ {s} : ring'[t] = ring[t]
  BY DEF TypeOK, Rings

LEMMA TailStored ==
  ASSUME TypeOK, NEW s \in Sides, NEW x \in Nat, ring' = [ring EXCEPT ![s].tail = x]
  PROVE  /\ ring' \in [Sides -> Rings]
         /\ ring'[s].tail = x /\ ring'[s].head = ring[s].head
         /\ ring'[s].slots = ring[s].slots
         /\ \A t \in Sides \ {s} : ring'[t] = ring[t]
  BY DEF TypeOK, Rings

\* What depends on the rings, the cards, the adapters and the history only.
LEMMA HostsMove ==
  ASSUME IndInv, UNCHANGED <<ring, up, sq, rq, moved, cq, msg, apc, chunk, sent, got>>
  PROVE  /\ UNCHANGED <<CHead, CTail, SHead, STail, CSlots, SSlots, CMsg, SMsg,
                        Served, Acked>>
         /\ SendInv' /\ RecvInv' /\ MoveInv' /\ FailInv' /\ FlowInv' /\ DataInv'
<1>1. UNCHANGED <<CHead, CTail, SHead, STail, CSlots, SSlots, CMsg, SMsg, Served, Acked>>
  BY DEF CHead, CTail, SHead, STail, CSlots, SSlots, CMsg, SMsg, Served, Acked
<1>2. SendInv' /\ RecvInv'
  BY <1>1 DEF IndInv, SendInv, MessageReady, RecvInv, RoomReady
<1>3. MoveInv' /\ FailInv'
  BY <1>1 DEF IndInv, MoveInv, FailInv
<1>4. UNCHANGED <<Arrived, Left, SameMessage>>
  BY <1>1 DEF Arrived, Left, SameMessage
<1>5. FlowInv' /\ DataInv'
  BY <1>1, <1>4 DEF IndInv, FlowInv, DataInv
<1> QED
  BY <1>1, <1>2, <1>3, <1>5
------------------------------------------------------------------------------
(* The hosts.                                                              *)

LEMMA FillsKeeps ==
  ASSUME IndInv, Fills, UNCHANGED avars
  PROVE  IndInv'
<1>1. /\ hpc["client"] = "fill" /\ next' = next + batch
      /\ hpc' = [hpc EXCEPT !["client"] = "write"]
      /\ UNCHANGED <<ring, up, sq, rq, moved, cq, msg, apc, chunk, batch, room, sent,
                     hchunk, expected, got>>
  BY DEF Fills, HostGoto, qpVars, queues, shvars, avars
<1>2. /\ UNCHANGED <<CHead, CTail, SHead, STail, CSlots, SSlots, CMsg, SMsg,
                     Served, Acked>>
      /\ SendInv' /\ RecvInv' /\ MoveInv' /\ FailInv' /\ FlowInv' /\ DataInv'
  BY <1>1, HostsMove
<1>3. /\ hpc'["client"] = "write" /\ hpc'["server"] = hpc["server"]
      /\ next \in Nat /\ next <= MaxData /\ batch \in Nat /\ MaxData \in Nat
  BY <1>1, HostAssumption DEF IndInv, TypeOK, Sides, ClientRingInv
<1>4. TypeOK'
  <2>1. next' \in 0 .. MaxData + batch
    BY <1>1, <1>3
  <2> QED
    BY <1>1, <2>1 DEF IndInv, TypeOK
<1>5. ProcessInv'
  BY <1>1, <1>3 DEF IndInv, ProcessInv, HostGone, Sides
<1>6. ClientRingInv'
  BY <1>1, <1>2, <1>3 DEF IndInv, ClientRingInv
<1>7. ServerRingInv' /\ OddInv'
  BY <1>1, <1>2, <1>3 DEF IndInv, ServerRingInv, OddInv
<1>8. AlignInv'
  <2>1. Aligned' = Aligned
    BY <1>1, <1>2 DEF Aligned, SameMessage
  <2> QED
    BY <1>1, <1>2, <1>3, <2>1 DEF IndInv, AlignInv
<1> QED
  BY <1>2, <1>4, <1>5, <1>6, <1>7, <1>8 DEF IndInv

\* The time runs out, or the last byte is written to the IPC socket.
LEMMA HostEndsKeeps ==
  ASSUME IndInv, NEW s \in Sides, TimesOut(s) \/ SaysLast(s), UNCHANGED avars
  PROVE  IndInv'
<1> DEFINE to == hpc'[s]
<1>1. /\ \/ hpc[s] \in {"write", "read"} /\ hpc' = [hpc EXCEPT ![s] = "last"]
         \/ /\ hpc[s] = "last"
            /\ \/ up[s] /\ hpc' = [hpc EXCEPT ![s] = "ended"]
               \/ ~ up[s] /\ hpc' = [hpc EXCEPT ![s] = "broken"]
      /\ UNCHANGED <<ring, up, sq, rq, moved, cq, msg, apc, chunk, batch, next, room,
                     sent, hchunk, expected, got>>
  BY DEF TimesOut, SaysLast, HostGoto, qpVars, queues, chvars, shvars, avars
<1>2. /\ UNCHANGED <<CHead, CTail, SHead, STail, CSlots, SSlots, CMsg, SMsg,
                     Served, Acked>>
      /\ SendInv' /\ RecvInv' /\ MoveInv' /\ FailInv' /\ FlowInv' /\ DataInv'
  BY <1>1, HostsMove
<1>3. /\ to \in {"last", "ended", "broken"}
      /\ \A t \in Sides \ {s} : hpc'[t] = hpc[t]
      /\ to = "broken" => ~ up[s] /\ hpc[s] = "last"
      /\ hpc[s] \notin {"ended", "broken", "mismatch"}
      /\ hpc' \in [Sides -> {"fill", "write", "copy", "last", "ended", "broken",
                             "read", "check", "mismatch"}]
  BY <1>1 DEF IndInv, TypeOK
<1>4. TypeOK'
  BY <1>1, <1>3 DEF IndInv, TypeOK
<1>5. ProcessInv'
  <2>1. /\ hpc'["client"] \in {"fill", "write", "copy", "last", "ended", "broken"}
        /\ hpc'["server"] \in {"read", "check", "last", "ended", "broken", "mismatch"}
    BY <1>3 DEF IndInv, ProcessInv, Sides
  <2>2. ASSUME NEW t \in Sides
        PROVE  /\ up[t] <=> apc[t] \notin {"panicked", "exited"}
               /\ apc[t] = "exited" => hpc'[t] \in {"ended", "broken", "mismatch"}
               /\ hpc'[t] = "broken" => apc[t] = "panicked"
    <3>1. CASE t = s
      BY <1>3, <3>1 DEF IndInv, ProcessInv, HostGone
    <3>2. CASE t # s
      BY <1>3, <3>2 DEF IndInv, ProcessInv, HostGone
    <3> QED
      BY <3>1, <3>2
  <2> QED
    BY <1>1, <2>1, <2>2 DEF ProcessInv, HostGone
<1>6. /\ hpc'["client"] = hpc["client"] \/ hpc'["client"] \in {"last", "ended", "broken"}
      /\ hpc'["server"] = hpc["server"] \/ hpc'["server"] \in {"last", "ended", "broken"}
  BY <1>3 DEF Sides
<1>7. ClientRingInv' /\ ServerRingInv' /\ OddInv'
  BY <1>1, <1>2, <1>6 DEF IndInv, ClientRingInv, ServerRingInv, OddInv
<1>8. AlignInv'
  <2>1. Aligned' = Aligned
    BY <1>1, <1>2 DEF Aligned, SameMessage
  <2> QED
    BY <1>1, <1>2, <1>6, <2>1 DEF IndInv, AlignInv
<1> QED
  BY <1>2, <1>4, <1>5, <1>7, <1>8 DEF IndInv

\* A batch divides the ring and everything in it, so there is room for all of a
\* batch or for nothing.
LEMMA WholeBatches ==
  ASSUME NEW b \in Nat \ {0}, NEW m \in Nat \ {0}, NEW head \in Nat, NEW tail \in Nat,
         BufferSize % b = 0, m % b = 0, head % m = 0, tail % b = 0,
         BufferSize - (tail - head) > 0
  PROVE  BufferSize - (tail - head) >= b
<1> DEFINE qB == BufferSize \div b
           qm == m \div b
           qh == head \div m
           qt == tail \div b
<1>1. BufferSize = b * qB /\ qB \in Int
  BY BufferSizeAssumption
<1>2. m = b * qm /\ qm \in Int
  OBVIOUS
<1>3. head = m * qh /\ qh \in Int
  OBVIOUS
<1>4. tail = b * qt /\ qt \in Int
  OBVIOUS
<1> HIDE DEF qB, qm, qh, qt
<1>5. qm * qh \in Int /\ head = b * (qm * qh)
  BY <1>2, <1>3
<1> DEFINE r == qm * qh
           q == qB - qt + r
<1> HIDE DEF r
<1>6. q \in Int /\ BufferSize - (tail - head) = b * q
  <2>1. r \in Int /\ head = b * r
    BY <1>5 DEF r
  <2>2. b * (qB - qt + r) = b * qB - b * qt + b * r
    BY <1>1, <1>4, <2>1
  <2> QED
    BY <1>1, <1>4, <2>1, <2>2
<1> HIDE DEF q
<1>7. q > 0
  BY <1>6
<1> QED
  BY <1>6, <1>7

\* The sum of two multiples of m is one.
LEMMA SumOfMultiples ==
  ASSUME NEW m \in Nat \ {0}, NEW x \in Nat, NEW y \in Nat, x % m = 0, y % m = 0
  PROVE  (x + y) % m = 0
<1> DEFINE p == x \div m
           q == y \div m
<1>1. x = m * p /\ p \in Int /\ y = m * q /\ q \in Int
  OBVIOUS
<1> HIDE DEF p, q
<1>2. x + y = m * (p + q) + 0 /\ p + q \in Int
  BY <1>1
<1>3. ASSUME NEW k \in Int PROVE (m * k + 0) % m = 0
  OBVIOUS
<1> QED
  BY <1>2, <1>3

LEMMA LoadsKeeps ==
  ASSUME IndInv, Loads, UNCHANGED avars
  PROVE  IndInv'
<1> DEFINE w == BufferSize - (CTail - CHead)
<1>1. /\ hpc["client"] = "write" /\ next <= MaxData
      /\ room' = Least(batch, w) /\ room' # 0
      /\ hpc' = [hpc EXCEPT !["client"] = "copy"]
      /\ UNCHANGED <<ring, up, sq, rq, moved, cq, msg, apc, chunk, batch, next, sent,
                     hchunk, expected, got>>
  BY DEF Loads, HostGoto, Writable, CHead, CTail, qpVars, queues, shvars, avars
<1>2. /\ UNCHANGED <<CHead, CTail, SHead, STail, CSlots, SSlots, CMsg, SMsg,
                     Served, Acked>>
      /\ SendInv' /\ RecvInv' /\ MoveInv' /\ FailInv' /\ FlowInv' /\ DataInv'
  BY <1>1, HostsMove
<1>3. /\ hpc'["client"] = "copy" /\ hpc'["server"] = hpc["server"]
      /\ CTail <= CHead + BufferSize /\ CHead <= CTail /\ batch <= next
  BY <1>1 DEF IndInv, TypeOK, Sides, ClientRingInv
<1>4. room' \in Nat /\ room' > 0 /\ room' <= batch /\ room' <= w
  BY <1>1, <1>3, Facts, SMTT(30) DEF Least
<1>5. TypeOK'
  BY <1>1, <1>4 DEF IndInv, TypeOK
<1>6. ProcessInv'
  BY <1>1, <1>3 DEF IndInv, ProcessInv, HostGone, Sides
<1>7. ClientRingInv'
  BY <1>1, <1>2, <1>3, <1>4, Facts DEF IndInv, ClientRingInv
<1>8. ServerRingInv' /\ OddInv'
  BY <1>1, <1>2, <1>3 DEF IndInv, ServerRingInv, OddInv
<1>9. AlignInv'
  <2>1. Aligned' = Aligned
    BY <1>1, <1>2 DEF Aligned, SameMessage
  <2>2. ASSUME Aligned PROVE room' = batch
    <3>1. /\ BufferSize % batch = 0 /\ CMsg % batch = 0
          /\ CHead % CMsg = 0 /\ CTail % batch = 0
      BY <2>2 DEF Aligned, CMsg, IndInv, AlignInv
    <3>2. w > 0
      BY <1>4, Facts
    <3>3. w >= batch
      BY <3>1, <3>2, Facts, WholeBatches, SMTT(30)
    <3> QED
      BY <1>1, <3>3, Facts DEF Least
  <2> QED
    BY <1>1, <1>2, <1>3, <2>1, <2>2 DEF IndInv, AlignInv
<1> QED
  BY <1>2, <1>5, <1>6, <1>7, <1>8, <1>9 DEF IndInv

\* What Sender::write copies goes behind the published items, and to no slot of theirs.
LEMMA CopiesBehind ==
  ASSUME IndInv, room \in Nat, CTail + room <= CHead + BufferSize, batch <= next
  PROVE  /\ CopiedSlots(room) \in [Slots -> Nat \cup {NoItem}]
         /\ \A p \in CHead .. CTail - 1 :
              CopiedSlots(room)[p % BufferSize] = CSlots[p % BufferSize]
         /\ \A k \in 0 .. room - 1 :
              CopiedSlots(room)[(CTail + k) % BufferSize] = Buffer(k)
<1> DEFINE K == 0 .. room - 1
           slot(k) == CopySlot(CTail, room, k)
<1>1. /\ CHead \in Nat /\ CTail \in Nat /\ CHead <= CTail /\ room <= BufferSize
      /\ batch \in Nat /\ next \in Nat /\ BufferSize \in Nat
      /\ CSlots \in [Slots -> Nat \cup {NoItem}]
  BY Facts, HostAssumption, SMTT(30) DEF IndInv, ClientRingInv, TypeOK
<1>2. \A k \in K : k \in Nat /\ k < room
  BY <1>1
<1>3. \A k \in K : Buffer(k) \in Nat
  BY <1>1, <1>2 DEF Buffer
<1>4. \A k \in K : slot(k) = (CTail + k) % BufferSize /\ slot(k) \in Slots
  BY <1>1, <1>2, CopySlots
<1>5. \A j, k \in K : slot(j) = slot(k) => j = k
  <2>1. SUFFICES ASSUME NEW j \in K, NEW k \in K, j < k PROVE slot(j) # slot(k)
    BY <1>2
  <2>2. /\ CTail + j \in Nat /\ CTail + k \in Nat
        /\ CTail + j < CTail + k /\ CTail + k < (CTail + j) + BufferSize
    BY <1>1, <1>2, <2>1
  <2>3. (CTail + j) % BufferSize # (CTail + k) % BufferSize
    BY <2>2, ModDistinct
  <2> QED
    BY <1>4, <2>1, <2>3
<1>6. CopiedSlots(room) =
        [s \in Slots |-> IF \E k \in K : slot(k) = s
                         THEN Buffer(CHOOSE k \in K : slot(k) = s)
                         ELSE CSlots[s]]
  BY DEF CopiedSlots, CTail, CSlots
<1> HIDE DEF slot, K
<1>7. \A s \in Slots :
        (\E k \in K : slot(k) = s) => (CHOOSE k \in K : slot(k) = s) \in K
  OBVIOUS
<1>8. CopiedSlots(room) \in [Slots -> Nat \cup {NoItem}]
  BY <1>1, <1>3, <1>6, <1>7
<1>9. ASSUME NEW k \in K
      PROVE  CopiedSlots(room)[(CTail + k) % BufferSize] = Buffer(k)
  <2>1. (CHOOSE j \in K : slot(j) = slot(k)) = k
    BY <1>5, <1>9
  <2>2. CopiedSlots(room)[slot(k)] = Buffer(CHOOSE j \in K : slot(j) = slot(k))
    BY <1>4, <1>6, <1>9
  <2> QED
    BY <1>4, <1>9, <2>1, <2>2
<1>10. ASSUME NEW p \in CHead .. CTail - 1
       PROVE  CopiedSlots(room)[p % BufferSize] = CSlots[p % BufferSize]
  <2>1. p \in Nat /\ p % BufferSize \in Slots
    BY <1>1, <1>10, DivMod
  <2>2. ASSUME NEW k \in K PROVE slot(k) # p % BufferSize
    <3>1. CTail + k \in Nat /\ p < CTail + k /\ CTail + k < p + BufferSize
      BY <1>1, <1>2, <1>10, <2>1
    <3> QED
      BY <1>4, <2>1, <3>1, ModDistinct
  <2> QED
    BY <1>6, <2>1, <2>2
<1> QED
  BY <1>8, <1>9, <1>10 DEF K

LEMMA WritesKeeps ==
  ASSUME IndInv, Writes, UNCHANGED avars
  PROVE  IndInv'
<1> DEFINE run == [k \in 1 .. room |-> Buffer(k - 1)]
<1>1. /\ hpc["client"] = "copy"
      /\ ring' = [ring EXCEPT !["client"].slots = CopiedSlots(room),
                              !["client"].tail = @ + room]
      /\ sent' = sent \o run
      /\ hpc' = [hpc EXCEPT !["client"] = IF room = batch THEN "fill" ELSE "write"]
      /\ UNCHANGED <<up, sq, rq, moved, cq, msg, apc, chunk, batch, next, room,
                     hchunk, expected, got>>
  BY DEF Writes, HostGoto, queues, shvars, avars
<1>2. /\ next <= MaxData /\ batch <= next /\ next \in Nat
      /\ room \in Nat /\ room > 0 /\ room <= batch
      /\ CHead <= CTail /\ CTail + room <= CHead + BufferSize /\ CTail = Len(sent)
  BY <1>1, HostAssumption DEF IndInv, ClientRingInv, TypeOK
<1>3. /\ CopiedSlots(room) \in [Slots -> Nat \cup {NoItem}]
      /\ \A p \in CHead .. CTail - 1 :
           CopiedSlots(room)[p % BufferSize] = CSlots[p % BufferSize]
      /\ \A k \in 0 .. room - 1 :
           CopiedSlots(room)[(CTail + k) % BufferSize] = Buffer(k)
  BY <1>2, CopiesBehind
<1>4. /\ ring' \in [Sides -> Rings] /\ ring'["server"] = ring["server"]
      /\ CHead' = CHead /\ CTail' = CTail + room /\ CSlots' = CopiedSlots(room)
  <2> DEFINE c == [ring["client"] EXCEPT !.slots = CopiedSlots(room), !.tail = @ + room]
  <2>1. ring["client"] \in Rings /\ ring["client"].tail + room \in Nat
    <3>1. ring["client"] \in Rings
      BY DEF IndInv, TypeOK, Sides
    <3>2. ring["client"].tail \in Nat
      BY <3>1 DEF Rings
    <3> QED
      BY <1>2, <3>1, <3>2
  <2>2. /\ c \in Rings /\ c.head = ring["client"].head
        /\ c.tail = ring["client"].tail + room /\ c.slots = CopiedSlots(room)
    BY <1>3, <2>1 DEF Rings
  <2>3. ring' = [ring EXCEPT !["client"] = c]
    BY <1>1
  <2> HIDE DEF c
  <2>4. /\ ring' \in [Sides -> Rings] /\ ring'["server"] = ring["server"]
        /\ ring'["client"] = c
    BY <2>2, <2>3 DEF IndInv, TypeOK, Sides
  <2> QED
    BY <2>2, <2>4 DEF CHead, CTail, CSlots
<1>5. UNCHANGED <<SHead, STail, SSlots, CMsg, SMsg, Served, Acked>>
  BY <1>1, <1>4 DEF SHead, STail, SSlots, CMsg, SMsg, Served, Acked
<1>6. UNCHANGED <<Arrived, Left, SameMessage>>
  BY <1>4, <1>5, <1>1 DEF Arrived, Left, SameMessage
<1>7. /\ hpc'["client"] = (IF room = batch THEN "fill" ELSE "write")
      /\ hpc'["server"] = hpc["server"]
  BY <1>1 DEF IndInv, TypeOK, Sides
<1>8. /\ run \in Seq(Nat) /\ Len(run) = room
      /\ \A k \in 1 .. room : run[k] = next - batch + k - 1
  <2>1. \A k \in 1 .. room : Buffer(k - 1) = next - batch + k - 1 /\ Buffer(k - 1) \in Nat
    BY <1>2, Facts, SMTT(30) DEF Buffer
  <2> QED
    BY <1>2, <2>1
<1> HIDE DEF run
<1>9. /\ sent' \in Seq(Nat) /\ Len(sent') = CTail'
      /\ \A k \in 1 .. CTail : sent'[k] = sent[k]
      /\ \A k \in 1 .. room : sent'[CTail + k] = next - batch + k - 1
  <2>1. sent \in Seq(Nat) /\ CTail \in Nat
    BY Facts
  <2>2. /\ sent' \in Seq(Nat) /\ Len(sent') = CTail + room
        /\ \A k \in 1 .. CTail + room :
             sent'[k] = IF k <= CTail THEN sent[k] ELSE run[k - CTail]
    BY <1>1, <1>2, <1>8, <2>1, ConcatProperties
  <2>3. ASSUME NEW k \in 1 .. room PROVE sent'[CTail + k] = run[k]
    <3>1. CTail + k \in 1 .. CTail + room /\ ~ (CTail + k <= CTail)
          /\ (CTail + k) - CTail = k
      BY <1>2, <2>1, <2>3
    <3> QED
      BY <2>2, <3>1
  <2> QED
    <3>1. \A k \in 1 .. CTail : k \in 1 .. CTail + room /\ k <= CTail
      BY <1>2, <2>1
    <3>2. \A k \in 1 .. CTail : sent'[k] = sent[k]
      BY <2>2, <3>1
    <3> QED
      BY <1>4, <1>8, <2>2, <2>3, <3>2
<1>10. TypeOK'
  <2>1. next' \in 0 .. MaxData + batch'
    BY <1>1 DEF IndInv, TypeOK
  <2> QED
    BY <1>1, <1>4, <1>9, <2>1 DEF IndInv, TypeOK
<1>11. ProcessInv'
  BY <1>1, <1>7 DEF IndInv, ProcessInv, HostGone, Sides
<1>12. ClientRingInv'
  <2>1. ASSUME NEW p \in CHead .. CTail + room - 1
        PROVE  CSlots'[p % BufferSize] = sent'[p + 1]
    <3>1. CASE p < CTail
      <4>1. CSlots[p % BufferSize] = sent[p + 1] /\ p \in CHead .. CTail - 1
        BY <2>1, <3>1, Facts DEF IndInv, ClientRingInv
      <4>2. p + 1 \in 1 .. CTail
        BY <4>1, Facts
      <4> QED
        BY <1>3, <1>4, <1>9, <4>1, <4>2
    <3>2. CASE p >= CTail
      <4> DEFINE k == p - CTail
      <4>1. k \in 0 .. room - 1 /\ p = CTail + k /\ k + 1 \in 1 .. room
            /\ p + 1 = CTail + (k + 1)
        BY <1>2, <2>1, <3>2, Facts
      <4>2. CSlots'[p % BufferSize] = next - batch + k
        BY <1>3, <1>4, <4>1 DEF Buffer
      <4>3. sent'[p + 1] = next - batch + (k + 1) - 1
        BY <1>9, <4>1
      <4> QED
        BY <1>2, <4>1, <4>2, <4>3, Facts
    <3> QED
      BY <2>1, <3>1, <3>2, Facts
  <2>2. /\ CHead' <= CTail' /\ CTail' <= CHead' + BufferSize /\ CTail' = Len(sent')
        /\ hpc'["client"] \in {"fill", "copy"} => next' <= MaxData
        /\ hpc'["client"] \in {"write", "copy"} => batch' <= next'
        /\ hpc'["client"] # "copy"
    BY <1>1, <1>2, <1>4, <1>7, <1>9, Facts, SMTT(30)
  <2>3. \A p \in CHead' .. CTail' - 1 : CSlots'[p % BufferSize] = sent'[p + 1]
    <3>1. CHead' .. CTail' - 1 = CHead .. CTail + room - 1
      BY <1>2, <1>4, Facts
    <3> QED
      BY <2>1, <3>1
  <2> QED
    BY <2>2, <2>3 DEF ClientRingInv
<1>13. SendInv' /\ RecvInv'
  <2>1. MessageReady => MessageReady'
    BY <1>2, <1>4, <1>5, Facts DEF MessageReady, ToEnd
  <2>2. RoomReady' = RoomReady
    BY <1>5 DEF RoomReady
  <2> QED
    BY <1>1, <1>4, <1>5, <2>1, <2>2 DEF IndInv, SendInv, RecvInv
<1>14. MoveInv' /\ FailInv' /\ FlowInv'
  BY <1>1, <1>5, <1>6 DEF IndInv, MoveInv, FailInv, FlowInv
<1>15. ServerRingInv' /\ OddInv'
  BY <1>1, <1>4, <1>5, <1>7 DEF IndInv, ServerRingInv, OddInv
<1>16. DataInv'
  <2> SUFFICES ASSUME SameMessage PROVE DataInv'
    BY <1>6 DEF DataInv
  <2>1. /\ Arrived <= CTail /\ Arrived \in Nat /\ STail <= Arrived
        /\ moved \in Int /\ Len(got) <= STail /\ Len(got) \in Nat
    <3>1. STail <= Arrived /\ Arrived \in Nat
      BY Facts DEF Arrived
    <3>2. Arrived <= CTail
      BY DEF IndInv, DataInv
    <3>3. moved \in Int
      BY DEF IndInv, TypeOK, Delivered
    <3> QED
      BY <3>1, <3>2, <3>3, Facts DEF IndInv, ServerRingInv
  <2>2. Arrived' <= CTail'
    BY <1>2, <1>4, <1>6, <2>1, Facts
  <2>3. \A p \in SHead .. Arrived - 1 : SSlots[p % BufferSize] = sent'[p + 1]
    <3> SUFFICES ASSUME NEW p \in SHead .. Arrived - 1
                 PROVE  SSlots[p % BufferSize] = sent'[p + 1]
      OBVIOUS
    <3>1. SSlots[p % BufferSize] = sent[p + 1]
      BY DEF IndInv, DataInv
    <3>2. p + 1 \in 1 .. CTail
      BY <2>1, Facts
    <3> QED
      BY <1>9, <3>1, <3>2
  <2>4. \A k \in 0 .. moved - 1 :
          /\ STail + k < CTail + room
          /\ SSlots[(STail + k) % BufferSize] = sent'[STail + k + 1]
    <3> SUFFICES ASSUME NEW k \in 0 .. moved - 1
                 PROVE  /\ STail + k < CTail + room
                        /\ SSlots[(STail + k) % BufferSize] = sent'[STail + k + 1]
      OBVIOUS
    <3>1. STail + k < CTail /\ SSlots[(STail + k) % BufferSize] = sent[STail + k + 1]
      BY DEF IndInv, DataInv
    <3>2. STail + k + 1 \in 1 .. CTail
      BY <2>1, <3>1, Facts, SMTT(30)
    <3>3. sent'[STail + k + 1] = sent[STail + k + 1]
      BY <1>9, <3>2
    <3>4. STail + k < CTail + room
      BY <1>2, <3>1, Facts, SMTT(30)
    <3> QED
      BY <3>1, <3>3, <3>4
  <2>5. \A k \in 1 .. Len(got) : got[k] = sent'[k]
    BY <1>9, <2>1, Facts DEF IndInv, DataInv
  <2> QED
    BY <1>1, <1>4, <1>5, <1>6, <2>2, <2>3, <2>4, <2>5 DEF DataInv
<1>17. AlignInv'
  <2>1. Aligned' = Aligned
    BY <1>1, <1>5, <1>6 DEF Aligned
  <2> SUFFICES ASSUME Aligned PROVE AlignInv'
    BY <2>1 DEF AlignInv
  <2>2. /\ CHead % CMsg = 0 /\ CTail % batch = 0 /\ room = batch
        /\ next = CTail + batch /\ hpc["server"] # "mismatch"
        /\ \A k \in 1 .. Len(sent) : sent[k] = k - 1
    BY <1>1 DEF IndInv, AlignInv
  <2>3. (CTail + batch) % batch = 0
    <3>1. batch % batch = 0
      BY Facts
    <3> QED
      BY <2>2, <3>1, Facts, SumOfMultiples, SMTT(30)
  <2>4. \A k \in 1 .. Len(sent') : sent'[k] = k - 1
    <3> SUFFICES ASSUME NEW k \in 1 .. CTail + batch PROVE sent'[k] = k - 1
      BY <1>4, <1>9, <2>2
    <3>1. CASE k <= CTail
      BY <1>2, <1>9, <2>2, <3>1, Facts
    <3>2. CASE k > CTail
      <4>1. k - CTail \in 1 .. room /\ CTail + (k - CTail) = k
        BY <2>2, <3>2, Facts
      <4>2. sent'[CTail + (k - CTail)] = next - batch + (k - CTail) - 1
        BY <1>9, <4>1
      <4>3. CTail \in Nat /\ k \in Int /\ batch \in Nat
        BY <4>1, Facts
      <4> QED
        BY <2>2, <4>1, <4>2, <4>3
    <3> QED
      BY <1>2, <3>1, <3>2, Facts
  <2>5. next' = CTail' /\ hpc'["client"] = "fill" /\ CHead' % CMsg' = 0
        /\ CTail' % batch' = 0 /\ hpc'["server"] # "mismatch"
    BY <1>1, <1>4, <1>5, <1>7, <2>2, <2>3
  <2> QED
    BY <2>4, <2>5 DEF AlignInv
<1> QED
  BY <1>10, <1>11, <1>12, <1>13, <1>14, <1>15, <1>16, <1>17 DEF IndInv

LEMMA ReadsKeeps ==
  ASSUME IndInv, Reads, UNCHANGED avars
  PROVE  IndInv'
<1>1. /\ hpc["server"] = "read" /\ hpc' = [hpc EXCEPT !["server"] = "check"]
      /\ hchunk' = [start |-> SHead, end |-> SHead + Least(STail - SHead, ToEnd(SHead))]
      /\ UNCHANGED <<ring, up, sq, rq, moved, cq, msg, apc, chunk, batch, next, room,
                     sent, expected, got>>
  BY DEF Reads, HostGoto, Readable, SHead, STail, qpVars, queues, chvars, avars
<1>2. /\ UNCHANGED <<CHead, CTail, SHead, STail, CSlots, SSlots, CMsg, SMsg,
                     Served, Acked>>
      /\ SendInv' /\ RecvInv' /\ MoveInv' /\ FailInv' /\ FlowInv' /\ DataInv'
  BY <1>1, HostsMove
<1>3. hpc'["server"] = "check" /\ hpc'["client"] = hpc["client"]
  BY <1>1 DEF IndInv, TypeOK, Sides
<1>4. /\ SHead \in Nat /\ STail \in Nat /\ BufferSize \in Nat
      /\ SHead <= STail /\ STail <= SHead + BufferSize
      /\ ToEnd(SHead) \in Nat /\ ToEnd(SHead) > 0
  <2>1. SHead % BufferSize \in 0 .. BufferSize - 1
    BY Facts, DivMod DEF Slots
  <2> QED
    BY <2>1, Facts, SMTT(30) DEF IndInv, ServerRingInv, ToEnd
<1>5. /\ hchunk' \in Chunks /\ hchunk'.start = SHead
      /\ SHead <= hchunk'.end /\ hchunk'.end <= STail
      /\ hchunk'.end - SHead <= ToEnd(SHead)
      /\ hchunk'.end = STail \/ hchunk'.end = SHead + ToEnd(SHead)
  BY <1>1, <1>4 DEF Chunks, Least
<1>6. TypeOK'
  BY <1>1, <1>5 DEF IndInv, TypeOK
<1>7. ProcessInv'
  BY <1>1, <1>3 DEF IndInv, ProcessInv, HostGone, Sides
<1>8. ClientRingInv'
  BY <1>1, <1>2, <1>3 DEF IndInv, ClientRingInv
<1>9. ServerRingInv'
  BY <1>1, <1>2, <1>3, <1>5 DEF IndInv, ServerRingInv
<1>10. OddInv'
  <2>1. ASSUME CMsg < SMsg PROVE hchunk'.end = 0 \/ SMsg <= hchunk'.end
    <3>1. SHead = 0 /\ (STail = 0 \/ SMsg <= STail)
      BY <2>1 DEF IndInv, OddInv
    <3>2. SHead % BufferSize = 0
      BY <3>1, BufferSizeAssumption
    <3>3. ToEnd(SHead) = BufferSize
      BY <3>2, <1>4 DEF ToEnd
    <3> QED
      BY <1>4, <1>5, <3>1, <3>3, Facts
  <2> QED
    BY <1>2, <1>3, <2>1 DEF IndInv, OddInv
<1>11. AlignInv'
  <2>1. Aligned' = Aligned
    BY <1>1, <1>2 DEF Aligned, SameMessage
  <2> QED
    BY <1>1, <1>2, <1>3, <2>1 DEF IndInv, AlignInv
<1> QED
  BY <1>2, <1>6, <1>7, <1>8, <1>9, <1>10, <1>11 DEF IndInv

\* What the server's host sees of the chunk it reads.
LEMMA WhatIsSeen ==
  ASSUME IndInv, hpc["server"] = "check"
  PROVE  /\ hchunk.end \in Nat /\ SHead <= hchunk.end /\ hchunk.end <= STail
         /\ Len(Seen) = hchunk.end - SHead
         /\ DOMAIN Seen = 1 .. hchunk.end - SHead
         /\ Seen \in Seq(Nat \cup {NoItem})
         /\ \A k \in 1 .. hchunk.end - SHead :
              Seen[k] = SSlots[(SHead + (k - 1)) % BufferSize]
         /\ SameMessage => \A k \in DOMAIN Seen : Seen[k] = sent[SHead + k]
<1> DEFINE n == hchunk.end - SHead
<1>1. /\ hchunk.start = SHead /\ SHead <= hchunk.end /\ hchunk.end <= STail
      /\ hchunk.end - SHead <= ToEnd(SHead) /\ hchunk.end \in Nat
      /\ SHead \in Nat /\ STail \in Nat
  BY Facts DEF IndInv, ServerRingInv, TypeOK, Chunks
<1>2. n \in Nat
  BY <1>1
<1>3. \A k \in 1 .. n : k - 1 \in Nat /\ k - 1 < ToEnd(SHead)
  <2>1. ToEnd(SHead) \in Int
    BY <1>1, DivMod, BufferSizeAssumption DEF ToEnd, Slots
  <2> QED
    BY <1>1, <1>2, <2>1
<1>4. \A k \in 1 .. n : /\ SliceSlot(SHead, k - 1) = (SHead + (k - 1)) % BufferSize
                        /\ SliceSlot(SHead, k - 1) \in Slots
  BY <1>1, <1>3, SliceSlots
<1>5. Seen = [k \in 1 .. n |-> SSlots[SliceSlot(SHead, k - 1)]]
  BY <1>1 DEF Seen, SSlots
<1>6. \A k \in 1 .. n : SSlots[SliceSlot(SHead, k - 1)] \in Nat \cup {NoItem}
  BY <1>4, Facts
<1> HIDE DEF n
<1>7. /\ Seen \in Seq(Nat \cup {NoItem}) /\ Len(Seen) = n /\ DOMAIN Seen = 1 .. n
      /\ \A k \in 1 .. n : Seen[k] = SSlots[(SHead + (k - 1)) % BufferSize]
  BY <1>2, <1>4, <1>5, <1>6
<1>8. ASSUME SameMessage, NEW k \in 1 .. n PROVE Seen[k] = sent[SHead + k]
  <2> DEFINE p == SHead + (k - 1)
  <2>1. STail <= Arrived
    BY Facts DEF Arrived
  <2>2. Arrived \in Int
    BY Facts DEF Arrived
  <2>3. p \in SHead .. Arrived - 1 /\ p + 1 = SHead + k
    BY <1>1, <2>1, <2>2 DEF n
  <2>4. SSlots[p % BufferSize] = sent[p + 1]
    BY <1>8, <2>3 DEF IndInv, DataInv
  <2> QED
    BY <1>7, <2>3, <2>4
<1> QED
  BY <1>1, <1>7, <1>8 DEF n

\* The counts are those that the server's host expects.
LEMMA ReadOnKeeps ==
  ASSUME IndInv, Checks, UNCHANGED avars, hpc'["server"] = "read"
  PROVE  IndInv'
<1>0. /\ hpc["server"] = "check" /\ hpc' = [hpc EXCEPT !["server"] = "read"]
      /\ \A k \in DOMAIN Seen : Seen[k] = expected + k - 1
      /\ expected' = expected + Len(Seen) /\ got' = got \o Seen
      /\ ring' = [ring EXCEPT !["server"].head = hchunk.end]
  BY DEF IndInv, TypeOK, Sides, Checks, HostGoto
<1>1. UNCHANGED <<up, sq, rq, moved, cq, msg, apc, chunk, batch, next, room, sent, hchunk>>
  BY DEF Checks, queues, chvars, avars
<1>2. /\ hchunk.end \in Nat /\ SHead <= hchunk.end /\ hchunk.end <= STail
      /\ Len(Seen) = hchunk.end - SHead /\ DOMAIN Seen = 1 .. hchunk.end - SHead
      /\ Seen \in Seq(Nat \cup {NoItem})
      /\ \A k \in 1 .. hchunk.end - SHead :
           Seen[k] = SSlots[(SHead + (k - 1)) % BufferSize]
      /\ SameMessage => \A k \in DOMAIN Seen : Seen[k] = sent[SHead + k]
  BY <1>0, WhatIsSeen
<1>3. /\ expected = SHead /\ Len(got) = SHead /\ STail <= SHead + BufferSize
  BY DEF IndInv, ServerRingInv
<1>4. /\ SHead \in Nat /\ STail \in Nat /\ BufferSize \in Nat /\ got \in Seq(Nat)
      /\ CMsg \in Nat /\ SMsg \in Nat /\ CMsg > 0 /\ SMsg > 0
      /\ CHead \in Nat /\ CTail \in Nat
  BY Facts
<1>5. /\ ring' \in [Sides -> Rings] /\ ring'["client"] = ring["client"]
      /\ SHead' = hchunk.end /\ STail' = STail /\ SSlots' = SSlots
  BY <1>0, <1>2, HeadStored DEF IndInv, Sides, SHead, STail, SSlots
<1>6. UNCHANGED <<CHead, CTail, CSlots, CMsg, SMsg, Served, Acked>>
  BY <1>1, <1>5 DEF CHead, CTail, CSlots, CMsg, SMsg, Served, Acked
<1>7. UNCHANGED <<Arrived, Left, SameMessage>>
  BY <1>1, <1>5, <1>6 DEF Arrived, Left, SameMessage
<1>8. hpc'["server"] = "read" /\ hpc'["client"] = hpc["client"]
  BY <1>0 DEF IndInv, TypeOK, Sides
<1>9. /\ got' \in Seq(Nat) /\ Len(got') = SHead' /\ expected' = SHead'
      /\ \A k \in 1 .. SHead' : got'[k] = IF k <= SHead THEN got[k] ELSE Seen[k - SHead]
  <2>1. \A k \in 1 .. Len(Seen) : Seen[k] \in Nat
    <3> SUFFICES ASSUME NEW k \in 1 .. Len(Seen) PROVE Seen[k] \in Nat
      OBVIOUS
    <3>1. k \in DOMAIN Seen /\ k \in Nat /\ k > 0
      BY <1>2, <1>4
    <3>2. Seen[k] = SHead + k - 1
      BY <1>0, <1>3, <3>1
    <3> QED
      BY <1>4, <3>1, <3>2
  <2>2. Seen \in Seq(Nat)
    BY <1>2, <2>1
  <2>3. SHead + Len(Seen) = hchunk.end
    BY <1>2, <1>4
  <2>4. /\ got' \in Seq(Nat) /\ Len(got') = SHead + Len(Seen)
        /\ \A k \in 1 .. SHead + Len(Seen) :
             got'[k] = IF k <= SHead THEN got[k] ELSE Seen[k - SHead]
    BY <1>0, <1>3, <1>4, <2>2, ConcatProperties
  <2>5. expected' = SHead + Len(Seen)
    BY <1>0, <1>3
  <2> QED
    BY <1>5, <2>3, <2>4, <2>5
<1>10. TypeOK'
  <2>1. expected' \in Nat
    BY <1>2, <1>5, <1>9
  <2> QED
    BY <1>0, <1>1, <1>5, <1>9, <2>1 DEF IndInv, TypeOK
<1>11. ProcessInv'
  BY <1>0, <1>1, <1>8 DEF IndInv, ProcessInv, HostGone, Sides
<1>12. ClientRingInv'
  BY <1>1, <1>6, <1>8 DEF IndInv, ClientRingInv
<1>13. SendInv' /\ MoveInv' /\ FailInv'
  BY <1>1, <1>6 DEF IndInv, SendInv, MessageReady, MoveInv, FailInv
<1>14. RecvInv'
  <2>1. RoomReady => RoomReady'
    BY <1>2, <1>4, <1>5, <1>6, SMTT(30) DEF RoomReady, ToEnd
  <2> QED
    BY <1>1, <1>5, <1>6, <2>1 DEF IndInv, RecvInv
<1>15. ServerRingInv'
  BY <1>2, <1>3, <1>4, <1>5, <1>8, <1>9, SMTT(30) DEF ServerRingInv
<1>16. FlowInv'
  <2>1. Left \in Nat
    BY <1>4 DEF Left
  <2>2. CMsg <= SMsg => Left <= SHead' + BufferSize
    BY <1>2, <1>4, <1>5, <2>1 DEF IndInv, FlowInv
  <2> QED
    BY <1>1, <1>6, <1>7, <2>2 DEF IndInv, FlowInv
<1>17. DataInv'
  <2> SUFFICES ASSUME SameMessage PROVE DataInv'
    BY <1>7 DEF DataInv
  <2>1. Arrived \in Int
    BY <1>4 DEF Arrived
  <2>2. SHead' .. Arrived - 1 \subseteq SHead .. Arrived - 1
    BY <1>2, <1>4, <1>5, <2>1
  <2>3. \A p \in SHead' .. Arrived - 1 : SSlots[p % BufferSize] = sent[p + 1]
    BY <2>2 DEF IndInv, DataInv
  <2>4. ASSUME NEW k \in 1 .. SHead' PROVE got'[k] = sent[k]
    <3>1. CASE k <= SHead
      BY <1>3, <1>4, <1>9, <2>4, <3>1 DEF IndInv, DataInv
    <3>2. CASE k > SHead
      <4>1. k - SHead \in DOMAIN Seen /\ SHead + (k - SHead) = k
        <5>1. k \in Nat /\ k <= hchunk.end
          BY <1>2, <1>5, <2>4
        <5>2. k - SHead \in 1 .. hchunk.end - SHead /\ SHead + (k - SHead) = k
          BY <1>2, <1>4, <3>2, <5>1
        <5> QED
          BY <1>2, <5>2
      <4>2. Seen[k - SHead] = sent[SHead + (k - SHead)]
        BY <1>2, <4>1
      <4> QED
        <5>1. ~ (k <= SHead)
          BY <1>2, <1>4, <1>5, <2>4, <3>2
        <5>2. got'[k] = Seen[k - SHead]
          BY <1>9, <2>4, <5>1
        <5> QED
          BY <4>1, <4>2, <5>2
    <3>3. k \in Int
      BY <1>2, <1>5, <2>4
    <3> QED
      BY <1>4, <3>1, <3>2, <3>3
  <2> QED
    <3>1. /\ Arrived' <= CTail'
          /\ \A p \in SHead' .. Arrived' - 1 : SSlots'[p % BufferSize] = sent'[p + 1]
          /\ \A k \in 1 .. Len(got') : got'[k] = sent'[k]
      BY <1>1, <1>5, <1>6, <1>7, <1>9, <2>3, <2>4 DEF IndInv, DataInv
    <3>2. \A k \in 0 .. moved' - 1 :
            /\ STail' + k < CTail'
            /\ SSlots'[(STail' + k) % BufferSize] = sent'[STail' + k + 1]
      BY <1>1, <1>5, <1>6 DEF IndInv, DataInv
    <3> QED
      BY <3>1, <3>2 DEF DataInv
<1>18. OddInv'
  <2>1. ASSUME CMsg < SMsg PROVE SHead' = 0
    <3>1. /\ SHead = 0 /\ (hchunk.end = 0 \/ SMsg <= hchunk.end)
          /\ STail <= BufferSize
          /\ \A p \in Slots : CMsg <= p /\ p < SMsg => SSlots[p] = NoItem
      BY <1>0, <1>3, <1>4, <2>1 DEF IndInv, OddInv
    <3>2. ASSUME SMsg <= hchunk.end PROVE FALSE
      <4>1. CMsg \in Slots /\ CMsg + 1 \in 1 .. hchunk.end - SHead
        BY <1>2, <1>4, <2>1, <3>1, <3>2 DEF Slots
      <4>2. Seen[CMsg + 1] = SSlots[(SHead + ((CMsg + 1) - 1)) % BufferSize]
        BY <1>2, <4>1
      <4>3. (SHead + ((CMsg + 1) - 1)) % BufferSize = CMsg
        <5>1. SHead + ((CMsg + 1) - 1) = CMsg /\ CMsg < BufferSize
          BY <1>4, <3>1, <4>1 DEF Slots
        <5>2. CMsg % BufferSize = CMsg
          <6>1. (BufferSize * 0 + CMsg) % BufferSize = CMsg
            BY <1>4, <4>1, ModUnique
          <6> QED
            BY <1>4, <6>1
        <5> QED
          BY <5>1, <5>2
      <4>4. Seen[CMsg + 1] = NoItem
        BY <1>4, <2>1, <3>1, <4>1, <4>2, <4>3
      <4>5. Seen[CMsg + 1] = expected + (CMsg + 1) - 1
        BY <1>0, <1>2, <4>1
      <4> QED
        BY <1>3, <1>4, <4>4, <4>5, NoItemAssumption
    <3> QED
      BY <1>5, <3>1, <3>2
  <2>2. ASSUME CMsg > SMsg PROVE SHead' = 0
    BY <1>2, <1>4, <1>5, <2>2 DEF IndInv, OddInv
  <2> QED
    BY <1>5, <1>6, <1>8, <2>1, <2>2 DEF IndInv, OddInv
<1>19. AlignInv'
  <2>1. Aligned' = Aligned
    BY <1>1, <1>6, <1>7 DEF Aligned
  <2> QED
    BY <1>1, <1>6, <1>8, <2>1 DEF IndInv, AlignInv
<1> QED
  BY <1>10, <1>11, <1>12, <1>13, <1>14, <1>15, <1>16, <1>17, <1>18, <1>19 DEF IndInv

LEMMA StreamIsCount ==
  ASSUME IndInv, Aligned, NEW j \in 1 .. Len(sent)
  PROVE  sent[j] = j - 1
BY DEF IndInv, AlignInv

\* One is not: with aligned arguments this cannot be.
LEMMA MismatchKeeps ==
  ASSUME IndInv, Checks, UNCHANGED avars, hpc'["server"] = "mismatch"
  PROVE  IndInv'
<1>0. /\ hpc["server"] = "check" /\ hpc' = [hpc EXCEPT !["server"] = "mismatch"]
      /\ \E k \in DOMAIN Seen : Seen[k] # expected + k - 1
      /\ UNCHANGED <<expected, ring, got>>
  BY DEF IndInv, TypeOK, Sides, Checks, HostGoto
<1>1. UNCHANGED <<ring, up, sq, rq, moved, cq, msg, apc, chunk, batch, next, room, sent,
                  hchunk, expected, got>>
  BY <1>0 DEF Checks, queues, chvars, avars
<1>2. /\ UNCHANGED <<CHead, CTail, SHead, STail, CSlots, SSlots, CMsg, SMsg,
                     Served, Acked>>
      /\ SendInv' /\ RecvInv' /\ MoveInv' /\ FailInv' /\ FlowInv' /\ DataInv'
  BY <1>1, HostsMove
<1>3. hpc'["server"] = "mismatch" /\ hpc'["client"] = hpc["client"]
  BY <1>0 DEF IndInv, TypeOK, Sides
<1>4. TypeOK'
  BY <1>0, <1>1 DEF IndInv, TypeOK
<1>5. ProcessInv'
  BY <1>0, <1>1, <1>3 DEF IndInv, ProcessInv, HostGone, Sides
<1>6. ClientRingInv' /\ ServerRingInv' /\ OddInv'
  BY <1>1, <1>2, <1>3 DEF IndInv, ClientRingInv, ServerRingInv, OddInv
<1>7. ~ Aligned
  <2> SUFFICES ASSUME Aligned PROVE FALSE
    OBVIOUS
  <2>1. PICK k \in DOMAIN Seen : Seen[k] # expected + k - 1
    BY <1>0
  <2>2. /\ k \in 1 .. hchunk.end - SHead /\ hchunk.end <= STail /\ hchunk.end \in Nat
        /\ Seen[k] = sent[SHead + k]
    BY <1>0, <2>1, WhatIsSeen DEF Aligned
  <2>3. STail <= CTail
    BY Facts DEF Aligned, IndInv, DataInv, Arrived
  <2>4. SHead + k \in 1 .. Len(sent)
    <3>1. CTail = Len(sent) /\ SHead \in Nat /\ STail \in Nat /\ CTail \in Nat
      BY Facts DEF IndInv, ClientRingInv
    <3>2. k \in Nat /\ k > 0 /\ SHead + k <= hchunk.end
      BY <2>2, <3>1
    <3> QED
      BY <2>2, <2>3, <3>1, <3>2
  <2>5. sent[SHead + k] = SHead + k - 1
    <3>1. SHead \in Nat /\ k \in Nat
      BY <2>2, Facts
    <3> QED
      BY <2>4, <3>1, StreamIsCount
  <2>6. expected = SHead
    BY DEF IndInv, ServerRingInv
  <2> QED
    BY <2>1, <2>2, <2>5, <2>6
<1>8. AlignInv'
  BY <1>1, <1>2, <1>7 DEF AlignInv, Aligned, SameMessage
<1> QED
  BY <1>2, <1>4, <1>5, <1>6, <1>8 DEF IndInv

LEMMA ChecksKeeps ==
  ASSUME IndInv, Checks, UNCHANGED avars
  PROVE  IndInv'
<1>1. hpc'["server"] = "read" \/ hpc'["server"] = "mismatch"
  BY DEF IndInv, TypeOK, Sides, Checks, HostGoto
<1> QED
  BY <1>1, ReadOnKeeps, MismatchKeeps
------------------------------------------------------------------------------
(* The adapters.                                                           *)

\* What depends on the rings, the hosts and the history only.
LEMMA HostsStay ==
  ASSUME IndInv, UNCHANGED <<msg, hvars>>,
         UNCHANGED <<CHead, CTail, CSlots, SHead, STail>>
  PROVE  /\ UNCHANGED <<hpc, batch, next, room, sent, hchunk, expected, got>>
         /\ UNCHANGED <<CMsg, SMsg, SameMessage, Aligned>>
         /\ ClientRingInv' /\ ServerRingInv' /\ AlignInv'
<1>1. UNCHANGED <<hpc, batch, next, room, sent, hchunk, expected, got>>
  BY DEF hvars, chvars, shvars
<1>2. UNCHANGED <<CMsg, SMsg, SameMessage, Aligned>>
  BY <1>1 DEF CMsg, SMsg, SameMessage, Aligned
<1>3. ClientRingInv'
  BY <1>1 DEF IndInv, ClientRingInv
<1>4. ServerRingInv'
  BY <1>1 DEF IndInv, ServerRingInv
<1>5. AlignInv'
  BY <1>1, <1>2 DEF IndInv, AlignInv
<1> QED
  BY <1>1, <1>2, <1>3, <1>4, <1>5

\* Where the adapter's label moves, everything else of the processes stays.
LEMMA Goes ==
  ASSUME TypeOK, NEW s \in Sides, NEW label, Goto(s, label)
  PROVE  /\ apc'[s] = label /\ \A t \in Sides \ {s} : apc'[t] = apc[t]
         /\ label \in {"try", "post", "poll", "commit", "panicked", "exited"} =>
              apc' \in [Sides -> {"try", "post", "poll", "commit", "panicked", "exited"}]
BY DEF TypeOK, Goto

\* An adapter that goes on keeps what is said of the processes.
LEMMA GoesOn ==
  ASSUME IndInv, NEW s \in Sides, UNCHANGED <<up, hpc>>, up[s],
         apc'[s] \notin {"panicked", "exited"},
         \A t \in Sides \ {s} : apc'[t] = apc[t]
  PROVE  ProcessInv'
<1> SUFFICES ASSUME NEW t \in Sides
             PROVE  /\ up[t] <=> apc'[t] \notin {"panicked", "exited"}
                    /\ apc'[t] = "exited" => HostGone(t)
                    /\ hpc[t] = "broken" => apc'[t] = "panicked"
  BY DEF IndInv, ProcessInv, HostGone
<1>1. CASE t = s
  BY <1>1 DEF IndInv, ProcessInv
<1>2. CASE t # s
  BY <1>2 DEF IndInv, ProcessInv
<1> QED
  BY <1>1, <1>2

LEMMA TakesKeeps ==
  ASSUME IndInv, NEW s \in Sides, Takes(s), UNCHANGED hvars
  PROVE  IndInv'
<1>1. /\ up[s] /\ apc[s] = "try" /\ Goto(s, "post")
      /\ \/ /\ s = "client" /\ Least(CTail - CHead, ToEnd(CHead)) >= CMsg
            /\ chunk' = [chunk EXCEPT ![s] = Chunk(CHead, CMsg)]
         \/ /\ s = "server"
            /\ Least(BufferSize - (STail - SHead), ToEnd(STail)) >= SMsg
            /\ chunk' = [chunk EXCEPT ![s] = Chunk(STail, SMsg)]
      /\ UNCHANGED <<ring, up, sq, rq, moved, cq, msg>>
  BY DEF Takes, At, Readable, Reservable, Writable, Wanted, CHead, CTail, SHead, STail,
         CMsg, SMsg, qpVars, queues
<1>2. UNCHANGED <<CHead, CTail, CSlots, SHead, STail, SSlots>>
  BY <1>1 DEF CHead, CTail, CSlots, SHead, STail, SSlots
<1>3. /\ UNCHANGED <<hpc, batch, next, room, sent, hchunk, expected, got>>
      /\ UNCHANGED <<CMsg, SMsg, SameMessage, Aligned>>
      /\ ClientRingInv' /\ ServerRingInv' /\ AlignInv'
  BY <1>1, <1>2, HostsStay
<1>4. /\ apc'[s] = "post" /\ \A t \in Sides \ {s} : apc'[t] = apc[t]
      /\ apc' \in [Sides -> {"try", "post", "poll", "commit", "panicked", "exited"}]
  BY <1>1, Goes DEF IndInv
<1>5. UNCHANGED <<Served, Acked>>
  BY <1>1, <1>4 DEF Served, Acked, Sides
<1>6. UNCHANGED <<Arrived, Left>>
  BY <1>2, <1>3, <1>5 DEF Arrived, Left
<1>7. /\ CHead \in Nat /\ CTail \in Nat /\ STail \in Nat /\ SHead \in Nat
      /\ CMsg \in Nat /\ SMsg \in Nat /\ BufferSize \in Nat
      /\ ToEnd(CHead) \in Int /\ ToEnd(STail) \in Int
  <2>1. /\ CHead \in Nat /\ CTail \in Nat /\ STail \in Nat /\ SHead \in Nat
        /\ CMsg \in Nat /\ SMsg \in Nat /\ BufferSize \in Nat
    BY Facts
  <2>2. CHead % BufferSize \in Slots /\ STail % BufferSize \in Slots
    BY <2>1, DivMod
  <2> QED
    BY <2>1, <2>2 DEF ToEnd, Slots
<1>8. TypeOK'
  <2>1. Chunk(CHead, CMsg) \in Chunks /\ Chunk(STail, SMsg) \in Chunks
    BY <1>7 DEF Chunk, Chunks
  <2>2. chunk' \in [Sides -> Chunks]
    BY <1>1, <2>1 DEF IndInv, TypeOK
  <2> QED
    BY <1>1, <1>3, <1>4, <2>2 DEF IndInv, TypeOK
<1>9. ProcessInv'
  BY <1>1, <1>3, <1>4, GoesOn
<1>10. SendInv'
  <2>1. CASE s = "client"
    <3>1. chunk'["client"] = Chunk(CHead, CMsg)
      BY <1>1, <2>1 DEF IndInv, TypeOK
    <3>2. MessageReady
      BY <1>1, <1>7, <2>1 DEF MessageReady, Least
    <3>3. sq = <<>> /\ moved = 0 /\ cq["client"] = <<>>
      BY <1>1, <2>1 DEF IndInv, SendInv
    <3> QED
      BY <1>1, <1>2, <1>3, <3>1, <3>2, <3>3 DEF SendInv, MessageReady
  <2>2. CASE s = "server"
    <3>1. chunk'["client"] = chunk["client"] /\ apc'["client"] = apc["client"]
      BY <1>1, <1>4, <2>2 DEF IndInv, TypeOK, Sides
    <3> QED
      BY <1>1, <1>2, <1>3, <3>1 DEF IndInv, SendInv, MessageReady
  <2> QED
    BY <2>1, <2>2 DEF Sides
<1>11. RecvInv'
  <2>1. CASE s = "server"
    <3>1. chunk'["server"] = Chunk(STail, SMsg)
      BY <1>1, <2>1 DEF IndInv, TypeOK
    <3>2. RoomReady
      BY <1>1, <1>7, <2>1 DEF RoomReady, Least
    <3>3. rq = <<>> /\ cq["server"] = <<>>
      BY <1>1, <2>1 DEF IndInv, RecvInv
    <3> QED
      BY <1>1, <1>2, <1>3, <3>1, <3>2, <3>3 DEF RecvInv, RoomReady
  <2>2. CASE s = "client"
    <3>1. chunk'["server"] = chunk["server"] /\ apc'["server"] = apc["server"]
      BY <1>1, <1>4, <2>2 DEF IndInv, TypeOK, Sides
    <3> QED
      BY <1>1, <1>2, <1>3, <3>1 DEF IndInv, RecvInv, RoomReady
  <2> QED
    BY <2>1, <2>2 DEF Sides
<1>12. MoveInv' /\ FlowInv'
  BY <1>1, <1>2, <1>3, <1>6 DEF IndInv, MoveInv, FlowInv
<1>13. FailInv'
  BY <1>1, <1>3, <1>4 DEF IndInv, FailInv, Sides
<1>14. DataInv'
  BY <1>1, <1>2, <1>3, <1>6 DEF IndInv, DataInv
<1>15. OddInv'
  BY <1>1, <1>2, <1>3, <1>5 DEF IndInv, OddInv
<1> QED
  BY <1>3, <1>8, <1>9, <1>10, <1>11, <1>12, <1>13, <1>14, <1>15 DEF IndInv

LEMMA ChunkLens ==
  ASSUME IndInv, NEW s \in Sides, apc[s] = "post"
  PROVE  /\ s = "client" => chunk[s].start = CHead /\ ChunkLen(chunk[s]) = CMsg
         /\ s = "server" => chunk[s].start = STail /\ ChunkLen(chunk[s]) = SMsg
BY Facts DEF IndInv, SendInv, RecvInv, Chunk, ChunkLen

LEMMA RequestTypes ==
  ASSUME IndInv
  PROVE  /\ MessageReady => Request(CHead, CMsg) \in Requests
         /\ RoomReady => Request(STail, SMsg) \in Requests
<1>1. /\ CHead \in Nat /\ STail \in Nat /\ BufferSize \in Nat
      /\ CMsg \in Nat /\ CMsg > 0 /\ SMsg \in Nat /\ SMsg > 0
  BY Facts
<1>2. /\ CHead % BufferSize \in 0 .. BufferSize - 1
      /\ STail % BufferSize \in 0 .. BufferSize - 1
  BY <1>1, DivMod DEF Slots
<1> QED
  BY <1>1, <1>2 DEF Request, Requests, MessageReady, RoomReady, ToEnd, SliceSlot, Slots

LEMMA PostsKeeps ==
  ASSUME IndInv, NEW s \in Sides, Posts(s), UNCHANGED hvars
  PROVE  IndInv'
<1>1. /\ up[s] /\ apc[s] = "post" /\ Goto(s, "poll")
      /\ \/ s = "client" /\ sq' = Append(sq, Request(CHead, CMsg)) /\ rq' = rq
         \/ s = "server" /\ rq' = Append(rq, Request(STail, SMsg)) /\ sq' = sq
      /\ UNCHANGED <<ring, up, moved, cq, msg, chunk>>
  BY ChunkLens DEF Posts, At, PostSend, PostRecv, AtPost, AfterPost, Sides
<1>2. UNCHANGED <<CHead, CTail, CSlots, SHead, STail, SSlots>>
  BY <1>1 DEF CHead, CTail, CSlots, SHead, STail, SSlots
<1>3. /\ UNCHANGED <<hpc, batch, next, room, sent, hchunk, expected, got>>
      /\ UNCHANGED <<CMsg, SMsg, SameMessage, Aligned>>
      /\ ClientRingInv' /\ ServerRingInv' /\ AlignInv'
  BY <1>1, <1>2, HostsStay
<1>4. /\ apc'[s] = "poll" /\ \A t \in Sides \ {s} : apc'[t] = apc[t]
      /\ apc' \in [Sides -> {"try", "post", "poll", "commit", "panicked", "exited"}]
  BY <1>1, Goes DEF IndInv
<1>5. UNCHANGED <<Served, Acked>>
  BY <1>1, <1>4 DEF Served, Acked, Sides
<1>6. UNCHANGED <<Arrived, Left>>
  BY <1>2, <1>3, <1>5 DEF Arrived, Left
<1>7. s = "client" => /\ sq = <<>> /\ moved = 0 /\ cq["client"] = <<>>
                      /\ MessageReady /\ chunk["client"] = Chunk(CHead, CMsg)
                      /\ sq' = <<Request(CHead, CMsg)>>
  BY <1>1, One DEF IndInv, SendInv
<1>8. s = "server" => /\ rq = <<>> /\ cq["server"] = <<>>
                      /\ RoomReady /\ chunk["server"] = Chunk(STail, SMsg)
                      /\ rq' = <<Request(STail, SMsg)>>
  BY <1>1, One DEF IndInv, RecvInv
<1>9. TypeOK'
  <2>1. sq' \in Seq(Requests) /\ rq' \in Seq(Requests)
    <3>1. sq \in Seq(Requests) /\ rq \in Seq(Requests)
      BY DEF IndInv, TypeOK
    <3>2. s = "client" => sq' \in Seq(Requests)
      BY <1>7, RequestTypes, OneTyped
    <3>3. s = "server" => rq' \in Seq(Requests)
      BY <1>8, RequestTypes, OneTyped
    <3> QED
      BY <1>1, <3>1, <3>2, <3>3 DEF Sides
  <2> QED
    BY <1>1, <1>3, <1>4, <2>1 DEF IndInv, TypeOK
<1>10. ProcessInv'
  BY <1>1, <1>3, <1>4, GoesOn
<1>11. MessageReady' = MessageReady /\ RoomReady' = RoomReady
  BY <1>2, <1>3 DEF MessageReady, RoomReady
<1>12. SendInv'
  <2>1. CASE s = "client"
    <3>1. 0 \in -1 .. CMsg
      BY Facts
    <3> QED
      BY <1>1, <1>2, <1>3, <1>4, <1>7, <1>11, <2>1, <3>1 DEF SendInv
  <2>2. CASE s = "server"
    BY <1>1, <1>2, <1>3, <1>4, <1>11, <2>2 DEF IndInv, SendInv, Sides
  <2> QED
    BY <2>1, <2>2 DEF Sides
<1>13. RecvInv'
  <2>1. CASE s = "server"
    BY <1>1, <1>2, <1>3, <1>4, <1>8, <1>11, <2>1 DEF RecvInv
  <2>2. CASE s = "client"
    BY <1>1, <1>2, <1>3, <1>4, <1>11, <2>2 DEF IndInv, RecvInv, Sides
  <2> QED
    BY <2>1, <2>2 DEF Sides
<1>14. MoveInv'
  <2>1. s = "server" => rq' # <<>>
    BY <1>8, One
  <2> QED
    BY <1>1, <1>3, <2>1 DEF IndInv, MoveInv
<1>15. FlowInv' /\ FailInv'
  BY <1>1, <1>2, <1>3, <1>4, <1>6 DEF IndInv, FlowInv, FailInv, Sides
<1>16. DataInv'
  BY <1>1, <1>2, <1>3, <1>6 DEF IndInv, DataInv
<1>17. OddInv'
  BY <1>1, <1>2, <1>3, <1>5 DEF IndInv, OddInv
<1> QED
  BY <1>3, <1>9, <1>10, <1>12, <1>13, <1>14, <1>15, <1>16, <1>17 DEF IndInv

LEMMA PollsKeeps ==
  ASSUME IndInv, NEW s \in Sides, Polls(s), UNCHANGED hvars
  PROVE  IndInv'
<1>1. /\ up[s] /\ apc[s] = "poll" /\ cq[s] # <<>> /\ cq' = [cq EXCEPT ![s] = <<>>]
      /\ \/ /\ cq[s][1].status = "SUCCESS"
            /\ Goto(s, IF cq[s][1].opcode = Awaited(s) THEN "commit" ELSE "poll")
            /\ up' = up
         \/ /\ cq[s][1].status # "SUCCESS"
            /\ Goto(s, "panicked")
            /\ up' = [up EXCEPT ![s] = FALSE]
      /\ UNCHANGED <<ring, sq, rq, moved, msg, chunk>>
  BY DEF Polls, At, PollCq
<1>2. PICK st \in Statuses : cq[s] = <<Completion(Awaited(s), st)>>
  BY <1>1 DEF IndInv, SendInv, RecvInv, Awaited, Sides
<1>3. cq[s][1].status = st /\ cq[s][1].opcode = Awaited(s)
  BY <1>2 DEF Completion
<1> DEFINE good == st = "SUCCESS"
<1>4. /\ \A t \in Sides \ {s} : cq'[t] = cq[t]
      /\ cq'[s] = <<>> /\ cq' \in [Sides -> Seq(Completions)]
  BY <1>1 DEF IndInv, TypeOK
<1>5. /\ \A t \in Sides \ {s} : apc'[t] = apc[t] /\ up'[t] = up[t]
      /\ apc'[s] = (IF good THEN "commit" ELSE "panicked")
      /\ apc' \in [Sides -> {"try", "post", "poll", "commit", "panicked", "exited"}]
      /\ up'[s] = good /\ up' \in [Sides -> BOOLEAN]
  <2>1. TypeOK /\ up \in [Sides -> BOOLEAN]
    BY DEF IndInv, TypeOK
  <2>2. CASE good
    <3>1. Goto(s, "commit") /\ up' = up
      BY <1>1, <1>3, <2>2
    <3> QED
      BY <1>1, <2>1, <2>2, <3>1, Goes
  <2>3. CASE ~ good
    <3>1. Goto(s, "panicked") /\ up' = [up EXCEPT ![s] = FALSE]
      BY <1>1, <1>3, <2>3
    <3> QED
      BY <1>1, <2>1, <2>3, <3>1, Goes
  <2> QED
    BY <2>2, <2>3
<1>6. UNCHANGED <<CHead, CTail, CSlots, SHead, STail, SSlots>>
  BY <1>1 DEF CHead, CTail, CSlots, SHead, STail, SSlots
<1>7. /\ UNCHANGED <<hpc, batch, next, room, sent, hchunk, expected, got>>
      /\ UNCHANGED <<CMsg, SMsg, SameMessage, Aligned>>
      /\ ClientRingInv' /\ ServerRingInv' /\ AlignInv'
  BY <1>1, <1>6, HostsStay
<1>8. /\ MessageReady' = MessageReady /\ RoomReady' = RoomReady
  BY <1>6, <1>7 DEF MessageReady, RoomReady
<1>9. good <=> cq[s] = <<Completion(Awaited(s), "SUCCESS")>>
  BY <1>2, <1>3, One DEF Completion
<1>10. Served' = Served /\ Acked' = Acked
  <2>1. \A st2 : cq'[s] # <<Completion(Awaited(s), st2)>>
    BY <1>4, One
  <2>2. CASE s = "client"
    BY <1>1, <1>4, <1>5, <1>9, <2>1, <2>2 DEF Served, Acked, Awaited, Sides
  <2>3. CASE s = "server"
    BY <1>1, <1>4, <1>5, <1>9, <2>1, <2>3 DEF Served, Acked, Awaited, Sides
  <2> QED
    BY <2>2, <2>3 DEF Sides
<1>11. Arrived' = Arrived /\ Left' = Left
  BY <1>6, <1>7, <1>10 DEF Arrived, Left
<1> HIDE DEF good
<1>12. TypeOK'
  BY <1>1, <1>4, <1>5, <1>7 DEF IndInv, TypeOK
<1>13. ProcessInv'
  <2> SUFFICES ASSUME NEW t \in Sides
               PROVE  /\ up'[t] <=> apc'[t] \notin {"panicked", "exited"}
                      /\ apc'[t] = "exited" => HostGone(t)
                      /\ hpc[t] = "broken" => apc'[t] = "panicked"
    BY <1>7 DEF IndInv, ProcessInv, HostGone
  <2>1. CASE t = s
    BY <1>1, <1>5, <2>1 DEF IndInv, ProcessInv
  <2>2. CASE t # s
    BY <1>5, <2>2 DEF IndInv, ProcessInv
  <2> QED
    BY <2>1, <2>2
<1>14. SendInv'
  <2>1. CASE s = "client"
    <3>1. sq = <<>> /\ moved = 0 /\ chunk["client"] = Chunk(CHead, CMsg) /\ MessageReady
      BY <1>1, <2>1 DEF IndInv, SendInv
    <3> QED
      BY <1>1, <1>4, <1>6, <1>7, <1>8, <2>1, <3>1 DEF SendInv
  <2>2. CASE s = "server"
    BY <1>1, <1>4, <1>5, <1>6, <1>7, <1>8, <2>2 DEF IndInv, SendInv, Sides
  <2> QED
    BY <2>1, <2>2 DEF Sides
<1>15. RecvInv'
  <2>1. CASE s = "server"
    <3>1. rq = <<>> /\ chunk["server"] = Chunk(STail, SMsg) /\ RoomReady
      BY <1>1, <2>1 DEF IndInv, RecvInv
    <3> QED
      BY <1>1, <1>4, <1>6, <1>7, <1>8, <2>1, <3>1 DEF RecvInv
  <2>2. CASE s = "client"
    BY <1>1, <1>4, <1>5, <1>6, <1>7, <1>8, <2>2 DEF IndInv, RecvInv, Sides
  <2> QED
    BY <2>1, <2>2 DEF Sides
<1>16. MoveInv'
  BY <1>1, <1>7 DEF IndInv, MoveInv
<1>17. FailInv'
  <2> SUFFICES ASSUME CMsg <= SMsg PROVE FailInv'
    BY <1>7 DEF FailInv
  <2>1. /\ cq["server"] \in {<<>>, <<Completion("RECV", "SUCCESS")>>}
        /\ apc["server"] # "panicked"
        /\ cq["client"] \in {<<>>, <<Completion("SEND", "SUCCESS")>>} \/ ~ up["server"]
        /\ apc["client"] = "panicked" => ~ up["server"]
    BY DEF IndInv, FailInv
  <2>2. CASE s = "client"
    BY <1>1, <1>4, <1>5, <1>9, <2>1, <2>2 DEF FailInv, Awaited, Sides
  <2>3. CASE s = "server"
    BY <1>1, <1>4, <1>5, <1>9, <2>1, <2>3 DEF FailInv, Awaited, Sides
  <2> QED
    BY <2>2, <2>3 DEF Sides
<1>18. FlowInv'
  <2>1. \A t \in Sides : up'[t] => up[t]
    BY <1>1, <1>5
  <2> QED
    BY <1>6, <1>7, <1>11, <2>1 DEF IndInv, FlowInv, Sides
<1>19. DataInv'
  BY <1>1, <1>6, <1>7, <1>11 DEF IndInv, DataInv
<1>20. OddInv'
  BY <1>6, <1>7, <1>10 DEF IndInv, OddInv
<1> QED
  BY <1>7, <1>12, <1>13, <1>14, <1>15, <1>16, <1>17, <1>18, <1>19, <1>20 DEF IndInv

\* The client's adapter gives the slots of a message back.
LEMMA ClientCommitsKeeps ==
  ASSUME IndInv, Commits("client"), UNCHANGED hvars
  PROVE  IndInv'
<1>1. /\ up["client"] /\ apc["client"] = "commit" /\ Goto("client", "try")
      /\ ring' = [ring EXCEPT !["client"].head = chunk["client"].end]
      /\ UNCHANGED <<up, sq, rq, moved, cq, msg, chunk>>
  BY DEF Commits, Committed, At, queues
<1>2. /\ CHead \in Nat /\ CTail \in Nat /\ SHead \in Nat /\ STail \in Nat
      /\ CMsg \in Nat /\ CMsg > 0 /\ SMsg \in Nat /\ BufferSize \in Nat
  BY Facts
<1>3. /\ chunk["client"].end = CHead + CMsg /\ CHead + CMsg <= CTail
      /\ sq = <<>> /\ moved = 0 /\ cq["client"] = <<>>
  BY <1>1 DEF IndInv, SendInv, Chunk, MessageReady
<1>4. /\ ring' \in [Sides -> Rings] /\ ring'["server"] = ring["server"]
      /\ CHead' = CHead + CMsg /\ CTail' = CTail /\ CSlots' = CSlots
  <2>1. TypeOK /\ "client" \in Sides /\ "server" \in Sides \ {"client"}
    BY DEF IndInv, Sides
  <2>2. chunk["client"].end \in Nat
    BY <1>2, <1>3
  <2>3. /\ ring' \in [Sides -> Rings] /\ ring'["server"] = ring["server"]
        /\ ring'["client"].head = chunk["client"].end
        /\ ring'["client"].tail = ring["client"].tail
        /\ ring'["client"].slots = ring["client"].slots
    BY <1>1, <2>1, <2>2, HeadStored
  <2> QED
    BY <1>3, <2>3 DEF CHead, CTail, CSlots
<1>5. UNCHANGED <<SHead, STail, SSlots>>
  BY <1>4 DEF SHead, STail, SSlots
<1>6. UNCHANGED <<hpc, batch, next, room, sent, hchunk, expected, got>>
  BY DEF hvars, chvars, shvars
<1>7. UNCHANGED <<CMsg, SMsg, SameMessage, Aligned>>
  BY <1>1, <1>6 DEF CMsg, SMsg, SameMessage, Aligned
<1>8. /\ apc'["client"] = "try" /\ apc'["server"] = apc["server"]
      /\ \A t \in Sides \ {"client"} : apc'[t] = apc[t]
      /\ apc' \in [Sides -> {"try", "post", "poll", "commit", "panicked", "exited"}]
  BY <1>1, Goes DEF IndInv, Sides
<1>9. Acked /\ ~ Acked' /\ Served' = Served
  BY <1>1, <1>3, <1>8, One DEF Acked, Served, Delivered
<1>10. Left' = Left /\ Arrived' = Arrived
  BY <1>4, <1>5, <1>7, <1>9 DEF Left, Arrived
<1>11. TypeOK'
  BY <1>1, <1>4, <1>6, <1>8 DEF IndInv, TypeOK
<1>12. ProcessInv'
  BY <1>1, <1>6, <1>8, GoesOn DEF Sides
<1>13. ClientRingInv'
  <2>1. CHead' .. CTail' - 1 \subseteq CHead .. CTail - 1
    BY <1>2, <1>4
  <2>2. \A p \in CHead' .. CTail' - 1 : CSlots'[p % BufferSize] = sent'[p + 1]
    BY <1>4, <1>6, <2>1 DEF IndInv, ClientRingInv
  <2>3. CHead' <= CTail' /\ CTail' <= CHead' + BufferSize /\ CTail' = Len(sent')
    BY <1>2, <1>3, <1>4, <1>6 DEF IndInv, ClientRingInv
  <2>4. hpc["client"] = "copy" =>
          room > 0 /\ room <= batch /\ CTail' + room <= CHead' + BufferSize
    BY <1>2, <1>4 DEF IndInv, ClientRingInv, TypeOK
  <2> QED
    BY <1>6, <2>2, <2>3, <2>4 DEF IndInv, ClientRingInv
<1>14. SendInv'
  BY <1>1, <1>3, <1>8 DEF SendInv
<1>15. RecvInv' /\ ServerRingInv' /\ MoveInv'
  BY <1>1, <1>5, <1>6, <1>7, <1>8
     DEF IndInv, RecvInv, RoomReady, ServerRingInv, MoveInv
<1>16. FailInv' /\ FlowInv'
  BY <1>1, <1>3, <1>5, <1>7, <1>8, <1>10 DEF IndInv, FailInv, FlowInv
<1>17. DataInv'
  BY <1>1, <1>4, <1>5, <1>6, <1>7, <1>10 DEF IndInv, DataInv
<1>18. OddInv'
  BY <1>2, <1>5, <1>6, <1>7, <1>9 DEF IndInv, OddInv
<1>19. AlignInv'
  <2>1. ASSUME Aligned PROVE (CHead + CMsg) % CMsg = 0
    <3>1. CHead % CMsg = 0
      BY <2>1 DEF IndInv, AlignInv
    <3>2. CMsg % CMsg = 0 /\ CMsg \in Nat \ {0}
      BY <1>2
    <3> QED
      BY <1>2, <3>1, <3>2, SumOfMultiples
  <2> QED
    BY <1>4, <1>6, <1>7, <2>1 DEF IndInv, AlignInv
<1> QED
  BY <1>11, <1>12, <1>13, <1>14, <1>15, <1>16, <1>17, <1>18, <1>19 DEF IndInv

\* The server's adapter shows a message to its host.
LEMMA ServerCommitsKeeps ==
  ASSUME IndInv, Commits("server"), UNCHANGED hvars
  PROVE  IndInv'
<1>1. /\ up["server"] /\ apc["server"] = "commit" /\ Goto("server", "try")
      /\ ring' = [ring EXCEPT !["server"].tail = chunk["server"].end]
      /\ UNCHANGED <<up, sq, rq, moved, cq, msg, chunk>>
  BY DEF Commits, Committed, At, queues
<1>2. /\ CHead \in Nat /\ CTail \in Nat /\ SHead \in Nat /\ STail \in Nat
      /\ CMsg \in Nat /\ SMsg \in Nat /\ SMsg > 0 /\ BufferSize \in Nat
  BY Facts
<1>3. /\ chunk["server"].end = STail + SMsg /\ STail + SMsg <= SHead + BufferSize
      /\ rq = <<>> /\ cq["server"] = <<>>
  BY <1>1 DEF IndInv, RecvInv, Chunk, RoomReady
<1>4. /\ ring' \in [Sides -> Rings] /\ ring'["client"] = ring["client"]
      /\ STail' = STail + SMsg /\ SHead' = SHead /\ SSlots' = SSlots
  <2>1. TypeOK /\ "server" \in Sides /\ "client" \in Sides \ {"server"}
    BY DEF IndInv, Sides
  <2>2. chunk["server"].end \in Nat
    BY <1>2, <1>3
  <2>3. /\ ring' \in [Sides -> Rings] /\ ring'["client"] = ring["client"]
        /\ ring'["server"].tail = chunk["server"].end
        /\ ring'["server"].head = ring["server"].head
        /\ ring'["server"].slots = ring["server"].slots
    BY <1>1, <2>1, <2>2, TailStored
  <2> QED
    BY <1>3, <2>3 DEF SHead, STail, SSlots
<1>5. UNCHANGED <<CHead, CTail, CSlots>>
  BY <1>4 DEF CHead, CTail, CSlots
<1>6. UNCHANGED <<hpc, batch, next, room, sent, hchunk, expected, got>>
  BY DEF hvars, chvars, shvars
<1>7. UNCHANGED <<CMsg, SMsg, SameMessage, Aligned>>
  BY <1>1, <1>6 DEF CMsg, SMsg, SameMessage, Aligned
<1>8. /\ apc'["server"] = "try" /\ apc'["client"] = apc["client"]
      /\ \A t \in Sides \ {"server"} : apc'[t] = apc[t]
      /\ apc' \in [Sides -> {"try", "post", "poll", "commit", "panicked", "exited"}]
  BY <1>1, Goes DEF IndInv, Sides
<1>9. Served /\ ~ Served' /\ Acked' = Acked
  BY <1>1, <1>3, <1>8, One DEF Acked, Served
<1>10. Left' = Left /\ Arrived' = Arrived
  BY <1>4, <1>5, <1>7, <1>9 DEF Left, Arrived
<1>11. TypeOK'
  BY <1>1, <1>4, <1>6, <1>8 DEF IndInv, TypeOK
<1>12. ProcessInv'
  BY <1>1, <1>6, <1>8, GoesOn DEF Sides
<1>13. ClientRingInv' /\ AlignInv'
  BY <1>5, <1>6, <1>7 DEF IndInv, ClientRingInv, AlignInv
<1>14. SendInv'
  BY <1>1, <1>5, <1>7, <1>8 DEF IndInv, SendInv, MessageReady
<1>15. RecvInv'
  BY <1>1, <1>3, <1>8 DEF RecvInv
<1>16. ServerRingInv'
  <2>1. SHead <= STail' /\ STail' <= SHead + BufferSize
    BY <1>2, <1>3, <1>4 DEF IndInv, ServerRingInv
  <2>2. hpc["server"] = "check" =>
          /\ hchunk.start = SHead /\ SHead <= hchunk.end /\ hchunk.end <= STail'
          /\ hchunk.end - SHead <= ToEnd(SHead)
    BY <1>2, <1>4 DEF IndInv, ServerRingInv, TypeOK, Chunks
  <2> QED
    BY <1>4, <1>6, <2>1, <2>2 DEF IndInv, ServerRingInv
<1>17. moved <= 0 /\ moved \in Int
  BY <1>3 DEF IndInv, MoveInv, TypeOK, Delivered
<1>18. MoveInv'
  BY <1>1, <1>7 DEF IndInv, MoveInv
<1>19. FailInv' /\ FlowInv'
  BY <1>1, <1>3, <1>4, <1>5, <1>7, <1>8, <1>10 DEF IndInv, FailInv, FlowInv
<1>20. DataInv'
  <2>1. \A k \in 0 .. moved - 1 : FALSE
    BY <1>17
  <2> QED
    BY <1>1, <1>4, <1>5, <1>6, <1>7, <1>10, <2>1 DEF IndInv, DataInv
<1>21. OddInv'
  <2>1. CMsg < SMsg => SMsg <= STail'
    BY <1>2, <1>4
  <2> QED
    BY <1>2, <1>4, <1>5, <1>6, <1>7, <1>9, <2>1 DEF IndInv, OddInv
<1> QED
  BY <1>11, <1>12, <1>13, <1>14, <1>15, <1>16, <1>18, <1>19, <1>20, <1>21 DEF IndInv

LEMMA Shorter ==
  ASSUME NEW i \in Nat, NEW j \in Nat, NEW k \in Nat, j <= k
  PROVE  \A p \in i .. j - 1 : p \in i .. k - 1
  OBVIOUS

LEMMA ExitsKeeps ==
  ASSUME IndInv, NEW s \in Sides, Exits(s, HostGone(s)), UNCHANGED hvars
  PROVE  IndInv'
<1>1. /\ up[s] /\ HostGone(s) /\ Goto(s, "exited") /\ up' = [up EXCEPT ![s] = FALSE]
      /\ UNCHANGED <<ring, sq, rq, moved, cq, msg, chunk>>
  BY DEF Exits, queues
<1>2. UNCHANGED <<CHead, CTail, CSlots, SHead, STail, SSlots>>
  BY <1>1 DEF CHead, CTail, CSlots, SHead, STail, SSlots
<1>3. /\ UNCHANGED <<hpc, batch, next, room, sent, hchunk, expected, got>>
      /\ UNCHANGED <<CMsg, SMsg, SameMessage, Aligned>>
      /\ ClientRingInv' /\ ServerRingInv' /\ AlignInv'
  BY <1>1, <1>2, HostsStay
<1>4. /\ apc'[s] = "exited" /\ \A t \in Sides \ {s} : apc'[t] = apc[t]
      /\ apc' \in [Sides -> {"try", "post", "poll", "commit", "panicked", "exited"}]
  BY <1>1, Goes DEF IndInv
<1>5. /\ up' \in [Sides -> BOOLEAN] /\ ~ up'[s] /\ \A t \in Sides \ {s} : up'[t] = up[t]
  BY <1>1 DEF IndInv, TypeOK
<1>6. /\ CHead \in Nat /\ CTail \in Nat /\ SHead \in Nat /\ STail \in Nat
      /\ CMsg \in Nat /\ SMsg \in Nat /\ BufferSize \in Nat
  BY Facts
<1>7. (Served' => Served) /\ (Acked' => Acked)
  BY <1>1, <1>4 DEF Served, Acked, Sides
<1>8. /\ Arrived' <= Arrived /\ Left' <= Left
      /\ Arrived \in Nat /\ Left \in Nat /\ Arrived' \in Nat /\ Left' \in Nat
  BY <1>2, <1>3, <1>6, <1>7 DEF Arrived, Left
<1>9. TypeOK'
  BY <1>1, <1>3, <1>4, <1>5 DEF IndInv, TypeOK
<1>10. ProcessInv'
  <2> SUFFICES ASSUME NEW t \in Sides
               PROVE  /\ up'[t] <=> apc'[t] \notin {"panicked", "exited"}
                      /\ apc'[t] = "exited" => HostGone(t)
                      /\ hpc[t] = "broken" => apc'[t] = "panicked"
    BY <1>3 DEF IndInv, ProcessInv, HostGone
  <2>1. CASE t = s
    BY <1>1, <1>4, <1>5, <2>1 DEF IndInv, ProcessInv
  <2>2. CASE t # s
    BY <1>4, <1>5, <2>2 DEF IndInv, ProcessInv
  <2> QED
    BY <2>1, <2>2
<1>11. MessageReady' = MessageReady /\ RoomReady' = RoomReady
  BY <1>2, <1>3 DEF MessageReady, RoomReady
<1>12. \A t \in Sides : apc'[t] = apc[t] \/ apc'[t] = "exited"
  BY <1>4
<1>13. SendInv'
  BY <1>1, <1>2, <1>3, <1>11, <1>12 DEF IndInv, SendInv, Sides
<1>14. RecvInv'
  BY <1>1, <1>2, <1>3, <1>11, <1>12 DEF IndInv, RecvInv, Sides
<1>15. MoveInv'
  BY <1>1, <1>3 DEF IndInv, MoveInv
<1>16. FailInv'
  <2>1. up'["server"] => up["server"]
    BY <1>1, <1>5 DEF Sides
  <2> QED
    BY <1>1, <1>3, <1>12, <2>1 DEF IndInv, FailInv, Sides
<1>17. FlowInv'
  <2>1. ~ (up'["client"] /\ up'["server"])
    BY <1>5 DEF Sides
  <2>2. CMsg <= SMsg => Left' <= SHead + BufferSize
    BY <1>6, <1>8 DEF IndInv, FlowInv
  <2> QED
    BY <1>2, <1>3, <2>1, <2>2 DEF FlowInv
<1>18. DataInv'
  <2> SUFFICES ASSUME SameMessage PROVE DataInv'
    BY <1>3 DEF DataInv
  <2>1. \A p \in SHead .. Arrived' - 1 : p \in SHead .. Arrived - 1
    BY <1>6, <1>8, Shorter
  <2>2. \A p \in SHead' .. Arrived' - 1 : SSlots'[p % BufferSize] = sent'[p + 1]
    BY <1>2, <1>3, <2>1 DEF IndInv, DataInv
  <2>3. Arrived' <= CTail'
    BY <1>2, <1>6, <1>8 DEF IndInv, DataInv
  <2>4. /\ \A k \in 0 .. moved' - 1 :
             /\ STail' + k < CTail'
             /\ SSlots'[(STail' + k) % BufferSize] = sent'[STail' + k + 1]
        /\ \A k \in 1 .. Len(got') : got'[k] = sent'[k]
    BY <1>1, <1>2, <1>3 DEF IndInv, DataInv
  <2> QED
    BY <2>2, <2>3, <2>4 DEF DataInv
<1>19. OddInv'
  BY <1>2, <1>3, <1>7 DEF IndInv, OddInv
<1> QED
  BY <1>3, <1>9, <1>10, <1>13, <1>14, <1>15, <1>16, <1>17, <1>18, <1>19 DEF IndInv
------------------------------------------------------------------------------
(* The cards.                                                              *)

\* A message that is on its way.
LEMMA OnItsWay ==
  ASSUME IndInv
  PROVE  /\ sq # <<>> => /\ sq = <<Request(CHead, CMsg)>> /\ moved \in -1 .. CMsg
                         /\ MessageReady /\ cq["client"] = <<>>
                         /\ apc["client"] \in {"poll", "exited"}
                         /\ sq[1].at = CHead % BufferSize /\ sq[1].len = CMsg
                         /\ Tail(sq) = <<>>
         /\ rq # <<>> => /\ rq = <<Request(STail, SMsg)>>
                         /\ RoomReady /\ cq["server"] = <<>>
                         /\ apc["server"] \in {"poll", "exited"}
                         /\ rq[1].at = STail % BufferSize /\ rq[1].len = SMsg
                         /\ Tail(rq) = <<>>
<1>1. CHead % BufferSize \in Int /\ STail % BufferSize \in Int
  BY Facts, DivMod, SMTT(30) DEF Slots
<1>2. /\ Request(CHead, CMsg).at = CHead % BufferSize /\ Request(CHead, CMsg).len = CMsg
      /\ Request(STail, SMsg).at = STail % BufferSize /\ Request(STail, SMsg).len = SMsg
  BY <1>1 DEF Request, SliceSlot
<1>3. sq # <<>> => /\ sq = <<Request(CHead, CMsg)>> /\ moved \in -1 .. CMsg
                   /\ MessageReady /\ cq["client"] = <<>>
                   /\ apc["client"] \in {"poll", "exited"}
  BY DEF IndInv, SendInv
<1>4. rq # <<>> => /\ rq = <<Request(STail, SMsg)>>
                   /\ RoomReady /\ cq["server"] = <<>>
                   /\ apc["server"] \in {"poll", "exited"}
  BY DEF IndInv, RecvInv
<1> QED
  BY <1>2, <1>3, <1>4, One

LEMMA MoveItemKeeps ==
  ASSUME IndInv, MoveItem, UNCHANGED <<avars, hvars>>
  PROVE  IndInv'
<1> DEFINE to == (STail + moved) % BufferSize
           from == (CHead + moved) % BufferSize
<1>1. /\ up["client"] /\ up["server"] /\ sq # <<>> /\ rq # <<>> /\ moved # Delivered
      /\ sq[1].len <= rq[1].len /\ moved < sq[1].len
      /\ ring' = [ring EXCEPT !["server"].slots[rq[1].at + moved] =
                    CSlots[sq[1].at + moved]]
      /\ moved' = moved + 1
      /\ UNCHANGED <<up, sq, rq, cq, msg, apc, chunk>>
  BY DEF MoveItem, Matched, CSlots, avars
<1>2. /\ CHead \in Nat /\ CTail \in Nat /\ SHead \in Nat /\ STail \in Nat
      /\ CMsg \in Nat /\ SMsg \in Nat /\ BufferSize \in Nat /\ BufferSize > 0
      /\ CSlots \in [Slots -> Nat \cup {NoItem}]
      /\ SSlots \in [Slots -> Nat \cup {NoItem}]
  BY Facts
<1>3. /\ sq = <<Request(CHead, CMsg)>> /\ MessageReady /\ cq["client"] = <<>>
      /\ rq = <<Request(STail, SMsg)>> /\ RoomReady /\ cq["server"] = <<>>
      /\ apc["client"] \in {"poll", "exited"} /\ apc["server"] \in {"poll", "exited"}
      /\ sq[1].at = CHead % BufferSize /\ sq[1].len = CMsg
      /\ rq[1].at = STail % BufferSize /\ rq[1].len = SMsg
      /\ moved \in -1 .. CMsg
  BY <1>1, OnItsWay
<1>4. moved \in Nat /\ moved < CMsg /\ CMsg <= SMsg
  BY <1>1, <1>2, <1>3 DEF Delivered
<1>5. /\ rq[1].at + moved = to /\ to \in Slots
      /\ sq[1].at + moved = from /\ from \in Slots
  <2>1. ToEnd(CHead) \in Int /\ ToEnd(STail) \in Int
    BY <1>2, DivMod DEF ToEnd, Slots
  <2>2. moved < ToEnd(CHead) /\ moved < ToEnd(STail)
    BY <1>2, <1>3, <1>4, <2>1 DEF MessageReady, RoomReady
  <2>3. /\ SliceSlot(CHead, moved) = from /\ from \in Slots
        /\ SliceSlot(STail, moved) = to /\ to \in Slots
    BY <1>2, <1>4, <2>2, SliceSlots
  <2> QED
    BY <1>3, <2>3 DEF SliceSlot
<1>6. CSlots[from] = sent[CHead + moved + 1] /\ CSlots[from] \in Nat \cup {NoItem}
  <2>1. CHead + moved \in CHead .. CTail - 1
    BY <1>2, <1>3, <1>4 DEF MessageReady
  <2>2. CSlots[(CHead + moved) % BufferSize] = sent[(CHead + moved) + 1]
    BY <2>1 DEF IndInv, ClientRingInv
  <2> QED
    BY <1>2, <1>5, <2>2
<1> HIDE DEF to, from
<1>7. /\ ring' \in [Sides -> Rings] /\ ring'["client"] = ring["client"]
      /\ SHead' = SHead /\ STail' = STail
      /\ SSlots' = [SSlots EXCEPT ![to] = CSlots[from]]
  <2> DEFINE r == [ring["server"] EXCEPT !.slots = [SSlots EXCEPT ![to] = CSlots[from]]]
  <2>1. ring["server"] \in Rings
    BY DEF IndInv, TypeOK, Sides
  <2>2. [SSlots EXCEPT ![to] = CSlots[from]] \in [Slots -> Nat \cup {NoItem}]
    BY <1>2, <1>5, <1>6
  <2>3. /\ r \in Rings /\ r.head = SHead /\ r.tail = STail
        /\ r.slots = [SSlots EXCEPT ![to] = CSlots[from]]
    BY <2>1, <2>2 DEF Rings, SHead, STail
  <2>4. ring' = [ring EXCEPT !["server"] = r]
    BY <1>1, <1>5 DEF SSlots
  <2> HIDE DEF r
  <2>5. ring' \in [Sides -> Rings] /\ ring'["client"] = ring["client"] /\ ring'["server"] = r
    BY <2>3, <2>4 DEF IndInv, TypeOK, Sides
  <2> QED
    BY <2>3, <2>5 DEF SHead, STail, SSlots
<1>8. UNCHANGED <<CHead, CTail, CSlots, SHead, STail>>
  BY <1>7 DEF CHead, CTail, CSlots
<1>9. /\ UNCHANGED <<hpc, batch, next, room, sent, hchunk, expected, got>>
      /\ UNCHANGED <<CMsg, SMsg, SameMessage, Aligned>>
      /\ ClientRingInv' /\ ServerRingInv' /\ AlignInv'
  BY <1>1, <1>8, HostsStay
<1>10. moved' \in Nat /\ moved' # Delivered /\ moved' \in -1 .. CMsg
  BY <1>1, <1>2, <1>4 DEF Delivered
<1>11. Served' = Served /\ Acked' = Acked /\ ~ Served /\ ~ Acked
  BY <1>1, <1>3, <1>10, One DEF Served, Acked
<1>12. Arrived' = Arrived /\ Left' = Left /\ Arrived = STail /\ Left = CHead
  BY <1>8, <1>9, <1>11 DEF Arrived, Left
<1>13. TypeOK'
  BY <1>1, <1>7, <1>9, <1>10 DEF IndInv, TypeOK
<1>14. ProcessInv'
  BY <1>1, <1>9 DEF IndInv, ProcessInv, HostGone
<1>15. MessageReady' = MessageReady /\ RoomReady' = RoomReady
  BY <1>8, <1>9 DEF MessageReady, RoomReady
<1>16. SendInv'
  BY <1>1, <1>3, <1>8, <1>9, <1>10, <1>15 DEF IndInv, SendInv
<1>17. RecvInv' /\ FailInv' /\ FlowInv'
  BY <1>1, <1>8, <1>9, <1>12, <1>15 DEF IndInv, RecvInv, FailInv, FlowInv
<1>18. MoveInv'
  BY <1>1, <1>4, <1>9 DEF MoveInv
<1>19. ASSUME NEW p \in Nat, p < STail + moved, p >= SHead
       PROVE  SSlots'[p % BufferSize] = SSlots[p % BufferSize]
  <2>1. STail + moved \in Nat /\ STail + moved < p + BufferSize
    BY <1>2, <1>3, <1>4, <1>19 DEF RoomReady
  <2>2. p % BufferSize # to /\ p % BufferSize \in Slots
    BY <1>19, <2>1, ModDistinct, DivMod DEF to
  <2> QED
    BY <1>2, <1>7, <2>2
<1>20. DataInv'
  <2> SUFFICES ASSUME SameMessage PROVE DataInv'
    BY <1>9 DEF DataInv
  <2>1. STail = CHead
    BY <1>1, <1>12 DEF IndInv, FlowInv
  <2>2. ASSUME NEW p \in SHead .. STail - 1
        PROVE  SSlots'[p % BufferSize] = sent[p + 1]
    <3>1. p \in Nat /\ p < STail + moved /\ p >= SHead
      BY <1>2, <1>4
    <3>2. SSlots[p % BufferSize] = sent[p + 1]
      BY <1>12 DEF IndInv, DataInv
    <3> QED
      BY <1>19, <3>1, <3>2
  <2>3. ASSUME NEW k \in 0 .. moved
        PROVE  /\ STail + k < CTail
               /\ SSlots'[(STail + k) % BufferSize] = sent[STail + k + 1]
    <3>1. CASE k = moved
      <4>1. STail + k < CTail
        BY <1>2, <1>3, <1>4, <2>1, <3>1 DEF MessageReady
      <4>2. SSlots'[to] = CSlots[from]
        BY <1>2, <1>5, <1>7
      <4> QED
        BY <1>6, <2>1, <3>1, <4>1, <4>2 DEF to
    <3>2. CASE k # moved
      <4>1. k \in 0 .. moved - 1
        BY <1>4, <3>2
      <4>2. STail + k < CTail /\ SSlots[(STail + k) % BufferSize] = sent[STail + k + 1]
        BY <4>1 DEF IndInv, DataInv
      <4>3. STail + k \in Nat /\ STail + k < STail + moved /\ STail + k >= SHead
        BY <1>2, <1>4, <4>1 DEF IndInv, ServerRingInv
      <4> QED
        BY <1>19, <4>2, <4>3
    <3> QED
      BY <3>1, <3>2
  <2>4. 0 .. moved' - 1 = 0 .. moved
    BY <1>1, <1>4
  <2>5. STail <= CTail /\ \A k \in 1 .. Len(got) : got[k] = sent[k]
    BY <1>12 DEF IndInv, DataInv
  <2> QED
    BY <1>8, <1>9, <1>12, <2>2, <2>3, <2>4, <2>5 DEF DataInv
<1>21. OddInv'
  <2>1. ASSUME CMsg < SMsg, NEW p \in Slots, CMsg <= p, p < SMsg
        PROVE  SSlots'[p] = NoItem
    <3>1. SSlots[p] = NoItem /\ SHead = 0 /\ (STail = 0 \/ SMsg <= STail)
      BY <2>1 DEF IndInv, OddInv
    <3>2. STail + moved < BufferSize
      BY <1>2, <1>3, <1>4, <3>1 DEF RoomReady
    <3>3. (BufferSize * 0 + (STail + moved)) % BufferSize = STail + moved
      BY <1>2, <1>4, <3>2, ModUnique, SMTT(30) DEF Slots
    <3>4. to = STail + moved
      BY <1>2, <1>4, <3>3 DEF to
    <3>5. p # to
      BY <1>2, <1>4, <2>1, <3>1, <3>4 DEF Slots
    <3> QED
      BY <1>2, <1>7, <3>1, <3>5
  <2> QED
    BY <1>2, <1>4, <1>8, <1>9, <1>11, <2>1 DEF IndInv, OddInv
<1> QED
  BY <1>9, <1>13, <1>14, <1>16, <1>17, <1>18, <1>20, <1>21 DEF IndInv

\* Only the queues change: the rings, the processes and the history stay.
LEMMA QueuesMove ==
  ASSUME IndInv, UNCHANGED <<ring, up, avars, hvars>>
  PROVE  /\ UNCHANGED <<ring, up, msg, apc, chunk>>
         /\ UNCHANGED <<hpc, batch, next, room, sent, hchunk, expected, got>>
         /\ UNCHANGED <<CHead, CTail, CSlots, SHead, STail, SSlots>>
         /\ UNCHANGED <<CMsg, SMsg, SameMessage, Aligned, MessageReady, RoomReady>>
         /\ ProcessInv' /\ ClientRingInv' /\ ServerRingInv' /\ AlignInv'
<1>1. UNCHANGED <<ring, up, msg, apc, chunk>>
  BY DEF avars
<1>2. UNCHANGED <<CHead, CTail, CSlots, SHead, STail, SSlots>>
  BY DEF CHead, CTail, CSlots, SHead, STail, SSlots
<1>3. /\ UNCHANGED <<hpc, batch, next, room, sent, hchunk, expected, got>>
      /\ UNCHANGED <<CMsg, SMsg, SameMessage, Aligned>>
      /\ ClientRingInv' /\ ServerRingInv' /\ AlignInv'
  BY <1>1, <1>2, HostsStay
<1>4. UNCHANGED <<MessageReady, RoomReady>>
  BY <1>2, <1>3 DEF MessageReady, RoomReady
<1>5. ProcessInv'
  BY <1>1, <1>3 DEF IndInv, ProcessInv, HostGone
<1> QED
  BY <1>1, <1>2, <1>3, <1>4, <1>5

\* A completion arrives at an empty completion queue.
LEMMA Completes ==
  ASSUME TypeOK, NEW s \in Sides, cq[s] = <<>>, NEW op \in {"SEND", "RECV"},
         NEW st \in Statuses, cq' = [cq EXCEPT ![s] = Append(@, Completion(op, st))]
  PROVE  /\ cq'[s] = <<Completion(op, st)>> /\ \A t \in Sides \ {s} : cq'[t] = cq[t]
         /\ cq' \in [Sides -> Seq(Completions)]
<1>1. Append(cq[s], Completion(op, st)) = <<Completion(op, st)>>
  BY One
<1>2. <<Completion(op, st)>> \in Seq(Completions)
  BY OneTyped DEF Completion, Completions
<1> QED
  BY <1>1, <1>2 DEF TypeOK

LEMMA DeliverKeeps ==
  ASSUME IndInv, Deliver, UNCHANGED <<avars, hvars>>
  PROVE  IndInv'
<1>1. /\ up["client"] /\ up["server"] /\ sq # <<>> /\ rq # <<>>
      /\ moved = sq[1].len /\ rq' = Tail(rq) /\ moved' = Delivered
      /\ cq' = [cq EXCEPT !["server"] = Append(@, Completion("RECV", "SUCCESS"))]
      /\ UNCHANGED <<ring, up, sq>>
  BY DEF Deliver, Matched
<1>2. /\ UNCHANGED <<ring, up, msg, apc, chunk>>
      /\ UNCHANGED <<hpc, batch, next, room, sent, hchunk, expected, got>>
      /\ UNCHANGED <<CHead, CTail, CSlots, SHead, STail, SSlots>>
      /\ UNCHANGED <<CMsg, SMsg, SameMessage, Aligned, MessageReady, RoomReady>>
      /\ ProcessInv' /\ ClientRingInv' /\ ServerRingInv' /\ AlignInv'
  BY <1>1, QueuesMove
<1>3. /\ CHead \in Nat /\ CTail \in Nat /\ SHead \in Nat /\ STail \in Nat
      /\ CMsg \in Nat /\ CMsg > 0 /\ SMsg \in Nat /\ BufferSize \in Nat
  BY Facts
<1>4. /\ sq = <<Request(CHead, CMsg)>> /\ MessageReady /\ cq["client"] = <<>>
      /\ rq = <<Request(STail, SMsg)>> /\ RoomReady /\ cq["server"] = <<>>
      /\ apc["client"] \in {"poll", "exited"} /\ apc["server"] \in {"poll", "exited"}
      /\ moved = CMsg /\ rq' = <<>>
  BY <1>1, OnItsWay
<1>5. CMsg <= SMsg
  BY <1>3, <1>4 DEF IndInv, MoveInv
<1>6. /\ cq'["server"] = <<Completion("RECV", "SUCCESS")>> /\ cq'["client"] = <<>>
      /\ cq' \in [Sides -> Seq(Completions)]
  BY <1>1, <1>4, Completes DEF IndInv, Sides, Statuses
<1>7. ~ Served /\ ~ Acked /\ Served' /\ Acked'
  BY <1>1, <1>2, <1>3, <1>4, <1>6, One DEF Served, Acked, Delivered
<1>8. Arrived = STail /\ Left = CHead /\ Arrived' = STail + SMsg /\ Left' = CHead + CMsg
  BY <1>2, <1>7 DEF Arrived, Left
<1>9. TypeOK'
  BY <1>1, <1>2, <1>4, <1>6 DEF IndInv, TypeOK
<1>10. SendInv'
  <2>1. Delivered \in -1 .. CMsg
    BY <1>3 DEF Delivered
  <2> QED
    BY <1>1, <1>2, <1>4, <1>6, <2>1 DEF IndInv, SendInv
<1>11. RecvInv'
  <2>1. \E st \in Statuses : cq'["server"] = <<Completion("RECV", st)>>
    BY <1>6 DEF Statuses
  <2> QED
    BY <1>2, <1>4, <2>1 DEF IndInv, RecvInv
<1>12. MoveInv' /\ FailInv'
  BY <1>1, <1>2, <1>3, <1>5, <1>6 DEF IndInv, MoveInv, FailInv, Delivered
<1>13. FlowInv'
  <2>1. CHead <= STail /\ (SameMessage => CHead = STail)
    BY <1>1, <1>5, <1>8 DEF IndInv, FlowInv
  <2>2. SameMessage => CMsg = SMsg
    BY DEF SameMessage, CMsg, SMsg
  <2>3. Left' <= Arrived' /\ (SameMessage => Left' = Arrived')
    BY <1>3, <1>5, <1>8, <2>1, <2>2
  <2>4. Left' <= SHead + BufferSize
    BY <1>3, <1>4, <1>5, <1>8, <2>1 DEF RoomReady
  <2> QED
    BY <1>2, <2>3, <2>4 DEF FlowInv
<1>14. DataInv'
  <2> SUFFICES ASSUME SameMessage PROVE DataInv'
    BY <1>2 DEF DataInv
  <2>1. CHead = STail /\ CMsg = SMsg
    BY <1>1, <1>8 DEF IndInv, FlowInv, SameMessage, CMsg, SMsg
  <2>2. Arrived' <= CTail
    BY <1>4, <1>8, <2>1 DEF MessageReady
  <2>3. ASSUME NEW p \in SHead .. STail + SMsg - 1
        PROVE  SSlots[p % BufferSize] = sent[p + 1]
    <3>1. CASE p < STail
      <4>1. p \in SHead .. Arrived - 1
        BY <1>3, <1>8, <3>1
      <4> QED
        BY <4>1 DEF IndInv, DataInv
    <3>2. CASE p >= STail
      <4>1. p - STail \in 0 .. moved - 1 /\ STail + (p - STail) = p
        BY <1>3, <1>4, <2>1, <3>2
      <4>2. SSlots[(STail + (p - STail)) % BufferSize] = sent[STail + (p - STail) + 1]
        BY <4>1 DEF IndInv, DataInv
      <4> QED
        BY <4>1, <4>2
    <3> QED
      BY <1>3, <3>1, <3>2
  <2>4. \A k \in 0 .. moved' - 1 : FALSE
    BY <1>1 DEF Delivered
  <2>5. \A k \in 1 .. Len(got) : got[k] = sent[k]
    BY DEF IndInv, DataInv
  <2>6. \A p \in SHead' .. Arrived' - 1 : SSlots'[p % BufferSize] = sent'[p + 1]
    <3>1. SHead' .. Arrived' - 1 = SHead .. STail + SMsg - 1
      BY <1>2, <1>3, <1>8
    <3> QED
      BY <1>2, <2>3, <3>1
  <2> QED
    BY <1>2, <2>2, <2>4, <2>5, <2>6 DEF DataInv
<1>15. OddInv'
  BY <1>2, <1>3, <1>5 DEF IndInv, OddInv
<1> QED
  BY <1>2, <1>9, <1>10, <1>11, <1>12, <1>13, <1>14, <1>15 DEF IndInv

LEMMA AcknowledgeKeeps ==
  ASSUME IndInv, Acknowledge, UNCHANGED <<avars, hvars>>
  PROVE  IndInv'
<1>1. /\ moved = Delivered /\ sq' = Tail(sq) /\ moved' = 0
      /\ cq' = [cq EXCEPT !["client"] = Append(@, Completion("SEND", "SUCCESS"))]
      /\ UNCHANGED <<ring, up, rq>>
  BY DEF Acknowledge
<1>2. /\ UNCHANGED <<ring, up, msg, apc, chunk>>
      /\ UNCHANGED <<hpc, batch, next, room, sent, hchunk, expected, got>>
      /\ UNCHANGED <<CHead, CTail, CSlots, SHead, STail, SSlots>>
      /\ UNCHANGED <<CMsg, SMsg, SameMessage, Aligned, MessageReady, RoomReady>>
      /\ ProcessInv' /\ ClientRingInv' /\ ServerRingInv' /\ AlignInv'
  BY <1>1, QueuesMove
<1>3. sq # <<>>
  BY <1>1 DEF IndInv, SendInv, Delivered
<1>4. /\ cq["client"] = <<>> /\ apc["client"] \in {"poll", "exited"} /\ sq' = <<>>
  BY <1>1, <1>3, OnItsWay
<1>5. /\ cq'["client"] = <<Completion("SEND", "SUCCESS")>> /\ cq'["server"] = cq["server"]
      /\ cq' \in [Sides -> Seq(Completions)]
  BY <1>1, <1>4, Completes DEF IndInv, Sides, Statuses
<1>6. Served' = Served /\ Acked' = Acked
  BY <1>1, <1>2, <1>5 DEF Served, Acked
<1>7. Arrived' = Arrived /\ Left' = Left
  BY <1>2, <1>6 DEF Arrived, Left
<1>8. TypeOK'
  <2>1. sq' \in Seq(Requests)
    BY <1>4, OneTyped
  <2> QED
    BY <1>1, <1>2, <1>5, <2>1 DEF IndInv, TypeOK
<1>9. SendInv'
  <2>1. \E st \in Statuses : cq'["client"] = <<Completion("SEND", st)>>
    BY <1>5 DEF Statuses
  <2> QED
    BY <1>1, <1>2, <1>4, <2>1 DEF IndInv, SendInv
<1>10. RecvInv' /\ MoveInv' /\ FlowInv' /\ OddInv'
  BY <1>1, <1>2, <1>5, <1>6, <1>7 DEF IndInv, RecvInv, MoveInv, FlowInv, OddInv
<1>11. FailInv'
  BY <1>2, <1>5 DEF IndInv, FailInv
<1>12. DataInv'
  <2>1. \A k \in 0 .. moved' - 1 : FALSE
    BY <1>1
  <2> QED
    BY <1>2, <1>7, <2>1 DEF IndInv, DataInv
<1> QED
  BY <1>2, <1>8, <1>9, <1>10, <1>11, <1>12 DEF IndInv

LEMMA TooLongKeeps ==
  ASSUME IndInv, TooLong, UNCHANGED <<avars, hvars>>
  PROVE  IndInv'
<1>1. /\ sq # <<>> /\ rq # <<>> /\ moved # Delivered /\ sq[1].len > rq[1].len
      /\ cq' = [client |-> Append(cq["client"], Completion("SEND", "REM_INV_REQ_ERR")),
                server |-> Append(cq["server"], Completion("RECV", "LOC_LEN_ERR"))]
      /\ sq' = Tail(sq) /\ rq' = Tail(rq)
      /\ UNCHANGED <<ring, up, moved>>
  BY DEF TooLong, Matched
<1>2. /\ UNCHANGED <<ring, up, msg, apc, chunk>>
      /\ UNCHANGED <<hpc, batch, next, room, sent, hchunk, expected, got>>
      /\ UNCHANGED <<CHead, CTail, CSlots, SHead, STail, SSlots>>
      /\ UNCHANGED <<CMsg, SMsg, SameMessage, Aligned, MessageReady, RoomReady>>
      /\ ProcessInv' /\ ClientRingInv' /\ ServerRingInv' /\ AlignInv'
  BY <1>1, QueuesMove
<1>3. CMsg \in Nat /\ SMsg \in Nat
  BY Facts
<1>4. /\ cq["client"] = <<>> /\ apc["client"] \in {"poll", "exited"} /\ sq' = <<>>
      /\ cq["server"] = <<>> /\ apc["server"] \in {"poll", "exited"} /\ rq' = <<>>
      /\ RoomReady /\ CMsg > SMsg
  BY <1>1, OnItsWay
<1>5. moved = 0
  BY <1>3, <1>4 DEF IndInv, MoveInv
<1>6. /\ cq'["client"] = <<Completion("SEND", "REM_INV_REQ_ERR")>>
      /\ cq'["server"] = <<Completion("RECV", "LOC_LEN_ERR")>>
      /\ cq' \in [Sides -> Seq(Completions)]
  <2> DEFINE c == <<Completion("SEND", "REM_INV_REQ_ERR")>>
             d == <<Completion("RECV", "LOC_LEN_ERR")>>
  <2>1. cq' = [client |-> c, server |-> d]
    BY <1>1, <1>4, One
  <2>2. c \in Seq(Completions) /\ d \in Seq(Completions)
    BY OneTyped DEF Completion, Completions, Statuses
  <2> HIDE DEF c, d
  <2>3. cq' \in [Sides -> Seq(Completions)] /\ cq'["client"] = c /\ cq'["server"] = d
    BY <2>1, <2>2 DEF Sides
  <2> QED
    BY <2>3 DEF c, d
<1>7. ~ Served' /\ ~ Acked' /\ ~ Served /\ ~ Acked
  BY <1>1, <1>2, <1>4, <1>5, <1>6, One DEF Served, Acked, Completion, Delivered
<1>8. Arrived' = Arrived /\ Left' = Left
  BY <1>2, <1>7 DEF Arrived, Left
<1>9. TypeOK'
  <2>1. sq' \in Seq(Requests) /\ rq' \in Seq(Requests)
    BY <1>4, OneTyped
  <2> QED
    BY <1>1, <1>2, <1>6, <2>1 DEF IndInv, TypeOK
<1>10. SendInv' /\ RecvInv'
  <2>1. /\ \E st \in Statuses : cq'["client"] = <<Completion("SEND", st)>>
        /\ \E st \in Statuses : cq'["server"] = <<Completion("RECV", st)>>
    BY <1>6 DEF Statuses
  <2>2. SendInv'
    BY <1>1, <1>2, <1>4, <1>5, <2>1 DEF IndInv, SendInv
  <2>3. RecvInv'
    BY <1>1, <1>2, <1>4, <2>1 DEF IndInv, RecvInv
  <2> QED
    BY <2>2, <2>3
<1>11. MoveInv' /\ FailInv'
  BY <1>1, <1>2, <1>3, <1>4, <1>5 DEF MoveInv, FailInv
<1>12. FlowInv' /\ DataInv'
  BY <1>1, <1>2, <1>8 DEF IndInv, FlowInv, DataInv
<1>13. OddInv'
  BY <1>2, <1>7 DEF IndInv, OddInv
<1> QED
  BY <1>2, <1>9, <1>10, <1>11, <1>12, <1>13 DEF IndInv

LEMMA RetryExceededKeeps ==
  ASSUME IndInv, RetryExceeded, UNCHANGED <<avars, hvars>>
  PROVE  IndInv'
<1>1. /\ ~ up["server"] /\ sq # <<>> /\ sq' = Tail(sq) /\ moved' = 0
      /\ cq' = [cq EXCEPT !["client"] = Append(@, Completion("SEND", "RETRY_EXC_ERR"))]
      /\ UNCHANGED <<ring, up, rq>>
  BY DEF RetryExceeded
<1>2. /\ UNCHANGED <<ring, up, msg, apc, chunk>>
      /\ UNCHANGED <<hpc, batch, next, room, sent, hchunk, expected, got>>
      /\ UNCHANGED <<CHead, CTail, CSlots, SHead, STail, SSlots>>
      /\ UNCHANGED <<CMsg, SMsg, SameMessage, Aligned, MessageReady, RoomReady>>
      /\ ProcessInv' /\ ClientRingInv' /\ ServerRingInv' /\ AlignInv'
  BY <1>1, QueuesMove
<1>3. /\ CHead \in Nat /\ CMsg \in Nat /\ SHead \in Nat /\ BufferSize \in Nat
  BY Facts
<1>4. /\ cq["client"] = <<>> /\ apc["client"] \in {"poll", "exited"} /\ sq' = <<>>
  BY <1>1, OnItsWay
<1>5. /\ cq'["client"] = <<Completion("SEND", "RETRY_EXC_ERR")>>
      /\ cq'["server"] = cq["server"]
      /\ cq' \in [Sides -> Seq(Completions)]
  BY <1>1, <1>4, Completes DEF IndInv, Sides, Statuses
<1>6. Served' = Served /\ ~ Acked'
  BY <1>1, <1>2, <1>4, <1>5, One DEF Served, Acked, Completion, Delivered
<1>7. Arrived' = Arrived /\ Left' = CHead /\ CHead <= Left /\ Left \in Nat
  BY <1>2, <1>3, <1>6 DEF Arrived, Left
<1>8. TypeOK'
  <2>1. sq' \in Seq(Requests)
    BY <1>4, OneTyped
  <2> QED
    BY <1>1, <1>2, <1>5, <2>1 DEF IndInv, TypeOK
<1>9. SendInv'
  <2>1. \E st \in Statuses : cq'["client"] = <<Completion("SEND", st)>>
    BY <1>5 DEF Statuses
  <2> QED
    BY <1>1, <1>2, <1>4, <2>1 DEF IndInv, SendInv
<1>10. RecvInv' /\ MoveInv' /\ FailInv'
  BY <1>1, <1>2, <1>5 DEF IndInv, RecvInv, MoveInv, FailInv
<1>11. FlowInv'
  BY <1>1, <1>2, <1>3, <1>7 DEF IndInv, FlowInv
<1>12. DataInv'
  <2>1. \A k \in 0 .. moved' - 1 : FALSE
    BY <1>1
  <2> QED
    BY <1>2, <1>7, <2>1 DEF IndInv, DataInv
<1>13. OddInv'
  BY <1>2, <1>6 DEF IndInv, OddInv
<1> QED
  BY <1>2, <1>8, <1>9, <1>10, <1>11, <1>12, <1>13 DEF IndInv
------------------------------------------------------------------------------
(* Induction.                                                              *)

LEMMA InitKeeps ==
  ASSUME Init
  PROVE  IndInv
<1>1. PICK args \in Arguments :
        batch = args.batch /\ msg = [client |-> args.cmsg, server |-> args.smsg]
  BY DEF Init
<1>2. /\ batch \in Nat \ {0} /\ msg \in [Sides -> Nat \ {0}]
      /\ CMsg \in Nat \ {0} /\ SMsg \in Nat \ {0}
  BY <1>1, ArgumentsAssumption DEF Sides, CMsg, SMsg
<1>3. /\ ring = [s \in Sides |-> EmptyRing] /\ up = [s \in Sides |-> TRUE]
      /\ sq = <<>> /\ rq = <<>> /\ moved = 0 /\ cq = [s \in Sides |-> <<>>]
      /\ apc = [s \in Sides |-> "try"] /\ chunk = [s \in Sides |-> Chunk(0, 0)]
      /\ hpc = [s \in Sides |-> IF s = "client" THEN "fill" ELSE "read"]
      /\ next = 0 /\ room = 0 /\ hchunk = [start |-> 0, end |-> 0]
      /\ expected = 0 /\ sent = <<>> /\ got = <<>>
  BY DEF Init, QpInit, AdapterInit, HostInit
<1>4. /\ EmptyRing.head = 0 /\ EmptyRing.tail = 0
      /\ EmptyRing.slots = [p \in Slots |-> NoItem] /\ EmptyRing \in Rings
  BY DEF EmptyRing, Rings
<1>5. /\ CHead = 0 /\ CTail = 0 /\ SHead = 0 /\ STail = 0
      /\ SSlots = [p \in Slots |-> NoItem]
  BY <1>3, <1>4 DEF CHead, CTail, SHead, STail, SSlots, Sides
<1>6. /\ apc["client"] = "try" /\ apc["server"] = "try"
      /\ up["client"] /\ up["server"] /\ cq["client"] = <<>> /\ cq["server"] = <<>>
      /\ hpc["client"] = "fill" /\ hpc["server"] = "read"
  BY <1>3 DEF Sides
<1>7. ~ Served /\ ~ Acked
  <2>1. moved # Delivered
    BY <1>3 DEF Delivered
  <2>2. \A op, st : <<Completion(op, st)>> # <<>>
    BY One
  <2> QED
    BY <1>6, <2>1, <2>2 DEF Served, Acked
<1>8. Arrived = 0 /\ Left = 0
  BY <1>5, <1>7 DEF Arrived, Left
<1>9. Len(sent) = 0 /\ Len(got) = 0 /\ BufferSize \in Nat /\ MaxData \in Nat
  BY <1>3, BufferSizeAssumption, HostAssumption
<1>10. TypeOK
  <2>1. /\ ring \in [Sides -> Rings] /\ up \in [Sides -> BOOLEAN]
        /\ moved \in Nat \cup {Delivered}
    BY <1>3, <1>4
  <2>2. /\ sq \in Seq(Requests) /\ rq \in Seq(Requests)
        /\ cq \in [Sides -> Seq(Completions)] /\ sent \in Seq(Nat) /\ got \in Seq(Nat)
    BY <1>3, OneTyped
  <2>3. /\ chunk \in [Sides -> Chunks] /\ hchunk \in Chunks
        /\ apc \in [Sides -> {"try", "post", "poll", "commit", "panicked", "exited"}]
        /\ hpc \in [Sides -> {"fill", "write", "copy", "last", "ended", "broken",
                              "read", "check", "mismatch"}]
    BY <1>3 DEF Chunk, Chunks
  <2>4. next \in 0 .. MaxData + batch /\ room \in Nat /\ expected \in Nat
    BY <1>2, <1>3, <1>9
  <2> QED
    BY <1>2, <2>1, <2>2, <2>3, <2>4 DEF TypeOK
<1>11. ProcessInv
  BY <1>6 DEF ProcessInv, HostGone, Sides
<1>12. ClientRingInv /\ ServerRingInv
  BY <1>3, <1>5, <1>6, <1>9 DEF ClientRingInv, ServerRingInv
<1>13. SendInv /\ RecvInv /\ MoveInv
  BY <1>3, <1>6 DEF SendInv, RecvInv, MoveInv
<1>14. FailInv /\ FlowInv
  BY <1>5, <1>6, <1>8, <1>9 DEF FailInv, FlowInv
<1>15. DataInv
  BY <1>3, <1>5, <1>8, <1>9 DEF DataInv
<1>16. OddInv
  BY <1>5, <1>6, <1>7 DEF OddInv
<1>17. AlignInv
  <2>1. CHead % CMsg = 0 /\ CTail % batch = 0
    BY <1>2, <1>5
  <2> QED
    BY <1>3, <1>5, <1>6, <1>9, <2>1 DEF AlignInv
<1> QED
  BY <1>10, <1>11, <1>12, <1>13, <1>14, <1>15, <1>16, <1>17 DEF IndInv

LEMMA StutterKeeps ==
  ASSUME IndInv, UNCHANGED vars
  PROVE  IndInv'
<1>1. UNCHANGED <<ring, up, sq, rq, moved, cq, msg, apc, chunk, batch, hpc, next, room,
                  hchunk, expected, sent, got>>
  BY DEF vars, qpVars, queues, avars, hvars, chvars, shvars
<1>2. UNCHANGED <<ring, up, avars, hvars>>
  BY <1>1 DEF avars, hvars, chvars, shvars
<1>3. TypeOK'
  BY <1>1 DEF IndInv, TypeOK
<1>4. /\ UNCHANGED <<CHead, CTail, SHead, STail, CSlots, SSlots, CMsg, SMsg,
                     Served, Acked>>
      /\ SendInv' /\ RecvInv' /\ MoveInv' /\ FailInv' /\ FlowInv' /\ DataInv'
  BY <1>1, HostsMove
<1>5. ProcessInv' /\ ClientRingInv' /\ ServerRingInv' /\ AlignInv'
  BY <1>2, QueuesMove
<1>6. OddInv'
  BY <1>1, <1>4 DEF IndInv, OddInv
<1> QED
  BY <1>3, <1>4, <1>5, <1>6 DEF IndInv

LEMMA NextKeeps ==
  ASSUME IndInv, [Next]_vars
  PROVE  IndInv'
<1>1. ASSUME NEW s \in Sides, HostSteps(s) PROVE IndInv'
  BY <1>1, FillsKeeps, LoadsKeeps, WritesKeeps, ReadsKeeps, ChecksKeeps, HostEndsKeeps
     DEF HostSteps, HostMain
<1>2. ASSUME NEW s \in Sides, AdapterSteps(s) PROVE IndInv'
  <2>1. CASE Commits(s)
    BY <1>2, <2>1, ClientCommitsKeeps, ServerCommitsKeeps DEF AdapterSteps, Sides
  <2> QED
    BY <1>2, <2>1, TakesKeeps, PostsKeeps, PollsKeeps DEF AdapterSteps, AdapterMain
<1>3. ASSUME NEW s \in Sides, IpcThread(s) PROVE IndInv'
  BY <1>3, ExitsKeeps DEF IpcThread
<1>4. ASSUME NEW s \in Sides, TimesOut(s) /\ UNCHANGED avars PROVE IndInv'
  BY <1>4, HostEndsKeeps
<1>5. ASSUME Network PROVE IndInv'
  BY <1>5, MoveItemKeeps, DeliverKeeps, AcknowledgeKeeps, TooLongKeeps,
     RetryExceededKeeps DEF Network, Cards
<1>6. ASSUME UNCHANGED vars PROVE IndInv'
  BY <1>6, StutterKeeps
<1> QED
  BY <1>1, <1>2, <1>3, <1>4, <1>5, <1>6 DEF Next, AllEnded

\* The inductive invariant holds in every reachable state, whatever the sizes of the
\* rings, the messages and the batches, and whoever ends or fails when.
THEOREM Invariance == Spec => []IndInv
BY InitKeeps, NextKeeps, PTL DEF Spec
------------------------------------------------------------------------------
(* The properties.                                                         *)

\* With aligned arguments the server's host never finds a wrong count.
THEOREM NeverMismatch == Spec => []AlignedNoMismatch
<1>1. IndInv => AlignedNoMismatch
  BY DEF IndInv, AlignInv, AlignedNoMismatch, NoMismatch
<1> QED
  BY <1>1, Invariance, PTL

\* The slots of a work request are those of its positions.
LEMMA RequestPositions ==
  ASSUME NEW start \in Nat, NEW len \in Nat, len <= ToEnd(start),
         NEW s \in RequestSlots(Request(start, len))
  PROVE  \E k \in 0 .. len - 1 : s = (start + k) % BufferSize
<1> DEFINE m == start % BufferSize
<1>1. m \in Nat /\ ToEnd(start) \in Int
  BY DivMod, BufferSizeAssumption DEF Slots, ToEnd
<1>2. s \in m + 0 .. m + 0 + len - 1
  BY DEF RequestSlots, Request, SliceSlot
<1> HIDE DEF m
<1>3. s - m \in 0 .. len - 1 /\ m + (s - m) = s
  BY <1>1, <1>2
<1>4. m + (s - m) = (start + (s - m)) % BufferSize
  BY <1>1, <1>3, BeforeEnd DEF m
<1> QED
  BY <1>3, <1>4

\* The server's host is shown no slot that the card may still write to.
THEOREM RecvHidden == Spec => []RecvSlotsHidden
<1>1. ASSUME IndInv PROVE RecvSlotsHidden
  <2> SUFFICES ASSUME NEW i \in DOMAIN rq, NEW s \in RequestSlots(rq[i]),
                      NEW p \in SHead .. STail - 1
               PROVE  p % BufferSize # s
    BY DEF RecvSlotsHidden, SHead, STail
  <2>1. rq # <<>>
    OBVIOUS
  <2>2. rq = <<Request(STail, SMsg)>> /\ RoomReady
    BY <1>1, <2>1, OnItsWay
  <2>3. rq[i] = Request(STail, SMsg)
    BY <2>2, One
  <2>4. /\ SHead \in Nat /\ STail \in Nat /\ SMsg \in Nat /\ BufferSize \in Nat
    BY <1>1, Facts
  <2>5. PICK k \in 0 .. SMsg - 1 : s = (STail + k) % BufferSize
    <3>1. s \in RequestSlots(Request(STail, SMsg)) /\ SMsg <= ToEnd(STail)
      BY <2>2, <2>3 DEF RoomReady
    <3> QED
      BY <2>4, <3>1, RequestPositions
  <2>6. /\ p \in Nat /\ STail + k \in Nat /\ p < STail + k /\ STail + k < p + BufferSize
    BY <2>2, <2>4, <2>5 DEF RoomReady
  <2> QED
    BY <2>5, <2>6, ModDistinct
<1> QED
  BY <1>1, Invariance, PTL

\* The server's adapter commits what the client's host wrote next.
THEOREM CommitsArrived == Spec => []CommitsWhatArrived
<1>1. ASSUME IndInv PROVE CommitsWhatArrived
  <2> SUFFICES ASSUME SameMessage, apc["server"] = "commit",
                      NEW k \in 0 .. ChunkLen(chunk["server"]) - 1
               PROVE  /\ chunk["server"].start + k < Len(sent)
                      /\ SSlots[SliceSlot(chunk["server"].start, k)] =
                           sent[chunk["server"].start + k + 1]
    BY DEF CommitsWhatArrived, SSlots
  <2>1. /\ SHead \in Nat /\ STail \in Nat /\ SMsg \in Nat /\ CTail \in Nat
        /\ BufferSize \in Nat
    BY <1>1, Facts
  <2>2. chunk["server"] = Chunk(STail, SMsg) /\ RoomReady
    BY <1>1 DEF IndInv, RecvInv
  <2>3. chunk["server"].start = STail /\ ChunkLen(chunk["server"]) = SMsg
    BY <2>1, <2>2 DEF Chunk, ChunkLen
  <2>4. Arrived = STail + SMsg
    BY DEF Arrived, Served
  <2>5. /\ Arrived <= CTail /\ CTail = Len(sent) /\ SHead <= STail
        /\ \A p \in SHead .. Arrived - 1 : SSlots[p % BufferSize] = sent[p + 1]
    BY <1>1 DEF IndInv, DataInv, ClientRingInv, ServerRingInv
  <2>6. k \in Nat /\ k < SMsg
    BY <2>1, <2>3
  <2>7. ToEnd(STail) \in Int
    BY <2>1, DivMod DEF ToEnd, Slots
  <2>8. SliceSlot(STail, k) = (STail + k) % BufferSize
    BY <2>1, <2>2, <2>6, <2>7, SliceSlots DEF RoomReady
  <2>9. STail + k \in SHead .. Arrived - 1 /\ STail + k < CTail
    BY <2>1, <2>4, <2>5, <2>6
  <2>10. SSlots[(STail + k) % BufferSize] = sent[(STail + k) + 1]
    BY <2>5, <2>9
  <2> QED
    BY <2>3, <2>5, <2>8, <2>9, <2>10
<1> QED
  BY <1>1, Invariance, PTL

\* Nobody fails by itself, but the client's adapter after the server has ended.
THEOREM FailsAfterServer == Spec => []FailsOnlyAfterServer
<1>1. ASSUME IndInv PROVE FailsOnlyAfterServer
  <2>1. ProcessInv /\ FailInv /\ "client" \in Sides /\ "server" \in Sides
    BY <1>1 DEF IndInv, Sides
  <2> QED
    BY <2>1 DEF ProcessInv, FailInv, FailsOnlyAfterServer, CMsg, SMsg
<1> QED
  BY <1>1, Invariance, PTL
------------------------------------------------------------------------------
(* The steps.                                                              *)

\* Only the client's host writes to the client's slots, and only the hosts move the
\* ends of the stream.
LEMMA StreamMoves ==
  ASSUME IndInv, [Next]_vars
  PROVE  Writes \/ Checks \/ UNCHANGED <<CSlots, sent, got>>
<1> USE DEF CSlots
<1>1. ASSUME NEW s \in Sides, HostSteps(s) \/ (TimesOut(s) /\ UNCHANGED avars)
      PROVE  Writes \/ Checks \/ UNCHANGED <<CSlots, sent, got>>
  BY <1>1 DEF HostSteps, HostMain, Fills, Loads, Reads, TimesOut, SaysLast,
              qpVars, chvars, shvars
<1>2. UNCHANGED hvars => UNCHANGED <<sent, got>>
  BY DEF hvars, chvars, shvars
<1>3. ASSUME NEW s \in Sides, AdapterSteps(s) PROVE UNCHANGED CSlots
  <2>1. CASE Commits("client")
    <3>1. ring' = [ring EXCEPT !["client"].head = chunk["client"].end]
      BY <2>1 DEF Commits, Committed
    <3>2. TypeOK /\ "client" \in Sides /\ chunk["client"].end \in Nat
      BY DEF IndInv, TypeOK, Sides, Chunks
    <3> QED
      BY <3>1, <3>2, HeadStored
  <2>2. CASE Commits("server")
    <3>1. ring' = [ring EXCEPT !["server"].tail = chunk["server"].end]
      BY <2>2 DEF Commits, Committed
    <3> QED
      BY <3>1 DEF IndInv, TypeOK, Sides
  <2>3. CASE Takes(s) \/ Posts(s) \/ Polls(s)
    BY <2>3 DEF Takes, Posts, Polls, AtPost, qpVars
  <2> QED
    BY <1>3, <2>1, <2>2, <2>3 DEF AdapterSteps, AdapterMain, Sides
<1>4. ASSUME NEW s \in Sides, IpcThread(s) PROVE UNCHANGED CSlots
  BY <1>4 DEF IpcThread, Exits
<1>5. ASSUME Network PROVE UNCHANGED CSlots
  <2>1. CASE MoveItem
    BY <2>1 DEF MoveItem, IndInv, TypeOK, Sides
  <2> QED
    BY <1>5, <2>1 DEF Network, Cards, Deliver, Acknowledge, TooLong, RetryExceeded
<1>6. UNCHANGED vars => UNCHANGED <<CSlots, sent, got>>
  BY DEF vars, qpVars, hvars, chvars, shvars
<1> QED
  BY <1>1, <1>2, <1>3, <1>4, <1>5, <1>6
     DEF Next, AllEnded, AdapterSteps, IpcThread, Network

\* From post_send to its completion nobody writes to the slots of the message.
THEOREM SendStable == Spec => SendSlotsStable
<1> DEFINE Stable == \A i \in DOMAIN sq : \A s \in RequestSlots(sq[i]) :
                       ring'["client"].slots[s] = ring["client"].slots[s]
<1>1. ASSUME IndInv, [Next]_vars PROVE [Stable]_vars
  <2> SUFFICES ASSUME NEW i \in DOMAIN sq, NEW s \in RequestSlots(sq[i])
               PROVE  CSlots'[s] = CSlots[s]
    BY DEF CSlots
  <2>1. CASE Writes
    <3>1. sq # <<>>
      OBVIOUS
    <3>2. sq = <<Request(CHead, CMsg)>> /\ MessageReady
      BY <1>1, <3>1, OnItsWay
    <3>3. sq[i] = Request(CHead, CMsg)
      BY <3>2, One
    <3>4. /\ CHead \in Nat /\ CTail \in Nat /\ CMsg \in Nat
      BY <1>1, Facts
    <3>5. PICK k \in 0 .. CMsg - 1 : s = (CHead + k) % BufferSize
      BY <3>2, <3>3, <3>4, RequestPositions DEF MessageReady
    <3>6. CHead + k \in CHead .. CTail - 1
      BY <3>2, <3>4, <3>5 DEF MessageReady
    <3>7. CSlots' = CopiedSlots(room)
      <4> DEFINE c == [ring["client"] EXCEPT !.slots = CopiedSlots(room),
                                             !.tail = @ + room]
      <4>1. ring' = [ring EXCEPT !["client"] = c]
        BY <2>1 DEF Writes
      <4>2. ring["client"] \in Rings /\ "client" \in DOMAIN ring
        BY <1>1 DEF IndInv, TypeOK, Sides
      <4>3. c.slots = CopiedSlots(room)
        BY <4>2 DEF Rings
      <4> HIDE DEF c
      <4> QED
        BY <4>1, <4>2, <4>3 DEF CSlots
    <3>8. room \in Nat /\ CTail + room <= CHead + BufferSize /\ batch <= next
      BY <1>1, <2>1 DEF IndInv, TypeOK, ClientRingInv, Writes
    <3> QED
      BY <1>1, <3>5, <3>6, <3>7, <3>8, CopiesBehind
  <2>2. CASE Checks
    <3>1. "client" # "server" /\ "client" \in DOMAIN ring
      BY <1>1 DEF IndInv, TypeOK, Sides
    <3>2. ring'["client"] = ring["client"]
      BY <2>2, <3>1 DEF Checks
    <3> QED
      BY <3>2 DEF CSlots
  <2> QED
    BY <1>1, <2>1, <2>2, StreamMoves
<1> QED
  BY <1>1, Invariance, PTL DEF Spec, SendSlotsStable

\* What the host of the server has checked is an initial segment of what the host of
\* the client has published, and the two rings have room for the rest.
InStream == /\ Len(sent) - Len(got) <= 2 * BufferSize
            /\ Stream!Begins(got, sent)

LEMMA StreamBounds ==
  ASSUME IndInv
  PROVE  InStream
<1>1. /\ CHead \in Nat /\ CTail \in Nat /\ SHead \in Nat /\ STail \in Nat
      /\ CMsg \in Nat /\ SMsg \in Nat /\ BufferSize \in Nat
  BY Facts
<1>2. /\ SHead = Len(got) /\ SHead <= STail /\ CTail = Len(sent)
      /\ CTail <= CHead + BufferSize
  BY DEF IndInv, ServerRingInv, ClientRingInv
<1>3. Stream!Begins(got, sent)
  <2>1. CASE SameMessage
    <3>1. Arrived <= CTail /\ \A k \in 1 .. Len(got) : got[k] = sent[k]
      BY <2>1 DEF IndInv, DataInv
    <3>2. STail <= Arrived /\ Arrived \in Nat
      BY <1>1 DEF Arrived
    <3>3. Len(got) <= Len(sent)
      BY <1>1, <1>2, <3>1, <3>2
    <3> QED
      BY <3>1, <3>3 DEF Stream!Begins
  <2>2. CASE ~ SameMessage
    <3>1. CMsg < SMsg \/ CMsg > SMsg
      BY <1>1, <2>2 DEF SameMessage, CMsg, SMsg
    <3>2. SHead = 0
      BY <3>1 DEF IndInv, OddInv
    <3> QED
      BY <1>1, <1>2, <3>2 DEF Stream!Begins
  <2> QED
    BY <2>1, <2>2
<1>4. CHead <= SHead + BufferSize
  <2>1. CASE CMsg <= SMsg
    <3>1. Left <= SHead + BufferSize
      BY <2>1 DEF IndInv, FlowInv
    <3>2. CHead <= Left /\ Left \in Nat
      BY <1>1 DEF Left
    <3> QED
      BY <1>1, <3>1, <3>2
  <2>2. CASE CMsg > SMsg
    <3>1. CHead = 0
      BY <2>2 DEF IndInv, OddInv
    <3> QED
      BY <1>1, <3>1
  <2> QED
    BY <1>1, <2>1, <2>2
<1> QED
  BY <1>1, <1>2, <1>3, <1>4 DEF InStream

LEMMA WritesPublish ==
  ASSUME IndInv, Writes, InStream'
  PROVE  Stream!Publish
<1> DEFINE run == [k \in 1 .. room |-> Buffer(k - 1)]
<1>1. sent' = sent \o run /\ got' = got
  BY DEF Writes, shvars
<1>2. room \in Nat /\ batch \in Nat /\ next \in Int /\ sent \in Seq(Int)
  BY HostAssumption DEF IndInv, TypeOK
<1>3. run \in Seq(Int) /\ Len(run) = room
  <2>1. \A k \in 1 .. room : Buffer(k - 1) \in Int
    BY <1>2 DEF Buffer
  <2> QED
    BY <1>2, <2>1
<1> HIDE DEF run
<1>4. Stream!Begins(sent, sent')
  <2>1. /\ Len(sent') = Len(sent) + Len(run)
        /\ \A k \in 1 .. Len(sent) + Len(run) :
             sent'[k] = IF k <= Len(sent) THEN sent[k] ELSE run[k - Len(sent)]
    BY <1>1, <1>2, <1>3, ConcatProperties
  <2>2. Len(sent) \in Nat
    BY <1>2
  <2> QED
    BY <1>2, <1>3, <2>1, <2>2 DEF Stream!Begins
<1> QED
  BY <1>1, <1>4 DEF Stream!Publish, InStream

LEMMA ChecksConsume ==
  ASSUME IndInv, Checks, InStream'
  PROVE  [Stream!Consume]_<<sent, got>>
<1>1. sent' = sent
  BY DEF Checks, chvars
<1>2. CASE got' = got
  BY <1>1, <1>2
<1>3. CASE got' = got \o Seen
  <2>1. Seen \in Seq(Nat \cup {NoItem}) /\ got \in Seq(Nat \cup {NoItem})
    <3>1. hpc["server"] = "check" /\ got \in Seq(Nat)
      BY DEF Checks, IndInv, TypeOK
    <3>2. Seen \in Seq(Nat \cup {NoItem})
      BY <3>1, WhatIsSeen
    <3> QED
      BY <3>1, <3>2
  <2>2. /\ Len(got') = Len(got) + Len(Seen)
        /\ \A k \in 1 .. Len(got) + Len(Seen) :
             got'[k] = IF k <= Len(got) THEN got[k] ELSE Seen[k - Len(got)]
    BY <1>3, <2>1, ConcatProperties
  <2>3. Len(got) \in Nat /\ Len(Seen) \in Nat
    BY <2>1
  <2>4. Stream!Begins(got, got')
    BY <2>2, <2>3 DEF Stream!Begins
  <2>5. Stream!Begins(got', sent)
    BY <1>1 DEF InStream, Stream!Begins
  <2> QED
    BY <1>1, <2>4, <2>5 DEF Stream!Consume
<1> QED
  BY <1>2, <1>3 DEF Checks

\* The two rings and the connection behave as one FIFO stream, whatever the sizes.
THEOREM ImplementsStream == Spec => StreamSpec
<1>1. Init => Stream!Init
  BY DEF Init, HostInit, Stream!Init
<1>2. IndInv => InStream
  BY StreamBounds
<1>3. IndInv /\ [Next]_vars /\ InStream' => [Stream!Next]_(Stream!vars)
  BY StreamMoves, WritesPublish, ChecksConsume DEF Stream!Next, Stream!vars
<1> QED
  BY <1>1, <1>2, <1>3, Invariance, PTL DEF Spec, StreamSpec, Stream!Spec
------------------------------------------------------------------------------
(* Nobody waits for somebody who waits.                                    *)

LEMMA AwaitKeeps ==
  ASSUME IndInv, AwaitInv, [Next]_vars
  PROVE  AwaitInv'
<1> USE DEF AwaitInv, At
<1>0. /\ apc \in [Sides -> {"try", "post", "poll", "commit", "panicked", "exited"}]
      /\ up \in [Sides -> BOOLEAN] /\ cq \in [Sides -> Seq(Completions)]
      /\ sq \in Seq(Requests) /\ rq \in Seq(Requests)
      /\ "client" \in Sides /\ "server" \in Sides
  BY DEF IndInv, TypeOK, Sides
<1>1. ASSUME UNCHANGED <<up, apc, sq, rq, cq>> PROVE AwaitInv'
  BY <1>1
<1>2. ASSUME NEW s \in Sides, HostSteps(s) \/ (TimesOut(s) /\ UNCHANGED avars)
      PROVE  AwaitInv'
  BY <1>1, <1>2 DEF HostSteps, HostMain, Fills, Loads, Writes, Reads, Checks, TimesOut,
                    SaysLast, qpVars, queues, avars
<1>3. ASSUME NEW s \in Sides, AdapterSteps(s) PROVE AwaitInv'
  <2>1. CASE Takes(s) \/ Commits(s)
    <3>1. /\ UNCHANGED <<up, sq, rq, cq>>
          /\ \E label \in {"post", "try"} : apc' = [apc EXCEPT ![s] = label]
      BY <2>1 DEF Takes, Commits, Goto, qpVars, queues
    <3> QED
      BY <1>0, <3>1
  <2>2. CASE Posts(s)
    <3>1. /\ UNCHANGED <<up, cq>> /\ apc' = [apc EXCEPT ![s] = "poll"]
          /\ s = "client" => sq' # <<>> /\ rq' = rq
          /\ s = "server" => rq' # <<>> /\ sq' = sq
      BY <1>0, <2>2 DEF Posts, PostSend, PostRecv, AfterPost, Goto
    <3> QED
      BY <1>0, <3>1 DEF Sides
  <2>3. CASE Polls(s)
    <3>1. /\ cq' = [cq EXCEPT ![s] = <<>>] /\ cq[s] # <<>> /\ UNCHANGED <<sq, rq>>
          /\ \/ apc' = [apc EXCEPT ![s] = "panicked"]
             \/ /\ Goto(s, IF cq[s][1].opcode = Awaited(s) THEN "commit" ELSE "poll")
          /\ \A t \in Sides \ {s} : up'[t] = up[t]
      BY <1>0, <2>3 DEF Polls, PollCq, Goto
    <3>2. cq[s][1].opcode = Awaited(s)
      <4>1. PICK st \in Statuses : cq[s] = <<Completion(Awaited(s), st)>>
        BY <3>1 DEF IndInv, SendInv, RecvInv, Awaited, Sides
      <4> QED
        BY <4>1 DEF Completion
    <3>3. \E label \in {"panicked", "commit"} : apc' = [apc EXCEPT ![s] = label]
      BY <3>1, <3>2 DEF Goto
    <3> QED
      BY <1>0, <3>1, <3>3 DEF Sides
  <2> QED
    BY <1>3, <2>1, <2>2, <2>3 DEF AdapterSteps, AdapterMain
<1>4. ASSUME NEW s \in Sides, IpcThread(s) PROVE AwaitInv'
  <2>1. /\ UNCHANGED <<sq, rq, cq>> /\ apc' = [apc EXCEPT ![s] = "exited"]
        /\ up' = [up EXCEPT ![s] = FALSE]
    BY <1>4 DEF IpcThread, Exits, Goto, queues
  <2> QED
    BY <1>0, <2>1
<1>5. ASSUME Network PROVE AwaitInv'
  <2>1. UNCHANGED <<up, apc>>
    BY <1>5 DEF Network, Cards, MoveItem, Deliver, Acknowledge, TooLong, RetryExceeded,
                avars
  <2>2. \A q \in Seq(Completions) : \A c : Append(q, c) # <<>>
    OBVIOUS
  <2>3. (sq # <<>> => sq' # <<>> \/ cq'["client"] # <<>>)
        /\ (cq["client"] # <<>> => cq'["client"] # <<>>)
    BY <1>0, <1>5, <2>2
       DEF Network, Cards, MoveItem, Deliver, Acknowledge, TooLong, RetryExceeded
  <2>4. (rq # <<>> => rq' # <<>> \/ cq'["server"] # <<>>)
        /\ (cq["server"] # <<>> => cq'["server"] # <<>>)
    BY <1>0, <1>5, <2>2
       DEF Network, Cards, MoveItem, Deliver, Acknowledge, TooLong, RetryExceeded
  <2> QED
    BY <2>1, <2>3, <2>4
<1>6. UNCHANGED vars => AwaitInv'
  BY <1>1 DEF vars, qpVars, queues, avars
<1> QED
  BY <1>2, <1>3, <1>4, <1>5, <1>6 DEF Next, AllEnded

\* The next multiple.
LEMMA NextMultiple ==
  ASSUME NEW m \in Nat \ {0}, NEW h \in Nat, NEW n \in Nat, h % m = 0, n % m = 0, h < n
  PROVE  h + m <= n
<1> DEFINE p == h \div m
           q == n \div m
<1>1. h = m * p /\ p \in Int /\ n = m * q /\ q \in Int
  OBVIOUS
<1> HIDE DEF p, q
<1>2. p + 1 <= q
  <2>1. SUFFICES ASSUME q <= p PROVE FALSE
    BY <1>1
  <2>2. m * q <= m * p
    BY <1>1, <2>1
  <2> QED
    BY <1>1, <2>2
<1>3. m * (p + 1) <= m * q /\ m * (p + 1) = m * p + m
  BY <1>1, <1>2
<1> QED
  BY <1>1, <1>3

\* A message that starts at a multiple of its size ends before the end of the buffer.
LEMMA MessageToEnd ==
  ASSUME NEW m \in Nat \ {0}, NEW h \in Nat, BufferSize % m = 0, h % m = 0
  PROVE  m <= ToEnd(h)
<1> DEFINE q == h \div BufferSize
<1>1. /\ BufferSize \in Nat \ {0} /\ h = (BufferSize * q) + (h % BufferSize)
      /\ q \in Int /\ h % BufferSize \in 0 .. BufferSize - 1
  BY BufferSizeAssumption, DivMod DEF Slots
<1> HIDE DEF q
<1>2. (h % BufferSize) % m = 0
  <2> DEFINE a == h \div m
             b == BufferSize \div m
             r == h % BufferSize
  <2>1. h = m * a /\ a \in Int /\ BufferSize = m * b /\ b \in Int
    BY <1>1
  <2> HIDE DEF a, b
  <2>2. r = m * (a - (b * q)) + 0 /\ a - (b * q) \in Int
    <3>1. r = h - (BufferSize * q) /\ r \in Int
      BY <1>1
    <3> HIDE DEF r
    <3>2. r = (m * a) - ((m * b) * q)
      BY <2>1, <3>1
    <3> QED
      BY <1>1, <2>1, <3>2
  <2>3. ASSUME NEW k \in Int PROVE (m * k + 0) % m = 0
    OBVIOUS
  <2> HIDE DEF r
  <2>4. r % m = 0
    BY <2>2, <2>3
  <2> QED
    BY <2>4 DEF r
<1>3. (h % BufferSize) + m <= BufferSize
  <2>1. /\ h % BufferSize \in Nat /\ BufferSize \in Nat /\ m \in Nat \ {0}
        /\ h % BufferSize < BufferSize
    BY <1>1
  <2> QED
    BY <1>2, <2>1, NextMultiple, Zenon
<1> QED
  BY <1>1, <1>3 DEF ToEnd

\* While a whole message has not been read, somebody has a step to take towards it.
THEOREM MessagesMove == Spec => []NeverStalls
<1>1. ASSUME IndInv, AwaitInv PROVE NeverStalls
  <2> SUFFICES ASSUME Aligned, \A s \in Sides : hpc[s] # "last" /\ ~ HostGone(s),
                      NEW n \in SHead + 1 .. CTail, n % CMsg = 0,
                      ~ MessageMoves
               PROVE  FALSE
    BY DEF NeverStalls
  <2> USE <1>1
  <2>1. /\ CHead \in Nat /\ CTail \in Nat /\ SHead \in Nat /\ STail \in Nat
        /\ CMsg \in Nat \ {0} /\ SMsg = CMsg /\ SameMessage
        /\ BufferSize \in Nat /\ BufferSize > 0
        /\ BufferSize % CMsg = 0 /\ n \in Nat /\ SHead < n
        /\ "client" \in Sides /\ "server" \in Sides
    BY Facts DEF Aligned, SameMessage, CMsg, SMsg
  <2>2. up["client"] /\ up["server"]
    <3>1. ProcessInv /\ FailInv /\ CMsg <= SMsg
      BY <2>1 DEF IndInv
    <3>2. up["server"]
      BY <2>1, <3>1 DEF ProcessInv, FailInv
    <3> QED
      BY <2>1, <3>1, <3>2 DEF ProcessInv, FailInv
  <2>3. \A s \in Sides : apc[s] \in {"try", "poll"} /\ (apc[s] = "poll" => cq[s] = <<>>)
    <3> SUFFICES ASSUME NEW s \in Sides
                 PROVE  apc[s] \in {"try", "poll"} /\ (apc[s] = "poll" => cq[s] = <<>>)
      OBVIOUS
    <3>1. up[s]
      BY <2>2 DEF Sides
    <3>2. apc[s] \in {"try", "post", "poll", "commit", "panicked", "exited"}
          /\ apc[s] \notin {"panicked", "exited"}
      BY <3>1 DEF IndInv, TypeOK, ProcessInv
    <3> QED
      BY <3>1, <3>2 DEF MessageMoves, At
  <2>4. SHead = STail
    BY <2>1 DEF MessageMoves, IndInv, ServerRingInv
  <2>5. ~ Served /\ ~ Acked
    <3>1. cq["server"] = <<>> /\ apc["server"] # "commit"
      BY <2>1, <2>3 DEF IndInv, RecvInv
    <3>2. cq["client"] = <<>> /\ apc["client"] # "commit"
      BY <2>1, <2>3 DEF IndInv, SendInv
    <3>3. moved # Delivered
      <4>1. CASE sq = <<>>
        BY <4>1 DEF IndInv, SendInv, Delivered
      <4>2. CASE sq # <<>>
        BY <4>2 DEF MessageMoves
      <4> QED
        BY <4>1, <4>2
    <3> QED
      BY <3>1, <3>2, <3>3, One DEF Served, Acked
  <2>6. CHead = STail
    BY <2>1, <2>2, <2>5 DEF IndInv, FlowInv, Left, Arrived
  <2>7. CHead % CMsg = 0
    BY DEF IndInv, AlignInv
  <2>8. CMsg <= ToEnd(CHead) /\ ToEnd(CHead) \in Int
    <3>1. CMsg <= ToEnd(CHead)
      BY <2>1, <2>7, MessageToEnd
    <3>2. CHead % BufferSize \in Int
      BY <2>1
    <3> QED
      BY <2>1, <3>1, <3>2 DEF ToEnd
  <2>9. apc["server"] = "poll"
    <3>1. CMsg <= BufferSize
      <4>1. ToEnd(CHead) <= BufferSize
        <5>1. CHead % BufferSize \in 0 .. BufferSize - 1
          BY <2>1
        <5> QED
          BY <2>1, <5>1 DEF ToEnd
      <4> QED
        BY <2>1, <2>8, <4>1
    <3>2. Reservable(SHead, STail) >= SMsg
      BY <2>1, <2>4, <2>6, <2>8, <3>1 DEF Reservable, Writable, Least
    <3>3. apc["server"] # "try"
      BY <2>2, <3>2 DEF MessageMoves, At
    <3> QED
      BY <2>1, <2>3, <3>3
  <2>10. apc["client"] = "poll"
    <3>1. CHead + CMsg <= n /\ n <= CTail
      <4>1. CHead < n /\ n <= CTail
        BY <2>1, <2>4, <2>6
      <4>2. CHead + CMsg <= n
        BY <2>1, <2>7, <4>1, NextMultiple
      <4> QED
        BY <4>1, <4>2
    <3>2. Readable(CHead, CTail) >= CMsg
      BY <2>1, <2>8, <3>1 DEF Readable, Least
    <3>3. apc["client"] # "try"
      BY <2>2, <3>2 DEF MessageMoves, At
    <3> QED
      BY <2>1, <2>3, <3>3
  <2>11. rq # <<>> /\ sq # <<>>
    BY <2>1, <2>2, <2>3, <2>9, <2>10 DEF AwaitInv, At
  <2> QED
    BY <2>11 DEF MessageMoves
<1>2. Init => AwaitInv
  BY DEF Init, AdapterInit, AwaitInv, At, Sides
<1> QED
  BY <1>1, <1>2, AwaitKeeps, Invariance, PTL DEF Spec
=============================================================================
