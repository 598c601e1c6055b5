--------------------------- MODULE LoopbackProofs ---------------------------
(***************************************************************************)
(* The loopback test is safe for every size of the rings and any number of *)
(* messages, whenever its two sides are stopped: see IndInv of Loopback.   *)
(***************************************************************************)
EXTENDS Loopback, TLAPS

LEMMA SidesAre == "client" \in Sides /\ "server" \in Sides /\ Sides = {"client", "server"}
BY DEF Sides

LEMMA SlotOfIs == ASSUME NEW p \in Nat PROVE SlotOf(p) \in Slots
BY LoopbackAssumption DEF SlotOf, Slots

\* Messages less than a ring apart have different slots.
LEMMA SlotsDiffer ==
  ASSUME NEW i \in Nat, NEW j \in Nat, i < j, j < i + Room
  PROVE  SlotOf(i) # SlotOf(j)
<1> DEFINE q == j \div Room - i \div Room
<1>1. Room \in Nat /\ Room > 0
  BY LoopbackAssumption
<1>2. /\ i = Room * (i \div Room) + (i % Room) /\ i \div Room \in Int
      /\ j = Room * (j \div Room) + (j % Room) /\ j \div Room \in Int
  BY <1>1
<1>3. SUFFICES ASSUME i % Room = j % Room PROVE FALSE
  BY DEF SlotOf
<1>4. q \in Int /\ Room * q = j - i
  BY <1>1, <1>2, <1>3
<1>5. q >= 1 => Room * q >= Room
  BY <1>1, <1>4
<1>6. q <= 0 => Room * q <= 0
  BY <1>1, <1>4
<1> QED
  BY <1>1, <1>4, <1>5, <1>6

LEMMA InitIndInv == Init => IndInv
<1> SUFFICES ASSUME Init PROVE IndInv
  OBVIOUS
<1> USE DEF Init, Sides
<1>1. TypeOK
  <2>1. mem \in [Sides -> [Slots -> 0 .. MaxMessages \cup {Empty}]]
    OBVIOUS
  <2>2. \A s \in Sides : tail[s] - head[s] \in 0 .. Room
    BY LoopbackAssumption
  <2>3. /\ hpc \in [Sides -> {"start", "barrier", "work", "stop", "ended", "panicked"}]
        /\ apc \in [Sides -> {"setup", "failed", "barrier", "try", "check", "poll",
                              "commit", "ended", "panicked"}]
        /\ stop \in [Sides -> BOOLEAN]
        /\ cq \in [Sides -> {"none", "ok", "error"}]
    OBVIOUS
  <2>4. head \in [Sides -> Nat] /\ tail \in [Sides -> Nat]
    OBVIOUS
  <2>5. /\ ready \in 0 .. 4 /\ link \in {"none", "RTS", "ERR"} /\ expected \in Nat /\ landed \in Nat
        /\ sendAt \in Slots \cup {None} /\ recvAt \in Slots \cup {None}
    OBVIOUS
  <2>6. unacked \in BOOLEAN
    OBVIOUS
  <2> QED
    BY <2>1, <2>2, <2>3, <2>4, <2>5, <2>6 DEF TypeOK
<1>2. BarrierInv /\ LinkInv
  BY DEF BarrierInv, LinkInv
<1>3. ClientInv /\ ServerInv
  BY DEF ClientInv, ServerInv, Idle, Busy, SendIs, RecvIs
<1>4. DataInv
  BY DEF DataInv
<1> QED
  BY <1>1, <1>2, <1>3, <1>4 DEF IndInv
------------------------------------------------------------------------------
(* The barrier.                                                            *)

LEMMA ReadyBound ==
  ASSUME BarrierInv PROVE ready \in 0 .. 4
BY DEF BarrierInv

LEMMA HostArrivesKeeps ==
  ASSUME IndInv, NEW s \in Sides, HostArrives(s)
  PROVE  IndInv'
<1> USE DEF HostArrives, barrier, rings, transport
<1>1. BarrierInv' /\ LinkInv'
  BY DEF IndInv, TypeOK, BarrierInv, LinkInv, Sides
<1>2. ready' \in 0 .. 4
  BY <1>1 DEF BarrierInv
<1>3. TypeOK'
  BY <1>2 DEF IndInv, TypeOK
<1>4. ClientInv' /\ ServerInv'
  BY DEF IndInv, ClientInv, ServerInv, Idle, Busy, SendIs, RecvIs, HasRoom
<1>5. DataInv'
  BY DEF IndInv, TypeOK, DataInv, Sides
<1> QED
  BY <1>1, <1>3, <1>4, <1>5 DEF IndInv

LEMMA HostMovesKeeps ==
  ASSUME IndInv, NEW s \in Sides, HostPasses(s) \/ TimeIsUp(s) \/ HostStops(s)
  PROVE  IndInv'
<1> USE DEF HostPasses, TimeIsUp, HostStops, barrier, rings, transport
<1>1. BarrierInv' /\ LinkInv'
  BY DEF IndInv, TypeOK, BarrierInv, LinkInv, Sides
<1>2. TypeOK'
  BY DEF IndInv, TypeOK
<1>3. /\ stop["server"] => stop'["server"]
      /\ UNCHANGED <<apc, head, tail, sendAt, recvAt, landed, unacked, cq>>
  BY DEF IndInv, TypeOK, Sides
<1>4. ClientInv' /\ ServerInv'
  BY <1>3
  DEF IndInv, ClientInv, ServerInv, Idle, Busy, SendIs, RecvIs, HasRoom
<1>5. DataInv'
  BY DEF IndInv, TypeOK, DataInv, Sides
<1> QED
  BY <1>1, <1>2, <1>4, <1>5 DEF IndInv

\* Until the loop begins, an adapter has nothing posted.
LEMMA AdapterSetupKeeps ==
  ASSUME IndInv, NEW s \in Sides,
         AdapterArrives(s) \/ SetupFails(s) \/ AdapterPasses(s)
  PROVE  IndInv'
<1> USE DEF AdapterArrives, SetupFails, AdapterPasses, barrier, rings, transport
<1>1. BarrierInv' /\ LinkInv'
  BY DEF IndInv, TypeOK, BarrierInv, LinkInv, Sides
<1>2. ready' \in 0 .. 4
  BY <1>1 DEF BarrierInv
<1>3. TypeOK'
  BY <1>2 DEF IndInv, TypeOK
<1>4. ClientInv' /\ ServerInv'
  BY DEF IndInv, TypeOK, Sides, ClientInv, ServerInv, Idle, Busy, SendIs, RecvIs,
         HasRoom
<1>5. DataInv'
  BY DEF IndInv, DataInv
<1> QED
  BY <1>1, <1>3, <1>4, <1>5 DEF IndInv
------------------------------------------------------------------------------
(* The hosts.                                                              *)

LEMMA ClientHostWritesKeeps ==
  ASSUME IndInv, ClientHostWrites
  PROVE  IndInv'
<1> DEFINE h == head["client"]
           t == tail["client"]
<1>1. /\ t < MaxMessages /\ t - h < Room
      /\ mem' = [mem EXCEPT !["client"][SlotOf(t)] = t]
      /\ tail' = [tail EXCEPT !["client"] = @ + 1]
      /\ UNCHANGED <<ready, link, hpc, apc, stop, head, expected, sendAt, recvAt,
                     landed, unacked, cq>>
  BY DEF ClientHostWrites, HasRoom, barrier, transport
<1>2. TypeOK
  BY DEF IndInv
<1>3. /\ h \in Nat /\ t \in Nat /\ SlotOf(t) \in Slots /\ h <= t
      /\ Room \in Nat /\ MaxMessages \in Nat
  BY <1>2, SlotOfIs, LoopbackAssumption DEF TypeOK, Sides
<1>4. mem'["server"] = mem["server"] /\ tail'["server"] = tail["server"]
      /\ tail'["client"] = t + 1
  BY <1>1, <1>2 DEF TypeOK, Sides
<1>5. TypeOK'
  BY <1>1, <1>2, <1>3 DEF TypeOK, Sides
<1>6. BarrierInv' /\ LinkInv'
  BY <1>1 DEF IndInv, BarrierInv, LinkInv
<1>7. ClientInv' /\ ServerInv'
  BY <1>1, <1>3, <1>4
  DEF IndInv, ClientInv, ServerInv, Idle, Busy, SendIs, RecvIs, HasRoom
<1>8. DataInv'
  <2>1. ASSUME NEW p \in h .. t PROVE mem'["client"][SlotOf(p)] = p
    <3>1. CASE p = t
      BY <1>1, <1>2, <1>3, <3>1 DEF TypeOK, Sides
    <3>2. CASE p < t
      <4>1. p \in h .. t - 1 /\ p \in Nat /\ t < p + Room
        BY <1>1, <1>3, <3>2
      <4>2. SlotOf(p) # SlotOf(t) /\ SlotOf(p) \in Slots
        BY <1>3, <3>2, <4>1, SlotsDiffer, SlotOfIs
      <4>3. mem["client"][SlotOf(p)] = p
        BY <4>1 DEF IndInv, DataInv
      <4> QED
        BY <1>1, <1>2, <4>2, <4>3 DEF TypeOK, Sides
    <3> QED
      BY <1>3, <3>1, <3>2
  <2>2. h .. (t + 1) - 1 = h .. t
    BY <1>3
  <2> QED
    BY <1>1, <1>4, <2>1, <2>2 DEF IndInv, DataInv
<1> QED
  BY <1>5, <1>6, <1>7, <1>8 DEF IndInv

LEMMA ServerHostReadsKeeps ==
  ASSUME IndInv, ServerHostReads
  PROVE  IndInv'
<1> DEFINE H == head["server"]
           T == tail["server"]
<1>1. TypeOK
  BY DEF IndInv
<1>2. H \in Nat /\ T \in Nat /\ landed \in Nat /\ H < T
  BY <1>1 DEF TypeOK, Sides, ServerHostReads
<1>3. T <= landed
  BY <1>1, <1>2 DEF IndInv, ServerInv, TypeOK, Sides, Idle, Busy, RecvIs
<1>4. mem["server"][SlotOf(H)] = expected /\ expected = H
  BY <1>2, <1>3 DEF IndInv, DataInv
<1>5. /\ expected' = expected + 1
      /\ head' = [head EXCEPT !["server"] = @ + 1]
      /\ UNCHANGED <<ready, link, hpc, apc, stop, tail, mem, sendAt, recvAt, landed,
                     unacked, cq>>
  BY <1>4 DEF ServerHostReads, barrier, transport
<1>6. head'["client"] = head["client"] /\ head'["server"] = H + 1
  BY <1>1, <1>5 DEF TypeOK, Sides
<1>7. TypeOK'
  BY <1>1, <1>2, <1>5, LoopbackAssumption DEF TypeOK, Sides
<1>8. BarrierInv' /\ LinkInv'
  BY <1>5 DEF IndInv, BarrierInv, LinkInv
<1>9. ClientInv'
  BY <1>5, <1>6 DEF IndInv, ClientInv, Idle, Busy, SendIs
<1>10. HasRoom("server") => HasRoom("server")'
  BY <1>2, <1>5, <1>6, LoopbackAssumption DEF HasRoom
<1>11. ServerInv'
  BY <1>5, <1>10 DEF IndInv, ServerInv, Idle, Busy, RecvIs
<1>12. DataInv'
  BY <1>2, <1>4, <1>5, <1>6 DEF IndInv, DataInv
<1> QED
  BY <1>7, <1>8, <1>9, <1>11, <1>12 DEF IndInv
------------------------------------------------------------------------------
(* The adapters.                                                           *)

LEMMA ClientPostsKeeps ==
  ASSUME IndInv, ClientPosts
  PROVE  IndInv'
<1> DEFINE h == head["client"]
<1>1. /\ apc["client"] = "try" /\ h < tail["client"]
      /\ \/ link = "ERR" /\ cq' = [cq EXCEPT !["client"] = "error"] /\ sendAt' = sendAt
         \/ link # "ERR" /\ cq' = cq /\ sendAt' = SlotOf(h)
      /\ apc' = [apc EXCEPT !["client"] = "check"]
      /\ UNCHANGED <<ready, link, hpc, stop, head, tail, mem, expected, recvAt, landed,
                     unacked>>
  BY DEF ClientPosts, Flushed, barrier, rings
<1>2. TypeOK
  BY DEF IndInv
<1>3. /\ SlotOf(h) \in Slots /\ apc'["server"] = apc["server"]
      /\ apc'["client"] = "check" /\ cq'["server"] = cq["server"]
      /\ link = "ERR" => cq'["client"] = "error"
      /\ link \in {"RTS", "ERR"}
  BY <1>1, <1>2, SlotOfIs DEF TypeOK, Sides, IndInv, LinkInv
<1>4. TypeOK'
  BY <1>1, <1>2, <1>3 DEF TypeOK
<1>5. BarrierInv' /\ LinkInv'
  BY <1>1, <1>3 DEF IndInv, BarrierInv, LinkInv
<1>6. ClientInv'
  BY <1>1, <1>3 DEF IndInv, ClientInv, Idle, Busy, SendIs
<1>7. ServerInv'
  BY <1>1, <1>3 DEF IndInv, ServerInv, Idle, Busy, RecvIs, HasRoom
<1>8. DataInv'
  BY <1>1 DEF IndInv, DataInv
<1> QED
  BY <1>4, <1>5, <1>6, <1>7, <1>8 DEF IndInv

LEMMA ServerPostsKeeps ==
  ASSUME IndInv, ServerPosts
  PROVE  IndInv'
<1> DEFINE T == tail["server"]
<1>1. /\ apc["server"] = "try" /\ HasRoom("server")
      /\ \/ link = "ERR" /\ cq' = [cq EXCEPT !["server"] = "error"] /\ recvAt' = recvAt
         \/ link # "ERR" /\ cq' = cq /\ recvAt' = SlotOf(T)
      /\ apc' = [apc EXCEPT !["server"] = "check"]
      /\ UNCHANGED <<ready, link, hpc, stop, head, tail, mem, expected, sendAt, landed,
                     unacked>>
  BY DEF ServerPosts, Flushed, barrier, rings
<1>2. TypeOK
  BY DEF IndInv
<1>3. /\ SlotOf(T) \in Slots /\ apc'["client"] = apc["client"]
      /\ apc'["server"] = "check" /\ cq'["client"] = cq["client"]
      /\ link = "ERR" => cq'["server"] = "error"
      /\ link \in {"RTS", "ERR"}
  BY <1>1, <1>2, SlotOfIs DEF TypeOK, Sides, IndInv, LinkInv
<1>4. TypeOK'
  BY <1>1, <1>2, <1>3 DEF TypeOK
<1>5. BarrierInv' /\ LinkInv'
  BY <1>1, <1>3 DEF IndInv, BarrierInv, LinkInv
<1>6. ClientInv'
  BY <1>1, <1>3 DEF IndInv, ClientInv, Idle, Busy, SendIs
<1>7. ServerInv'
  BY <1>1, <1>3 DEF IndInv, ServerInv, Idle, Busy, RecvIs, HasRoom
<1>8. DataInv'
  BY <1>1 DEF IndInv, DataInv
<1> QED
  BY <1>4, <1>5, <1>6, <1>7, <1>8 DEF IndInv

LEMMA ChecksStopKeeps ==
  ASSUME IndInv, NEW s \in Sides, ChecksStop(s)
  PROVE  IndInv'
<1>1. /\ apc[s] = "check"
      /\ apc' = [apc EXCEPT ![s] = IF stop[s] THEN "ended" ELSE "poll"]
      /\ UNCHANGED <<ready, link, hpc, stop, head, tail, mem, expected, sendAt, recvAt,
                     landed, unacked, cq>>
  BY DEF ChecksStop, Stopped, AtStop, barrier, rings, transport
<1>2. TypeOK
  BY DEF IndInv
<1>3. TypeOK'
  BY <1>1, <1>2 DEF TypeOK
<1>4. BarrierInv' /\ LinkInv'
  BY <1>1, <1>2 DEF IndInv, TypeOK, BarrierInv, LinkInv, Sides
<1>5. ASSUME s = "client" PROVE ClientInv' /\ ServerInv'
  <2>1. apc'["server"] = apc["server"] /\ apc'["client"] \in {"ended", "poll"}
    BY <1>1, <1>2, <1>5 DEF TypeOK, Sides
  <2> QED
    BY <1>1, <1>5, <2>1
    DEF IndInv, ClientInv, ServerInv, Idle, Busy, SendIs, RecvIs, HasRoom
<1>6. ASSUME s = "server" PROVE ClientInv' /\ ServerInv'
  <2>1. /\ apc'["client"] = apc["client"] /\ apc'["server"] \in {"ended", "poll"}
        /\ apc'["server"] = "ended" => stop["server"]
    BY <1>1, <1>2, <1>6 DEF TypeOK, Sides
  <2> QED
    BY <1>1, <1>6, <2>1
    DEF IndInv, ClientInv, ServerInv, Idle, Busy, SendIs, RecvIs, HasRoom
<1>7. DataInv'
  BY <1>1 DEF IndInv, DataInv
<1> QED
  BY <1>3, <1>4, <1>5, <1>6, <1>7 DEF IndInv, Sides

\* What the client's adapter polls.
LEMMA ClientPollsKeeps ==
  ASSUME IndInv, Polls("client")
  PROVE  IndInv'
<1>1. /\ apc["client"] = "poll"
      /\ apc' = [apc EXCEPT !["client"] =
                   CASE cq["client"] = "none"  -> "check"
                     [] cq["client"] = "ok"    -> "commit"
                     [] cq["client"] = "error" -> "panicked"]
      /\ cq' = [cq EXCEPT !["client"] = "none"]
      /\ UNCHANGED <<ready, link, hpc, stop, head, tail, mem, expected, sendAt, recvAt,
                     landed, unacked>>
  BY DEF Polls, AfterEmptyPoll, barrier, rings
<1>2. TypeOK
  BY DEF IndInv
<1>3. /\ apc'["server"] = apc["server"] /\ cq'["server"] = cq["server"]
      /\ cq["client"] \in {"none", "ok", "error"} /\ cq'["client"] = "none"
      /\ cq["client"] = "none" => apc'["client"] = "check"
      /\ cq["client"] = "ok" => apc'["client"] = "commit"
      /\ cq["client"] = "error" => apc'["client"] = "panicked"
  BY <1>1, <1>2 DEF TypeOK, Sides
<1>4. TypeOK'
  BY <1>1, <1>2, <1>3 DEF TypeOK
<1>5. BarrierInv' /\ LinkInv'
  BY <1>1, <1>3 DEF IndInv, BarrierInv, LinkInv
<1>6. ClientInv'
  BY <1>1, <1>3 DEF IndInv, ClientInv, Idle, Busy, SendIs
<1>7. ServerInv'
  BY <1>1, <1>3 DEF IndInv, ServerInv, Idle, Busy, RecvIs, HasRoom
<1>8. DataInv'
  BY <1>1 DEF IndInv, DataInv
<1> QED
  BY <1>4, <1>5, <1>6, <1>7, <1>8 DEF IndInv

\* What the server's adapter polls: an error only if the handshake has failed, as
\* nothing else than its own end makes one.
LEMMA ServerPollsKeeps ==
  ASSUME IndInv, Polls("server")
  PROVE  IndInv'
<1>1. /\ apc["server"] = "poll"
      /\ apc' = [apc EXCEPT !["server"] =
                   CASE cq["server"] = "none"  -> "check"
                     [] cq["server"] = "ok"    -> "commit"
                     [] cq["server"] = "error" -> "panicked"]
      /\ cq' = [cq EXCEPT !["server"] = "none"]
      /\ UNCHANGED <<ready, link, hpc, stop, head, tail, mem, expected, sendAt, recvAt,
                     landed, unacked>>
  BY DEF Polls, AfterEmptyPoll, barrier, rings
<1>2. TypeOK
  BY DEF IndInv
<1>3. cq["server"] = "error" => link = "ERR" /\ RecvIs(None, "error", 0)
  BY <1>1 DEF IndInv, ServerInv, Busy, RecvIs
<1>4. /\ apc'["client"] = apc["client"] /\ cq'["client"] = cq["client"]
      /\ cq["server"] \in {"none", "ok", "error"} /\ cq'["server"] = "none"
      /\ cq["server"] = "none" => apc'["server"] = "check"
      /\ cq["server"] = "ok" => apc'["server"] = "commit"
      /\ cq["server"] = "error" => apc'["server"] = "panicked"
  BY <1>1, <1>2 DEF TypeOK, Sides
<1>5. TypeOK'
  BY <1>1, <1>2, <1>3, <1>4 DEF TypeOK
<1>6. BarrierInv' /\ LinkInv'
  BY <1>1, <1>3, <1>4 DEF IndInv, BarrierInv, LinkInv
<1>7. ClientInv'
  BY <1>1, <1>4 DEF IndInv, ClientInv, Idle, Busy, SendIs
<1>8. ServerInv'
  BY <1>1, <1>3, <1>4 DEF IndInv, ServerInv, Idle, Busy, RecvIs, HasRoom
<1>9. DataInv'
  BY <1>1 DEF IndInv, DataInv
<1> QED
  BY <1>5, <1>6, <1>7, <1>8, <1>9 DEF IndInv

LEMMA ClientCommitsKeeps ==
  ASSUME IndInv, Commits("client")
  PROVE  IndInv'
<1> DEFINE h == head["client"]
<1>1. /\ apc["client"] = "commit"
      /\ apc' = [apc EXCEPT !["client"] = "try"]
      /\ head' = [head EXCEPT !["client"] = @ + 1]
      /\ UNCHANGED <<ready, link, hpc, stop, tail, mem, expected, sendAt, recvAt,
                     landed, unacked, cq>>
  BY DEF Commits, barrier, transport
<1>2. TypeOK
  BY DEF IndInv
<1>3. /\ h \in Nat /\ tail["client"] \in Nat /\ h < tail["client"]
      /\ apc'["client"] = "try" /\ apc'["server"] = apc["server"]
      /\ head'["client"] = h + 1 /\ head'["server"] = head["server"]
  BY <1>1, <1>2 DEF IndInv, ClientInv, TypeOK, Sides
<1>4. TypeOK'
  BY <1>1, <1>2, <1>3, LoopbackAssumption DEF TypeOK, Sides
<1>5. BarrierInv' /\ LinkInv'
  BY <1>1, <1>3 DEF IndInv, BarrierInv, LinkInv
<1>6. ClientInv'
  BY <1>1, <1>3 DEF IndInv, ClientInv, Idle, Busy, SendIs
<1>7. ServerInv'
  BY <1>1, <1>3 DEF IndInv, ServerInv, Idle, Busy, RecvIs, HasRoom
<1>8. DataInv'
  BY <1>1, <1>3 DEF IndInv, DataInv
<1> QED
  BY <1>4, <1>5, <1>6, <1>7, <1>8 DEF IndInv

LEMMA ServerCommitsKeeps ==
  ASSUME IndInv, Commits("server")
  PROVE  IndInv'
<1> DEFINE T == tail["server"]
<1>1. /\ apc["server"] = "commit"
      /\ apc' = [apc EXCEPT !["server"] = "try"]
      /\ tail' = [tail EXCEPT !["server"] = @ + 1]
      /\ UNCHANGED <<ready, link, hpc, stop, head, mem, expected, sendAt, recvAt,
                     landed, unacked, cq>>
  BY DEF Commits, barrier, transport
<1>2. TypeOK
  BY DEF IndInv
<1>3. /\ T \in Nat /\ head["server"] \in Nat /\ T - head["server"] < Room
      /\ apc'["server"] = "try" /\ apc'["client"] = apc["client"]
      /\ tail'["server"] = T + 1 /\ tail'["client"] = tail["client"]
  BY <1>1, <1>2 DEF IndInv, ServerInv, TypeOK, Sides, HasRoom
<1>4. TypeOK'
  BY <1>1, <1>2, <1>3, LoopbackAssumption DEF TypeOK, Sides
<1>5. BarrierInv' /\ LinkInv'
  BY <1>1, <1>3 DEF IndInv, BarrierInv, LinkInv
<1>6. ClientInv'
  BY <1>1, <1>3 DEF IndInv, ClientInv, Idle, Busy, SendIs
<1>7. ServerInv'
  BY <1>1, <1>3 DEF IndInv, ServerInv, Idle, Busy, RecvIs
<1>8. DataInv'
  BY <1>1, <1>3 DEF IndInv, DataInv
<1> QED
  BY <1>4, <1>5, <1>6, <1>7, <1>8 DEF IndInv
------------------------------------------------------------------------------
(* The transport.                                                          *)

\* A posted send is that of the message at head, a posted receive that of tail.
LEMMA Posted ==
  ASSUME IndInv, sendAt # None, ~ unacked, recvAt # None
  PROVE  /\ Busy("client") /\ head["client"] < tail["client"]
         /\ SendIs(SlotOf(head["client"]), FALSE, "none", 0)
         /\ Busy("server") /\ HasRoom("server")
         /\ RecvIs(SlotOf(tail["server"]), "none", 0)
         /\ link = "RTS"
<1>1. TypeOK /\ ClientInv /\ ServerInv
  BY DEF IndInv
<1>2. Busy("client")
  BY <1>1 DEF TypeOK, Sides, ClientInv, Idle, Busy, SendIs
<1>3. Busy("server")
  BY <1>1 DEF TypeOK, Sides, ServerInv, Idle, Busy, RecvIs
<1> QED
  BY <1>1, <1>2, <1>3 DEF ClientInv, ServerInv, SendIs, RecvIs

LEMMA DeliverKeeps ==
  ASSUME IndInv, Deliver
  PROVE  IndInv'
<1> DEFINE h == head["client"]
           T == tail["server"]
<1>1. /\ sendAt # None /\ ~ unacked /\ recvAt # None
      /\ mem' = [mem EXCEPT !["server"][recvAt] = mem["client"][sendAt]]
      /\ recvAt' = None /\ landed' = landed + 1 /\ unacked' = TRUE
      /\ cq' = [cq EXCEPT !["server"] = "ok"]
      /\ UNCHANGED <<ready, link, hpc, apc, stop, head, tail, expected, sendAt>>
  BY DEF Deliver, barrier
<1>2. TypeOK
  BY DEF IndInv
<1>3. /\ Busy("client") /\ h < tail["client"] /\ sendAt = SlotOf(h)
      /\ cq["client"] = "none" /\ landed = h
      /\ Busy("server") /\ HasRoom("server") /\ recvAt = SlotOf(T)
      /\ landed = T /\ link = "RTS"
  <2>1. /\ link = "RTS" /\ Busy("client") /\ h < tail["client"] /\ landed = h + 0
        /\ sendAt = SlotOf(h) /\ cq["client"] = "none"
        /\ Busy("server") /\ HasRoom("server") /\ recvAt = SlotOf(T)
        /\ landed = T + 0
    BY <1>1, Posted DEF SendIs, RecvIs
  <2> QED
    BY <1>2, <2>1 DEF TypeOK, Sides
<1>4. /\ h \in Nat /\ T \in Nat /\ head["server"] \in Nat /\ tail["client"] \in Nat
      /\ head["server"] <= T /\ Room \in Nat
      /\ SlotOf(h) \in Slots /\ SlotOf(T) \in Slots
  BY <1>2, SlotOfIs, LoopbackAssumption DEF TypeOK, Sides
<1>5. mem["client"][SlotOf(h)] = h
  BY <1>3, <1>4 DEF IndInv, DataInv
<1>6. /\ mem' = [mem EXCEPT !["server"][SlotOf(T)] = T]
      /\ mem["client"][SlotOf(h)] \in 0 .. MaxMessages \cup {Empty}
  BY <1>1, <1>2, <1>3, <1>4, <1>5 DEF TypeOK, Sides
<1>7. /\ mem'["client"] = mem["client"]
      /\ cq'["client"] = cq["client"] /\ cq'["server"] = "ok"
  BY <1>1, <1>2, <1>6 DEF TypeOK, Sides
<1>8. TypeOK'
  <2>1. mem' \in [Sides -> [Slots -> 0 .. MaxMessages \cup {Empty}]]
    BY <1>2, <1>3, <1>4, <1>5, <1>6 DEF TypeOK, Sides
  <2>2. cq' \in [Sides -> {"none", "ok", "error"}]
    BY <1>1, <1>2 DEF TypeOK
  <2>3. landed \in Nat /\ landed' = landed + 1
    BY <1>1, <1>2 DEF TypeOK
  <2>4. landed' \in Nat
    BY <2>3
  <2> QED
    BY <1>1, <1>2, <2>1, <2>2, <2>4 DEF TypeOK
<1>9. BarrierInv' /\ LinkInv'
  BY <1>1, <1>3 DEF IndInv, BarrierInv, LinkInv
<1>10. ClientInv'
  BY <1>1, <1>3, <1>7 DEF ClientInv, Idle, Busy, SendIs
<1>11. ServerInv'
  <2>1. apc["server"] = "ended" => stop["server"]
    BY DEF IndInv, ServerInv
  <2> QED
    BY <1>1, <1>3, <1>7, <2>1 DEF ServerInv, Idle, Busy, RecvIs, HasRoom
<1>12. DataInv'
  <2>1. ASSUME NEW p \in head["server"] .. T PROVE mem'["server"][SlotOf(p)] = p
    <3>1. CASE p = T
      BY <1>2, <1>4, <1>6, <3>1 DEF TypeOK, Sides
    <3>2. CASE p < T
      <4>1. p \in head["server"] .. landed - 1 /\ p \in Nat /\ T < p + Room
        BY <1>3, <1>4, <3>2 DEF HasRoom
      <4>2. SlotOf(p) # SlotOf(T) /\ SlotOf(p) \in Slots
        BY <1>4, <3>2, <4>1, SlotsDiffer, SlotOfIs
      <4>3. mem["server"][SlotOf(p)] = p
        BY <4>1 DEF IndInv, DataInv
      <4> QED
        BY <1>2, <1>6, <4>2, <4>3 DEF TypeOK, Sides
    <3> QED
      BY <1>4, <3>1, <3>2
  <2>2. landed' - 1 = T
    BY <1>1, <1>3, <1>4
  <2> QED
    BY <1>1, <1>7, <2>1, <2>2 DEF IndInv, DataInv
<1> QED
  BY <1>8, <1>9, <1>10, <1>11, <1>12 DEF IndInv

LEMMA AcknowledgeKeeps ==
  ASSUME IndInv, Acknowledge
  PROVE  IndInv'
<1>1. /\ unacked /\ sendAt' = None /\ unacked' = FALSE
      /\ cq' = [cq EXCEPT !["client"] = "ok"]
      /\ UNCHANGED <<ready, link, hpc, apc, stop, head, tail, mem, expected, recvAt,
                     landed>>
  BY DEF Acknowledge, barrier, rings
<1>2. TypeOK
  BY DEF IndInv
<1>3. cq'["client"] = "ok" /\ cq'["server"] = cq["server"]
  BY <1>1, <1>2 DEF TypeOK, Sides
<1>4. Busy("client") /\ ~ Idle("client")
  BY <1>1, <1>2 DEF IndInv, TypeOK, Sides, ClientInv, Idle, Busy, SendIs
<1>5. TypeOK'
  BY <1>1, <1>2 DEF TypeOK
<1>6. BarrierInv' /\ LinkInv'
  BY <1>1 DEF IndInv, BarrierInv, LinkInv
<1>7. ClientInv'
  BY <1>1, <1>3, <1>4 DEF IndInv, ClientInv, Idle, Busy, SendIs
<1>8. ServerInv'
  BY <1>1, <1>3 DEF IndInv, ServerInv, Idle, Busy, RecvIs, HasRoom
<1>9. DataInv'
  BY <1>1 DEF IndInv, DataInv
<1> QED
  BY <1>5, <1>6, <1>7, <1>8, <1>9 DEF IndInv

LEMMA RefuseKeeps ==
  ASSUME IndInv, Refuse
  PROVE  IndInv'
<1>1. /\ sendAt # None /\ ~ unacked /\ recvAt # None
      /\ sendAt' = None /\ recvAt' = None
      /\ cq' = [s \in Sides |-> "error"]
      /\ UNCHANGED <<ready, link, hpc, apc, stop, head, tail, mem, expected, landed,
                     unacked>>
  BY DEF Refuse, barrier, rings
<1>2. TypeOK
  BY DEF IndInv
<1>3. /\ Busy("client") /\ head["client"] < tail["client"]
      /\ SendIs(SlotOf(head["client"]), FALSE, "none", 0)
      /\ Busy("server") /\ HasRoom("server")
      /\ RecvIs(SlotOf(tail["server"]), "none", 0)
  BY <1>1, Posted
<1>4. apc["server"] = "ended"
  BY <1>3 DEF Refuse, Registered, Busy
<1>5. cq'["client"] = "error" /\ cq'["server"] = "error"
  BY <1>1 DEF Sides
<1>6. TypeOK'
  BY <1>1, <1>2 DEF TypeOK
<1>7. BarrierInv' /\ LinkInv'
  BY <1>1 DEF IndInv, BarrierInv, LinkInv
<1>8. ClientInv'
  BY <1>1, <1>3, <1>4, <1>5 DEF ClientInv, Idle, Busy, SendIs
<1>9. ServerInv'
  <2>1. stop["server"]
    BY <1>4 DEF IndInv, ServerInv
  <2> QED
    BY <1>1, <1>3, <1>4, <1>5, <2>1 DEF ServerInv, Idle, Busy, RecvIs, HasRoom
<1>10. DataInv'
  BY <1>1 DEF IndInv, DataInv
<1> QED
  BY <1>6, <1>7, <1>8, <1>9, <1>10 DEF IndInv

LEMMA StutterKeeps ==
  ASSUME IndInv, UNCHANGED vars
  PROVE  IndInv'
<1>1. UNCHANGED <<ready, link, hpc, apc, stop, head, tail, mem, expected, sendAt, recvAt,
                  landed, unacked, cq>>
  BY DEF vars, barrier, rings, transport
<1> QED
  BY <1>1 DEF IndInv, TypeOK, BarrierInv, LinkInv, ClientInv, ServerInv, DataInv, Idle,
              Busy, SendIs, RecvIs, HasRoom

LEMMA NextIndInv == IndInv /\ [Next]_vars => IndInv'
<1> SUFFICES ASSUME IndInv, [Next]_vars PROVE IndInv'
  OBVIOUS
<1>1. ASSUME NEW s \in Sides, Host(s) PROVE IndInv'
  BY <1>1, HostArrivesKeeps, HostMovesKeeps, ClientHostWritesKeeps,
     ServerHostReadsKeeps DEF Host
<1>2. ASSUME NEW s \in Sides, TimeIsUp(s) PROVE IndInv'
  BY <1>2, HostMovesKeeps
<1>3. ASSUME NEW s \in Sides, Polls(s) \/ Commits(s) PROVE IndInv'
  BY <1>3, ClientPollsKeeps, ServerPollsKeeps, ClientCommitsKeeps,
     ServerCommitsKeeps DEF Sides
<1>4. ASSUME NEW s \in Sides, Adapter(s) PROVE IndInv'
  BY <1>3, <1>4, AdapterSetupKeeps, ChecksStopKeeps, ClientPostsKeeps,
     ServerPostsKeeps DEF Adapter
<1>5. ASSUME NEW s \in Sides, SetupFails(s) PROVE IndInv'
  BY <1>5, AdapterSetupKeeps
<1>6. CASE Transport
  BY <1>6, DeliverKeeps, AcknowledgeKeeps, RefuseKeeps DEF Transport
<1>7. CASE UNCHANGED vars
  BY <1>7, StutterKeeps
<1> QED
  BY <1>1, <1>2, <1>4, <1>5, <1>6, <1>7 DEF Next

\* The invariant holds whatever the size of the rings and however many messages
\* the client's host writes.
THEOREM Invariance == Spec => []IndInv
BY InitIndInv, NextIndInv, PTL DEF Spec
------------------------------------------------------------------------------
\* A message that has landed is committed, or the next to be.
LEMMA LandedClose ==
  ASSUME TypeOK, ClientInv, ServerInv
  PROVE  /\ landed = head["client"] \/ landed = head["client"] + 1
         /\ landed = tail["server"] \/ landed = tail["server"] + 1
<1>1. landed = head["client"] \/ landed = head["client"] + 1
  BY DEF TypeOK, Sides, ClientInv, Idle, Busy, SendIs
<1>2. landed = tail["server"] \/ landed = tail["server"] + 1
  BY DEF TypeOK, Sides, ServerInv, Idle, Busy, RecvIs
<1> QED
  BY <1>1, <1>2

\* Each side commits the messages that have landed, and no other, whenever it is
\* stopped, and the server's host sees them in order.
THEOREM StaysInStep == Spec => []InStep
<1>1. IndInv => InStep
  BY LandedClose DEF IndInv, InStep, TypeOK, Sides, DataInv
<1> QED
  BY <1>1, Invariance, PTL

\* Whoever stops first, over a connection that works the server's adapter never
\* panics, and the client's only when the server has stopped before it.  Over one
\* whose handshake has failed unnoticed both may, but they have taken no message
\* for sent or received.
THEOREM PanicsLate == Spec => []PanicsHaveACause
<1>1. IndInv => PanicsHaveACause
  <2> SUFFICES ASSUME IndInv PROVE PanicsHaveACause
    OBVIOUS
  <2>1. TypeOK /\ LinkInv /\ ClientInv /\ ServerInv
    BY DEF IndInv
  <2>2. apc["client"] = "panicked" => link = "ERR" \/ stop["server"]
    BY <2>1 DEF ClientInv, ServerInv
  <2>3. apc["server"] = "panicked" => link = "ERR"
    BY <2>1 DEF ServerInv
  <2>4. link = "ERR" => landed = 0
    BY <2>1 DEF LinkInv
  <2>5. landed = 0 => head["client"] = 0 /\ tail["server"] = 0
    BY <2>1, LandedClose DEF TypeOK, Sides
  <2> QED
    BY <2>2, <2>3, <2>4, <2>5 DEF PanicsHaveACause
<1> QED
  BY <1>1, Invariance, PTL
------------------------------------------------------------------------------
\* While there is a message to send and room for it, it is taken on.
THEOREM MessagesMove == Spec => []NeverStalls
<1>1. IndInv => NeverStalls
  <2> SUFFICES ASSUME IndInv, ready = 4, \A s \in Sides : ~ Over(s),
                      head["client"] < tail["client"], HasRoom("server"), ~ MessageMoves
               PROVE  FALSE
    BY DEF NeverStalls
  <2>1. \A s \in Sides : apc[s] \notin {"setup", "failed"}
    BY DEF IndInv, TypeOK, BarrierInv, Sides
  <2>2. \A s \in Sides : apc[s] \in {"check", "poll"} /\ cq[s] = "none"
    <3> SUFFICES ASSUME NEW s \in Sides PROVE apc[s] \in {"check", "poll"} /\ cq[s] = "none"
      OBVIOUS
    <3>1. apc[s] \in {"barrier", "try", "check", "poll", "commit"}
      BY <2>1 DEF IndInv, TypeOK, Over
    <3>2. apc[s] # "try"
      BY DEF MessageMoves, Sides
    <3> QED
      BY <3>1, <3>2 DEF MessageMoves
  <2>3. /\ "client" \in Sides /\ "server" \in Sides
        /\ ClientInv /\ ServerInv /\ ~ unacked
    BY SidesAre DEF IndInv, MessageMoves
  <2>4. SlotOf(head["client"]) # None /\ SlotOf(tail["server"]) # None
    <3>1. head["client"] \in Nat /\ tail["server"] \in Nat
      BY <2>3 DEF IndInv, TypeOK
    <3> QED
      BY <3>1, SlotOfIs DEF Slots, None
  <2>5. sendAt = SlotOf(head["client"])
    BY <2>2, <2>3 DEF ClientInv, Busy, SendIs
  <2>6. recvAt = SlotOf(tail["server"])
    BY <2>2, <2>3 DEF ServerInv, Busy, RecvIs
  <2> QED
    BY <2>4, <2>5, <2>6 DEF MessageMoves
<1> QED
  BY <1>1, Invariance, PTL

\* An adapter with nothing to work on, whose host has ended, stays as it is.
THEOREM HangsForGood == Spec => StarvedForGood
<1> DEFINE Stays == \A s \in Sides : Starved(s) => Starved(s)'
<1>1. ASSUME IndInv, [Next]_vars PROVE [Stays]_vars
  <2> SUFFICES ASSUME NEW s \in Sides, Starved(s) PROVE Starved(s)'
    OBVIOUS
  <2>0. /\ apc[s] = "try" /\ hpc[s] = "ended"
        /\ DOMAIN apc = Sides /\ DOMAIN hpc = Sides
        /\ DOMAIN head = Sides /\ DOMAIN tail = Sides
    BY <1>1 DEF Starved, IndInv, TypeOK
  <2>1. ASSUME UNCHANGED <<apc[s], hpc[s], head[s], tail[s]>> PROVE Starved(s)'
    BY <2>1 DEF Starved, HasRoom
  <2>2. ASSUME NEW t \in Sides, Host(t) \/ TimeIsUp(t)
        PROVE  UNCHANGED <<apc[s], hpc[s], head[s], tail[s]>>
    BY <2>0, <2>2
       DEF Host, HostArrives, HostPasses, HostStops, ClientHostWrites, ServerHostReads,
           TimeIsUp, rings, Sides
  <2>3. ASSUME NEW t \in Sides, Adapter(t) \/ SetupFails(t)
        PROVE  UNCHANGED <<apc[s], hpc[s], head[s], tail[s]>>
    <3>1. ~ (s = "client" /\ ClientPosts) /\ ~ (s = "server" /\ ServerPosts)
      BY <1>1 DEF Starved, ClientPosts, ServerPosts, IndInv, TypeOK
    <3>2. CASE ClientPosts \/ ServerPosts
      BY <2>0, <3>1, <3>2 DEF ClientPosts, ServerPosts, rings, Sides
    <3>3. CASE Commits(t)
      BY <2>0, <3>3 DEF Commits
    <3>4. CASE AdapterArrives(t) \/ AdapterPasses(t) \/ ChecksStop(t) \/ Polls(t)
               \/ SetupFails(t)
      BY <2>0, <3>4
         DEF AdapterArrives, AdapterPasses, ChecksStop, Polls, SetupFails, barrier, rings
    <3> QED
      BY <2>3, <3>2, <3>3, <3>4 DEF Adapter
  <2>4. Transport \/ UNCHANGED vars => UNCHANGED <<apc[s], hpc[s], head[s], tail[s]>>
    BY DEF Transport, Deliver, Acknowledge, Refuse, vars, barrier, rings
  <2> QED
    BY <1>1, <2>1, <2>2, <2>3, <2>4 DEF Next
<1> QED
  BY <1>1, Invariance, PTL DEF Spec, StarvedForGood
=============================================================================
