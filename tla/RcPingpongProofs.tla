-------------------------- MODULE RcPingpongProofs ---------------------------
(***************************************************************************)
(* The safety of rc-pingpong for every number of iterations and every      *)
(* depth of the receive queues, whether or not the two sides agree on them.*)
(***************************************************************************)
EXTENDS RcPingpong, SequenceTheorems, FiniteSetTheorems, TLAPS

LEMMA SidesAre ==
  /\ "client" \in Sides /\ "server" \in Sides
  /\ Peer("client") = "server" /\ Peer("server") = "client"
  /\ \A s \in Sides : s = "client" \/ s = "server"
  /\ \A s \in Sides : Peer(s) \in Sides /\ Peer(Peer(s)) = s /\ Peer(s) # s
BY DEF Sides, Peer

LEMMA PeersAre == \A s, t \in Sides : t # s => t = Peer(s) /\ Peer(t) = s
BY DEF Sides, Peer

\* The empty queue.
LEMMA Empty == <<>> \in Seq(Kinds) /\ IsQueue(<<>>) /\ In(<<>>) = {}
BY DEF IsQueue, In

LEMMA UpToTwo ==
  \A n \in Nat : /\ n <= 2 => (IF n < 2 THEN n ELSE 2) = n
                 /\ n > 1 /\ n <= 2 => n = 2
  OBVIOUS

\* A poll takes the whole queue.
LEMMA PollTakes ==
  ASSUME NEW q \in Seq(Kinds), IsQueue(q)
  PROVE  TwoOf(q) = q /\ RestOf(q) = <<>>
<1>1. Len(q) \in Nat /\ Len(q) <= 2
  BY DEF IsQueue
<1>2. (IF Len(q) < 2 THEN Len(q) ELSE 2) = Len(q)
  BY <1>1, UpToTwo, Zenon
<1>3. TwoOf(q) = q
  BY <1>2, SubSeqFull DEF TwoOf
<1>4. RestOf(q) = SubSeq(q, Len(q) + 1, Len(q))
  BY <1>3 DEF RestOf
<1> QED
  BY <1>1, <1>3, <1>4

\* The first completion of a queue, and the rest.
LEMMA FirstOf ==
  ASSUME NEW q \in Seq(Kinds), IsQueue(q), q # <<>>
  PROVE  /\ Head(q) \in Kinds /\ Head(q) \in In(q)
         /\ Tail(q) \in Seq(Kinds) /\ IsQueue(Tail(q))
         /\ In(Tail(q)) = In(q) \ {Head(q)}
         /\ Len(q) = 1 <=> Tail(q) = <<>>
<1>1. /\ Len(q) \in Nat /\ Len(q) > 0
      /\ Head(q) = q[1] /\ Tail(q) \in Seq(Kinds) /\ Len(Tail(q)) = Len(q) - 1
      /\ \A i \in 1 .. Len(q) - 1 : Tail(q)[i] = q[i + 1]
  OBVIOUS
<1>2. Head(q) \in Kinds /\ Head(q) \in In(q)
  BY <1>1 DEF In
<1>3. IsQueue(Tail(q))
  BY <1>1 DEF IsQueue
<1>4. In(Tail(q)) = In(q) \ {Head(q)}
  <2>1. ASSUME NEW x \in In(Tail(q)) PROVE x \in In(q) /\ x # q[1]
    <3>1. PICK i \in 1 .. Len(q) - 1 : x = q[i + 1]
      BY <1>1, <2>1 DEF In
    <3> QED
      BY <1>1, <3>1 DEF In, IsQueue
  <2>2. ASSUME NEW x \in In(q), x # q[1] PROVE x \in In(Tail(q))
    <3>1. PICK i \in 1 .. Len(q) : x = q[i]
      BY <2>2 DEF In
    <3>2. i - 1 \in 1 .. Len(q) - 1 /\ Tail(q)[i - 1] = x
      BY <1>1, <2>2, <3>1
    <3> QED
      BY <1>1, <3>2 DEF In
  <2> QED
    BY <1>1, <2>1, <2>2
<1>5. Len(q) = 1 <=> Tail(q) = <<>>
  <2>1. Len(q) = 1 <=> Len(Tail(q)) = 0
    BY <1>1
  <2>2. Len(Tail(q)) = 0 <=> Tail(q) = <<>>
    BY <1>1, EmptySeq
  <2> QED
    BY <2>1, <2>2
<1> QED
  BY <1>1, <1>2, <1>3, <1>4, <1>5

\* One more completion.
LEMMA AppendTo ==
  ASSUME NEW q \in Seq(Kinds), IsQueue(q), NEW wc \in Kinds, wc \notin In(q),
         "send" \notin In(q) \/ "error" \notin In(q),
         wc # "recv" => "send" \notin In(q) /\ "error" \notin In(q)
  PROVE  /\ Append(q, wc) \in Seq(Kinds) /\ IsQueue(Append(q, wc))
         /\ In(Append(q, wc)) = In(q) \cup {wc}
<1> DEFINE r == Append(q, wc)
<1>1. /\ Len(q) \in Nat /\ r \in Seq(Kinds) /\ Len(r) = Len(q) + 1
      /\ r[Len(q) + 1] = wc
      /\ \A i \in 1 .. Len(q) : r[i] = q[i] /\ q[i] \in Kinds
  OBVIOUS
<1>2. \A i \in 1 .. Len(q) : q[i] \in In(q) /\ q[i] # wc
  BY DEF In
<1>3. Len(q) <= 1
  <2> SUFFICES ASSUME Len(q) > 1 PROVE FALSE
    BY <1>1
  <2>1. Len(q) = 2
    BY <1>1, UpToTwo, Zenon DEF IsQueue
  <2>2. q[1] # q[2]
    BY <2>1 DEF IsQueue
  <2> QED
    BY <1>1, <1>2, <2>1, <2>2 DEF Kinds
<1>4. IsQueue(r)
  BY <1>1, <1>2, <1>3 DEF IsQueue
<1>5. In(r) = In(q) \cup {wc}
  <2>1. ASSUME NEW x \in In(r) PROVE x \in In(q) \cup {wc}
    <3>1. PICK i \in 1 .. Len(q) + 1 : x = r[i]
      BY <1>1, <2>1 DEF In
    <3> QED
      BY <1>1, <1>2, <3>1
  <2>2. ASSUME NEW x \in In(q) PROVE x \in In(r)
    <3>1. PICK i \in 1 .. Len(q) : x = q[i]
      BY <2>2 DEF In
    <3>2. i \in 1 .. Len(r) /\ r[i] = x
      BY <1>1, <3>1
    <3> QED
      BY <3>2 DEF In
  <2>3. wc \in In(r)
    BY <1>1 DEF In
  <2> QED
    BY <2>1, <2>2, <2>3
<1> QED
  BY <1>1, <1>4, <1>5

\* There is at most one completion of a kind in the queue.
LEMMA UnpolledIs ==
  ASSUME NEW s \in Sides, IsQueue(cq[s]), NEW wc
  PROVE  Unpolled(s, wc) = One(wc \in In(cq[s]))
<1> DEFINE I == {i \in 1 .. Len(cq[s]) : cq[s][i] = wc}
<1>1. CASE wc \notin In(cq[s])
  <2>1. I = {}
    BY <1>1 DEF In
  <2> QED
    BY <1>1, <2>1, FS_EmptySet DEF Unpolled, One
<1>2. CASE wc \in In(cq[s])
  <2>1. PICK i \in 1 .. Len(cq[s]) : cq[s][i] = wc
    BY <1>2 DEF In
  <2>2. I = {i}
    BY <2>1 DEF IsQueue
  <2> QED
    BY <1>2, <2>2, FS_Singleton DEF Unpolled, One
<1> QED
  BY <1>1, <1>2

LEMMA OptionsAre ==
  /\ \A n \in IterCounts : n \in Nat /\ n > 0
  /\ \A n \in RxDepths : n \in Nat /\ n > 0
BY PingpongAssumption

LEMMA Numbers ==
  ASSUME CountsInv, NEW s \in Sides
  PROVE  /\ scnt[s] \in Nat /\ rcnt[s] \in Nat /\ landed[s] \in Nat /\ Posts(s) \in Nat
         /\ rq[s] \in Nat /\ routs[s] \in Nat
         /\ rxDepth[s] \in Nat /\ rxDepth[s] > 0 /\ iters[s] \in Nat /\ iters[s] > 0
         /\ cq[s] \in Seq(Kinds) /\ wcs[s] \in Seq(Kinds)
         /\ QueueInv(s) /\ ReceiveInv(s) /\ SendInv(s) /\ EndInv(s)
<1>1. /\ scnt[s] \in Nat /\ rcnt[s] \in Nat /\ landed[s] \in Nat
      /\ rq[s] \in Nat /\ routs[s] \in Nat
      /\ cq[s] \in Seq(Kinds) /\ wcs[s] \in Seq(Kinds)
  BY DEF CountsInv, TypeOK
<1>2. rxDepth[s] \in RxDepths /\ iters[s] \in IterCounts
  BY DEF CountsInv, TypeOK
<1>3. rxDepth[s] \in Nat /\ rxDepth[s] > 0 /\ iters[s] \in Nat /\ iters[s] > 0
  BY <1>2, OptionsAre
<1>4. Posts(s) \in Nat
  BY <1>1 DEF Posts, One
<1>5. QueueInv(s) /\ ReceiveInv(s) /\ SendInv(s) /\ EndInv(s)
  BY DEF CountsInv
<1> QED
  BY <1>1, <1>3, <1>4, <1>5

\* Nobody is more than a message ahead of the other.
LEMMA Chain ==
  ASSUME CountsInv
  PROVE  /\ Posts("server") <= rcnt["server"] /\ rcnt["server"] <= landed["client"]
         /\ landed["client"] <= Posts("client") /\ Posts("client") <= rcnt["client"] + 1
         /\ rcnt["client"] <= landed["server"] /\ landed["server"] <= Posts("server")
<1>1. rcnt["server"] <= landed["client"] /\ landed["client"] <= Posts("client")
  BY SidesAre, Numbers, SMTT(30) DEF ReceiveInv, SendInv, One
<1>2. rcnt["client"] <= landed["server"] /\ landed["server"] <= Posts("server")
  BY SidesAre, Numbers DEF ReceiveInv, SendInv, One
<1>3. Posts("client") <= rcnt["client"] + 1
  BY SidesAre, Numbers DEF CountsInv, TurnInv, One
<1>4. Posts("server") <= rcnt["server"]
  BY SidesAre, Numbers DEF CountsInv, TurnInv, One
<1> QED
  BY <1>1, <1>2, <1>3, <1>4

\* A side with which nothing happens.
LEMMA SideKeeps ==
  ASSUME CountsInv, NEW s \in Sides,
         options' = options, cq'[s] = cq[s], wcs'[s] = wcs[s], sq'[s] = sq[s],
         rq'[s] = rq[s], routs'[s] = routs[s], rcnt'[s] = rcnt[s], scnt'[s] = scnt[s],
         pending'[s] = pending[s], landed'[s] = landed[s],
         landed'[Peer(s)] = landed[Peer(s)],
         pc'[s] \in {"handle", "failed"} <=> pc[s] \in {"handle", "failed"}
  PROVE  /\ Posts(s)' = Posts(s) /\ Waiting(s)' = Waiting(s)
         /\ QueueInv(s)' /\ ReceiveInv(s)' /\ SendInv(s)'
<1>1. Waiting(s)' = Waiting(s)
  BY DEF Waiting
<1>2. Posts(s)' = Posts(s)
  BY <1>1 DEF Posts
<1>3. QueueInv(s)'
  BY <1>1, Numbers DEF QueueInv
<1>4. ReceiveInv(s)'
  BY <1>1, Numbers DEF ReceiveInv, options
<1>5. SendInv(s)'
  BY <1>1, <1>2, Numbers DEF SendInv, options
<1> QED
  BY <1>1, <1>2, <1>3, <1>4, <1>5

LEMMA InitCounts == Init => CountsInv
<1> SUFFICES ASSUME Init PROVE CountsInv
  OBVIOUS
<1>1. TypeOK
  BY Empty, PingpongAssumption DEF Init, TypeOK, States, Sides
<1>2. ASSUME NEW s \in Sides
      PROVE  /\ Waiting(s) = {} /\ Posts(s) = 0
             /\ QueueInv(s) /\ ReceiveInv(s) /\ SendInv(s) /\ EndInv(s)
  <2>1. Waiting(s) = {}
    BY Empty DEF Init, Waiting
  <2>2. Posts(s) = 0
    BY <2>1 DEF Init, Posts, One
  <2>3. rxDepth[s] \in Nat /\ rxDepth[s] > 0 /\ iters[s] \in Nat
    <3>1. rxDepth \in [Sides -> RxDepths] /\ iters \in [Sides -> IterCounts]
      BY DEF Init
    <3>2. rxDepth[s] \in RxDepths /\ iters[s] \in IterCounts
      BY <3>1
    <3> QED
      BY <3>2, OptionsAre
  <2>4. QueueInv(s)
    BY <2>1, Empty DEF Init, QueueInv
  <2>5. ReceiveInv(s)
    BY <2>1, <2>3, SidesAre DEF Init, ReceiveInv, One
  <2>6. SendInv(s)
    BY <2>1, <2>2, <2>3 DEF Init, SendInv, One
  <2>7. EndInv(s)
    BY <2>1 DEF Init, EndInv
  <2> QED
    BY <2>1, <2>2, <2>4, <2>5, <2>6, <2>7
<1>3. TurnInv
  BY <1>2, SidesAre DEF Init, TurnInv, Starting
<1>4. SetupInv
  BY SidesAre DEF Init, SetupInv, Starting
<1> QED
  BY <1>1, <1>2, <1>3, <1>4 DEF CountsInv

\* The exchange of addresses.
LEMMA ExchangeKeeps ==
  ASSUME CountsInv,
         Listen \/ Dial \/ Accept \/ ServerConnects \/ Reply \/ ClientReads
  PROVE  CountsInv'
<1>1. UNCHANGED idle
  BY DEF Listen, Dial, Accept, ServerConnects, Reply, ClientReads, idle
<1>2. PICK s \in Sides : /\ pc[s] \in Starting
                         /\ \E l \in Starting : pc' = [pc EXCEPT ![s] = l]
  BY SidesAre DEF Listen, Dial, Accept, ServerConnects, Reply, ClientReads, Goto, Starting
<1>3. \A t \in Sides : \/ pc'[t] = pc[t]
                       \/ t = s /\ pc'[t] \in Starting
  BY <1>2 DEF CountsInv, TypeOK
<1>4. TypeOK'
  <2>1. pc' \in [Sides -> States]
    BY <1>2 DEF CountsInv, TypeOK, Starting, States
  <2>2. /\ listening' \in BOOLEAN /\ told' \subseteq Sides \cup {"done"}
        /\ connected' \subseteq Sides
    BY SidesAre DEF CountsInv, TypeOK, Listen, Dial, Accept, ServerConnects, Reply,
         ClientReads, socket
  <2> QED
    BY <1>1, <2>1, <2>2 DEF CountsInv, TypeOK, idle, options, channel, counts
<1>5. ASSUME NEW t \in Sides
      PROVE  /\ Posts(t)' = Posts(t) /\ Waiting(t)' = Waiting(t)
             /\ QueueInv(t)' /\ ReceiveInv(t)' /\ SendInv(t)' /\ EndInv(t)'
  <2>1. /\ Posts(t)' = Posts(t) /\ Waiting(t)' = Waiting(t)
        /\ QueueInv(t)' /\ ReceiveInv(t)' /\ SendInv(t)'
    BY <1>1, <1>2, <1>3, SideKeeps DEF idle, channel, counts, Starting
  <2>2. EndInv(t)'
    BY <1>1, <1>2, <1>3, <2>1, Numbers, SidesAre DEF EndInv, Starting, idle, counts, options
  <2> QED
    BY <2>1, <2>2
<1>6. TurnInv'
  BY <1>1, <1>2, <1>3, <1>5, SidesAre DEF CountsInv, TurnInv, idle, counts
<1>7. SetupInv'
  <2>1. /\ SetupInv /\ pc \in [Sides -> States]
        /\ told \subseteq Sides \cup {"done"} /\ connected \subseteq Sides
    BY DEF CountsInv, TypeOK
  <2>2. CASE Listen
    BY <2>1, <2>2, SidesAre DEF SetupInv, Starting, Listen, Goto
  <2>3. CASE Dial
    BY <2>1, <2>3, SidesAre DEF SetupInv, Starting, Dial, Goto
  <2>4. CASE Accept
    BY <2>1, <2>4, SidesAre DEF SetupInv, Starting, Accept, Goto, socket
  <2>5. CASE ServerConnects
    BY <2>1, <2>5, SidesAre DEF SetupInv, Starting, ServerConnects, Goto, socket
  <2>6. CASE Reply
    BY <2>1, <2>6, SidesAre DEF SetupInv, Starting, Reply, Goto
  <2>7. CASE ClientReads
    BY <2>1, <2>7, SidesAre DEF SetupInv, Starting, ClientReads, Goto
  <2> QED
    BY <2>2, <2>3, <2>4, <2>5, <2>6, <2>7
<1> QED
  BY <1>4, <1>5, <1>6, <1>7 DEF CountsInv

\* The server enters its loop.
LEMMA ServerStartsKeeps == ASSUME CountsInv, ServerStarts PROVE CountsInv'
<1> USE SidesAre
<1>1. /\ pc["server"] = "done" /\ pc' = [pc EXCEPT !["server"] = "loop"]
      /\ pending' = [pending EXCEPT !["server"] = {"recv"}]
      /\ UNCHANGED <<options, socket, connected, sq, rq, cq, channel, wcs, routs, rcnt,
                     scnt, landed>>
  BY DEF ServerStarts, Goto
<1>2. TypeOK'
  BY <1>1 DEF CountsInv, TypeOK, States, options, socket, channel
<1>3. ASSUME NEW t \in Sides
      PROVE  Waiting(t)' = Waiting(t) /\ Posts(t)' = Posts(t)
  <2>1. Waiting(t)' = Waiting(t)
    BY <1>1 DEF Waiting
  <2> QED
    BY <1>1, <2>1 DEF Posts
<1>4. Posts("server") = 0 /\ scnt["server"] = 0 /\ rcnt["server"] = 0
  <2>1. Posts("server") = 0 /\ rcnt["server"] = 0
    BY <1>1 DEF CountsInv, TurnInv, Starting
  <2> QED
    BY <2>1, Numbers DEF Posts, One
<1>5. QueueInv("server")' /\ ReceiveInv("server")'
  <2>1. pc'["server"] = "loop"
    BY <1>1 DEF CountsInv, TypeOK
  <2>2. QueueInv("server")'
    BY <1>1, <1>3, <2>1, Numbers DEF QueueInv
  <2>3. ReceiveInv("server")'
    BY <1>1, <1>3, Numbers DEF ReceiveInv, options
  <2> QED
    BY <2>2, <2>3
<1>6. SendInv("server")'
  BY <1>1, <1>3, <1>4, Numbers DEF CountsInv, TypeOK, SendInv, One, options
<1>7. QueueInv("client")' /\ ReceiveInv("client")' /\ SendInv("client")'
  BY <1>1, SideKeeps DEF CountsInv, TypeOK
<1>8. EndInv("client")' /\ EndInv("server")'
  <2>1. pc'["server"] = "loop" /\ pc'["client"] = pc["client"]
    BY <1>1 DEF CountsInv, TypeOK
  <2> QED
    BY <1>1, <1>3, <2>1, Numbers DEF EndInv, options
<1>9. TurnInv'
  BY <1>1, <1>3, <1>4 DEF CountsInv, TypeOK, TurnInv, Starting, One
<1>10. SetupInv'
  BY <1>1 DEF CountsInv, TypeOK, SetupInv, Starting, socket
<1> QED
  BY <1>2, <1>5, <1>6, <1>7, <1>8, <1>9, <1>10 DEF CountsInv

\* The client enters its loop with a message posted.
LEMMA ClientStartsKeeps == ASSUME CountsInv, ClientStarts PROVE CountsInv'
<1> USE SidesAre
<1>1. /\ pc["client"] = "connect" /\ pc' = [pc EXCEPT !["client"] = "loop"]
      /\ connected' = connected \cup {"client"}
      /\ sq' = [sq EXCEPT !["client"] = "posted"]
      /\ pending' = [pending EXCEPT !["client"] = {"recv", "send"}]
      /\ UNCHANGED <<options, socket, rq, cq, channel, wcs, routs, rcnt, scnt, landed>>
  BY DEF ClientStarts, Goto
<1>2. TypeOK'
  BY <1>1 DEF CountsInv, TypeOK, States, options, socket, channel
<1>3. ASSUME NEW t \in Sides PROVE Waiting(t)' = Waiting(t)
  BY <1>1 DEF Waiting
<1>4. /\ Posts("client") = 0 /\ scnt["client"] = 0 /\ rcnt["client"] = 0
      /\ landed["client"] = 0 /\ sq["client"] = "none"
      /\ "send" \notin Waiting("client") /\ "error" \notin Waiting("client")
  <2>1. Posts("client") = 0 /\ rcnt["client"] = 0
    BY <1>1 DEF CountsInv, TurnInv, Starting
  <2>2. /\ scnt["client"] = 0 /\ sq["client"] = "none"
        /\ "send" \notin Waiting("client") /\ "error" \notin Waiting("client")
    BY <2>1, Numbers DEF Posts, One
  <2> QED
    BY <2>1, <2>2, Numbers DEF SendInv
<1>5. Posts("client")' = 1 /\ sq'["client"] = "posted"
  BY <1>1, <1>3, <1>4 DEF Posts, One, CountsInv, TypeOK
<1>6. QueueInv("client")' /\ ReceiveInv("client")'
  <2>1. pc'["client"] = "loop"
    BY <1>1 DEF CountsInv, TypeOK
  <2>2. QueueInv("client")'
    BY <1>1, <1>3, <1>4, <2>1, Numbers DEF QueueInv
  <2>3. ReceiveInv("client")'
    BY <1>1, <1>3, Numbers DEF ReceiveInv, options
  <2> QED
    BY <2>2, <2>3
<1>7. SendInv("client")'
  <2>1. /\ sq'["client"] = "posted" /\ pending'["client"] = {"recv", "send"}
        /\ iters["client"] \in Nat /\ iters["client"] > 0
    BY <1>1, Numbers DEF CountsInv, TypeOK
  <2> QED
    BY <1>1, <1>3, <1>4, <1>5, <2>1 DEF SendInv, One, options
<1>8. /\ QueueInv("server")' /\ ReceiveInv("server")' /\ SendInv("server")'
      /\ Posts("server")' = Posts("server")
  BY <1>1, SideKeeps DEF CountsInv, TypeOK
<1>9. EndInv("client")' /\ EndInv("server")'
  <2>1. pc'["client"] = "loop" /\ pc'["server"] = pc["server"]
    BY <1>1 DEF CountsInv, TypeOK
  <2> QED
    BY <1>1, <1>3, <2>1, Numbers DEF EndInv, options
<1>10. TurnInv'
  BY <1>1, <1>4, <1>5, <1>8 DEF CountsInv, TypeOK, TurnInv, Starting, One
<1>11. SetupInv'
  BY <1>1 DEF CountsInv, TypeOK, SetupInv, Starting, socket
<1> QED
  BY <1>2, <1>6, <1>7, <1>8, <1>9, <1>10, <1>11 DEF CountsInv
------------------------------------------------------------------------------
(* The loop of main.                                                       *)

\* What a step leaves of a side that only moves on within its loop.
LEMMA MovesOn ==
  ASSUME CountsInv, NEW s \in Sides, pc[s] \notin Starting, pc[s] \notin {"closed", "failed"},
         NEW l \in {"loop", "event", "arm", "poll", "close"},
         pc' = [pc EXCEPT ![s] = l], pc[s] # "handle",
         l = "close" => rcnt[s] >= iters[s] /\ scnt[s] >= iters[s],
         UNCHANGED <<options, socket, connected, landed, sq, rq, cq, wcs, counts>>
  PROVE  /\ \A t \in Sides : QueueInv(t)' /\ ReceiveInv(t)' /\ SendInv(t)' /\ EndInv(t)'
         /\ TurnInv' /\ SetupInv'
<1> USE SidesAre
<1>1. ASSUME NEW t \in Sides PROVE pc'[t] = IF t = s THEN l ELSE pc[t]
  BY DEF CountsInv, TypeOK
<1>2. ASSUME NEW t \in Sides
      PROVE  /\ Posts(t)' = Posts(t) /\ Waiting(t)' = Waiting(t)
             /\ QueueInv(t)' /\ ReceiveInv(t)' /\ SendInv(t)'
  BY <1>1, SideKeeps DEF counts
<1>3. ASSUME NEW t \in Sides PROVE EndInv(t)'
  BY <1>1, <1>2, Numbers DEF EndInv, counts, options
<1>4. \A t \in Sides : pc'[t] \in Starting <=> pc[t] \in Starting
  BY <1>1 DEF Starting
<1>5. TurnInv'
  BY <1>2, <1>4 DEF CountsInv, TurnInv, counts
<1>6. SetupInv'
  <2>1. \A t \in Sides : pc'[t] = pc[t] \/ (t = s /\ pc'[t] = l)
    BY <1>1
  <2> QED
    BY <2>1 DEF CountsInv, SetupInv, Starting, socket
<1> QED
  BY <1>2, <1>3, <1>5, <1>6

LEMMA LoopKeeps == ASSUME CountsInv, NEW s \in Sides, Loop(s) PROVE CountsInv'
<1>1. PICK l \in {"loop", "event", "arm", "poll", "close"} :
        /\ pc[s] = "loop" /\ pc' = [pc EXCEPT ![s] = l]
        /\ l = "close" => rcnt[s] >= iters[s] /\ scnt[s] >= iters[s]
        /\ UNCHANGED <<network, sq, rq, cq, channel, wcs, counts>>
  BY DEF Loop, Goto
<1>2. TypeOK'
  BY <1>1 DEF CountsInv, TypeOK, States, network, options, socket, channel, counts
<1> QED
  BY <1>1, <1>2, MovesOn DEF CountsInv, Starting, network

LEMMA GetEventKeeps == ASSUME CountsInv, NEW s \in Sides, GetEvent(s) PROVE CountsInv'
<1>1. /\ pc[s] = "event" /\ pc' = [pc EXCEPT ![s] = "arm"]
      /\ events[s] > 0 /\ events' = [events EXCEPT ![s] = @ - 1]
      /\ UNCHANGED <<network, sq, rq, cq, armed, wcs, counts>>
  BY DEF GetEvent, Goto
<1>2. TypeOK'
  BY <1>1 DEF CountsInv, TypeOK, States, network, options, socket, counts
<1> QED
  BY <1>1, <1>2, MovesOn DEF CountsInv, Starting, network

LEMMA ArmKeeps == ASSUME CountsInv, NEW s \in Sides, Arm(s) PROVE CountsInv'
<1>1. /\ pc[s] = "arm" /\ pc' = [pc EXCEPT ![s] = "poll"]
      /\ armed' = [armed EXCEPT ![s] = TRUE]
      /\ UNCHANGED <<network, sq, rq, cq, events, wcs, counts>>
  BY DEF Arm, Goto
<1>2. TypeOK'
  BY <1>1 DEF CountsInv, TypeOK, States, network, options, socket, counts
<1> QED
  BY <1>1, <1>2, MovesOn DEF CountsInv, Starting, network

\* The completions move from the queue to the array, all of them.
LEMMA PollKeeps == ASSUME CountsInv, NEW s \in Sides, Poll(s) PROVE CountsInv'
<1> USE SidesAre
<1>1. /\ pc[s] = "poll"
      /\ pc' = [pc EXCEPT ![s] = IF cq[s] = <<>> THEN "loop" ELSE "handle"]
      /\ wcs' = [wcs EXCEPT ![s] = TwoOf(cq[s])]
      /\ cq' = [cq EXCEPT ![s] = RestOf(@)]
      /\ UNCHANGED <<network, sq, rq, channel, counts>>
  BY DEF Poll, Goto
<1>2. wcs[s] = <<>> /\ cq[s] \in Seq(Kinds) /\ IsQueue(cq[s])
  BY <1>1, Numbers DEF QueueInv
<1>3. TwoOf(cq[s]) = cq[s] /\ RestOf(cq[s]) = <<>>
  BY <1>2, PollTakes
<1>4. wcs'[s] = cq[s] /\ cq'[s] = <<>>
  BY <1>1, <1>3 DEF CountsInv, TypeOK
<1>5. TypeOK'
  <2>1. wcs' = [wcs EXCEPT ![s] = cq[s]] /\ cq' = [cq EXCEPT ![s] = <<>>]
    BY <1>1, <1>3
  <2>2. cq' \in [Sides -> Seq(Kinds)] /\ wcs' \in [Sides -> Seq(Kinds)]
    BY <1>2, <2>1, Empty DEF CountsInv, TypeOK
  <2>3. pc' \in [Sides -> States]
    BY <1>1 DEF CountsInv, TypeOK, States
  <2> QED
    BY <1>1, <2>2, <2>3 DEF CountsInv, TypeOK, network, options, socket, channel, counts
<1>6. \A t \in Sides : pc'[t] = IF t # s THEN pc[t]
                                ELSE IF cq[s] = <<>> THEN "loop" ELSE "handle"
  BY <1>1 DEF CountsInv, TypeOK
<1>7. \A t \in Sides : t # s => cq'[t] = cq[t] /\ wcs'[t] = wcs[t]
  BY <1>1 DEF CountsInv, TypeOK
<1>8. ASSUME NEW t \in Sides PROVE Waiting(t)' = Waiting(t) /\ Posts(t)' = Posts(t)
  <2>1. Waiting(s)' = Waiting(s)
    BY <1>2, <1>4, Empty DEF Waiting
  <2>2. Waiting(t)' = Waiting(t)
    BY <2>1, <1>7 DEF Waiting
  <2> QED
    BY <1>1, <2>2 DEF Posts, counts
<1>9. ASSUME NEW t \in Sides
      PROVE  QueueInv(t)' /\ ReceiveInv(t)' /\ SendInv(t)' /\ EndInv(t)'
  <2>1. QueueInv(s)'
    BY <1>1, <1>2, <1>4, <1>6, <1>8, Numbers, Empty DEF QueueInv
  <2>2. t # s => QueueInv(t)'
    BY <1>1, <1>6, <1>7, SideKeeps DEF network, counts
  <2>3. ReceiveInv(t)' /\ SendInv(t)'
    BY <1>1, <1>8, Numbers DEF ReceiveInv, SendInv, network, options, counts
  <2>4. EndInv(t)'
    BY <1>1, <1>6, <1>8, Numbers DEF EndInv, network, options, counts
  <2> QED
    BY <2>1, <2>2, <2>3, <2>4
<1>10. \A t \in Sides : pc'[t] \in Starting <=> pc[t] \in Starting
  BY <1>1, <1>6 DEF Starting
<1>11. TurnInv'
  BY <1>1, <1>8, <1>10 DEF CountsInv, TurnInv, counts
<1>12. SetupInv'
  <2>1. \A t \in Sides : pc'[t] = pc[t] \/ (t = s /\ pc'[t] \in {"loop", "handle"})
    BY <1>6
  <2> QED
    BY <1>1, <2>1 DEF CountsInv, SetupInv, Starting, network, socket
<1> QED
  BY <1>5, <1>9, <1>11, <1>12 DEF CountsInv

LEMMA CloseKeeps == ASSUME CountsInv, NEW s \in Sides, Close(s) PROVE CountsInv'
<1> USE SidesAre
<1>1. /\ pc[s] = "close" /\ pc' = [pc EXCEPT ![s] = "closed"]
      /\ connected' = connected \ {s}
      /\ UNCHANGED <<options, socket, sq, rq, cq, channel, wcs, counts, landed>>
  BY DEF Close, Goto
<1>2. TypeOK'
  BY <1>1 DEF CountsInv, TypeOK, States, options, socket, channel, counts
<1>3. \A t \in Sides : pc'[t] = IF t = s THEN "closed" ELSE pc[t]
  BY <1>1 DEF CountsInv, TypeOK
<1>4. ASSUME NEW t \in Sides
      PROVE  /\ Posts(t)' = Posts(t) /\ Waiting(t)' = Waiting(t)
             /\ QueueInv(t)' /\ ReceiveInv(t)' /\ SendInv(t)'
  BY <1>1, <1>3, SideKeeps DEF counts
<1>5. ASSUME NEW t \in Sides PROVE EndInv(t)'
  BY <1>1, <1>3, <1>4, Numbers DEF EndInv, counts, options
<1>6. TurnInv'
  BY <1>1, <1>3, <1>4 DEF CountsInv, TurnInv, Starting, counts
<1>7. SetupInv'
  <2>1. \A t \in Sides : pc'[t] = pc[t] \/ (t = s /\ pc'[t] = "closed")
    BY <1>3
  <2>2. \A t \in Sides : t \in connected' <=> t \in connected /\ t # s
    BY <1>1
  <2> QED
    BY <1>1, <1>3, <2>1, <2>2 DEF CountsInv, SetupInv, Starting, socket
<1> QED
  BY <1>2, <1>4, <1>5, <1>6, <1>7 DEF CountsInv

\* A completion was waited for.
LEMMA WasPending ==
  ASSUME CountsInv, NEW s \in Sides, pc[s] \notin Starting
  PROVE  /\ "recv" \in Waiting(s) => "recv" \in pending[s]
         /\ "send" \in Waiting(s) => "send" \in pending[s]
         /\ "send" \notin pending[s] =>
              sq[s] = "none" /\ "send" \notin Waiting(s) /\ "error" \notin Waiting(s)
<1>1. "send" \notin pending[s] =>
        sq[s] = "none" /\ "send" \notin Waiting(s) /\ "error" \notin Waiting(s)
  <2>1. scnt[s] \in Nat /\ Posts(s) = scnt[s] + One("send" \in pending[s])
    BY Numbers DEF SendInv
  <2> QED
    BY <2>1, Numbers DEF Posts, One, CountsInv, TypeOK
<1>2. "recv" \in Waiting(s) => rcnt[s] + 1 = landed[Peer(s)]
  BY Numbers DEF ReceiveInv, One
<1>3. CASE s = "client"
  BY <1>1, <1>2, <1>3, Chain, Numbers, SidesAre DEF CountsInv, TurnInv, One
<1>4. CASE s = "server"
  <2>1. "recv" \notin pending[s] => Posts(s) = rcnt[s] - 1
    BY <1>4 DEF CountsInv, TurnInv, One
  <2> QED
    BY <1>1, <1>2, <1>4, <2>1, Chain, Numbers, SidesAre
<1> QED
  BY <1>3, <1>4, SidesAre

\* Handling a completion that is not an error: there is room for what is posted.
LEMMA HandleOneKeeps ==
  ASSUME CountsInv, NEW s \in Sides, Handle(s), Head(wcs[s]) # "error"
  PROVE  CountsInv'
<1> USE SidesAre
<1> DEFINE wc      == Head(wcs[s])
           left    == IF wc = "recv" THEN routs[s] - 1 ELSE routs[s]
           wanted  == IF wc = "recv" /\ LowOn(left) THEN rxDepth[s] - left ELSE 0
           sentNow == IF wc = "send" THEN scnt[s] + 1 ELSE scnt[s]
           waits   == pending[s] \ {wc}
           sends   == MoreToSend(s, sentNow) /\ waits = {}
<1>1. pc[s] = "handle" /\ pc[s] \notin Starting
  BY DEF Handle, Starting
<1>2. /\ wcs[s] \in Seq(Kinds) /\ IsQueue(wcs[s]) /\ wcs[s] # <<>>
      /\ cq[s] \in Seq(Kinds) /\ IsQueue(cq[s])
      /\ In(cq[s]) \cap In(wcs[s]) = {}
  BY <1>1, Numbers DEF QueueInv
<1>3. /\ wc \in {"recv", "send"} /\ wc \in In(wcs[s]) /\ wc \notin In(cq[s])
      /\ Tail(wcs[s]) \in Seq(Kinds) /\ IsQueue(Tail(wcs[s]))
      /\ In(Tail(wcs[s])) = In(wcs[s]) \ {wc}
      /\ Len(wcs[s]) = 1 <=> Tail(wcs[s]) = <<>>
  BY <1>2, FirstOf DEF Kinds
<1>4. wc \in Waiting(s) /\ wc \in pending[s]
  BY <1>1, <1>3, WasPending DEF Waiting
<1>5. pending[s] \subseteq {"send", "recv"}
  BY DEF CountsInv, TypeOK
<1>6. sends => /\ SendRoom(s) /\ sq[s] = "none"
               /\ "error" \notin Waiting(s)
               /\ Posts(s) = sentNow /\ sentNow < iters[s]
  <2> SUFFICES ASSUME sends
               PROVE  /\ SendRoom(s) /\ sq[s] = "none"
                      /\ "error" \notin Waiting(s)
                      /\ Posts(s) = sentNow /\ sentNow < iters[s]
    OBVIOUS
  <2>1. wc = "recv" => "send" \notin pending[s]
    OBVIOUS
  <2>2. sq[s] = "none" /\ "error" \notin Waiting(s)
    BY <1>1, <1>3, <1>4, <2>1, WasPending, Numbers DEF QueueInv
  <2>3. "send" \notin In(cq[s])
    BY <1>1, <1>3, <1>4, <2>1, WasPending DEF Waiting
  <2>4. Unpolled(s, "send") = 0
    BY <1>2, <2>3, UnpolledIs DEF One
  <2>5. Posts(s) = scnt[s] + One("send" \in pending[s])
    BY Numbers DEF SendInv
  <2>6. Posts(s) = sentNow
    BY <1>3, <1>4, <2>1, <2>5, Numbers DEF One
  <2> QED
    BY <2>2, <2>4, <2>6 DEF SendRoom, MoreToSend
<1>7. /\ routs[s] \in Nat /\ routs[s] > 0 /\ routs[s] <= rxDepth[s]
      /\ rxDepth[s] \in Nat /\ rxDepth[s] > 0
      /\ rq[s] \in Nat /\ rq[s] + One("recv" \in Waiting(s)) = routs[s]
      /\ rcnt[s] \in Nat /\ rcnt[s] + One("recv" \in Waiting(s)) = landed[Peer(s)]
  BY Numbers DEF ReceiveInv
<1>8. wanted \in Nat /\ wanted <= RecvRoom(s)
  <2>1. RecvRoom(s) = rxDepth[s] - rq[s] - One("recv" \in In(cq[s]))
    BY <1>2, UnpolledIs DEF RecvRoom
  <2>2. CASE wc = "recv"
    BY <1>3, <1>4, <1>7, <2>1, <2>2, SMTT(30) DEF LowOn, One
  <2>3. CASE wc = "send"
    <3>1. "recv" \in In(cq[s]) => "recv" \in Waiting(s)
      BY DEF Waiting
    <3> QED
      BY <1>7, <2>1, <2>3, <3>1 DEF One
  <2> QED
    BY <1>3, <2>2, <2>3
<1>9. /\ pc' = [pc EXCEPT ![s] = IF Len(wcs[s]) = 1 THEN "loop" ELSE "handle"]
      /\ wcs' = [wcs EXCEPT ![s] = Tail(@)]
      /\ routs' = [routs EXCEPT ![s] = left + wanted]
      /\ rq' = [rq EXCEPT ![s] = @ + wanted]
      /\ rcnt' = [rcnt EXCEPT ![s] = IF wc = "recv" THEN @ + 1 ELSE @]
      /\ scnt' = [scnt EXCEPT ![s] = sentNow]
      /\ pending' = [pending EXCEPT ![s] = IF sends THEN {"recv", "send"} ELSE waits]
      /\ sq' = [sq EXCEPT ![s] = IF sends THEN "posted" ELSE @]
      /\ UNCHANGED <<options, connected, socket, cq, channel, landed>>
  <2>1. ~ (wc = "error" \/ wanted > RecvRoom(s) \/ (sends /\ ~ SendRoom(s)))
    <3>1. RecvRoom(s) \in Int
      BY <1>2, <1>7, UnpolledIs DEF RecvRoom, One
    <3> QED
      BY <1>3, <1>6, <1>8, <3>1
  <2> QED
    BY <2>1 DEF Handle, Goto
<1>10. /\ pc'[s] = IF Len(wcs[s]) = 1 THEN "loop" ELSE "handle"
       /\ wcs'[s] = Tail(wcs[s]) /\ routs'[s] = left + wanted /\ rq'[s] = rq[s] + wanted
       /\ rcnt'[s] = IF wc = "recv" THEN rcnt[s] + 1 ELSE rcnt[s]
       /\ scnt'[s] = sentNow
       /\ pending'[s] = IF sends THEN {"recv", "send"} ELSE waits
       /\ sq'[s] = IF sends THEN "posted" ELSE sq[s]
  BY <1>9 DEF CountsInv, TypeOK
<1>11. \A t \in Sides : t # s =>
         /\ pc'[t] = pc[t] /\ wcs'[t] = wcs[t] /\ routs'[t] = routs[t] /\ rq'[t] = rq[t]
         /\ rcnt'[t] = rcnt[t] /\ scnt'[t] = scnt[t]
         /\ pending'[t] = pending[t] /\ sq'[t] = sq[t]
  BY <1>9 DEF CountsInv, TypeOK
<1>12. TypeOK'
  <2>1. /\ left + wanted \in Nat /\ rq[s] + wanted \in Nat
        /\ sentNow \in Nat /\ (IF wc = "recv" THEN rcnt[s] + 1 ELSE rcnt[s]) \in Nat
    <3>1. left \in Nat /\ sentNow \in Nat
      BY <1>7, Numbers
    <3> HIDE DEF left, wanted, sentNow
    <3> QED
      BY <1>7, <1>8, <3>1
  <2> QED
    BY <1>3, <1>9, <2>1 DEF CountsInv, TypeOK, States, options, socket, channel
<1>13. Waiting(s)' = Waiting(s) \ {wc}
  BY <1>3, <1>9, <1>10 DEF Waiting
<1>14. Posts(s)' = Posts(s) + One(sends)
  <2>1. CASE wc = "recv"
    <3>1. /\ "send" \in Waiting(s)' <=> "send" \in Waiting(s)
          /\ "error" \in Waiting(s)' <=> "error" \in Waiting(s)
          /\ scnt'[s] = scnt[s]
      <4>1. Waiting(s)' = Waiting(s) \ {"recv"}
        BY <1>13, <2>1
      <4>2. scnt'[s] = scnt[s]
        BY <1>10, <2>1
      <4> QED
        BY <4>1, <4>2
    <3>2. CASE sends
      <4>1. sq[s] = "none" /\ sq'[s] # "none" /\ One(sends) = 1
        BY <1>6, <1>10, <3>2 DEF One
      <4> HIDE DEF sends
      <4> QED
        BY <3>1, <4>1, Numbers DEF Posts, One
    <3>3. CASE ~ sends
      BY <1>10, <3>1, <3>3, Numbers DEF Posts, One
    <3> QED
      BY <3>2, <3>3
  <2>2. CASE wc = "send"
    BY <1>4, <1>6, <1>10, <1>13, <2>2, Numbers DEF Posts, One
  <2> QED
    BY <1>3, <2>1, <2>2
<1>15. QueueInv(s)'
  <2>1. sq'[s] # "none" => "send" \notin Waiting(s)' /\ "error" \notin Waiting(s)'
    <3>1. CASE sends
      <4>1. wc = "recv" => "send" \notin Waiting(s)
        BY <1>1, <3>1, WasPending
      <4> QED
        BY <1>3, <1>6, <1>13, <3>1, <4>1
    <3>2. CASE ~ sends
      BY <1>10, <1>13, <3>2, Numbers DEF QueueInv
    <3> QED
      BY <3>1, <3>2
  <2>2. In(cq[s]) \cap In(Tail(wcs[s])) = {}
    BY <1>2, <1>3
  <2>3. "send" \notin Waiting(s)' \/ "error" \notin Waiting(s)'
    BY <1>13, Numbers DEF QueueInv
  <2> QED
    BY <1>2, <1>3, <1>9, <1>10, <2>1, <2>2, <2>3 DEF QueueInv
<1>16. ReceiveInv(s)'
  <2>1. /\ rxDepth' = rxDepth /\ landed' = landed
        /\ "recv" \in Waiting(s)' <=> "recv" \in Waiting(s) /\ wc # "recv"
    BY <1>9, <1>13 DEF options
  <2>2. CASE wc = "recv"
    BY <1>4, <1>7, <1>8, <1>10, <2>1, <2>2 DEF ReceiveInv, LowOn, One
  <2>3. CASE wc = "send"
    BY <1>7, <1>8, <1>10, <2>1, <2>3 DEF ReceiveInv, One
  <2> QED
    BY <1>3, <2>2, <2>3
<1>17. SendInv(s)'
  <2>1. /\ iters' = iters /\ landed' = landed
        /\ "error" \in Waiting(s)' <=> "error" \in Waiting(s)
    BY <1>3, <1>9, <1>13 DEF options
  <2>2. CASE sends
    <3>1. Posts(s)' = Posts(s) + 1 /\ sq'[s] = "posted" /\ "send" \in pending'[s]
      BY <1>10, <1>14, <2>2 DEF One
    <3>2. landed[s] = Posts(s)
      BY <1>6, <2>2, Numbers DEF SendInv
    <3> QED
      BY <1>6, <1>10, <2>1, <2>2, <3>1, <3>2, Numbers, SMTT(30) DEF SendInv, One
  <2>3. CASE ~ sends
    <3>1. Posts(s)' = Posts(s) /\ sq'[s] = sq[s]
      BY <1>10, <1>14, <2>3, Numbers DEF One
    <3>2. Posts(s)' = scnt'[s] + One("send" \in pending'[s])
      BY <1>3, <1>4, <1>10, <2>3, <3>1, Numbers DEF SendInv, One
    <3> QED
      BY <2>1, <3>1, <3>2, Numbers DEF SendInv
  <2> QED
    BY <2>2, <2>3
<1>18. EndInv(s)'
  BY <1>9, <1>10, <1>11, <1>13, Numbers DEF EndInv
<1>19. ASSUME NEW t \in Sides, t # s
       PROVE  /\ Posts(t)' = Posts(t)
              /\ QueueInv(t)' /\ ReceiveInv(t)' /\ SendInv(t)' /\ EndInv(t)'
  <2>1. /\ Posts(t)' = Posts(t) /\ Waiting(t)' = Waiting(t)
        /\ QueueInv(t)' /\ ReceiveInv(t)' /\ SendInv(t)'
    BY <1>9, <1>11, <1>19, SideKeeps
  <2>2. "error" \notin Waiting(t) /\ pc[t] # "failed"
    BY <1>1, <1>19, Numbers DEF EndInv
  <2> QED
    BY <1>9, <1>11, <1>19, <2>1, <2>2, Numbers DEF EndInv, options
<1>20. \A t \in Sides : pc'[t] = pc[t] \/ (t = s /\ pc'[t] \in {"loop", "handle"})
  BY <1>10, <1>11
<1>21. \A t \in Sides : pc'[t] \in Starting <=> pc[t] \in Starting
  BY <1>1, <1>20 DEF Starting
<1>22. TurnInv'
  <2>1. /\ "recv" \in pending'[s] <=> sends \/ (wc # "recv" /\ "recv" \in pending[s])
        /\ sends /\ wc = "send" => "recv" \notin pending[s]
    BY <1>3, <1>10
  <2>2. s = "client" => Posts(s)' = rcnt'[s] + One("recv" \in pending'[s])
    <3> SUFFICES ASSUME s = "client"
                 PROVE  Posts(s)' = rcnt'[s] + One("recv" \in pending'[s])
      OBVIOUS
    <3>1. Posts(s) = rcnt[s] + One("recv" \in pending[s])
      BY <1>1 DEF CountsInv, TurnInv
    <3> QED
      BY <1>3, <1>4, <1>7, <1>10, <1>14, <2>1, <3>1 DEF One
  <2>3. s = "server" => Posts(s)' = rcnt'[s] - One("recv" \notin pending'[s])
    <3> SUFFICES ASSUME s = "server"
                 PROVE  Posts(s)' = rcnt'[s] - One("recv" \notin pending'[s])
      OBVIOUS
    <3>1. Posts(s) = rcnt[s] - One("recv" \notin pending[s])
      BY <1>1 DEF CountsInv, TurnInv
    <3> QED
      BY <1>3, <1>4, <1>7, <1>10, <1>14, <2>1, <3>1 DEF One
  <2>4. \A t \in Sides : pc'[t] \in Starting => Posts(t)' = 0 /\ rcnt'[t] = 0
    BY <1>1, <1>11, <1>19, <1>21 DEF CountsInv, TurnInv
  <2>5. s # "client" /\ pc'["client"] \notin Starting =>
          Posts("client")' = rcnt'["client"] + One("recv" \in pending'["client"])
    BY <1>11, <1>19 DEF CountsInv, TurnInv
  <2>6. s # "server" /\ pc'["server"] \notin Starting =>
          Posts("server")' = rcnt'["server"] - One("recv" \notin pending'["server"])
    BY <1>11, <1>19 DEF CountsInv, TurnInv
  <2> QED
    BY <2>2, <2>3, <2>4, <2>5, <2>6 DEF TurnInv
<1>23. SetupInv'
  BY <1>1, <1>9, <1>20 DEF CountsInv, SetupInv, Starting, socket
<1> QED
  BY <1>12, <1>15, <1>16, <1>17, <1>18, <1>19, <1>22, <1>23 DEF CountsInv

\* A completion in error ends the program.
LEMMA HandleErrorKeeps ==
  ASSUME CountsInv, NEW s \in Sides, Handle(s), Head(wcs[s]) = "error"
  PROVE  CountsInv'
<1> USE SidesAre
<1>1. /\ pc[s] = "handle" /\ pc' = [pc EXCEPT ![s] = "failed"]
      /\ connected' = connected \ {s}
      /\ UNCHANGED <<options, socket, sq, rq, wcs, counts, cq, channel, landed>>
  BY DEF Handle, Goto
<1>2. TypeOK'
  BY <1>1 DEF CountsInv, TypeOK, States, options, socket, channel, counts
<1>3. \A t \in Sides : pc'[t] = IF t = s THEN "failed" ELSE pc[t]
  BY <1>1 DEF CountsInv, TypeOK
<1>4. ASSUME NEW t \in Sides
      PROVE  /\ Posts(t)' = Posts(t) /\ Waiting(t)' = Waiting(t)
             /\ QueueInv(t)' /\ ReceiveInv(t)' /\ SendInv(t)'
  BY <1>1, <1>3, SideKeeps DEF counts
<1>5. "error" \in Waiting(s)
  <2>1. wcs[s] \in Seq(Kinds) /\ IsQueue(wcs[s]) /\ wcs[s] # <<>>
    BY <1>1, Numbers DEF QueueInv
  <2> QED
    <3>1. Head(wcs[s]) \in In(wcs[s])
      BY <2>1, FirstOf
    <3> QED
      BY <3>1 DEF Waiting
<1>6. ASSUME NEW t \in Sides PROVE EndInv(t)'
  <2>1. t # s => "error" \notin Waiting(t)
    BY <1>1, PeersAre, Numbers DEF EndInv
  <2> QED
    BY <1>1, <1>3, <1>4, <1>5, <2>1, Numbers DEF EndInv, counts, options
<1>7. TurnInv'
  BY <1>1, <1>3, <1>4 DEF CountsInv, TurnInv, Starting, counts
<1>8. SetupInv'
  <2>1. \A t \in Sides : pc'[t] = pc[t] \/ (t = s /\ pc'[t] = "failed")
    BY <1>3
  <2>2. \A t \in Sides : t \in connected' <=> t \in connected /\ t # s
    BY <1>1
  <2> QED
    BY <1>1, <1>3, <2>1, <2>2 DEF CountsInv, SetupInv, Starting, socket
<1> QED
  BY <1>2, <1>4, <1>6, <1>7, <1>8 DEF CountsInv
------------------------------------------------------------------------------
(* The transport.                                                          *)

LEMMA OneMoreEvent ==
  ASSUME CountsInv, NEW s \in Sides
  PROVE  (IF armed[s] THEN events[s] + 1 ELSE events[s]) \in Nat
<1>1. events[s] \in Nat
  BY DEF CountsInv, TypeOK
<1> QED
  BY <1>1

LEMMA DeliverKeeps == ASSUME CountsInv, NEW s \in Sides, Deliver(s) PROVE CountsInv'
<1> USE SidesAre
<1> DEFINE p == Peer(s)
<1>1. /\ sq[s] = "posted" /\ s \in connected /\ p \in connected /\ rq[p] > 0
      /\ sq' = [sq EXCEPT ![s] = "landed"]
      /\ rq' = [rq EXCEPT ![p] = @ - 1]
      /\ landed' = [landed EXCEPT ![s] = @ + 1]
      /\ cq' = [cq EXCEPT ![p] = Append(@, "recv")]
      /\ armed' = [armed EXCEPT ![p] = FALSE]
      /\ events' = [events EXCEPT ![p] = IF armed[p] THEN @ + 1 ELSE @]
      /\ UNCHANGED <<options, pc, socket, connected, wcs, counts>>
  BY DEF Deliver, Complete, outside
<1>2. /\ landed[s] + 1 = Posts(s)
      /\ "send" \notin Waiting(s) /\ "error" \notin Waiting(s)
  BY <1>1, Numbers DEF SendInv, QueueInv
<1>3. "recv" \notin Waiting(p)
  <2>1. landed[s] = rcnt[p] + One("recv" \in Waiting(p))
    BY Numbers DEF ReceiveInv
  <2>2. landed[s] <= rcnt[p]
    <3>1. CASE s = "client"
      BY <1>2, <3>1, Chain, Numbers
    <3>2. CASE s = "server"
      BY <1>2, <3>2, Chain, Numbers
    <3> QED
      BY <3>1, <3>2
  <2> QED
    BY <2>1, <2>2, Numbers DEF One
<1>4. /\ Append(cq[p], "recv") \in Seq(Kinds) /\ IsQueue(Append(cq[p], "recv"))
      /\ In(Append(cq[p], "recv")) = In(cq[p]) \cup {"recv"}
  <2>1. /\ cq[p] \in Seq(Kinds) /\ IsQueue(cq[p]) /\ "recv" \notin In(cq[p])
        /\ "send" \notin In(cq[p]) \/ "error" \notin In(cq[p])
    BY <1>3, Numbers DEF QueueInv, Waiting
  <2>2. "recv" \in Kinds
    BY DEF Kinds
  <2> QED
    BY <2>1, <2>2, AppendTo
<1>5. TypeOK'
  <2>1. sq' \in [Sides -> {"none", "posted", "landed"}]
    BY <1>1 DEF CountsInv, TypeOK
  <2>2. rq' \in [Sides -> Nat] /\ landed' \in [Sides -> Nat]
    <3>1. rq[p] - 1 \in Nat /\ landed[s] + 1 \in Nat
      BY <1>1, Numbers
    <3> QED
      BY <1>1, <3>1 DEF CountsInv, TypeOK
  <2>3. cq' \in [Sides -> Seq(Kinds)]
    BY <1>1, <1>4 DEF CountsInv, TypeOK
  <2>4. armed' \in [Sides -> BOOLEAN]
    BY <1>1 DEF CountsInv, TypeOK
  <2>5. events' \in [Sides -> Nat]
    BY <1>1, OneMoreEvent DEF CountsInv, TypeOK
  <2> QED
    BY <1>1, <2>1, <2>2, <2>3, <2>4, <2>5 DEF CountsInv, TypeOK, options, socket, counts
<1>6. /\ sq'[s] = "landed" /\ sq'[p] = sq[p]
      /\ rq'[p] = rq[p] - 1 /\ rq'[s] = rq[s]
      /\ landed'[s] = landed[s] + 1 /\ landed'[p] = landed[p]
      /\ cq'[p] = Append(cq[p], "recv") /\ cq'[s] = cq[s]
  BY <1>1 DEF CountsInv, TypeOK
<1>7. Waiting(s)' = Waiting(s) /\ Waiting(p)' = Waiting(p) \cup {"recv"}
  BY <1>1, <1>4, <1>6 DEF Waiting
<1>8. Posts(s)' = Posts(s) /\ Posts(p)' = Posts(p)
  BY <1>1, <1>6, <1>7 DEF Posts, counts
<1>9. QueueInv(s)' /\ QueueInv(p)'
  <2>1. QueueInv(s)'
    BY <1>1, <1>2, <1>6, <1>7, Numbers DEF QueueInv
  <2>2. In(cq[p]) \cap In(wcs[p]) = {} /\ "recv" \notin In(wcs[p])
    BY <1>3, Numbers DEF QueueInv, Waiting
  <2>3. In(Append(cq[p], "recv")) \cap In(wcs[p]) = {}
    BY <1>4, <2>2
  <2>4. /\ "send" \in Waiting(p)' <=> "send" \in Waiting(p)
        /\ "error" \in Waiting(p)' <=> "error" \in Waiting(p)
    BY <1>7
  <2>5. QueueInv(p)'
    BY <1>1, <1>4, <1>6, <2>3, <2>4, Numbers DEF QueueInv
  <2> QED
    BY <2>1, <2>5
<1>10. ReceiveInv(s)' /\ ReceiveInv(p)'
  <2>1. ReceiveInv(s)'
    BY <1>1, <1>6, <1>7, Numbers DEF ReceiveInv, options, counts
  <2>2. "recv" \in Waiting(p)'
    BY <1>7
  <2>3. ReceiveInv(p)'
    BY <1>1, <1>3, <1>6, <2>2, Numbers DEF ReceiveInv, options, counts, One
  <2> QED
    BY <2>1, <2>3
<1>11. SendInv(s)' /\ SendInv(p)'
  <2>1. SendInv(s)'
    BY <1>1, <1>2, <1>6, <1>7, <1>8, Numbers DEF SendInv, options, counts
  <2>2. "error" \in Waiting(p)' <=> "error" \in Waiting(p)
    BY <1>7
  <2>3. SendInv(p)'
    BY <1>1, <1>6, <1>8, <2>2, Numbers DEF SendInv, options, counts
  <2> QED
    BY <2>1, <2>3
<1>12. EndInv(s)' /\ EndInv(p)'
  <2>1. /\ "error" \in Waiting(p)' <=> "error" \in Waiting(p)
        /\ "error" \in Waiting(s)' <=> "error" \in Waiting(s)
    BY <1>7
  <2> QED
    BY <1>1, <2>1, Numbers DEF EndInv, options, counts
<1>13. TurnInv' /\ SetupInv'
  BY <1>1, <1>8 DEF CountsInv, TurnInv, SetupInv, socket, counts
<1>14. \A t \in Sides : t = s \/ t = p
  OBVIOUS
<1> QED
  BY <1>5, <1>9, <1>10, <1>11, <1>12, <1>13, <1>14 DEF CountsInv

\* A send ends in a completion, one way or the other.
LEMMA CompletesKeeps ==
  ASSUME CountsInv, NEW s \in Sides, NEW wc \in {"send", "error"}, sq[s] # "none",
         wc = "send" => sq[s] = "landed",
         wc = "error" => pc[Peer(s)] = "closed",
         sq' = [sq EXCEPT ![s] = "none"], Complete(s, wc),
         UNCHANGED <<options, pc, socket, connected, wcs, counts, rq, landed>>
  PROVE  CountsInv'
<1> USE SidesAre
<1>1. /\ cq' = [cq EXCEPT ![s] = Append(@, wc)]
      /\ armed' = [armed EXCEPT ![s] = FALSE]
      /\ events' = [events EXCEPT ![s] = IF armed[s] THEN @ + 1 ELSE @]
  BY DEF Complete
<1>2. "send" \notin Waiting(s) /\ "error" \notin Waiting(s)
  BY Numbers DEF QueueInv
<1>3. /\ Append(cq[s], wc) \in Seq(Kinds) /\ IsQueue(Append(cq[s], wc))
      /\ In(Append(cq[s], wc)) = In(cq[s]) \cup {wc}
  <2>1. /\ cq[s] \in Seq(Kinds) /\ IsQueue(cq[s]) /\ wc \notin In(cq[s])
        /\ "send" \notin In(cq[s]) /\ "error" \notin In(cq[s])
    BY <1>2, Numbers DEF QueueInv, Waiting
  <2>2. wc \in Kinds
    BY DEF Kinds
  <2> QED
    BY <2>1, <2>2, AppendTo
<1>4. TypeOK'
  <2>1. sq' \in [Sides -> {"none", "posted", "landed"}]
    BY DEF CountsInv, TypeOK
  <2>2. cq' \in [Sides -> Seq(Kinds)]
    BY <1>1, <1>3 DEF CountsInv, TypeOK
  <2>3. armed' \in [Sides -> BOOLEAN]
    BY <1>1 DEF CountsInv, TypeOK
  <2>4. events' \in [Sides -> Nat]
    BY <1>1, OneMoreEvent DEF CountsInv, TypeOK
  <2> QED
    BY <2>1, <2>2, <2>3, <2>4 DEF CountsInv, TypeOK, options, socket, counts
<1>5. /\ sq'[s] = "none" /\ cq'[s] = Append(cq[s], wc)
      /\ \A t \in Sides : t # s => sq'[t] = sq[t] /\ cq'[t] = cq[t]
  BY <1>1 DEF CountsInv, TypeOK
<1>6. Waiting(s)' = Waiting(s) \cup {wc}
  BY <1>3, <1>5 DEF Waiting
<1>7. Posts(s)' = Posts(s)
  <2>1. CASE wc = "send"
    BY <1>2, <1>5, <1>6, <2>1, Numbers DEF Posts, counts, One
  <2>2. CASE wc = "error"
    BY <1>2, <1>5, <1>6, <2>2, Numbers DEF Posts, counts, One
  <2> QED
    BY <2>1, <2>2
<1>8. QueueInv(s)'
  <2>1. In(Append(cq[s], wc)) \cap In(wcs[s]) = {}
    <3>1. In(cq[s]) \cap In(wcs[s]) = {} /\ wc \notin In(wcs[s])
      BY <1>2, Numbers DEF QueueInv, Waiting
    <3> QED
      BY <1>3, <3>1
  <2>2. "send" \notin Waiting(s)' \/ "error" \notin Waiting(s)'
    BY <1>2, <1>6
  <2> QED
    BY <1>3, <1>5, <2>1, <2>2, Numbers DEF QueueInv
<1>9. ReceiveInv(s)'
  <2>1. "recv" \in Waiting(s)' <=> "recv" \in Waiting(s)
    BY <1>6
  <2> QED
    BY <2>1, Numbers DEF ReceiveInv, options, counts
<1>10. SendInv(s)'
  <2>1. sq[s] = "landed" => landed[s] = Posts(s)
    BY <1>2, Numbers DEF SendInv
  <2>2. wc = "error" => "error" \in Waiting(s)'
    BY <1>6
  <2> QED
    BY <1>5, <1>7, <2>1, <2>2, Numbers DEF SendInv, options, counts
<1>11. EndInv(s)'
  BY <1>6, Numbers DEF EndInv, options, counts
<1>12. ASSUME NEW t \in Sides, t # s
       PROVE  /\ Posts(t)' = Posts(t)
              /\ QueueInv(t)' /\ ReceiveInv(t)' /\ SendInv(t)' /\ EndInv(t)'
  <2>1. /\ Posts(t)' = Posts(t) /\ Waiting(t)' = Waiting(t)
        /\ QueueInv(t)' /\ ReceiveInv(t)' /\ SendInv(t)'
    BY <1>5, <1>12, SideKeeps DEF counts
  <2> QED
    BY <2>1, Numbers DEF EndInv, options, counts
<1>13. TurnInv'
  BY <1>7, <1>12 DEF CountsInv, TurnInv, counts
<1>14. SetupInv'
  BY DEF CountsInv, SetupInv, socket
<1> QED
  BY <1>4, <1>8, <1>9, <1>10, <1>11, <1>12, <1>13, <1>14 DEF CountsInv

LEMMA AcknowledgeKeeps == ASSUME CountsInv, NEW s \in Sides, Acknowledge(s) PROVE CountsInv'
BY CompletesKeeps DEF Acknowledge, outside

\* A side that has sent something has a peer that was connected, and that fails
\* only when this side has returned: it has returned itself.
LEMMA ExhaustKeeps == ASSUME CountsInv, NEW s \in Sides, Exhaust(s) PROVE CountsInv'
<1> USE SidesAre
<1>1. sq[s] # "none" /\ s \in connected /\ Peer(s) \notin connected
  BY DEF Exhaust
<1>2. Posts(s) >= 1
  BY <1>1, Numbers DEF Posts, One
<1>3. pc[Peer(s)] \in {"closed", "failed"}
  <2>1. CASE s = "client"
    BY <1>1, <2>1 DEF CountsInv, SetupInv, Starting
  <2>2. CASE s = "server"
    <3>1. Posts("client") # 0
      BY <1>2, <2>2, Chain, Numbers
    <3>2. pc["client"] \notin Starting
      BY <3>1 DEF CountsInv, TurnInv
    <3> QED
      BY <1>1, <2>2, <3>2 DEF CountsInv, SetupInv
  <2> QED
    BY <2>1, <2>2
<1>4. pc[s] # "closed"
  BY <1>1 DEF CountsInv, SetupInv
<1>5. pc[Peer(s)] = "closed"
  BY <1>3, <1>4, Numbers DEF EndInv
<1> QED
  BY <1>1, <1>5, CompletesKeeps DEF Exhaust, outside
------------------------------------------------------------------------------
LEMMA StutterKeeps == ASSUME CountsInv, UNCHANGED vars PROVE CountsInv'
<1>1. UNCHANGED <<options, pc, socket, connected, sq, rq, cq, channel, wcs, counts, landed>>
  BY DEF vars
<1>2. TypeOK'
  BY <1>1 DEF CountsInv, TypeOK, options, socket, channel, counts
<1>3. ASSUME NEW s \in Sides
      PROVE  /\ Posts(s)' = Posts(s)
             /\ QueueInv(s)' /\ ReceiveInv(s)' /\ SendInv(s)' /\ EndInv(s)'
  <2>1. /\ Posts(s)' = Posts(s) /\ Waiting(s)' = Waiting(s)
        /\ QueueInv(s)' /\ ReceiveInv(s)' /\ SendInv(s)'
    BY <1>1, SideKeeps DEF counts
  <2> QED
    BY <1>1, <2>1, Numbers DEF EndInv, options, counts
<1>4. TurnInv' /\ SetupInv'
  BY <1>1, <1>3, SidesAre DEF CountsInv, TurnInv, SetupInv, socket, counts
<1> QED
  BY <1>2, <1>3, <1>4 DEF CountsInv

LEMMA NextCounts == CountsInv /\ [Next]_vars => CountsInv'
<1> SUFFICES ASSUME CountsInv, [Next]_vars PROVE CountsInv'
  OBVIOUS
<1>1. CASE Setup
  BY <1>1, ExchangeKeeps, ServerStartsKeeps, ClientStartsKeeps DEF Setup
<1>2. ASSUME NEW s \in Sides, Main(s) PROVE CountsInv'
  BY <1>2, LoopKeeps, GetEventKeeps, ArmKeeps, PollKeeps, HandleOneKeeps,
     HandleErrorKeeps, CloseKeeps DEF Main
<1>3. ASSUME NEW s \in Sides, Transport(s) PROVE CountsInv'
  BY <1>3, DeliverKeeps, AcknowledgeKeeps, ExhaustKeeps DEF Transport
<1>4. CASE UNCHANGED vars
  BY <1>4, StutterKeeps
<1> QED
  BY <1>1, <1>2, <1>3, <1>4 DEF Next

LEMMA Counting == Spec => []CountsInv
<1>1. Init => CountsInv
  BY InitCounts
<1> QED
  BY <1>1, NextCounts, PTL DEF Spec

(* The one buffer of a side is never sent from while the peer's message is *)
(* on its way to it: the sides take turns.                                 *)
THEOREM TakesTurns == Spec => []BufferStable
<1>1. CountsInv => BufferStable
  <2> SUFFICES ASSUME CountsInv PROVE BufferStable
    OBVIOUS
  <2>1. ~ (sq["client"] = "posted" /\ sq["server"] = "posted")
    BY Chain, Numbers, SidesAre DEF SendInv
  <2>2. landed["client"] - landed["server"] \in {0, 1}
    BY Chain, Numbers, SidesAre
  <2> QED
    BY <2>1, <2>2 DEF BufferStable
<1> QED
  BY <1>1, Counting, PTL

\* The receives that are posted, and wc[2], suffice.
LEMMA CountsSuffice == ASSUME CountsInv PROVE QueuesSuffice
<1>1. PollTakesAll
  <2> SUFFICES ASSUME NEW s \in Sides
               PROVE  Unpolled(s, "send") + Unpolled(s, "recv") <= 2
    BY DEF PollTakesAll
  <2>1. IsQueue(cq[s])
    BY Numbers DEF QueueInv
  <2> QED
    BY <2>1, UnpolledIs DEF One
<1>2. ReceiverReady
  <2> SUFFICES ASSUME NEW s \in Sides, sq[s] = "posted" PROVE rq[Peer(s)] > 0
    BY DEF ReceiverReady
  <2>1. landed[s] + 1 = Posts(s)
    BY Numbers DEF SendInv
  <2>2. landed[s] <= rcnt[Peer(s)]
    <3>1. CASE s = "client"
      BY <2>1, <3>1, Chain, Numbers, SidesAre
    <3>2. CASE s = "server"
      BY <2>1, <3>2, Chain, Numbers, SidesAre
    <3> QED
      BY <3>1, <3>2, SidesAre
  <2>3. "recv" \notin Waiting(Peer(s))
    BY <2>2, Numbers, SidesAre DEF ReceiveInv, One
  <2> QED
    BY <2>3, Numbers, SidesAre DEF ReceiveInv, One
<1> QED
  BY <1>1, <1>2 DEF QueuesSuffice

(* wc[2], the completion queue and the receives that are posted suffice,   *)
(* for every --rx-depth, although receives are only posted again when one  *)
(* is left.                                                                *)
THEOREM NothingOverruns == Spec => []QueuesSuffice
<1>1. CountsInv => QueuesSuffice
  BY CountsSuffice
<1> QED
  BY <1>1, Counting, PTL

(* "Failed status": a side fails only when all messages that both sides    *)
(* want have arrived, and the peer, which wanted no more, is gone.         *)
THEOREM FailsLate == Spec => []FailsOnlyAtTheEnd
<1>1. CountsInv => FailsOnlyAtTheEnd
  <2> SUFFICES ASSUME CountsInv, NEW s \in Sides, pc[s] = "failed"
               PROVE  /\ pc[Peer(s)] = "closed" /\ iters[Peer(s)] <= iters[s]
                      /\ \A t \in Sides : landed[t] >= Common
    BY DEF FailsOnlyAtTheEnd
  <2> DEFINE p == Peer(s)
  <2>1. p \in Sides /\ p # s /\ Peer(p) = s /\ \A t \in Sides : t = s \/ t = p
    BY SidesAre
  <2>2. pc[p] = "closed"
    BY Numbers DEF EndInv
  <2> HIDE DEF p
  <2>3. rcnt[p] >= iters[p] /\ scnt[p] >= iters[p]
    BY <2>1, <2>2, Numbers DEF EndInv
  <2>4. landed[s] >= iters[p] /\ iters[s] >= iters[p]
    <3>1. rcnt[p] <= landed[s]
      BY <2>1, Numbers, SMTT(30) DEF ReceiveInv, One
    <3>2. landed[s] <= Posts(s) /\ Posts(s) <= iters[s]
      BY Numbers DEF SendInv
    <3> QED
      BY <2>1, <2>3, <3>1, <3>2, Numbers
  <2>5. landed[p] >= iters[p]
    <3>1. "error" \notin Waiting(p)
      BY <2>1, Numbers DEF EndInv
    <3>2. Posts(p) = iters[p] /\ Posts(p) = scnt[p]
      BY <2>1, <2>3, Numbers DEF SendInv, One
    <3>3. sq[p] = "none"
      BY <2>1, <3>2, Numbers DEF Posts, One
    <3> QED
      BY <2>1, <3>1, <3>2, <3>3, Numbers DEF SendInv
  <2>6. Common \in Nat /\ Common <= iters[p]
    BY <2>1, Numbers, SidesAre DEF Common
  <2>7. \A t \in Sides : landed[t] >= Common
    BY <2>1, <2>4, <2>5, <2>6, Numbers
  <2> QED
    BY <2>2, <2>4, <2>7 DEF p
<1> QED
  BY <1>1, Counting, PTL
------------------------------------------------------------------------------
(* No wakeup is lost, and the sides never wait for each other.             *)

LEMMA InitWake == Init => (\A s \in Sides : WakeInv(s)) /\ ToldInv
<1> SUFFICES ASSUME Init PROVE (\A s \in Sides : WakeInv(s)) /\ ToldInv
  OBVIOUS
<1>1. ASSUME NEW s \in Sides PROVE WakeInv(s)
  <2>1. pc[s] \in {"dial", "listen"} /\ cq[s] = <<>> /\ armed[s] = useEvent[s]
    BY DEF Init
  <2> QED
    BY <2>1 DEF WakeInv, Starting
<1>2. ToldInv
  BY SidesAre DEF Init, ToldInv
<1> QED
  BY <1>1, <1>2

\* A side with which nothing happens.
LEMMA WakeKeeps ==
  ASSUME IndInv, NEW t \in Sides,
         options' = options, pc'[t] = pc[t], cq'[t] = cq[t], armed'[t] = armed[t],
         events'[t] = events[t], rcnt'[t] = rcnt[t], scnt'[t] = scnt[t],
         pending'[t] = pending[t]
  PROVE  WakeInv(t)'
BY DEF IndInv, WakeInv, options

\* What the sides have told each other, while they are in their loops.
LEMMA ToldKeeps ==
  ASSUME IndInv, NEW s \in Sides, pc[s] \notin Starting, NEW l \in States \ Starting,
         pc' = [pc EXCEPT ![s] = l], socket' = socket
  PROVE  ToldInv'
<1>1. \A t \in Sides : pc'[t] = IF t = s THEN l ELSE pc[t]
  BY DEF IndInv, CountsInv, TypeOK
<1> QED
  BY <1>1, SidesAre DEF IndInv, ToldInv, socket, Starting

\* The exchange of addresses.
LEMMA ExchangeWakes ==
  ASSUME IndInv,
         Listen \/ Dial \/ Accept \/ ServerConnects \/ Reply \/ ClientReads
  PROVE  (\A t \in Sides : WakeInv(t)') /\ ToldInv'
<1>1. UNCHANGED idle
  BY DEF Listen, Dial, Accept, ServerConnects, Reply, ClientReads, idle
<1>2. PICK s \in Sides : /\ pc[s] \in Starting
                         /\ \E l \in Starting : pc' = [pc EXCEPT ![s] = l]
  BY SidesAre DEF Listen, Dial, Accept, ServerConnects, Reply, ClientReads, Goto, Starting
<1>3. \A t \in Sides : \/ pc'[t] = pc[t]
                       \/ t = s /\ pc'[t] \in Starting
  BY <1>2 DEF IndInv, CountsInv, TypeOK
<1>4. ASSUME NEW t \in Sides PROVE WakeInv(t)'
  <2>1. CASE pc'[t] = pc[t]
    BY <1>1, <2>1, WakeKeeps DEF idle, channel, counts
  <2>2. CASE pc[t] \in Starting /\ pc'[t] \in Starting
    BY <1>1, <2>2 DEF IndInv, WakeInv, idle, channel, counts, options, Starting
  <2> QED
    BY <1>2, <1>3, <2>1, <2>2
<1>5. ToldInv'
  <2>1. ToldInv /\ pc \in [Sides -> States] /\ SetupInv
    BY DEF IndInv, CountsInv, TypeOK
  <2>2. CASE Listen
    BY <2>1, <2>2, SidesAre DEF ToldInv, Listen, Goto
  <2>3. CASE Dial
    BY <2>1, <2>3, SidesAre DEF ToldInv, Dial, Goto
  <2>4. CASE Accept
    BY <2>1, <2>4, SidesAre DEF ToldInv, Accept, Goto, socket
  <2>5. CASE ServerConnects
    BY <2>1, <2>5, SidesAre DEF ToldInv, ServerConnects, Goto, socket
  <2>6. CASE Reply
    BY <2>1, <2>6, SidesAre DEF ToldInv, Reply, Goto
  <2>7. CASE ClientReads
    BY <2>1, <2>7, SidesAre DEF ToldInv, ClientReads, Goto
  <2> QED
    BY <2>2, <2>3, <2>4, <2>5, <2>6, <2>7
<1> QED
  BY <1>4, <1>5

\* The sides enter their loops.
LEMMA StartsWake ==
  ASSUME IndInv, ServerStarts \/ ClientStarts
  PROVE  (\A t \in Sides : WakeInv(t)') /\ ToldInv'
<1>1. PICK s \in Sides : /\ pc[s] \in Starting /\ pc' = [pc EXCEPT ![s] = "loop"]
                         /\ pc[s] = IF s = "client" THEN "connect" ELSE "done"
                         /\ \E w \in {{"recv"}, {"recv", "send"}} :
                              pending' = [pending EXCEPT ![s] = w]
                         /\ UNCHANGED <<options, socket, cq, channel, rcnt, scnt>>
  BY SidesAre DEF ServerStarts, ClientStarts, Goto, Starting
<1>2. /\ \A t \in Sides : pc'[t] = IF t = s THEN "loop" ELSE pc[t]
      /\ \A t \in Sides : t # s => pending'[t] = pending[t]
      /\ pending'[s] # {}
  <2>1. pc \in [Sides -> States] /\ pending \in [Sides -> SUBSET {"send", "recv"}]
    BY DEF IndInv, CountsInv, TypeOK
  <2>2. PICK w \in {{"recv"}, {"recv", "send"}} : pending' = [pending EXCEPT ![s] = w]
    BY <1>1
  <2>3. pending'[s] = w /\ w # {}
    BY <2>1, <2>2
  <2> QED
    BY <1>1, <2>1, <2>2, <2>3
<1>3. ASSUME NEW t \in Sides PROVE WakeInv(t)'
  <2>1. CASE t = s
    BY <1>1, <1>2, <2>1 DEF IndInv, WakeInv, channel, options, Starting
  <2>2. CASE t # s
    BY <1>1, <1>2, <2>2, WakeKeeps DEF channel
  <2> QED
    BY <2>1, <2>2
<1>4. ToldInv'
  BY <1>1, <1>2, SidesAre DEF IndInv, ToldInv, socket
<1> QED
  BY <1>3, <1>4

\* The steps of main leave the other side alone.
LEMMA OthersWake ==
  ASSUME IndInv, NEW s \in Sides, Main(s), NEW t \in Sides, t # s
  PROVE  WakeInv(t)'
<1>1. /\ options' = options /\ pc'[t] = pc[t] /\ cq'[t] = cq[t] /\ armed'[t] = armed[t]
      /\ events'[t] = events[t] /\ rcnt'[t] = rcnt[t] /\ scnt'[t] = scnt[t]
      /\ pending'[t] = pending[t]
  <2>1. CASE Loop(s)
    BY <2>1 DEF IndInv, CountsInv, TypeOK, Loop, Goto, network, channel, counts
  <2>2. CASE GetEvent(s)
    BY <2>2 DEF IndInv, CountsInv, TypeOK, GetEvent, Goto, network, counts
  <2>3. CASE Arm(s)
    BY <2>3 DEF IndInv, CountsInv, TypeOK, Arm, Goto, network, counts
  <2>4. CASE Poll(s)
    BY <2>4 DEF IndInv, CountsInv, TypeOK, Poll, Goto, network, channel, counts
  <2>5. CASE Handle(s)
    BY <2>5 DEF IndInv, CountsInv, TypeOK, Handle, Goto, channel, counts
  <2>6. CASE Close(s)
    BY <2>6 DEF IndInv, CountsInv, TypeOK, Close, Goto, channel, counts
  <2> QED
    BY <2>1, <2>2, <2>3, <2>4, <2>5, <2>6 DEF Main
<1> QED
  BY <1>1, WakeKeeps

\* A side whose label changes and nothing else that is waited for.
LEMMA LoopWakes == ASSUME IndInv, NEW s \in Sides, Loop(s) PROVE WakeInv(s)'
<1>1. /\ pc[s] = "loop"
      /\ pc'[s] = IF rcnt[s] >= iters[s] /\ scnt[s] >= iters[s] THEN "close"
                  ELSE IF useEvent[s] THEN "event" ELSE "poll"
      /\ UNCHANGED <<options, cq, channel, counts>>
  BY DEF Loop, Goto, IndInv, CountsInv, TypeOK, network
<1>2. rcnt[s] \in Nat /\ scnt[s] \in Nat /\ iters[s] \in Nat
  BY Numbers DEF IndInv
<1> QED
  BY <1>1, <1>2 DEF IndInv, WakeInv, Starting, options, channel, counts

LEMMA GetEventWakes == ASSUME IndInv, NEW s \in Sides, GetEvent(s) PROVE WakeInv(s)'
<1>1. /\ pc[s] = "event" /\ pc'[s] = "arm"
      /\ UNCHANGED <<options, counts>>
  BY DEF GetEvent, Goto, IndInv, CountsInv, TypeOK, network
<1> QED
  BY <1>1 DEF IndInv, WakeInv, Starting, options, counts

LEMMA ArmWakes == ASSUME IndInv, NEW s \in Sides, Arm(s) PROVE WakeInv(s)'
<1>1. /\ pc[s] = "arm" /\ pc'[s] = "poll" /\ armed'[s]
      /\ UNCHANGED <<options, counts>>
  BY DEF Arm, Goto, IndInv, CountsInv, TypeOK, network
<1> QED
  BY <1>1 DEF IndInv, WakeInv, Starting, options, counts

\* A poll leaves nothing in the queue.
LEMMA PollWakes == ASSUME IndInv, NEW s \in Sides, Poll(s) PROVE WakeInv(s)'
<1>1. /\ pc[s] = "poll" /\ pc'[s] \in {"loop", "handle"}
      /\ cq'[s] = RestOf(cq[s])
      /\ UNCHANGED <<options, channel, counts>>
  BY DEF Poll, Goto, IndInv, CountsInv, TypeOK, network
<1>2. cq'[s] = <<>>
  <2>1. cq[s] \in Seq(Kinds) /\ IsQueue(cq[s])
    BY Numbers DEF IndInv, QueueInv
  <2> QED
    BY <1>1, <2>1, PollTakes
<1> QED
  BY <1>1, <1>2 DEF IndInv, WakeInv, Starting, options, channel, counts

\* A side that waits for nothing more has sent all it wants.
LEMMA HandleWakes == ASSUME IndInv, NEW s \in Sides, Handle(s) PROVE WakeInv(s)'
<1> DEFINE wc == Head(wcs[s])
           left == IF wc = "recv" THEN routs[s] - 1 ELSE routs[s]
           wanted == IF wc = "recv" /\ LowOn(left) THEN rxDepth[s] - left ELSE 0
           sentNow == IF wc = "send" THEN scnt[s] + 1 ELSE scnt[s]
           waits == pending[s] \ {wc}
           sends == MoreToSend(s, sentNow) /\ waits = {}
<1>1. pc[s] = "handle" /\ UNCHANGED <<options, cq, channel>>
  BY DEF Handle
<1>2. CASE pc'[s] = "failed" /\ UNCHANGED counts
  BY <1>1, <1>2 DEF IndInv, WakeInv, Starting, options, channel, counts
<1>3. CASE /\ pc'[s] \in {"loop", "handle"} /\ scnt'[s] = sentNow
           /\ pending'[s] = IF sends THEN {"recv", "send"} ELSE waits
  <2>1. scnt[s] \in Nat /\ iters[s] \in Nat
    BY Numbers DEF IndInv
  <2>2. sentNow \in Nat
    BY <2>1
  <2>3. ASSUME pending'[s] = {} PROVE scnt'[s] >= iters'[s]
    <3>1. ~ sends /\ waits = {}
      BY <1>3, <2>3
    <3>2. ~ (sentNow < iters[s])
      BY <3>1 DEF MoreToSend
    <3> HIDE DEF sentNow
    <3> QED
      BY <1>1, <1>3, <2>1, <2>2, <3>2 DEF options
  <2> QED
    BY <1>1, <1>3, <2>3 DEF IndInv, WakeInv, Starting, options, channel
<1>4. \/ pc'[s] = "failed" /\ UNCHANGED counts
      \/ /\ pc'[s] \in {"loop", "handle"} /\ scnt'[s] = sentNow
         /\ pending'[s] = IF sends THEN {"recv", "send"} ELSE waits
  <2>1. /\ pc \in [Sides -> States] /\ scnt \in [Sides -> Nat]
        /\ pending \in [Sides -> SUBSET {"send", "recv"}]
    BY DEF IndInv, CountsInv, TypeOK
  <2>2. \/ pc' = [pc EXCEPT ![s] = "failed"] /\ UNCHANGED counts
        \/ /\ \E l \in {"loop", "handle"} : pc' = [pc EXCEPT ![s] = l]
           /\ scnt' = [scnt EXCEPT ![s] = sentNow]
           /\ pending' = [pending EXCEPT ![s] = IF sends THEN {"recv", "send"} ELSE waits]
    BY DEF Handle, Goto
  <2> HIDE DEF sentNow, sends, waits
  <2> QED
    BY <2>1, <2>2
<1> QED
  BY <1>2, <1>3, <1>4

LEMMA CloseWakes == ASSUME IndInv, NEW s \in Sides, Close(s) PROVE WakeInv(s)'
<1>1. /\ pc[s] = "close" /\ pc'[s] = "closed"
      /\ UNCHANGED <<options, cq, channel, counts>>
  BY DEF Close, Goto, IndInv, CountsInv, TypeOK
<1> QED
  BY <1>1 DEF IndInv, WakeInv, Starting, options, channel, counts

\* main does not write to the TCP connection any more.
LEMMA MainTells == ASSUME IndInv, NEW s \in Sides, Main(s) PROVE ToldInv'
<1>1. PICK l \in States \ Starting : pc' = [pc EXCEPT ![s] = l]
  BY DEF Main, Loop, GetEvent, Arm, Poll, Handle, Close, Goto, States, Starting
<1>2. pc[s] \notin Starting /\ socket' = socket
  BY DEF Main, Loop, GetEvent, Arm, Poll, Handle, Close, Starting, network
<1> QED
  BY <1>1, <1>2, ToldKeeps

\* A completion makes an event if one was asked for.
LEMMA CompleteWakes ==
  ASSUME IndInv, NEW s \in Sides, NEW wc, Complete(s, wc), UNCHANGED outside
  PROVE  (\A t \in Sides : WakeInv(t)') /\ ToldInv'
<1>1. UNCHANGED <<options, pc, socket, counts>>
  BY DEF outside
<1>2. /\ armed'[s] = FALSE
      /\ events'[s] = IF armed[s] THEN events[s] + 1 ELSE events[s]
      /\ events[s] \in Nat
      /\ \A t \in Sides : t # s => /\ cq'[t] = cq[t] /\ armed'[t] = armed[t]
                                  /\ events'[t] = events[t]
  BY DEF Complete, IndInv, CountsInv, TypeOK
<1>3. ASSUME NEW t \in Sides, t # s PROVE WakeInv(t)'
  BY <1>1, <1>2, <1>3, WakeKeeps DEF counts
<1>4. WakeInv(s)'
  <2>1. useEvent[s] /\ pc[s] # "arm" => events'[s] > 0
    BY <1>2 DEF IndInv, WakeInv
  <2> QED
    BY <1>1, <2>1 DEF IndInv, WakeInv, options, counts
<1>5. ToldInv'
  BY <1>1 DEF IndInv, ToldInv, socket
<1> QED
  BY <1>3, <1>4, <1>5

LEMMA NextWakes ==
  ASSUME IndInv, [Next]_vars
  PROVE  (\A t \in Sides : WakeInv(t)') /\ ToldInv'
<1>1. CASE Setup
  BY <1>1, ExchangeWakes, StartsWake DEF Setup
<1>2. ASSUME NEW s \in Sides, Main(s)
      PROVE  (\A t \in Sides : WakeInv(t)') /\ ToldInv'
  <2>1. WakeInv(s)'
    BY <1>2, LoopWakes, GetEventWakes, ArmWakes, PollWakes, HandleWakes, CloseWakes DEF Main
  <2> QED
    BY <1>2, <2>1, OthersWake, MainTells
<1>3. ASSUME NEW s \in Sides, Transport(s)
      PROVE  (\A t \in Sides : WakeInv(t)') /\ ToldInv'
  <2>1. UNCHANGED outside /\ \E t \in Sides, wc \in Kinds : Complete(t, wc)
    BY <1>3, SidesAre DEF Transport, Deliver, Acknowledge, Exhaust, Kinds
  <2> QED
    BY <2>1, CompleteWakes
<1>4. CASE UNCHANGED vars
  <2>1. ASSUME NEW t \in Sides PROVE WakeInv(t)'
    BY <1>4, WakeKeeps DEF vars, channel, counts
  <2> QED
    BY <1>4, <2>1 DEF vars, IndInv, ToldInv, socket
<1> QED
  BY <1>1, <1>2, <1>3, <1>4 DEF Next

(* IndInv is an invariant: who has posted, received and handled how much,  *)
(* and which wakeups are due, for any number of iterations, depths and     *)
(* choice of --events of the two sides.                                    *)
THEOREM Invariance == Spec => []IndInv
<1>1. Init => IndInv
  BY InitCounts, InitWake DEF IndInv
<1>2. IndInv /\ [Next]_vars => IndInv'
  BY NextCounts, NextWakes DEF IndInv
<1> QED
  BY <1>1, <1>2, PTL DEF Spec

(* ibv_get_cq_event never blocks while a completion is in the queue.       *)
THEOREM NoWakeupLost == Spec => []NoLostWakeup
<1>1. IndInv => NoLostWakeup
  BY DEF IndInv, WakeInv, NoLostWakeup
<1> QED
  BY <1>1, Invariance, PTL

\* Both sides wait, with nothing under way: then neither wants anything.
LEMMA BothWait ==
  ASSUME IndInv, \A s \in Sides : pc[s] \in {"event", "poll"} /\ cq[s] = <<>> /\ sq[s] = "none"
  PROVE  FALSE
<1> USE SidesAre
<1>1. CountsInv
  BY DEF IndInv
<1>2. ASSUME NEW s \in Sides
      PROVE  /\ Waiting(s) = {} /\ pc[s] \notin Starting
             /\ Posts(s) = scnt[s] /\ "send" \notin pending[s] /\ landed[s] = scnt[s]
             /\ rcnt[s] = landed[Peer(s)]
  <2>1. Waiting(s) = {} /\ pc[s] \notin Starting
    <3>1. wcs[s] = <<>>
      BY <1>1, Numbers DEF QueueInv
    <3> QED
      BY <3>1, Empty DEF Waiting, Starting
  <2>2. Posts(s) = scnt[s]
    BY <1>1, <2>1, Numbers DEF Posts, One
  <2>3. landed[s] = scnt[s] /\ "send" \notin pending[s]
    <3>1. SendInv(s) /\ scnt[s] \in Nat /\ sq[s] = "none"
      BY <1>1, Numbers
    <3>2. landed[s] = Posts(s)
      BY <2>1, <3>1 DEF SendInv
    <3>3. One("send" \in pending[s]) = 0
      <4>1. Posts(s) = scnt[s] + One("send" \in pending[s])
        BY <3>1 DEF SendInv
      <4> QED
        BY <2>2, <3>1, <4>1 DEF One
    <3> QED
      BY <2>2, <3>2, <3>3 DEF One
  <2>4. rcnt[s] = landed[Peer(s)]
    BY <1>1, <2>1, Numbers DEF ReceiveInv, One
  <2> QED
    BY <2>1, <2>2, <2>3, <2>4
<1>3. ASSUME NEW s \in Sides, pending[s] = {} PROVE rcnt[s] < iters[s] /\ iters[s] <= scnt[s]
  <2>1. iters[s] <= scnt[s] /\ (rcnt[s] < iters[s] \/ scnt[s] < iters[s])
    BY <1>2, <1>3 DEF IndInv, WakeInv
  <2>2. iters[s] \in Nat /\ scnt[s] \in Nat
    BY <1>1, Numbers
  <2> QED
    BY <2>1, <2>2
<1>4. \A s \in Sides : pending[s] = {} \/ pending[s] = {"recv"}
  <2>1. ASSUME NEW s \in Sides PROVE pending[s] = {} \/ pending[s] = {"recv"}
    <3>1. pending[s] \in SUBSET {"send", "recv"} /\ "send" \notin pending[s]
      BY <1>1, <1>2 DEF CountsInv, TypeOK
    <3> QED
      BY <3>1
  <2> QED
    BY <2>1
<1>5. /\ scnt["client"] = scnt["server"] + One("recv" \in pending["client"])
      /\ scnt["server"] = scnt["client"] - One("recv" \notin pending["server"])
  BY <1>1, <1>2 DEF CountsInv, TurnInv
<1>6. /\ scnt["client"] \in Nat /\ scnt["server"] \in Nat
      /\ rcnt["client"] = scnt["server"] /\ rcnt["server"] = scnt["client"]
      /\ iters["client"] \in Nat /\ iters["server"] \in Nat
  BY <1>1, <1>2, Numbers
<1>7. CASE pending["client"] = {}
  BY <1>3, <1>5, <1>6, <1>7 DEF One
<1>8. CASE pending["client"] # {}
  <2>1. pending["server"] = {}
    BY <1>4, <1>5, <1>6, <1>8 DEF One
  <2>2. rcnt["server"] < iters["server"] /\ iters["server"] <= scnt["server"]
    BY <1>3, <2>1
  <2>3. scnt["client"] = scnt["server"] + 1
    BY <1>4, <1>5, <1>8 DEF One
  <2> QED
    BY <1>6, <2>2, <2>3
<1> QED
  BY <1>7, <1>8

\* A side waits, with nothing under way, for a peer that has returned: the peer
\* wanted less.
LEMMA OneWaits ==
  ASSUME IndInv, NEW s \in Sides, pc[s] \in {"event", "poll"}, cq[s] = <<>>, sq[s] = "none",
         pc[Peer(s)] \in {"closed", "failed"}
  PROVE  iters[Peer(s)] < iters[s]
<1> DEFINE p == Peer(s)
<1>1. CountsInv /\ p \in Sides /\ Peer(p) = s
  BY SidesAre DEF IndInv
<1> HIDE DEF p
<1>2. Waiting(s) = {}
  <2>1. wcs[s] = <<>>
    BY <1>1, Numbers DEF QueueInv
  <2> QED
    BY <2>1, Empty DEF Waiting
<1>3. Posts(s) = scnt[s] /\ landed[s] = scnt[s] /\ rcnt[s] = landed[p]
  <2>1. Posts(s) = scnt[s]
    BY <1>1, <1>2, Numbers DEF Posts, One
  <2> QED
    BY <1>1, <1>2, <2>1, Numbers DEF SendInv, ReceiveInv, One, p
<1>4. pc[p] = "closed" /\ scnt[p] >= iters[p] /\ rcnt[p] >= iters[p]
  BY <1>1, Numbers DEF EndInv, p
<1>5. landed[p] >= scnt[p]
  <2>1. /\ scnt[p] \in Nat /\ landed[p] \in Nat /\ Posts(p) \in Nat
        /\ landed[p] <= Posts(p) /\ Posts(p) <= landed[p] + 1
    BY <1>1, Numbers DEF SendInv
  <2>2. CASE sq[p] = "posted" \/ "error" \in Waiting(p)
    <3>1. Posts(p) = scnt[p] + 1
      BY <1>1, <2>1, <2>2, Numbers DEF QueueInv, Posts, One
    <3> QED
      BY <2>1, <3>1
  <2>3. CASE ~ (sq[p] = "posted" \/ "error" \in Waiting(p))
    <3>1. landed[p] = Posts(p)
      BY <1>1, <2>3, Numbers DEF SendInv
    <3>2. Posts(p) >= scnt[p]
      BY <2>1 DEF Posts, One
    <3> QED
      BY <2>1, <3>1, <3>2
  <2> QED
    BY <2>2, <2>3
<1>6. landed[s] >= rcnt[p]
  BY <1>1, Numbers DEF ReceiveInv, One
<1>7. rcnt[s] < iters[s] \/ scnt[s] < iters[s]
  BY DEF IndInv, WakeInv
<1>8. /\ iters[s] \in Nat /\ iters[p] \in Nat /\ scnt[s] \in Nat /\ scnt[p] \in Nat
      /\ rcnt[s] \in Nat /\ rcnt[p] \in Nat /\ landed[s] \in Nat /\ landed[p] \in Nat
  BY <1>1, Numbers
<1>9. iters[p] < iters[s]
  BY <1>3, <1>4, <1>5, <1>6, <1>7, <1>8
<1> QED
  BY <1>9 DEF p

(* The sides never wait for each other: whatever their options, there is a *)
(* step to take until a side that wants no more than its peer has returned.*)
THEOREM NobodyStuck == Spec => []NeverStuck
<1>1. IndInv => NeverStuck
  <2> SUFFICES ASSUME IndInv, NEW s \in Sides, "client" \in told, iters[s] <= iters[Peer(s)],
                      pc[s] \notin {"closed", "failed"}, ~ Moves
               PROVE  FALSE
    BY DEF NeverStuck
  <2>1. CountsInv /\ pc \in [Sides -> States]
    BY DEF IndInv, CountsInv, TypeOK
  <2>2. \A t \in Sides : pc[t] \in {"event", "poll", "closed", "failed"}
    <3>1. "done" \in told /\ "server" \in told => pc["server"] \notin Starting
                                              /\ pc["client"] \notin Starting
      BY <2>1, SidesAre DEF IndInv, CountsInv, SetupInv, ToldInv, Moves, Starting
    <3>2. "server" \in told /\ "done" \in told
      BY <2>1, SidesAre DEF IndInv, CountsInv, SetupInv, ToldInv, Moves, States
    <3> QED
      BY <2>1, <3>1, <3>2, SidesAre DEF Moves, States, Starting
  <2>3. ASSUME NEW t \in Sides, pc[t] \in {"event", "poll"}
        PROVE  cq[t] = <<>> /\ t \in connected
    <3>1. cq[t] = <<>>
      BY <2>3 DEF IndInv, WakeInv, Moves
    <3>2. t \in connected
      BY <2>1, <2>3, SidesAre DEF CountsInv, SetupInv, Starting
    <3> QED
      BY <3>1, <3>2
  <2>4. ASSUME NEW t \in Sides, pc[t] \in {"event", "poll"} PROVE sq[t] = "none"
    <3>1. t \in connected /\ Peer(t) \in Sides
      BY <2>3, <2>4, SidesAre
    <3>2. sq[t] \in {"none", "posted", "landed"}
      BY <2>1 DEF CountsInv, TypeOK
    <3>3. sq[t] # "landed"
      BY <3>1 DEF Moves
    <3>4. sq[t] # "posted"
      <4>1. SUFFICES ASSUME sq[t] = "posted" PROVE FALSE
        OBVIOUS
      <4>2. Peer(t) \in connected
        BY <3>1, <4>1 DEF Moves
      <4>3. rq[Peer(t)] > 0
        BY <2>1, <4>1, <4>2, CountsSuffice DEF QueuesSuffice, ReceiverReady
      <4> QED
        BY <3>1, <4>1, <4>2, <4>3 DEF Moves
    <3> QED
      BY <3>2, <3>3, <3>4
  <2>5. pc[s] \in {"event", "poll"} /\ Peer(s) \in Sides
    BY <2>2, SidesAre
  <2>6. CASE pc[Peer(s)] \in {"event", "poll"}
    <3>1. \A t \in Sides : t = s \/ t = Peer(s)
      BY SidesAre
    <3> QED
      BY <2>3, <2>4, <2>5, <2>6, <3>1, BothWait
  <2>7. CASE pc[Peer(s)] \in {"closed", "failed"}
    <3>1. iters[Peer(s)] < iters[s]
      BY <2>3, <2>4, <2>5, <2>7, OneWaits
    <3>2. iters[s] \in Nat /\ iters[Peer(s)] \in Nat
      BY <2>1, <2>5, Numbers
    <3> QED
      BY <3>1, <3>2
  <2> QED
    BY <2>2, <2>5, <2>6, <2>7
<1> QED
  BY <1>1, Invariance, PTL
==============================================================================
