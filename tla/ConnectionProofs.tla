-------------------------- MODULE ConnectionProofs ---------------------------
(***************************************************************************)
(* The safety of the connection setup, for any number of starts of either  *)
(* side and failures at any step.                                          *)
(***************************************************************************)
EXTENDS Connection, SequenceTheorems, FiniteSetTheorems, TLAPS

LEMMA SidesAre ==
  /\ "client" \in Sides /\ "server" \in Sides
  /\ Peer("client") = "server" /\ Peer("server") = "client"
  /\ \A s \in Sides : s = "client" \/ s = "server"
  /\ \A s \in Sides : Peer(s) \in Sides /\ Peer(Peer(s)) = s /\ Peer(s) # s
  /\ \A s, t \in Sides : t = s \/ t = Peer(s)
BY DEF Sides, Peer

LEMMA StartsAre == Starts \subseteq Nat /\ 1 \in Starts /\ None = 0 /\ None \notin Starts
BY ConnectionAssumption DEF Starts, None

LEMMA IdsAre == Hello = 1 /\ Data = 2 /\ <<Hello>> # <<Data>> /\ Hello \in Ids /\ Data \in Ids
BY DEF Hello, Data, Ids

\* A queue of the card: of one request at most.
LEMMA Single ==
  ASSUME NEW q \in {<<>>, <<Hello>>, <<Data>>}, q # <<>>
  PROVE  /\ q = <<q[1]>> /\ q[1] \in Ids /\ Tail(q) = <<>>
         /\ q[1] = Hello <=> q = <<Hello>>
         /\ q[1] = Data <=> q = <<Data>>
<1>1. Hello # Data
  BY IdsAre
<1>2. \A id : <<id>>[1] = id /\ Tail(<<id>>) = <<>>
  OBVIOUS
<1>3. CASE q = <<Hello>>
  BY <1>1, <1>2, <1>3 DEF Ids
<1>4. CASE q = <<Data>>
  BY <1>1, <1>2, <1>4 DEF Ids
<1> QED
  BY <1>3, <1>4

\* A completion queue.
LEMMA QueueOf ==
  ASSUME NEW q \in Seq(Completions)
  PROVE  /\ Len(q) \in Nat /\ (Len(q) = 0 <=> q = <<>>)
         /\ Range(q) = {q[i] : i \in 1 .. Len(q)}
         /\ q # <<>> => q[1] \in Completions /\ q[1] \in Range(q)
         /\ q # <<>> => Tail(q) \in Seq(Completions) /\ Len(Tail(q)) = Len(q) - 1
<1>1. Len(q) \in Nat /\ DOMAIN q = 1 .. Len(q) /\ \A i \in 1 .. Len(q) : q[i] \in Completions
  OBVIOUS
<1>2. Range(q) = {q[i] : i \in 1 .. Len(q)}
  BY <1>1 DEF Range
<1>3. Len(q) = 0 <=> q = <<>>
  BY EmptySeq
<1>4. q # <<>> => 1 \in 1 .. Len(q)
  BY <1>1, <1>3
<1>5. q # <<>> => Tail(q) \in Seq(Completions) /\ Len(Tail(q)) = Len(q) - 1
  OBVIOUS
<1> QED
  BY <1>1, <1>2, <1>3, <1>4, <1>5

\* One more completion.
LEMMA Completed ==
  ASSUME NEW q \in Seq(Completions), NEW wc \in Completions
  PROVE  /\ Append(q, wc) \in Seq(Completions) /\ Len(Append(q, wc)) = Len(q) + 1
         /\ Range(Append(q, wc)) = Range(q) \cup {wc}
<1> DEFINE r == Append(q, wc)
<1>1. /\ r \in Seq(Completions) /\ Len(r) = Len(q) + 1 /\ Len(q) \in Nat
      /\ r[Len(q) + 1] = wc /\ \A i \in 1 .. Len(q) : r[i] = q[i]
  OBVIOUS
<1>2. Range(r) = {r[i] : i \in 1 .. Len(q) + 1} /\ Range(q) = {q[i] : i \in 1 .. Len(q)}
  BY <1>1, QueueOf
<1>3. \A i \in 1 .. Len(q) + 1 : i \in 1 .. Len(q) \/ i = Len(q) + 1
  BY <1>1
<1>4. \A i \in 1 .. Len(q) : i \in 1 .. Len(q) + 1
  BY <1>1
<1>5. Len(q) + 1 \in 1 .. Len(q) + 1
  BY <1>1
<1> HIDE DEF r
<1>6. Range(r) = Range(q) \cup {wc}
  BY <1>1, <1>2, <1>3, <1>4, <1>5
<1> QED
  BY <1>1, <1>6 DEF r

LEMMA CompletionIs ==
  ASSUME NEW id \in Ids, NEW opcode \in {"SEND", "RECV"},
         NEW status \in {"SUCCESS", "RETRY_EXC_ERR", "WR_FLUSH_ERR"}
  PROVE  /\ Completion(id, opcode, status) \in Completions
         /\ Completion(id, opcode, status).id = id
         /\ Completion(id, opcode, status).opcode = opcode
         /\ Completion(id, opcode, status).status = status
BY DEF Completion, Completions

\* What a queue pair in error leaves: the failed send, and the receive that was
\* posted, if any.
LEMMA Exhausted ==
  ASSUME NEW q \in Seq(Completions), NEW wc \in Completions,
         NEW r \in {<<>>, <<Hello>>, <<Data>>}
  PROVE  q \o <<wc>> \o [i \in DOMAIN r |-> Completion(r[i], "RECV", "WR_FLUSH_ERR")]
           = IF r = <<>> THEN Append(q, wc)
             ELSE Append(Append(q, wc), Completion(r[1], "RECV", "WR_FLUSH_ERR"))
<1> DEFINE c(id) == Completion(id, "RECV", "WR_FLUSH_ERR")
           flush == [i \in DOMAIN r |-> c(r[i])]
<1>1. q \o <<wc>> = Append(q, wc) /\ Append(q, wc) \in Seq(Completions)
  OBVIOUS
<1>2. CASE r = <<>>
  <2>1. DOMAIN r = {}
    BY <1>2
  <2>2. flush = <<>>
    BY <2>1
  <2> HIDE DEF flush
  <2>3. q \o <<wc>> \o flush = Append(q, wc)
    BY <1>1, <2>2
  <2> QED
    BY <1>2, <2>3 DEF flush
<1>3. CASE r # <<>>
  <2>1. DOMAIN r = 1 .. 1 /\ r[1] \in Ids
    BY <1>3 DEF Ids
  <2>2. c(r[1]) \in Completions
    BY <2>1, CompletionIs
  <2> HIDE DEF c
  <2>3. flush = <<c(r[1])>>
    BY <2>1
  <2> HIDE DEF flush
  <2>4. q \o <<wc>> \o flush = Append(Append(q, wc), c(r[1]))
    BY <1>1, <2>2, <2>3
  <2> QED
    BY <1>3, <2>4 DEF flush, c
<1> QED
  BY <1>2, <1>3

\* A side of which nothing changes.
LEMMA SideKeeps ==
  ASSUME NEW s \in Sides, SideInv(s),
         pc'[s] = pc[s], dest'[s] = dest[s], qp'[s] = qp[s], sq'[s] = sq[s],
         rq'[s] = rq[s], arrived'[s] = arrived[s], cq'[s] = cq[s],
         count'[s] = count[s], met'[s] = met[s]
  PROVE  SideInv(s)'
<1>1. QpInv(s)'
  BY DEF SideInv, QpInv
<1>2. Streams(s)' <=> Streams(s)
  BY DEF Streams, Greeted
<1>3. WorkInv(s)'
  BY <1>2 DEF SideInv, WorkInv, Fatal, Pending, Unpolled
<1>4. MetInv(s)'
  BY DEF SideInv, MetInv
<1> QED
  BY <1>1, <1>3, <1>4 DEF SideInv

\* A side that has posted nothing and met nobody.
LEMMA IdleSide ==
  ASSUME NEW s \in Sides, pc'[s] \in Idle, QpInv(s)',
         sq'[s] = <<>>, rq'[s] = <<>>, cq'[s] = <<>>, count'[s] = 0, met'[s] = {}
  PROVE  SideInv(s)'
<1>1. WorkInv(s)'
  BY DEF WorkInv, Idle, Fresh, Greeting
<1>2. MetInv(s)'
  BY IdsAre DEF QpInv, MetInv, Idle, Fresh, Greeting, Returned
<1> QED
  BY <1>1, <1>2 DEF SideInv

\* The starts that the variables speak of.
LEMMA Numbers ==
  ASSUME IndInv
  PROVE  /\ start \in [Sides -> Starts] /\ pc \in [Sides -> States]
         /\ \A s \in Sides :
              /\ start[s] \in Starts /\ start[s] \in Nat /\ start[s] # None
              /\ dest[s] \in Nat /\ (dest[s] \in Starts \/ dest[s] = None)
         /\ stream \in Nat /\ (stream \in Starts \/ stream = None)
         /\ \A n \in Starts : n \in Nat /\ reply[n] \in Nat
         /\ \A n \in written : n \in Nat
         /\ backlog \in Seq(Starts) /\ \A i \in 1 .. Len(backlog) : backlog[i] \in Nat
<1>1. /\ start \in [Sides -> Starts] /\ pc \in [Sides -> States]
      /\ dest \in [Sides -> Starts \cup {None}] /\ stream \in Starts \cup {None}
      /\ reply \in [Starts -> Starts \cup {None}] /\ written \subseteq Starts
      /\ backlog \in Seq(Starts)
  BY DEF IndInv, TypeOK
<1>2. \A n \in Starts \cup {None} : n \in Nat
  BY StartsAre
<1>3. \A s \in Sides : start[s] \in Starts /\ dest[s] \in Starts \cup {None}
  BY <1>1
<1>4. \A i \in 1 .. Len(backlog) : backlog[i] \in Starts
  BY <1>1
<1> QED
  BY <1>1, <1>2, <1>3, <1>4, StartsAre

LEMMA WasIdle ==
  ASSUME IndInv, NEW s \in Sides, pc[s] \in Idle
  PROVE  /\ sq[s] = <<>> /\ rq[s] = <<>> /\ cq[s] = <<>> /\ count[s] = 0 /\ met[s] = {}
         /\ ~ arrived[s] /\ QpInv(s)
BY DEF IndInv, TypeOK, SideInv, WorkInv, QpInv

\* Nothing of the exchange over TCP changes.
LEMMA TcpKeeps ==
  ASSUME IndInv, UNCHANGED <<start, tcp>>,
         pc'["client"] \in Fresh \/ pc["client"] \notin Fresh,
         pc'["server"] \in {"read", "reply"} => pc["server"] \in {"read", "reply"}
  PROVE  TcpInv'
BY DEF IndInv, TcpInv, tcp

\* Nobody is met, and nobody new is known.
LEMMA PeersKeep ==
  ASSUME IndInv, UNCHANGED <<start, dest, reply, met>>,
         \A s \in Sides : pc'[s] = "gone" <=> pc[s] = "gone"
  PROVE  PeerInv'
<1>1. \A s \in Sides : \A n : Runs(s, n)' <=> Runs(s, n)
  BY DEF Runs, Up
<1>2. \A s \in Sides : Runs(Peer(s), dest[s])' <=> Runs(Peer(s), dest[s])
  BY <1>1, SidesAre
<1>3. Linked' <=> Linked
  BY <1>2 DEF Linked
<1> QED
  BY <1>2, <1>3 DEF IndInv, PeerInv

LEMMA InitIndInv == Init => IndInv
<1> SUFFICES ASSUME Init PROVE IndInv
  OBVIOUS
<1>1. TypeOK
  BY StartsAre DEF Init, TypeOK, States, None, Unpolled
<1>2. ASSUME NEW s \in Sides PROVE SideInv(s)
  <2>1. QpInv(s)
    BY DEF Init, QpInv, Fresh, Greeting, Returned
  <2>2. WorkInv(s)
    BY DEF Init, WorkInv, Idle, Fresh, Greeting
  <2>3. MetInv(s)
    BY IdsAre DEF Init, MetInv, Idle, Fresh, Greeting, Returned
  <2> QED
    BY <2>1, <2>2, <2>3 DEF SideInv
<1>3. TcpInv
  BY SidesAre, StartsAre DEF Init, TcpInv, Fresh
<1>4. PeerInv
  BY SidesAre, StartsAre DEF Init, PeerInv, Linked, Runs
<1> QED
  BY <1>1, <1>2, <1>3, <1>4 DEF IndInv
------------------------------------------------------------------------------
(* Starts, ends, and the exchange over TCP.                                *)

\* A side that has posted nothing goes on, and does not post either.
LEMMA IdleStep ==
  ASSUME IndInv, NEW s \in Sides, pc[s] \in Idle,
         NEW label \in Idle, pc' = [pc EXCEPT ![s] = label],
         UNCHANGED <<work, count, met>>, QpInv(s)',
         qp'[Peer(s)] = qp[Peer(s)], dest'[Peer(s)] = dest[Peer(s)]
  PROVE  \A t \in Sides : SideInv(t)'
<1>1. SideInv(s)'
  BY IdleSide, WasIdle DEF work, IndInv, TypeOK
<1>2. SideInv(Peer(s))'
  BY SideKeeps, SidesAre DEF work, IndInv, TypeOK
<1> QED
  BY <1>1, <1>2, SidesAre

LEMMA SetsUpKeeps == ASSUME IndInv, NEW s \in Sides, SetsUp(s) PROVE IndInv'
<1>1. PICK label \in {"bind", "connect"} : pc' = [pc EXCEPT ![s] = label]
  BY DEF SetsUp, Goto
<1>2. pc[s] = "setup" /\ UNCHANGED <<start, tcp, qp, work, count, met, faulty>>
  BY DEF SetsUp
<1>3. TypeOK'
  BY <1>1, <1>2 DEF IndInv, TypeOK, States, tcp, work, Unpolled
<1>4. QpInv(s)'
  BY <1>1, <1>2, WasIdle DEF IndInv, TypeOK, QpInv, Idle, Fresh, Greeting, Returned, tcp, work
<1>5. \A t \in Sides : SideInv(t)'
  BY <1>1, <1>2, <1>4, IdleStep, SidesAre DEF Idle, Fresh, tcp
<1>6. TcpInv'
  BY <1>1, <1>2, TcpKeeps DEF IndInv, TypeOK, Fresh
<1>7. PeerInv'
  BY <1>1, <1>2, PeersKeep DEF IndInv, TypeOK, tcp
<1> QED
  BY <1>3, <1>5, <1>6, <1>7 DEF IndInv

\* TypeOK, at a step that leaves the queue pairs alone.
LEMMA TypeKeeps ==
  ASSUME IndInv, UNCHANGED <<start, qp, work, count, met, faulty>>,
         NEW s \in Sides, NEW label \in States, pc' = [pc EXCEPT ![s] = label],
         backlog' \in Seq(Starts), stream' \in Starts \cup {None},
         written' \subseteq Starts, reply' \in [Starts -> Starts \cup {None}],
         dest' \in [Sides -> Starts \cup {None}]
  PROVE  TypeOK'
BY DEF IndInv, TypeOK, work, Unpolled

LEMMA BindsKeeps == ASSUME IndInv, Binds PROVE IndInv'
<1> DEFINE s == "server"
<1>1. /\ s \in Sides /\ pc[s] = "bind" /\ pc' = [pc EXCEPT ![s] = "accept"]
      /\ UNCHANGED <<tcp, start, qp, work, count, met, faulty>>
  BY SidesAre DEF Binds, Goto, exchange
<1>2. TypeOK'
  BY <1>1 DEF IndInv, TypeOK, States, tcp, work, Unpolled
<1>3. QpInv(s)'
  BY <1>1, WasIdle DEF IndInv, TypeOK, QpInv, Idle, Fresh, Greeting, Returned, tcp, work
<1>4. \A t \in Sides : SideInv(t)'
  BY <1>1, <1>3, IdleStep, SidesAre DEF Idle, Fresh, tcp
<1>5. TcpInv'
  BY <1>1, TcpKeeps, SidesAre DEF IndInv, TypeOK, Fresh
<1>6. PeerInv'
  BY <1>1, PeersKeep DEF IndInv, TypeOK, tcp
<1> QED
  BY <1>2, <1>4, <1>5, <1>6 DEF IndInv

LEMMA AcceptsKeeps == ASSUME IndInv, Accepts PROVE IndInv'
<1> DEFINE s == "server"
<1>1. /\ s \in Sides /\ pc[s] = "accept" /\ pc' = [pc EXCEPT ![s] = "read"]
      /\ backlog # <<>> /\ stream' = Head(backlog) /\ backlog' = Tail(backlog)
      /\ UNCHANGED <<written, reply, dest, start, qp, work, count, met, faulty>>
  BY SidesAre DEF Accepts, Goto, exchange
<1>2. /\ backlog \in Seq(Starts) /\ Len(backlog) \in Nat /\ Len(backlog) > 0
      /\ stream' = backlog[1] /\ stream' \in Starts
      /\ backlog' \in Seq(Starts) /\ Len(backlog') = Len(backlog) - 1
      /\ \A i \in 1 .. Len(backlog') : backlog'[i] = backlog[i + 1]
  <2>1. backlog \in Seq(Starts)
    BY DEF IndInv, TypeOK
  <2> QED
    BY <1>1, <2>1
<1>3. TypeOK'
  BY <1>1, <1>2, TypeKeeps DEF IndInv, TypeOK, States
<1>4. QpInv(s)'
  BY <1>1, WasIdle DEF IndInv, TypeOK, QpInv, Idle, Fresh, Greeting, Returned, work
<1>5. \A t \in Sides : SideInv(t)'
  BY <1>1, <1>4, IdleStep, SidesAre DEF Idle, Fresh
<1>6. TcpInv'
  <2>1. stream' # None
    BY <1>2, StartsAre
  <2>2. /\ stream' <= start["client"]
        /\ \A i \in 1 .. Len(backlog') : backlog'[i] <= start["client"]
    BY <1>2 DEF IndInv, TcpInv
  <2>3. pc'["client"] = pc["client"]
    BY <1>1, SidesAre DEF IndInv, TypeOK
  <2> QED
    BY <1>1, <2>1, <2>2, <2>3 DEF IndInv, TcpInv
<1>7. PeerInv'
  BY <1>1, PeersKeep DEF IndInv, TypeOK
<1> QED
  BY <1>3, <1>5, <1>6, <1>7 DEF IndInv

LEMMA ConnectRetryKeeps == ASSUME IndInv, ConnectRetry PROVE IndInv'
<1> DEFINE s == "client"
<1>1. /\ s \in Sides /\ pc[s] = "connect"
      /\ UNCHANGED <<stream, written, reply, dest, start, qp, work, count, met, faulty>>
      /\ backlog' \in {backlog, Append(backlog, start[s])}
  BY SidesAre DEF ConnectRetry, exchange
<1>2. PICK label \in {"write", "connect"} : pc' = [pc EXCEPT ![s] = label]
  BY DEF ConnectRetry, Goto, OnRefusal
<1>3. /\ backlog' \in Seq(Starts)
      /\ \A i \in 1 .. Len(backlog') : backlog'[i] <= start["client"]
  <2>1. /\ backlog \in Seq(Starts) /\ start[s] \in Starts /\ start[s] \in Nat
        /\ \A i \in 1 .. Len(backlog) : backlog[i] <= start[s]
    BY StartsAre, SidesAre DEF IndInv, TypeOK, TcpInv
  <2>2. CASE backlog' = backlog
    BY <2>1, <2>2
  <2>3. CASE backlog' = Append(backlog, start[s])
    <3>1. /\ Len(backlog') = Len(backlog) + 1 /\ Len(backlog) \in Nat
          /\ backlog' \in Seq(Starts) /\ backlog'[Len(backlog) + 1] = start[s]
          /\ \A i \in 1 .. Len(backlog) : backlog'[i] = backlog[i]
      BY <2>1, <2>3
    <3> QED
      BY <2>1, <3>1
  <2> QED
    BY <1>1, <2>2, <2>3
<1>4. TypeOK'
  BY <1>1, <1>2, <1>3, TypeKeeps DEF IndInv, TypeOK, States
<1>5. QpInv(s)'
  BY <1>1, <1>2, WasIdle DEF IndInv, TypeOK, QpInv, Idle, Fresh, Greeting, Returned, work
<1>6. \A t \in Sides : SideInv(t)'
  BY <1>1, <1>2, <1>5, IdleStep, SidesAre DEF Idle, Fresh
<1>7. TcpInv'
  <2>1. pc'["server"] = pc["server"] /\ pc'["client"] \in Fresh
    BY <1>2, SidesAre DEF IndInv, TypeOK, Fresh
  <2> QED
    BY <1>1, <1>3, <2>1 DEF IndInv, TcpInv
<1>8. PeerInv'
  BY <1>1, <1>2, PeersKeep DEF IndInv, TypeOK
<1> QED
  BY <1>4, <1>6, <1>7, <1>8 DEF IndInv

LEMMA WritesInfoKeeps == ASSUME IndInv, WritesInfo PROVE IndInv'
<1> DEFINE s == "client"
<1>1. /\ s \in Sides /\ pc[s] = "write" /\ pc' = [pc EXCEPT ![s] = "read"]
      /\ written' = written \cup {start[s]}
      /\ UNCHANGED <<backlog, stream, reply, dest, start, qp, work, count, met, faulty>>
  BY SidesAre DEF WritesInfo, Goto, exchange
<1>2. start[s] \in Starts /\ start[s] \in Nat
  BY <1>1, StartsAre DEF IndInv, TypeOK
<1>3. TypeOK'
  BY <1>1, <1>2, TypeKeeps DEF IndInv, TypeOK, States
<1>4. QpInv(s)'
  BY <1>1, WasIdle DEF IndInv, TypeOK, QpInv, Idle, Fresh, Greeting, Returned, work
<1>5. \A t \in Sides : SideInv(t)'
  BY <1>1, <1>4, IdleStep, SidesAre DEF Idle, Fresh
<1>6. TcpInv'
  <2>1. pc'["server"] = pc["server"] /\ pc'["client"] \in Fresh
    BY <1>1, SidesAre DEF IndInv, TypeOK, Fresh
  <2> QED
    BY <1>1, <1>2, <2>1 DEF IndInv, TcpInv
<1>7. PeerInv'
  BY <1>1, PeersKeep DEF IndInv, TypeOK
<1> QED
  BY <1>3, <1>5, <1>6, <1>7 DEF IndInv

LEMMA RepliesKeeps == ASSUME IndInv, Replies PROVE IndInv'
<1> DEFINE s == "server"
<1>1. /\ s \in Sides /\ pc[s] = "reply" /\ pc' = [pc EXCEPT ![s] = "modify"]
      /\ reply' = [reply EXCEPT ![stream] = start[s]]
      /\ UNCHANGED <<backlog, stream, written, dest, start, qp, work, count, met, faulty>>
  BY SidesAre DEF Replies, Goto, exchange
<1>2. /\ start[s] \in Starts /\ start[s] \in Nat /\ start[s] # None
      /\ stream \in Starts /\ stream \in Nat /\ stream <= start["client"]
      /\ start["client"] \in Starts /\ start["client"] \in Nat
  BY <1>1, Numbers, SidesAre DEF IndInv, TcpInv
<1>3. TypeOK'
  BY <1>1, <1>2, TypeKeeps DEF IndInv, TypeOK, States
<1>4. QpInv(s)'
  BY <1>1, WasIdle DEF IndInv, TypeOK, QpInv, Idle, Fresh, Greeting, Returned, work
<1>5. \A t \in Sides : SideInv(t)'
  BY <1>1, <1>4, IdleStep, SidesAre DEF Idle, Fresh
<1>6. TcpInv'
  <2>1. \A n \in Starts : reply'[n] = IF n = stream THEN start[s] ELSE reply[n]
    BY <1>1 DEF IndInv, TypeOK
  <2>2. \A n \in Starts : /\ reply'[n] <= start["server"]
                          /\ n > start["client"] => reply'[n] = None
    BY <1>2, <2>1 DEF IndInv, TcpInv
  <2>3. pc["client"] \notin Fresh => reply'[start["client"]] # None
    BY <1>2, <2>1 DEF IndInv, TcpInv
  <2>4. pc'["server"] = "modify" /\ pc'["client"] = pc["client"]
    BY <1>1, SidesAre DEF IndInv, TypeOK
  <2> QED
    BY <1>1, <2>2, <2>3, <2>4 DEF IndInv, TcpInv
<1>7. PeerInv'
  <2>1. met["server"] = {}
    BY <1>1, WasIdle DEF Idle
  <2>2. \A t \in Sides : pc'[t] = "gone" <=> pc[t] = "gone"
    BY <1>1 DEF IndInv, TypeOK
  <2>3. \A t \in Sides : Runs(Peer(t), dest[t])' <=> Runs(Peer(t), dest[t])
    BY <1>1, <2>2, SidesAre DEF Runs, Up
  <2> QED
    BY <1>1, <2>1, <2>3 DEF IndInv, PeerInv, Linked
<1> QED
  BY <1>3, <1>5, <1>6, <1>7 DEF IndInv

\* A side that learns who its peer is has met nobody, and nor has that peer.
LEMMA ReadsInfoKeeps ==
  ASSUME IndInv, NEW s \in Sides, pc[s] = "read", Info(s) # None,
         dest' = [dest EXCEPT ![s] = Info(s)],
         pc' = [pc EXCEPT ![s] = IF s = "client" THEN "modify" ELSE "reply"],
         UNCHANGED <<backlog, stream, written, reply, start, qp, work, count, met, faulty>>
  PROVE  IndInv'
<1> DEFINE p == Peer(s)
<1>1. PICK label \in {"modify", "reply"} :
           /\ pc' = [pc EXCEPT ![s] = label]
           /\ label = "reply" => s = "server"
  BY SidesAre
<1>2. /\ start \in [Sides -> Starts] /\ pc \in [Sides -> States]
      /\ dest \in [Sides -> Starts \cup {None}] /\ p \in Sides /\ p # s
  BY SidesAre DEF IndInv, TypeOK
<1>3. Info(s) \in Starts /\ Info(s) <= start[p]
  <2>1. CASE s = "client"
    BY <1>2, <2>1, SidesAre DEF IndInv, TypeOK, TcpInv, Info
  <2>2. CASE s = "server"
    BY <1>2, <2>2, SidesAre DEF IndInv, TypeOK, TcpInv, Info
  <2> QED
    BY <2>1, <2>2, SidesAre
<1>4. TypeOK'
  BY <1>1, <1>2, <1>3, TypeKeeps DEF IndInv, TypeOK, States
<1>5. met[s] = {} /\ dest[s] = None /\ dest'[s] = Info(s) /\ dest'[p] = dest[p]
  BY <1>2, WasIdle DEF Idle, Fresh, QpInv
<1>6. QpInv(s)'
  BY <1>1, <1>2, <1>5, WasIdle DEF QpInv, Idle, Fresh, Greeting, Returned, work
<1>7. \A t \in Sides : SideInv(t)'
  BY <1>1, <1>5, <1>6, IdleStep, SidesAre DEF Idle, Fresh
<1>8. TcpInv'
  <2>1. \A t \in Sides : dest'[t] <= start[Peer(t)]
    BY <1>3, <1>5, SidesAre DEF IndInv, TcpInv
  <2>2. pc'["client"] \notin Fresh => reply[start["client"]] # None
    BY <1>1, <1>2, SidesAre DEF IndInv, TcpInv, Info
  <2>3. pc'["server"] \in {"read", "reply"} => stream # None
    BY <1>1, <1>2, SidesAre DEF IndInv, TcpInv
  <2> QED
    BY <2>1, <2>2, <2>3 DEF IndInv, TcpInv
<1>9. PeerInv'
  <2>1. \A t \in Sides : \A n : Runs(t, n)' <=> Runs(t, n)
    BY <1>1, <1>2 DEF Runs, Up
  <2>2. met[p] # {} => ~ Runs(s, dest[p])
    BY <1>2, <1>5, StartsAre, SidesAre DEF IndInv, PeerInv
  <2>3. Linked' => met'["client"] = met'["server"]
    <3>1. Linked' => Runs(s, dest[p])
      BY <1>2, <1>5, <2>1, SidesAre DEF Linked
    <3> QED
      BY <1>2, <1>5, <2>2, <3>1, SidesAre
  <2>4. ASSUME NEW t \in Sides, met[t] # {}, Runs(Peer(t), dest[t])'
        PROVE  dest'[Peer(t)] = start[t]
    <3>1. CASE t = s
      BY <1>5, <2>4, <3>1
    <3>2. CASE t = p
      <4>1. Runs(s, dest[p])'
        BY <1>2, <2>4, <3>2, SidesAre
      <4>2. Runs(s, dest[p])
        BY <1>2, <1>5, <2>1, <4>1
      <4> QED
        BY <2>2, <2>4, <3>2, <4>2
    <3> QED
      BY <3>1, <3>2, SidesAre
  <2>5. met["server"] # {} =>
          dest'["server"] = start["client"] \/ reply[start["client"]] = None
    BY <1>2, <1>5, SidesAre DEF IndInv, PeerInv
  <2> QED
    <3>1. UNCHANGED <<met, start, reply>>
      OBVIOUS
    <3> QED
      BY <1>5, <2>3, <2>4, <2>5, <3>1, SidesAre DEF PeerInv
<1> QED
  BY <1>4, <1>7, <1>8, <1>9 DEF IndInv

LEMMA ModifiesQpKeeps == ASSUME IndInv, NEW s \in Sides, ModifiesQp(s) PROVE IndInv'
<1>1. /\ pc[s] = "modify" /\ UNCHANGED <<start, tcp, work, count, met, faulty>>
      /\ qp' = [qp EXCEPT ![s] = Modified[qp[s]]]
  BY DEF ModifiesQp
<1>2. /\ qp[s] \in {"RESET", "INIT", "RTR"} /\ dest[s] # None
      /\ pc \in [Sides -> States] /\ qp \in [Sides -> {"RESET", "INIT", "RTR", "RTS", "ERR"}]
  BY <1>1 DEF IndInv, TypeOK, SideInv, QpInv, Fresh
<1>3. /\ qp[s] = "RESET" => Modified[qp[s]] = "INIT"
      /\ qp[s] = "INIT" => Modified[qp[s]] = "RTR"
      /\ qp[s] = "RTR" => Modified[qp[s]] = "RTS"
  BY DEF Modified
<1>4. /\ qp'[s] = Modified[qp[s]] /\ qp'[s] \in {"INIT", "RTR", "RTS"}
      /\ qp'[Peer(s)] = qp[Peer(s)]
  BY <1>1, <1>2, <1>3, SidesAre
<1>5. PICK label \in {"modify", "hello"} :
           /\ pc' = [pc EXCEPT ![s] = label]
           /\ label = "hello" <=> qp'[s] = "RTS"
  BY DEF ModifiesQp, Goto
<1>6. TypeOK'
  BY <1>1, <1>2, <1>4, <1>5 DEF IndInv, TypeOK, States, tcp, work, Unpolled
<1>7. QpInv(s)'
  BY <1>1, <1>2, <1>4, <1>5, WasIdle DEF QpInv, Idle, Fresh, Greeting, Returned, tcp, work
<1>8. \A t \in Sides : SideInv(t)'
  BY <1>1, <1>4, <1>5, <1>7, IdleStep, SidesAre DEF Idle, Fresh, tcp
<1>9. TcpInv'
  BY <1>1, <1>2, <1>5, TcpKeeps DEF Fresh
<1>10. PeerInv'
  BY <1>1, <1>2, <1>5, PeersKeep DEF tcp
<1> QED
  BY <1>6, <1>8, <1>9, <1>10 DEF IndInv

\* A process that ends leaves nothing of itself, and its peer as it is.
LEMMA EndsKeeps ==
  ASSUME IndInv, NEW s \in Sides, Ends(s), faulty' \in [Sides -> BOOLEAN] PROVE IndInv'
<1> DEFINE p == Peer(s)
<1>1. /\ p \in Sides /\ p # s /\ pc'[s] = "gone" /\ pc'[p] = pc[p]
      /\ dest'[s] = None /\ dest'[p] = dest[p] /\ met'[s] = {} /\ met'[p] = met[p]
      /\ UNCHANGED <<start, written, reply>>
  BY SidesAre DEF IndInv, TypeOK, Ends, Goto
<1>2. TypeOK'
  <2>1. \/ backlog' = backlog /\ stream' = stream
        \/ backlog' = <<>> /\ stream' = None
    BY DEF Ends
  <2>2. backlog' \in Seq(Starts) /\ stream' \in Starts \cup {None}
    <3>1. <<>> \in Seq(Starts)
      OBVIOUS
    <3> QED
      BY <2>1, <3>1, Numbers
  <2>3. /\ pc' \in [Sides -> States] /\ dest' \in [Sides -> Starts \cup {None}]
        /\ qp' \in [Sides -> {"RESET", "INIT", "RTR", "RTS", "ERR"}]
    BY DEF IndInv, TypeOK, Ends, Goto, States
  <2>4. /\ sq' \in [Sides -> {<<>>, <<Hello>>, <<Data>>}]
        /\ rq' \in [Sides -> {<<>>, <<Hello>>, <<Data>>}]
        /\ arrived' \in [Sides -> BOOLEAN] /\ count' \in [Sides -> 0 .. 2]
        /\ met' \in [Sides -> SUBSET (Sides \X Ids \X Ids)]
    BY DEF IndInv, TypeOK, Ends
  <2>5. cq' \in [Sides -> Seq(Completions)] /\ \A t \in Sides : Unpolled(t)' <= 2
    <3>1. cq' = [cq EXCEPT ![s] = <<>>]
      BY DEF Ends
    <3>2. <<>> \in Seq(Completions) /\ Len(<<>>) = 0
      OBVIOUS
    <3> QED
      BY <3>1, <3>2 DEF IndInv, TypeOK, Unpolled
  <2> QED
    BY <1>1, <2>2, <2>3, <2>4, <2>5 DEF IndInv, TypeOK
<1>3. SideInv(s)'
  <2>1. /\ qp'[s] = "RESET" /\ sq'[s] = <<>> /\ rq'[s] = <<>> /\ ~ arrived'[s]
        /\ cq'[s] = <<>> /\ count'[s] = 0
    BY DEF IndInv, TypeOK, Ends
  <2>2. QpInv(s)'
    BY <1>1, <2>1 DEF QpInv, Fresh, Greeting, Returned
  <2> QED
    BY <1>1, <2>1, <2>2, IdleSide DEF Idle, Fresh
<1>4. SideInv(p)'
  BY <1>1, SideKeeps DEF IndInv, TypeOK, Ends
<1>5. TcpInv'
  <2>1. /\ stream' <= start["client"]
        /\ \A i \in 1 .. Len(backlog') : backlog'[i] <= start["client"]
    <3>1. \/ backlog' = backlog /\ stream' = stream
          \/ backlog' = <<>> /\ stream' = None
      BY DEF Ends
    <3>2. start["client"] \in Nat
      BY SidesAre, StartsAre DEF IndInv, TypeOK
    <3> QED
      BY <3>1, <3>2, StartsAre DEF IndInv, TcpInv
  <2>2. \A t \in Sides : dest'[t] <= start[Peer(t)]
    <3>1. start[p] \in Nat
      BY <1>1, StartsAre DEF IndInv, TypeOK
    <3> QED
      BY <1>1, <3>1, SidesAre, StartsAre DEF IndInv, TcpInv
  <2>3. pc'["server"] \in {"read", "reply"} => stream' # None
    BY <1>1, SidesAre DEF IndInv, TcpInv, Ends
  <2>4. pc'["client"] \notin Fresh => reply[start["client"]] # None
    BY <1>1, SidesAre DEF IndInv, TcpInv, Fresh
  <2> QED
    BY <1>1, <2>1, <2>2, <2>3, <2>4 DEF IndInv, TcpInv
<1>6. PeerInv'
  <2>1. ~ Runs(s, dest[p])' /\ ~ Linked'
    BY <1>1, SidesAre DEF Runs, Up, Linked
  <2> QED
    BY <1>1, <2>1, SidesAre DEF IndInv, PeerInv
<1> QED
  BY <1>1, <1>2, <1>3, <1>4, <1>5, <1>6, SidesAre DEF IndInv

\* The next start of a side is a number that nobody has heard of.
LEMMA RestartsKeeps == ASSUME IndInv, NEW s \in Sides, Restarts(s) PROVE IndInv'
<1> DEFINE p == Peer(s)
<1>1. /\ p \in Sides /\ p # s /\ pc[s] = "gone" /\ start[s] < MaxStarts
      /\ pc' = [pc EXCEPT ![s] = "setup"] /\ start' = [start EXCEPT ![s] = start[s] + 1]
      /\ UNCHANGED <<tcp, qp, work, count, met>>
  BY SidesAre DEF Restarts, Goto, Up
<1>2. /\ start \in [Sides -> Starts] /\ pc \in [Sides -> States]
      /\ start[s] \in Nat /\ start[p] \in Nat /\ start'[s] = start[s] + 1
      /\ start'[p] = start[p] /\ start[s] + 1 \in Starts
      /\ pc'[s] = "setup" /\ pc'[p] = pc[p]
  BY <1>1, ConnectionAssumption DEF IndInv, TypeOK, Starts
<1>3. TypeOK'
  BY <1>1, <1>2 DEF IndInv, TypeOK, States, tcp, work, Restarts, Unpolled
<1>4. QpInv(s)'
  BY <1>1, <1>2, WasIdle DEF QpInv, Idle, Fresh, Greeting, Returned, tcp, work
<1>5. \A t \in Sides : SideInv(t)'
  BY <1>1, <1>4, IdleStep, SidesAre DEF Idle, Fresh, tcp
<1>6. dest[p] <= start[s] /\ dest[p] \in Nat /\ met[s] = {} /\ dest[s] = None
  BY <1>1, WasIdle, SidesAre, Numbers DEF IndInv, TcpInv, QpInv, Idle, Fresh
<1>7. TcpInv'
  <2>1. \A t \in Sides : start[t] <= start'[t] /\ start[t] \in Nat /\ start'[t] \in Nat
    BY <1>1, <1>2, SidesAre
  <2>2. \A t \in Sides : dest[t] \in Nat /\ dest[t] <= start'[Peer(t)]
    BY <2>1, SidesAre, Numbers DEF IndInv, TcpInv
  <2>3. \A n \in written : n <= start'["client"]
    BY <2>1, SidesAre, Numbers DEF IndInv, TcpInv
  <2>4. \A n \in Starts : /\ reply[n] <= start'["server"]
                          /\ n > start'["client"] => reply[n] = None
    <3> SUFFICES ASSUME NEW n \in Starts
                 PROVE  /\ reply[n] <= start'["server"]
                        /\ n > start'["client"] => reply[n] = None
      OBVIOUS
    <3>1. /\ n \in Nat /\ reply[n] \in Nat /\ reply[n] <= start["server"]
          /\ n > start["client"] => reply[n] = None
      BY Numbers DEF IndInv, TcpInv
    <3> QED
      BY <2>1, <3>1, SidesAre
  <2>5. /\ stream <= start'["client"]
        /\ \A i \in 1 .. Len(backlog) : backlog[i] <= start'["client"]
    <3>1. stream \in Nat /\ \A i \in 1 .. Len(backlog) : backlog[i] \in Nat
      BY Numbers
    <3> QED
      BY <2>1, <3>1, SidesAre DEF IndInv, TcpInv
  <2>6. /\ pc'["server"] \in {"read", "reply"} => stream # None
        /\ pc'["client"] \notin Fresh => reply[start'["client"]] # None
    BY <1>1, <1>2, SidesAre DEF IndInv, TcpInv, Fresh
  <2> QED
    BY <1>1, <2>2, <2>3, <2>4, <2>5, <2>6 DEF TcpInv, tcp
<1>8. PeerInv'
  <2>1. ~ Runs(s, dest[p])' /\ ~ Linked'
    BY <1>1, <1>2, <1>6, SidesAre DEF Runs, Linked, tcp
  <2>2. met["server"] # {} =>
          dest["server"] = start'["client"] \/ reply[start'["client"]] = None
    <3> SUFFICES ASSUME met["server"] # {}
                 PROVE  reply[start'["client"]] = None
      OBVIOUS
    <3>1. s = "client"
      BY <1>6, SidesAre
    <3> QED
      BY <1>2, <3>1, StartsAre DEF IndInv, TcpInv
  <2> QED
    BY <1>1, <1>6, <2>1, <2>2, SidesAre DEF PeerInv, tcp
<1> QED
  BY <1>3, <1>5, <1>7, <1>8 DEF IndInv
------------------------------------------------------------------------------
(* Work requests and completions.                                          *)

LEMMA Side ==
  ASSUME IndInv, NEW s \in Sides
  PROVE  /\ pc[s] \in States /\ qp[s] \in {"RESET", "INIT", "RTR", "RTS", "ERR"}
         /\ sq[s] \in {<<>>, <<Hello>>, <<Data>>} /\ rq[s] \in {<<>>, <<Hello>>, <<Data>>}
         /\ cq[s] \in Seq(Completions) /\ Unpolled(s) \in Nat /\ Unpolled(s) <= 2
         /\ arrived[s] \in BOOLEAN /\ count[s] \in 0 .. 2
         /\ QpInv(s) /\ WorkInv(s) /\ MetInv(s)
<1>1. cq[s] \in Seq(Completions) /\ Unpolled(s) <= 2
  BY DEF IndInv, TypeOK
<1>2. Unpolled(s) \in Nat
  BY <1>1, QueueOf DEF Unpolled
<1> QED
  BY <1>1, <1>2 DEF IndInv, TypeOK, SideInv

LEMMA Same ==
  ASSUME IndInv, NEW s \in Sides
  PROVE  /\ sq = [sq EXCEPT ![s] = sq[s]] /\ rq = [rq EXCEPT ![s] = rq[s]]
         /\ cq = [cq EXCEPT ![s] = cq[s]] /\ qp = [qp EXCEPT ![s] = qp[s]]
         /\ arrived = [arrived EXCEPT ![s] = arrived[s]]
         /\ count = [count EXCEPT ![s] = count[s]] /\ pc = [pc EXCEPT ![s] = pc[s]]
BY DEF IndInv, TypeOK

\* What a side that knows its peer does on its own.
LEMMA WorkStep ==
  ASSUME IndInv, NEW s \in Sides, UNCHANGED <<start, tcp, met>>,
         pc[s] \notin Fresh \cup {"reply"}, pc'[s] \notin Fresh \cup {"reply"},
         \A t \in Sides \ {s} :
           /\ pc'[t] = pc[t] /\ qp'[t] = qp[t] /\ sq'[t] = sq[t] /\ rq'[t] = rq[t]
           /\ cq'[t] = cq[t] /\ arrived'[t] = arrived[t] /\ count'[t] = count[t],
         TypeOK', QpInv(s)', WorkInv(s)', MetInv(s)'
  PROVE  IndInv'
<1>1. ASSUME NEW t \in Sides \ {s} PROVE SideInv(t)'
  BY SideKeeps DEF IndInv, tcp
<1>2. \A t \in Sides : SideInv(t)'
  BY <1>1 DEF SideInv
<1>3. TcpInv'
  BY TcpKeeps, SidesAre DEF Fresh
<1>4. PeerInv'
  BY PeersKeep DEF tcp, Fresh
<1> QED
  BY <1>2, <1>3, <1>4 DEF IndInv

\* A completion more.
LEMMA Completes ==
  ASSUME IndInv, NEW s \in Sides, Unpolled(s) <= 1,
         NEW wc \in Completions, cq' = [cq EXCEPT ![s] = Append(cq[s], wc)]
  PROVE  /\ cq' \in [Sides -> Seq(Completions)] /\ \A t \in Sides : Unpolled(t)' <= 2
         /\ Unpolled(s)' = Unpolled(s) + 1
         /\ Range(cq'[s]) = Range(cq[s]) \cup {wc}
         /\ \A t \in Sides \ {s} : cq'[t] = cq[t]
<1>1. cq'[s] = Append(cq[s], wc) /\ \A t \in Sides \ {s} : cq'[t] = cq[t]
  BY DEF IndInv, TypeOK
<1>2. cq'[s] \in Seq(Completions) /\ Range(cq'[s]) = Range(cq[s]) \cup {wc}
  BY <1>1, Completed, Side
<1>3. Unpolled(s)' = Unpolled(s) + 1
  BY <1>1, Completed, Side DEF Unpolled
<1>4. cq' \in [Sides -> Seq(Completions)]
  BY <1>1, <1>2 DEF IndInv, TypeOK
<1>5. \A t \in Sides \ {s} : Unpolled(t)' = Unpolled(t)
  BY <1>1 DEF Unpolled
<1>6. \A t \in Sides : Unpolled(t)' <= 2
  BY <1>3, <1>5, Side
<1> QED
  BY <1>1, <1>2, <1>3, <1>4, <1>6

\* The completions that wait are as they were.
LEMMA CompletesNone ==
  ASSUME IndInv, cq' = cq
  PROVE  /\ cq' \in [Sides -> Seq(Completions)] /\ \A t \in Sides : Unpolled(t)' <= 2
         /\ \A t \in Sides : Unpolled(t)' = Unpolled(t)
BY DEF IndInv, TypeOK, Unpolled

LEMMA HandshakeSendsKeeps == ASSUME IndInv, NEW s \in Sides, HandshakeSends(s) PROVE IndInv'
<1>1. /\ pc[s] = "hello" /\ pc' = [pc EXCEPT ![s] = "await"]
      /\ UNCHANGED <<start, tcp, qp, arrived, met, faulty, rq, count>>
      /\ PostSend(s, Hello)
  BY DEF HandshakeSends, Goto, GreetingId, handshake
<1>2. /\ sq[s] = <<>> /\ rq[s] = <<>> /\ cq[s] = <<>> /\ count[s] = 0 /\ met[s] = {}
      /\ ~ arrived[s] /\ QpInv(s) /\ qp[s] = "RTS" /\ dest[s] # None
  BY <1>1, WasIdle DEF Idle, QpInv, Fresh
<1>3. sq' = [sq EXCEPT ![s] = <<Hello>>] /\ cq' = cq
  BY <1>1, <1>2 DEF PostSend
<1>4. /\ pc'[s] = "await" /\ sq'[s] = <<Hello>> /\ rq'[s] = <<>> /\ cq'[s] = <<>>
      /\ count'[s] = 0 /\ met'[s] = {} /\ ~ arrived'[s] /\ qp'[s] = "RTS" /\ dest'[s] # None
  BY <1>1, <1>2, <1>3 DEF IndInv, TypeOK, tcp
<1>5. QpInv(s)'
  BY <1>4 DEF QpInv, Fresh, Greeting, Returned
<1>6. WorkInv(s)'
  <2>1. Pending(s)' = 1
    BY <1>4 DEF Pending, One
  <2>2. Unpolled(s)' = 0 /\ Range(cq'[s]) = {}
    BY <1>4, QueueOf, <1>2, Side DEF Unpolled, Range
  <2> QED
    BY <1>4, <2>1, <2>2, IdsAre DEF WorkInv, Idle, Fresh, Greeting
<1>7. MetInv(s)'
  BY <1>4, IdsAre DEF MetInv, Greeting, Returned
<1>8. TypeOK'
  BY <1>1, <1>3, CompletesNone DEF IndInv, TypeOK, States, tcp
<1>9. /\ pc[s] \notin Fresh \cup {"reply"} /\ pc'[s] \notin Fresh \cup {"reply"}
      /\ \A t \in Sides \ {s} : pc'[t] = pc[t] /\ sq'[t] = sq[t]
  BY <1>1, <1>3, <1>4 DEF IndInv, TypeOK, Fresh
<1> QED
  BY <1>1, <1>3, <1>5, <1>6, <1>7, <1>8, <1>9, WorkStep

LEMMA HandshakeReceivesKeeps ==
  ASSUME IndInv, NEW s \in Sides, HandshakeReceives(s) PROVE IndInv'
<1>1. /\ pc[s] = "await" /\ pc' = [pc EXCEPT ![s] = "handshake"]
      /\ UNCHANGED <<start, tcp, qp, arrived, met, faulty, sq, count>>
      /\ PostRecv(s, Hello)
  BY DEF HandshakeReceives, Goto, handshake
<1>2. /\ rq[s] = <<>> /\ count[s] = 0 /\ Pending(s) + Unpolled(s) = 1
      /\ sq[s] # <<Data>> /\ qp[s] \in {"RTS", "ERR"} /\ dest[s] # None
      /\ \A wc \in Range(cq[s]) : wc.id = Hello
      /\ qp[s] = "ERR" => sq[s] = <<>>
      /\ arrived[s] => sq[s] # <<>>
  BY <1>1, Side DEF WorkInv, QpInv, Greeting, Fresh
<1>3. Pending(s) \in Nat /\ Unpolled(s) \in Nat /\ Unpolled(s) <= 1
  <2>1. Pending(s) \in Nat
    BY DEF Pending, One
  <2> QED
    BY <1>2, <2>1, Side
<1> DEFINE flush == Completion(Hello, "RECV", "WR_FLUSH_ERR")
<1>4. /\ rq' \in [Sides -> {<<>>, <<Hello>>, <<Data>>}]
      /\ cq' \in [Sides -> Seq(Completions)] /\ \A t \in Sides : Unpolled(t)' <= 2
      /\ \A t \in Sides \ {s} : rq'[t] = rq[t] /\ cq'[t] = cq[t]
      /\ rq'[s] = IF qp[s] = "ERR" THEN <<>> ELSE <<Hello>>
      /\ Unpolled(s)' = IF qp[s] = "ERR" THEN Unpolled(s) + 1 ELSE Unpolled(s)
      /\ \A wc \in Range(cq'[s]) : wc.id = Hello
  <2>1. CASE qp[s] = "ERR"
    <3>1. rq' = rq /\ cq' = [cq EXCEPT ![s] = Append(cq[s], flush)]
      BY <1>1, <2>1 DEF PostRecv, Flushed
    <3>2. flush \in Completions /\ flush.id = Hello
      BY CompletionIs, IdsAre
    <3> HIDE DEF flush
    <3>3. /\ cq' \in [Sides -> Seq(Completions)] /\ \A t \in Sides : Unpolled(t)' <= 2
          /\ Unpolled(s)' = Unpolled(s) + 1 /\ \A t \in Sides \ {s} : cq'[t] = cq[t]
          /\ Range(cq'[s]) = Range(cq[s]) \cup {flush}
      BY <1>3, <3>1, <3>2, Completes
    <3> QED
      BY <1>2, <2>1, <3>1, <3>2, <3>3 DEF IndInv, TypeOK
  <2>2. CASE qp[s] = "RTS"
    <3>1. rq' = [rq EXCEPT ![s] = <<Hello>>] /\ cq' = cq
      BY <1>1, <1>2, <2>2 DEF PostRecv
    <3>2. /\ rq' \in [Sides -> {<<>>, <<Hello>>, <<Data>>}] /\ rq'[s] = <<Hello>>
          /\ \A t \in Sides \ {s} : rq'[t] = rq[t]
      BY <3>1 DEF IndInv, TypeOK
    <3> QED
      BY <1>2, <2>2, <3>1, <3>2, CompletesNone
  <2> QED
    BY <1>2, <2>1, <2>2
<1>5. /\ pc'[s] = "handshake" /\ sq'[s] = sq[s] /\ count'[s] = 0 /\ met'[s] = met[s]
      /\ arrived'[s] = arrived[s] /\ qp'[s] = qp[s] /\ dest'[s] = dest[s]
  BY <1>1, <1>2 DEF IndInv, TypeOK, tcp
<1>6. QpInv(s)'
  BY <1>2, <1>4, <1>5 DEF QpInv, Fresh, Greeting, Returned
<1>7. WorkInv(s)'
  <2>1. Pending(s)' + Unpolled(s)' = 2
    BY <1>2, <1>3, <1>4, <1>5 DEF Pending, One
  <2>2. Pending(s)' \in Nat /\ Unpolled(s)' \in Nat
    BY <1>3, <1>4 DEF Pending, One
  <2> HIDE DEF flush
  <2>3. Pending(s)' + Unpolled(s)' + count'[s] = 2
    BY <1>5, <2>1, <2>2
  <2>4. sq'[s] # <<Data>> /\ rq'[s] # <<Data>>
    BY <1>2, <1>4, <1>5, IdsAre
  <2> QED
    BY <1>4, <1>5, <2>3, <2>4 DEF WorkInv, Idle, Fresh, Greeting
<1>8. MetInv(s)'
  <2>1. MetInv(s)
    BY Side
  <2> QED
    BY <1>1, <1>2, <1>4, <1>5, <2>1, IdsAre DEF MetInv, Greeting, Returned
<1>9. TypeOK'
  BY <1>1, <1>4 DEF IndInv, TypeOK, States, tcp
<1>10. /\ pc[s] \notin Fresh \cup {"reply"} /\ pc'[s] \notin Fresh \cup {"reply"}
       /\ \A t \in Sides \ {s} : pc'[t] = pc[t]
  BY <1>1, <1>5 DEF IndInv, TypeOK, Fresh
<1> QED
  BY <1>1, <1>4, <1>6, <1>7, <1>8, <1>9, <1>10, WorkStep

\* A side that has something posted, or takes what is completed, has got past hello.
LEMMA Busy ==
  ASSUME IndInv, NEW s \in Sides, pc[s] \notin Idle
  PROVE  /\ pc[s] \in Greeting \cup Returned /\ pc[s] \notin Fresh \cup {"reply"}
         /\ qp[s] \in {"RTS", "ERR"} /\ pc[s] # "gone"
         /\ Pending(s) \in Nat /\ Unpolled(s) \in Nat /\ count[s] \in Nat
BY Side DEF States, Idle, Fresh, Greeting, Returned, QpInv, Pending, One

LEMMA HandshakePollsKeeps == ASSUME IndInv, NEW s \in Sides, HandshakePolls(s) PROVE IndInv'
<1> DEFINE hellos == {i \in DOMAIN cq[s] : cq[s][i].id = Hello}
<1>1. /\ pc[s] = "handshake" /\ UNCHANGED <<start, tcp, qp, arrived, met, faulty, sq, rq>>
      /\ cq' = [cq EXCEPT ![s] = <<>>]
      /\ count' = [count EXCEPT ![s] = count[s] + Cardinality(hellos)]
  BY DEF HandshakePolls, handshake
<1>2. /\ Pending(s) + Unpolled(s) + count[s] = 2 /\ sq[s] # <<Data>> /\ rq[s] # <<Data>>
      /\ \A wc \in Range(cq[s]) : wc.id = Hello
      /\ pc[s] \notin Idle
  BY <1>1, Side DEF WorkInv, Greeting, Idle, Fresh
<1>3. Cardinality(hellos) = Unpolled(s)
  <2>1. DOMAIN cq[s] = 1 .. Len(cq[s]) /\ Len(cq[s]) \in Nat
    BY Side
  <2>2. \A i \in 1 .. Len(cq[s]) : cq[s][i].id = Hello
    BY <1>2, <2>1, QueueOf, Side
  <2>3. hellos = 1 .. Len(cq[s])
    BY <2>1, <2>2
  <2> HIDE DEF hellos
  <2>4. Cardinality(1 .. Len(cq[s])) = Len(cq[s])
    BY <2>1, FS_Interval
  <2> QED
    BY <2>3, <2>4 DEF Unpolled
<1> HIDE DEF hellos
<1>4. /\ count'[s] = count[s] + Unpolled(s) /\ count' \in [Sides -> 0 .. 2]
      /\ \A t \in Sides \ {s} : count'[t] = count[t]
  <2>1. count[s] + Unpolled(s) \in 0 .. 2
    BY <1>2, Busy
  <2> QED
    BY <1>1, <1>3, <2>1 DEF IndInv, TypeOK
<1>5. /\ cq' \in [Sides -> Seq(Completions)] /\ \A t \in Sides : Unpolled(t)' <= 2
      /\ cq'[s] = <<>> /\ Unpolled(s)' = 0 /\ Range(cq'[s]) = {}
      /\ \A t \in Sides \ {s} : cq'[t] = cq[t]
  <2>1. <<>> \in Seq(Completions) /\ Len(<<>>) = 0 /\ Range(<<>>) = {}
    BY DEF Range
  <2>2. /\ cq' \in [Sides -> Seq(Completions)] /\ cq'[s] = <<>>
        /\ \A t \in Sides \ {s} : cq'[t] = cq[t]
    BY <1>1, <2>1 DEF IndInv, TypeOK
  <2>3. Unpolled(s)' = 0 /\ \A t \in Sides \ {s} : Unpolled(t)' = Unpolled(t)
    BY <2>1, <2>2 DEF Unpolled
  <2> QED
    BY <2>1, <2>2, <2>3, Side
<1>6. PICK label \in {"handshake", "connected"} :
           /\ pc' = [pc EXCEPT ![s] = label]
           /\ label = "connected" <=> count'[s] >= 2
  BY DEF HandshakePolls, Goto, Counted
<1>7. /\ pc'[s] = label /\ sq'[s] = sq[s] /\ rq'[s] = rq[s] /\ met'[s] = met[s]
      /\ arrived'[s] = arrived[s] /\ qp'[s] = qp[s] /\ dest'[s] = dest[s]
      /\ \A t \in Sides \ {s} : pc'[t] = pc[t]
  BY <1>1, <1>6 DEF IndInv, TypeOK, tcp
<1>8. Pending(s)' = Pending(s)
  BY <1>7 DEF Pending
<1>9. QpInv(s)'
  BY <1>1, <1>7, Side DEF QpInv, Fresh, Greeting, Returned
<1>10. WorkInv(s)'
  <2>1. label = "handshake" => count'[s] < 2
    BY <1>2, <1>4, <1>6, Busy
  <2>2. label = "connected" => sq[s] = <<>> /\ rq[s] = <<>>
    <3>1. label = "connected" => Pending(s) = 0
      BY <1>2, <1>4, <1>6, Busy
    <3> QED
      BY <3>1 DEF Pending, One
  <2>3. Pending(s)' + Unpolled(s)' + count'[s] = 2
    BY <1>2, <1>4, <1>5, <1>8, Busy
  <2> QED
    BY <1>2, <1>5, <1>7, <2>1, <2>2, <2>3 DEF WorkInv, Idle, Fresh, Greeting
<1>11. MetInv(s)'
  BY <1>1, <1>7, Side DEF MetInv, Greeting, Returned
<1>12. TypeOK'
  BY <1>1, <1>4, <1>5, <1>6 DEF IndInv, TypeOK, States, tcp
<1>13. pc[s] \notin Fresh \cup {"reply"} /\ pc'[s] \notin Fresh \cup {"reply"}
  BY <1>1, <1>7 DEF Fresh
<1> QED
  BY <1>1, <1>4, <1>5, <1>7, <1>9, <1>10, <1>11, <1>12, <1>13, WorkStep

LEMMA PostsDataKeeps == ASSUME IndInv, NEW s \in Sides, PostsData(s) PROVE IndInv'
<1>1. /\ pc[s] = "connected" /\ pc' = [pc EXCEPT ![s] = "data"]
      /\ UNCHANGED <<start, tcp, qp, arrived, met, faulty, count>>
      /\ s = "client" => PostSend(s, Data) /\ UNCHANGED rq
      /\ s # "client" => PostRecv(s, Data) /\ UNCHANGED sq
  BY DEF PostsData, Goto, handshake
<1>2. /\ sq[s] = <<>> /\ rq[s] = <<>> /\ cq[s] = <<>> /\ ~ arrived[s]
      /\ qp[s] \in {"RTS", "ERR"} /\ dest[s] # None
  BY <1>1, Side DEF WorkInv, QpInv, Returned, Fresh
<1>3. Unpolled(s) = 0 /\ Range(cq[s]) = {}
  BY <1>2 DEF Unpolled, Range
<1> DEFINE opcode == IF s = "client" THEN "SEND" ELSE "RECV"
           flush  == Completion(Data, opcode, "WR_FLUSH_ERR")
<1>4. /\ sq' \in [Sides -> {<<>>, <<Hello>>, <<Data>>}]
      /\ rq' \in [Sides -> {<<>>, <<Hello>>, <<Data>>}]
      /\ cq' \in [Sides -> Seq(Completions)] /\ \A t \in Sides : Unpolled(t)' <= 2
      /\ \A t \in Sides \ {s} : sq'[t] = sq[t] /\ rq'[t] = rq[t] /\ cq'[t] = cq[t]
      /\ sq'[s] = IF s = "client" /\ qp[s] # "ERR" THEN <<Data>> ELSE <<>>
      /\ rq'[s] = IF s # "client" /\ qp[s] # "ERR" THEN <<Data>> ELSE <<>>
      /\ Unpolled(s)' = IF qp[s] = "ERR" THEN 1 ELSE 0
      /\ \A wc \in Range(cq'[s]) : wc.opcode = opcode /\ Fatal(wc)
  <2>1. CASE qp[s] = "ERR"
    <3>1. /\ UNCHANGED <<sq, rq>>
          /\ cq' = [cq EXCEPT ![s] = Append(cq[s], flush)]
      BY <1>1, <2>1 DEF PostRecv, PostSend, Flushed
    <3>2. flush \in Completions /\ flush.opcode = opcode /\ Fatal(flush)
      BY CompletionIs, IdsAre DEF Fatal
    <3> HIDE DEF flush, opcode
    <3>3. /\ cq' \in [Sides -> Seq(Completions)] /\ \A t \in Sides : Unpolled(t)' <= 2
          /\ Unpolled(s)' = 1 /\ \A t \in Sides \ {s} : cq'[t] = cq[t]
          /\ Range(cq'[s]) = {flush}
      <4>1. Unpolled(s) <= 1
        BY <1>3
      <4>2. /\ cq' \in [Sides -> Seq(Completions)] /\ \A t \in Sides : Unpolled(t)' <= 2
            /\ Unpolled(s)' = Unpolled(s) + 1 /\ \A t \in Sides \ {s} : cq'[t] = cq[t]
            /\ Range(cq'[s]) = Range(cq[s]) \cup {flush}
        BY <3>1, <3>2, <4>1, Completes
      <4> QED
        BY <1>3, <4>2
    <3> QED
      BY <1>2, <2>1, <3>1, <3>2, <3>3 DEF IndInv, TypeOK
  <2>2. CASE qp[s] = "RTS"
    <3>1. /\ s = "client" => sq' = [sq EXCEPT ![s] = <<Data>>] /\ rq' = rq
          /\ s # "client" => rq' = [rq EXCEPT ![s] = <<Data>>] /\ sq' = sq
          /\ cq' = cq
      BY <1>1, <1>2, <2>2 DEF PostRecv, PostSend
    <3>2. /\ sq' \in [Sides -> {<<>>, <<Hello>>, <<Data>>}]
          /\ rq' \in [Sides -> {<<>>, <<Hello>>, <<Data>>}]
          /\ \A t \in Sides \ {s} : sq'[t] = sq[t] /\ rq'[t] = rq[t]
          /\ sq'[s] = IF s = "client" THEN <<Data>> ELSE <<>>
          /\ rq'[s] = IF s # "client" THEN <<Data>> ELSE <<>>
      BY <1>2, <3>1 DEF IndInv, TypeOK
    <3> QED
      BY <1>3, <2>2, <3>1, <3>2, CompletesNone
  <2> QED
    BY <1>2, <2>1, <2>2
<1> HIDE DEF flush, opcode
<1>5. /\ pc'[s] = "data" /\ met'[s] = met[s] /\ arrived'[s] = arrived[s] /\ qp'[s] = qp[s]
      /\ dest'[s] = dest[s] /\ count'[s] = count[s]
      /\ \A t \in Sides \ {s} : pc'[t] = pc[t]
  BY <1>1 DEF IndInv, TypeOK, tcp
<1>6. QpInv(s)'
  BY <1>2, <1>4, <1>5 DEF QpInv, Fresh, Greeting, Returned
<1>7. WorkInv(s)'
  <2>1. Pending(s)' + Unpolled(s)' = 1
    BY <1>2, <1>4 DEF Pending, One
  <2>2. sq'[s] # <<Hello>> /\ rq'[s] # <<Hello>>
    BY <1>4, IdsAre
  <2> QED
    BY <1>4, <1>5, <2>1, <2>2 DEF WorkInv, Idle, Fresh, Greeting, opcode
<1>8. MetInv(s)'
  <2>1. MetInv(s)
    BY Side
  <2> QED
    BY <1>1, <1>2, <1>4, <1>5, <2>1, IdsAre DEF MetInv, Greeting, Returned
<1>9. TypeOK'
  BY <1>1, <1>4 DEF IndInv, TypeOK, States, tcp
<1>10. pc[s] \notin Fresh \cup {"reply"} /\ pc'[s] \notin Fresh \cup {"reply"}
  BY <1>1, <1>5 DEF Fresh
<1> QED
  BY <1>1, <1>4, <1>5, <1>6, <1>7, <1>8, <1>9, <1>10, WorkStep

LEMMA PollsDataKeeps == ASSUME IndInv, NEW s \in Sides, PollsData(s) PROVE IndInv'
<1> DEFINE wc == cq[s][1]
<1>1. pc[s] = "data" /\ cq[s] # <<>>
  BY DEF PollsData
<1>2. CASE Panics(s)
  BY <1>2, EndsKeeps DEF Panics, IndInv, TypeOK
<1>3. CASE ~ Panics(s)
  <2>1. /\ ~ Fatal(wc) /\ UNCHANGED <<start, tcp, qp, arrived, met, faulty, sq, rq, count>>
        /\ cq' = [cq EXCEPT ![s] = Tail(cq[s])]
        /\ wc.opcode = (IF s = "client" THEN "SEND" ELSE "RECV") =>
             pc' = [pc EXCEPT ![s] = "streaming"]
    BY <1>3 DEF PollsData, handshake, Goto
  <2>2. wc \in Range(cq[s]) /\ Unpolled(s) # 0
    BY <1>1, Side, QueueOf DEF Unpolled
  <2>3. /\ Streams(s) /\ pc' = [pc EXCEPT ![s] = "streaming"]
        /\ Pending(s) + Unpolled(s) = 1
    BY <1>1, <2>1, <2>2, Side DEF WorkInv
  <2>4. pc[s] \notin Idle
    BY <1>1 DEF Idle, Fresh
  <2>5. Unpolled(s) = 1 /\ sq[s] = <<>> /\ rq[s] = <<>>
    <3>1. Pending(s) = 0 /\ Unpolled(s) = 1
      BY <2>2, <2>3, <2>4, Busy
    <3> QED
      BY <3>1 DEF Pending, One
  <2>6. Tail(cq[s]) = <<>>
    <3>1. Tail(cq[s]) \in Seq(Completions) /\ Len(Tail(cq[s])) = 0
      BY <1>1, <2>5, Side, QueueOf DEF Unpolled
    <3> QED
      BY <3>1, QueueOf
  <2>7. /\ cq' \in [Sides -> Seq(Completions)] /\ \A t \in Sides : Unpolled(t)' <= 2
        /\ cq'[s] = <<>> /\ \A t \in Sides \ {s} : cq'[t] = cq[t]
    <3>1. <<>> \in Seq(Completions) /\ Len(<<>>) = 0
      OBVIOUS
    <3>2. /\ cq' \in [Sides -> Seq(Completions)] /\ cq'[s] = <<>>
          /\ \A t \in Sides \ {s} : cq'[t] = cq[t]
      BY <2>1, <2>6, <3>1 DEF IndInv, TypeOK
    <3>3. Unpolled(s)' = 0 /\ \A t \in Sides \ {s} : Unpolled(t)' = Unpolled(t)
      BY <3>1, <3>2 DEF Unpolled
    <3> QED
      BY <3>2, <3>3, Side
  <2>8. /\ pc'[s] = "streaming" /\ sq'[s] = <<>> /\ rq'[s] = <<>> /\ met'[s] = met[s]
        /\ arrived'[s] = arrived[s] /\ qp'[s] = qp[s] /\ dest'[s] = dest[s]
        /\ \A t \in Sides \ {s} : pc'[t] = pc[t]
    BY <2>1, <2>3, <2>5 DEF IndInv, TypeOK, tcp
  <2>9. QpInv(s)'
    BY <1>1, <2>5, <2>8, Side DEF QpInv, Fresh, Greeting, Returned
  <2>10. WorkInv(s)'
    <3>1. Streams(s)'
      BY <2>3, <2>8 DEF Streams, Greeted
    <3> QED
      BY <2>7, <2>8, <3>1 DEF WorkInv, Idle, Fresh, Greeting
  <2>11. MetInv(s)'
    BY <1>1, <2>5, <2>8, Side DEF MetInv, Greeting, Returned
  <2>12. TypeOK'
    BY <2>1, <2>3, <2>7 DEF IndInv, TypeOK, States, tcp
  <2>13. pc[s] \notin Fresh \cup {"reply"} /\ pc'[s] \notin Fresh \cup {"reply"}
    BY <1>1, <2>8 DEF Fresh
  <2> QED
    BY <2>1, <2>7, <2>8, <2>9, <2>10, <2>11, <2>12, <2>13, WorkStep
<1> QED
  BY <1>2, <1>3
------------------------------------------------------------------------------
(* The cards.                                                              *)

\* What is posted is of the handshake or, on one side each, of the first message.
LEMMA PostedSend ==
  ASSUME IndInv, NEW s \in Sides, sq[s] # <<>>
  PROVE  /\ pc[s] \notin Idle /\ qp[s] = "RTS" /\ Tail(sq[s]) = <<>>
         /\ sq[s][1] \in Ids /\ sq[s] = <<sq[s][1]>>
         /\ pc[s] \in Greeting => sq[s][1] = Hello
         /\ pc[s] \notin Greeting => pc[s] = "data" /\ sq[s][1] = Data /\ s = "client"
<1>1. pc[s] \notin Idle /\ pc[s] \notin {"connected", "streaming"}
  BY Side DEF WorkInv
<1>2. /\ sq[s] = <<sq[s][1]>> /\ sq[s][1] \in Ids /\ Tail(sq[s]) = <<>>
      /\ sq[s][1] = Hello <=> sq[s] = <<Hello>>
      /\ sq[s][1] = Data <=> sq[s] = <<Data>>
  BY Side, Single
<1>3. pc[s] \in Greeting => sq[s] # <<Data>>
  BY Side DEF WorkInv
<1>4. pc[s] = "data" => sq[s] # <<Hello>> /\ s = "client"
  BY Side DEF WorkInv
<1>5. pc[s] \in Greeting \/ pc[s] = "data"
  BY <1>1, Busy DEF Returned
<1>6. qp[s] = "RTS"
  BY <1>1, Busy, Side DEF QpInv
<1> QED
  BY <1>1, <1>2, <1>3, <1>4, <1>5, <1>6 DEF Greeting, Ids

LEMMA PostedRecv ==
  ASSUME IndInv, NEW s \in Sides, rq[s] # <<>>
  PROVE  /\ pc[s] \notin Idle \cup {"await"} /\ qp[s] = "RTS" /\ Tail(rq[s]) = <<>>
         /\ rq[s][1] \in Ids /\ rq[s] = <<rq[s][1]>>
         /\ pc[s] \in Greeting => rq[s][1] = Hello
         /\ pc[s] \notin Greeting => pc[s] = "data" /\ rq[s][1] = Data /\ s = "server"
<1>1. pc[s] \notin Idle \cup {"await"} /\ pc[s] \notin {"connected", "streaming"}
  BY Side DEF WorkInv
<1>2. /\ rq[s] = <<rq[s][1]>> /\ rq[s][1] \in Ids /\ Tail(rq[s]) = <<>>
      /\ rq[s][1] = Hello <=> rq[s] = <<Hello>>
      /\ rq[s][1] = Data <=> rq[s] = <<Data>>
  BY Side, Single
<1>3. pc[s] \in Greeting => rq[s] # <<Data>>
  BY Side DEF WorkInv
<1>4. pc[s] = "data" => rq[s] # <<Hello>> /\ s = "server"
  BY Side, SidesAre DEF WorkInv
<1>5. pc[s] \in Greeting \/ pc[s] = "data"
  BY <1>1, Busy DEF Returned
<1>6. qp[s] = "RTS"
  BY <1>1, Busy, Side DEF QpInv
<1> QED
  BY <1>1, <1>2, <1>3, <1>4, <1>5, <1>6 DEF Greeting, Ids

\* What is posted and completed is not more than what has been posted.
LEMMA Room ==
  ASSUME IndInv, NEW s \in Sides, Pending(s) # 0
  PROVE  Pending(s) \in Nat /\ Unpolled(s) \in Nat /\ Pending(s) + Unpolled(s) <= 2
<1>1. pc[s] \notin Idle \cup {"connected", "streaming"}
  BY Side DEF WorkInv, Pending, One
<1>2. pc[s] \in {"await", "handshake", "data"}
  BY <1>1, Busy DEF Greeting, Returned
<1>3. \/ Pending(s) + Unpolled(s) = 1
      \/ Pending(s) + Unpolled(s) + count[s] = 2
  BY <1>2, Side DEF WorkInv
<1> QED
  BY <1>1, <1>3, Busy

\* A side with nothing left of the handshake, on a queue pair that works, has been
\* greeted.
LEMMA GreetedBy ==
  ASSUME IndInv, NEW s \in Sides, pc[s] \in Returned, qp[s] = "RTS"
  PROVE  Greeted(s)
<1>1. pc[s] \notin Idle /\ pc[s] \notin Greeting
  BY DEF Idle, Fresh, Greeting, Returned
<1>2. sq[s] # <<Hello>> /\ rq[s] # <<Hello>>
  <2>1. CASE pc[s] = "data"
    BY <2>1, Side DEF WorkInv
  <2>2. CASE pc[s] \in {"connected", "streaming"}
    <3>1. sq[s] = <<>> /\ rq[s] = <<>>
      BY <2>2, Side DEF WorkInv
    <3> QED
      BY <3>1
  <2> QED
    BY <2>1, <2>2 DEF Returned
<1>3. <<s, Hello, Hello>> \in met[s] /\ <<Peer(s), Hello, Hello>> \in met[s]
  BY <1>1, <1>2, Side DEF MetInv, Greeting
<1> QED
  BY <1>3, SidesAre DEF Greeted

LEMMA AcknowledgeKeeps == ASSUME IndInv, NEW s \in Sides, Acknowledge(s) PROVE IndInv'
<1> DEFINE id == sq[s][1]
           wc == Completion(id, "SEND", "SUCCESS")
<1>1. /\ arrived[s] /\ arrived' = [arrived EXCEPT ![s] = FALSE]
      /\ cq' = [cq EXCEPT ![s] = Append(cq[s], wc)] /\ sq' = [sq EXCEPT ![s] = Tail(sq[s])]
      /\ UNCHANGED <<pc, start, tcp, qp, rq, count, met, faulty>>
  BY DEF Acknowledge
<1>2. sq[s] # <<>> /\ <<s, id, id>> \in met[s]
  BY <1>1, Side DEF QpInv, MetInv
<1>3. /\ pc[s] \notin Idle /\ qp[s] = "RTS" /\ Tail(sq[s]) = <<>> /\ id \in Ids
      /\ sq[s] = <<id>>
      /\ pc[s] \in Greeting => id = Hello
      /\ pc[s] \notin Greeting => pc[s] = "data" /\ id = Data /\ s = "client"
  BY <1>2, PostedSend
<1>4. wc \in Completions /\ wc.id = id /\ wc.opcode = "SEND"
  BY <1>3, CompletionIs
<1> HIDE DEF wc, id
<1>5. Pending(s) # 0 /\ Unpolled(s) <= 1
  <2>1. Pending(s) # 0
    BY <1>2, Side DEF Pending, One
  <2> QED
    BY <2>1, Room
<1>6. /\ cq' \in [Sides -> Seq(Completions)] /\ \A t \in Sides : Unpolled(t)' <= 2
      /\ Unpolled(s)' = Unpolled(s) + 1 /\ Range(cq'[s]) = Range(cq[s]) \cup {wc}
      /\ \A t \in Sides \ {s} : cq'[t] = cq[t]
  BY <1>1, <1>4, <1>5, Completes
<1>7. /\ sq'[s] = <<>> /\ rq'[s] = rq[s] /\ ~ arrived'[s] /\ pc'[s] = pc[s]
      /\ qp'[s] = qp[s] /\ dest'[s] = dest[s] /\ met'[s] = met[s] /\ count'[s] = count[s]
      /\ sq' \in [Sides -> {<<>>, <<Hello>>, <<Data>>}]
      /\ \A t \in Sides \ {s} : sq'[t] = sq[t] /\ arrived'[t] = arrived[t]
  BY <1>1, <1>3 DEF IndInv, TypeOK, tcp
<1>8. QpInv(s)'
  BY <1>3, <1>7, Side DEF QpInv
<1>9. WorkInv(s)'
  <2>1. Pending(s)' + 1 = Pending(s) /\ Pending(s)' \in Nat
    BY <1>2, <1>7 DEF Pending, One
  <2>2. /\ Pending(s)' + Unpolled(s)' = Pending(s) + Unpolled(s)
        /\ Pending(s)' + Unpolled(s)' + count'[s] = Pending(s) + Unpolled(s) + count[s]
    BY <1>3, <1>6, <1>7, <2>1, Busy
  <2>3. CASE pc[s] \in Greeting
    BY <1>3, <1>4, <1>6, <1>7, <2>2, <2>3, IdsAre, Side DEF WorkInv, Greeting
  <2>4. CASE pc[s] = "data"
    <3>1. s = "client" /\ <<"client", Data, Data>> \in met[s] /\ Greeted(s)
      BY <1>2, <1>3, <2>4, GreetedBy DEF Greeting, Returned
    <3>2. Streams(s)'
      BY <1>7, <3>1 DEF Streams, Greeted
    <3>3. rq'[s] = <<>> /\ Pending(s)' + Unpolled(s)' = 1
      BY <1>7, <2>2, <2>4, <3>1, Side DEF WorkInv
    <3>4. \A w \in Range(cq'[s]) : w.opcode = "SEND"
      BY <1>4, <1>6, <2>4, <3>1, Side DEF WorkInv
    <3> QED
      BY <1>7, <2>4, <3>1, <3>2, <3>3, <3>4 DEF WorkInv, Idle, Fresh, Greeting
  <2> QED
    BY <1>3, <2>3, <2>4
<1>10. MetInv(s)'
  <2>1. <<s, Hello, Hello>> \in met[s]
    <3>1. CASE id = Hello
      BY <1>2, <3>1
    <3>2. CASE pc[s] = "data"
      BY <1>3, <3>2, GreetedBy DEF Greeted, Returned
    <3> QED
      BY <1>3, <3>1, <3>2
  <2>2. MetInv(s)
    BY Side
  <2> QED
    BY <1>7, <2>1, <2>2 DEF MetInv
<1>11. TypeOK'
  BY <1>1, <1>6, <1>7 DEF IndInv, TypeOK, tcp
<1>12. pc[s] \notin Fresh \cup {"reply"} /\ pc'[s] \notin Fresh \cup {"reply"}
  BY <1>3, <1>7, Busy
<1> QED
  BY <1>1, <1>6, <1>7, <1>8, <1>9, <1>10, <1>11, <1>12, WorkStep

LEMMA ExhaustKeeps == ASSUME IndInv, NEW s \in Sides, Exhaust(s) PROVE IndInv'
<1> DEFINE wc    == Completion(sq[s][1], "SEND", "RETRY_EXC_ERR")
           flush == Completion(rq[s][1], "RECV", "WR_FLUSH_ERR")
           q     == IF rq[s] = <<>> THEN Append(cq[s], wc)
                    ELSE Append(Append(cq[s], wc), flush)
<1>1. /\ qp[s] = "RTS" /\ sq[s] # <<>> /\ qp' = [qp EXCEPT ![s] = "ERR"]
      /\ cq' = [cq EXCEPT ![s] =
           cq[s] \o <<wc>>
             \o [i \in DOMAIN rq[s] |-> Completion(rq[s][i], "RECV", "WR_FLUSH_ERR")]]
      /\ sq' = [sq EXCEPT ![s] = <<>>] /\ rq' = [rq EXCEPT ![s] = <<>>]
      /\ arrived' = [arrived EXCEPT ![s] = FALSE] /\ faulty' = [faulty EXCEPT ![s] = TRUE]
      /\ UNCHANGED <<pc, start, tcp, count, met>>
  BY DEF Exhaust
<1>2. /\ pc[s] \notin Idle /\ sq[s][1] \in Ids
      /\ pc[s] \in Greeting => sq[s][1] = Hello
      /\ pc[s] \notin Greeting => pc[s] = "data" /\ s = "client"
  BY <1>1, PostedSend
<1>3. wc \in Completions /\ wc.id = sq[s][1] /\ wc.opcode = "SEND" /\ Fatal(wc)
  BY <1>2, CompletionIs DEF Fatal
<1>4. rq[s] # <<>> =>
        /\ flush \in Completions /\ Fatal(flush)
        /\ pc[s] \in Greeting => flush.id = Hello
        /\ pc[s] # "data"
  <2> SUFFICES ASSUME rq[s] # <<>>
               PROVE  /\ flush \in Completions /\ Fatal(flush)
                      /\ pc[s] \in Greeting => flush.id = Hello
                      /\ pc[s] # "data"
    OBVIOUS
  <2>1. rq[s][1] \in Ids /\ pc[s] \in Greeting => rq[s][1] = Hello
    BY PostedRecv
  <2>2. flush \in Completions /\ flush.id = rq[s][1] /\ Fatal(flush)
    BY PostedRecv, CompletionIs DEF Fatal
  <2>3. pc[s] # "data"
    BY <1>2, Side DEF WorkInv, Greeting
  <2> QED
    BY PostedRecv, <2>2, <2>3
<1>5. cq' = [cq EXCEPT ![s] = q]
  <2>1. cq[s] \in Seq(Completions) /\ rq[s] \in {<<>>, <<Hello>>, <<Data>>}
    BY Side
  <2>2. cq[s] \o <<wc>>
          \o [i \in DOMAIN rq[s] |-> Completion(rq[s][i], "RECV", "WR_FLUSH_ERR")] = q
    BY <1>3, <2>1, Exhausted
  <2> QED
    BY <1>1, <2>2
<1> HIDE DEF wc, flush
<1>6. /\ q \in Seq(Completions)
      /\ Len(q) = Unpolled(s) + (IF rq[s] = <<>> THEN 1 ELSE 2)
      /\ Range(q) = IF rq[s] = <<>> THEN Range(cq[s]) \cup {wc}
                    ELSE Range(cq[s]) \cup {wc} \cup {flush}
  <2>1. /\ Append(cq[s], wc) \in Seq(Completions)
        /\ Len(Append(cq[s], wc)) = Unpolled(s) + 1
        /\ Range(Append(cq[s], wc)) = Range(cq[s]) \cup {wc}
    BY <1>3, Side, Completed DEF Unpolled
  <2>2. CASE rq[s] = <<>>
    BY <2>1, <2>2
  <2>3. CASE rq[s] # <<>>
    <3>1. /\ q \in Seq(Completions)
          /\ Len(q) = Len(Append(cq[s], wc)) + 1
          /\ Range(q) = Range(Append(cq[s], wc)) \cup {flush}
      BY <1>4, <2>1, <2>3, Completed
    <3> QED
      BY <2>1, <2>3, <3>1, Side
  <2> QED
    BY <2>2, <2>3
<1> HIDE DEF q
<1>7. /\ cq'[s] = q /\ pc'[s] = pc[s] /\ sq'[s] = <<>> /\ rq'[s] = <<>> /\ ~ arrived'[s]
      /\ qp'[s] = "ERR" /\ dest'[s] = dest[s] /\ met'[s] = met[s] /\ count'[s] = count[s]
      /\ \A t \in Sides \ {s} :
           /\ qp'[t] = qp[t] /\ sq'[t] = sq[t] /\ rq'[t] = rq[t]
           /\ cq'[t] = cq[t] /\ arrived'[t] = arrived[t]
  BY <1>1, <1>5 DEF IndInv, TypeOK, tcp
<1>8. /\ Pending(s) = IF rq[s] = <<>> THEN 1 ELSE 2
      /\ Pending(s)' = 0 /\ Unpolled(s)' = Unpolled(s) + Pending(s)
  <2>1. Pending(s) = IF rq[s] = <<>> THEN 1 ELSE 2
    BY <1>1 DEF Pending, One
  <2>2. Pending(s)' = 0
    BY <1>7 DEF Pending, One
  <2>3. Unpolled(s)' = Len(q)
    BY <1>7 DEF Unpolled
  <2> QED
    BY <1>6, <2>1, <2>2, <2>3
<1>9. Unpolled(s)' <= 2
  <2>1. Pending(s) # 0
    BY <1>8
  <2> QED
    BY <1>8, <2>1, Room
<1>10. QpInv(s)'
  BY <1>2, <1>7, Side DEF QpInv, Idle, Fresh, Greeting, Returned
<1>11. WorkInv(s)'
  <2>1. /\ Pending(s)' + Unpolled(s)' = Pending(s) + Unpolled(s)
        /\ Pending(s)' + Unpolled(s)' + count'[s] = Pending(s) + Unpolled(s) + count[s]
    BY <1>2, <1>7, <1>8, Busy
  <2>2. CASE pc[s] \in Greeting
    <3>1. \A w \in Range(cq'[s]) : w.id = Hello
      BY <1>2, <1>3, <1>4, <1>6, <1>7, <2>2, Side DEF WorkInv
    <3> QED
      BY <1>2, <1>7, <2>1, <2>2, <3>1, Side DEF WorkInv, Greeting
  <2>3. CASE pc[s] = "data"
    <3>1. s = "client" /\ rq[s] = <<>>
      BY <1>2, <1>4, <2>3 DEF Greeting
    <3>2. \A w \in Range(cq'[s]) : w.opcode = "SEND" /\ (~ Fatal(w) => Streams(s))
      BY <1>3, <1>6, <1>7, <2>3, <3>1, Side DEF WorkInv
    <3>3. Pending(s)' + Unpolled(s)' = 1
      BY <2>1, <2>3, Side DEF WorkInv
    <3>4. Streams(s)' <=> Streams(s)
      BY <1>7 DEF Streams, Greeted
    <3> HIDE DEF q
    <3>5. \A w \in Range(cq'[s]) : ~ Fatal(w) => Streams(s)'
      BY <3>2, <3>4
    <3> QED
      BY <1>7, <2>3, <3>1, <3>2, <3>3, <3>5 DEF WorkInv, Idle, Fresh, Greeting
  <2> QED
    BY <1>2, <2>2, <2>3
<1>12. MetInv(s)'
  <2>1. /\ \A m \in met[s] : m[2] = m[3]
        /\ pc[s] = "await" => <<Peer(s), Hello, Hello>> \notin met[s]
    BY Side DEF MetInv
  <2>2. <<Hello>> # <<>>
    OBVIOUS
  <2> QED
    BY <1>7, <2>1, <2>2 DEF MetInv
<1>13. TypeOK'
  <2>1. cq' \in [Sides -> Seq(Completions)]
    BY <1>5, <1>6 DEF IndInv, TypeOK
  <2>2. \A t \in Sides : Unpolled(t)' <= 2
    <3>1. ASSUME NEW t \in Sides \ {s} PROVE Unpolled(t)' <= 2
      BY <1>7, Side DEF Unpolled
    <3> QED
      BY <1>9, <3>1
  <2> QED
    BY <1>1, <2>1, <2>2 DEF IndInv, TypeOK, tcp
<1>14. pc[s] \notin Fresh \cup {"reply"} /\ pc'[s] \notin Fresh \cup {"reply"}
  BY <1>2, <1>7, Busy
<1> QED
  BY <1>1, <1>7, <1>10, <1>11, <1>12, <1>13, <1>14, WorkStep

\* Two sides that reach each other have met the same, so a greeting meets the
\* receive of a greeting, and data that of data.
LEMMA Meets ==
  ASSUME IndInv, NEW s \in Sides, Deliver(s)
  PROVE  /\ Linked /\ met[Peer(s)] = met[s] /\ dest[Peer(s)] = start[s]
         /\ dest[s] = start[Peer(s)] /\ sq[s][1] = rq[Peer(s)][1]
         /\ pc[s] \notin Idle /\ pc[Peer(s)] \notin Idle \cup {"await"}
         /\ qp[Peer(s)] = "RTS"
<1> DEFINE p == Peer(s)
<1>1. /\ p \in Sides /\ Peer(p) = s /\ sq[s] # <<>> /\ ~ arrived[s] /\ rq[p] # <<>>
      /\ qp[s] = "RTS" /\ Runs(p, dest[s]) /\ dest[p] = start[s]
  BY SidesAre DEF Deliver, Reaches
<1>2. /\ pc[s] \notin Idle /\ sq[s][1] \in Ids /\ sq[s] = <<sq[s][1]>>
      /\ pc[s] \in Greeting => sq[s][1] = Hello
      /\ pc[s] \notin Greeting => pc[s] = "data" /\ sq[s][1] = Data
  BY <1>1, PostedSend
<1>3. /\ pc[p] \notin Idle \cup {"await"} /\ qp[p] = "RTS"
      /\ rq[p][1] \in Ids /\ rq[p] = <<rq[p][1]>>
      /\ pc[p] \in Greeting => rq[p][1] = Hello
      /\ pc[p] \notin Greeting => pc[p] = "data" /\ rq[p][1] = Data
  BY <1>1, PostedRecv
<1>4. Linked /\ dest[s] = start[p]
  <2>1. Runs(s, dest[p])
    BY <1>1, <1>2 DEF Runs, Up, Idle, Fresh
  <2>2. \A t \in Sides : t = s \/ t = p
    BY SidesAre
  <2> QED
    BY <1>1, <2>1, <2>2 DEF Linked, Runs
<1>5. met[p] = met[s]
  <2>1. met["client"] = met["server"]
    BY <1>4 DEF IndInv, PeerInv
  <2> QED
    BY <2>1, SidesAre
<1>6. ~ (sq[s][1] = Hello /\ rq[p][1] = Data)
  <2> SUFFICES ASSUME sq[s][1] = Hello, rq[p][1] = Data PROVE FALSE
    OBVIOUS
  <2>1. sq[s] = <<Hello>> /\ pc[p] = "data"
    BY <1>2, <1>3, IdsAre
  <2>2. Greeted(p)
    BY <1>1, <1>3, <2>1, GreetedBy DEF Returned
  <2>3. <<s, Hello, Hello>> \notin met[s]
    BY <1>1, <2>1, Side DEF MetInv
  <2> QED
    BY <1>5, <2>2, <2>3 DEF Greeted
<1>7. ~ (sq[s][1] = Data /\ rq[p][1] = Hello)
  <2> SUFFICES ASSUME sq[s][1] = Data, rq[p][1] = Hello PROVE FALSE
    OBVIOUS
  <2>1. rq[p] = <<Hello>> /\ pc[s] = "data"
    BY <1>2, <1>3, IdsAre
  <2>2. Greeted(s)
    BY <1>1, <2>1, GreetedBy DEF Returned
  <2>3. <<s, Hello, Hello>> \notin met[p]
    BY <1>1, <2>1, Side DEF MetInv
  <2> QED
    BY <1>5, <2>2, <2>3 DEF Greeted
<1> QED
  BY <1>1, <1>2, <1>3, <1>4, <1>5, <1>6, <1>7 DEF Ids

LEMMA DeliverKeeps == ASSUME IndInv, NEW s \in Sides, Deliver(s) PROVE IndInv'
<1> DEFINE p  == Peer(s)
           id == sq[s][1]
           wc == Completion(id, "RECV", "SUCCESS")
           m  == <<s, id, id>>
<1>1. /\ p \in Sides /\ p # s /\ Peer(p) = s /\ \A t \in Sides : t = s \/ t = p
      /\ sq[s] # <<>> /\ ~ arrived[s] /\ rq[p] # <<>> /\ qp[s] = "RTS"
      /\ Linked /\ met[p] = met[s] /\ dest[p] = start[s] /\ dest[s] = start[p]
      /\ rq[p][1] = id /\ pc[s] \notin Idle /\ pc[p] \notin Idle \cup {"await"}
      /\ qp[p] = "RTS"
  BY SidesAre, Meets DEF Deliver, Reaches
<1>2. /\ arrived' = [arrived EXCEPT ![s] = TRUE]
      /\ met' = [t \in Sides |-> met[t] \cup {m}]
      /\ cq' = [cq EXCEPT ![p] = Append(cq[p], wc)]
      /\ rq' = [rq EXCEPT ![p] = Tail(rq[p])]
      /\ UNCHANGED <<pc, start, tcp, qp, sq, count, faulty>>
  BY <1>1 DEF Deliver
<1>3. id \in Ids /\ sq[s] = <<id>>
  BY <1>1, PostedSend
<1>4. /\ Tail(rq[p]) = <<>> /\ rq[p] = <<id>>
      /\ pc[p] \in Greeting => id = Hello
      /\ pc[p] \notin Greeting => pc[p] = "data" /\ id = Data /\ p = "server"
  BY <1>1, PostedRecv
<1>5. wc \in Completions /\ wc.id = id /\ wc.opcode = "RECV"
  BY <1>3, CompletionIs
<1> HIDE DEF wc, id
<1>6. Pending(p) # 0 /\ Unpolled(p) <= 1
  <2>1. Pending(p) # 0
    BY <1>1, Side DEF Pending, One
  <2> QED
    BY <1>1, <2>1, Room
<1>7. /\ cq' \in [Sides -> Seq(Completions)] /\ \A t \in Sides : Unpolled(t)' <= 2
      /\ Unpolled(p)' = Unpolled(p) + 1 /\ Range(cq'[p]) = Range(cq[p]) \cup {wc}
      /\ cq'[s] = cq[s]
  BY <1>1, <1>2, <1>5, <1>6, Completes
<1>8. /\ met'[s] = met[s] \cup {m} /\ met'[p] = met[p] \cup {m}
      /\ met' \in [Sides -> SUBSET (Sides \X Ids \X Ids)]
      /\ arrived'[s] /\ arrived'[p] = arrived[p] /\ rq'[s] = rq[s] /\ rq'[p] = <<>>
      /\ rq' \in [Sides -> {<<>>, <<Hello>>, <<Data>>}]
      /\ UNCHANGED <<pc, dest, qp, sq, count>>
  <2>1. m \in Sides \X Ids \X Ids
    BY <1>3
  <2> HIDE DEF m
  <2>2. met' \in [Sides -> SUBSET (Sides \X Ids \X Ids)]
    BY <1>2, <2>1 DEF IndInv, TypeOK
  <2> QED
    BY <1>1, <1>2, <1>4, <2>2 DEF IndInv, TypeOK, tcp
<1>9. TypeOK'
  <2> HIDE DEF m
  <2> QED
    BY <1>2, <1>7, <1>8 DEF IndInv, TypeOK, tcp
<1>10. m[1] = s /\ m[2] = id /\ m[3] = id
  OBVIOUS
<1>11. <<p, Hello, Hello>> # m
  BY <1>1
<1>12. id = Hello => m = <<s, Hello, Hello>>
  OBVIOUS
<1>13. id = Data => m = <<s, Data, Data>>
  OBVIOUS
<1> HIDE DEF m
<1>14. SideInv(s)'
  <2>1. QpInv(s)'
    BY <1>1, <1>8, Side DEF QpInv
  <2>2. Streams(s) => Streams(s)'
    BY <1>8 DEF Streams, Greeted
  <2>3. Pending(s)' = Pending(s) /\ Unpolled(s)' = Unpolled(s)
    BY <1>7, <1>8 DEF Pending, Unpolled
  <2>4. WorkInv(s)'
    BY <1>1, <1>7, <1>8, <2>2, <2>3, Side DEF WorkInv, Fatal
  <2>5. MetInv(s)'
    <3>1. \A n \in met'[s] : n[2] = n[3]
      BY <1>8, <1>10, Side DEF MetInv
    <3>2. <<s, sq'[s][1], sq'[s][1]>> \in met'[s]
      BY <1>8 DEF m, id
    <3>3. pc'[s] = "await" \/ rq'[s] = <<Hello>> => <<p, Hello, Hello>> \notin met'[s]
      BY <1>8, <1>11, Side DEF MetInv
    <3>4. pc[s] \in Greeting \cup Returned =>
            /\ sq'[s] # <<Hello>> => <<s, Hello, Hello>> \in met'[s]
            /\ pc'[s] # "await" /\ rq'[s] # <<Hello>> => <<p, Hello, Hello>> \in met'[s]
      BY <1>1, <1>8, Side DEF MetInv
    <3> QED
      BY <1>8, <3>1, <3>2, <3>3, <3>4 DEF MetInv
  <2> QED
    BY <2>1, <2>4, <2>5 DEF SideInv
<1>15. SideInv(p)'
  <2>1. QpInv(p)'
    BY <1>1, <1>8, Side DEF QpInv
  <2>2. Pending(p)' + 1 = Pending(p) /\ Pending(p)' \in Nat
    BY <1>1, <1>8 DEF Pending, One
  <2>3. /\ Pending(p)' + Unpolled(p)' = Pending(p) + Unpolled(p)
        /\ Pending(p)' + Unpolled(p)' + count'[p] = Pending(p) + Unpolled(p) + count[p]
    BY <1>1, <1>7, <1>8, <2>2, Busy
  <2>4. WorkInv(p)'
    <3>1. CASE pc[p] \in Greeting
      <4>1. \A w \in Range(cq'[p]) : w.id = Hello
        BY <1>1, <1>4, <1>5, <1>7, <3>1, Side DEF WorkInv
      <4> QED
        BY <1>1, <1>8, <2>3, <3>1, <4>1, Side DEF WorkInv, Greeting
    <3>2. CASE pc[p] = "data"
      <4>1. p = "server" /\ s = "client" /\ id = Data
        BY <1>4, <3>2, SidesAre DEF Greeting
      <4>2. Streams(p)'
        <5>1. Greeted(p)
          BY <1>1, <3>2, GreetedBy DEF Returned
        <5> QED
          BY <1>8, <1>13, <4>1, <5>1 DEF Streams, Greeted
      <4>3. \A w \in Range(cq'[p]) : w.opcode = "RECV"
        BY <1>1, <1>5, <1>7, <3>2, <4>1, Side DEF WorkInv
      <4>4. Pending(p)' + Unpolled(p)' = 1
        BY <1>1, <2>3, <3>2, Side DEF WorkInv
      <4>5. sq'[p] = <<>>
        BY <1>1, <1>8, <3>2, <4>1, Side DEF WorkInv
      <4> QED
        BY <1>8, <3>2, <4>1, <4>2, <4>3, <4>4, <4>5 DEF WorkInv, Idle, Fresh, Greeting
    <3> QED
      BY <1>4, <3>1, <3>2
  <2>5. MetInv(p)'
    <3>1. \A n \in met'[p] : n[2] = n[3]
      <4>1. \A n \in met[p] : n[2] = n[3]
        BY <1>1, Side DEF MetInv
      <4> QED
        BY <1>8, <1>10, <4>1
    <3>2. /\ arrived[p] => <<p, sq[p][1], sq[p][1]>> \in met'[p]
          /\ sq[p] = <<Hello>> /\ ~ arrived[p] => <<p, Hello, Hello>> \notin met'[p]
      BY <1>1, <1>8, <1>11, Side DEF MetInv
    <3>3. pc[p] # "await" /\ rq'[p] # <<Hello>>
      BY <1>1, <1>8
    <3>4. <<s, Hello, Hello>> \in met'[p]
      <4>1. CASE pc[p] \in Greeting
        BY <1>4, <1>8, <1>12, <4>1
      <4>2. CASE pc[p] = "data"
        BY <1>1, <1>8, <4>2, GreetedBy DEF Returned, Greeted
      <4> QED
        BY <1>4, <4>1, <4>2
    <3>5. pc[p] \in Greeting \cup Returned /\ sq[p] # <<Hello>> =>
            <<p, Hello, Hello>> \in met'[p]
      BY <1>1, <1>8, Side DEF MetInv
    <3> QED
      BY <1>1, <1>8, <3>1, <3>2, <3>3, <3>4, <3>5 DEF MetInv
  <2> QED
    BY <2>1, <2>4, <2>5 DEF SideInv
<1>16. TcpInv'
  BY <1>2, <1>8, TcpKeeps
<1>17. PeerInv'
  <2>1. \A t \in Sides : met'[t] = met[t] \cup {m} /\ dest'[Peer(t)] = start'[t]
    BY <1>1, <1>2, <1>8 DEF tcp
  <2>2. met'["client"] = met'["server"]
    BY <1>1, <1>8, SidesAre
  <2>3. dest'["server"] = start'["client"]
    BY <2>1, SidesAre
  <2> QED
    BY <2>1, <2>2, <2>3 DEF PeerInv
<1> QED
  BY <1>1, <1>9, <1>14, <1>15, <1>16, <1>17 DEF IndInv
------------------------------------------------------------------------------
(* The theorems.                                                           *)

LEMMA StutterKeeps == ASSUME IndInv, UNCHANGED vars PROVE IndInv'
<1>1. UNCHANGED <<pc, start, tcp, qp, work, count, met, faulty>>
  BY DEF vars
<1>2. TypeOK'
  BY <1>1 DEF IndInv, TypeOK, tcp, work, Unpolled
<1>3. ASSUME NEW s \in Sides PROVE SideInv(s)'
  BY <1>1, SideKeeps DEF IndInv, tcp, work
<1>4. TcpInv'
  BY <1>1, TcpKeeps DEF tcp
<1>5. PeerInv'
  BY <1>1, PeersKeep DEF tcp
<1> QED
  BY <1>2, <1>3, <1>4, <1>5 DEF IndInv

LEMMA ReadsKeeps == ASSUME IndInv, NEW s \in Sides, ReadsInfo(s) PROVE IndInv'
<1>1. CASE Panics(s)
  BY <1>1, EndsKeeps DEF Panics, IndInv, TypeOK
<1>2. CASE ~ Panics(s)
  BY <1>2, ReadsInfoKeeps DEF ReadsInfo, Goto, exchange
<1> QED
  BY <1>1, <1>2

LEMMA NextKeeps == ASSUME IndInv, [Next]_vars PROVE IndInv'
<1>1. CASE Server
  BY <1>1, BindsKeeps, AcceptsKeeps, RepliesKeeps DEF Server
<1>2. CASE Client
  BY <1>2, ConnectRetryKeeps, WritesInfoKeeps DEF Client
<1>3. ASSUME NEW s \in Sides, Both(s) PROVE IndInv'
  BY <1>3, SetsUpKeeps, ReadsKeeps, ModifiesQpKeeps, HandshakeSendsKeeps,
     HandshakeReceivesKeeps, HandshakePollsKeeps, PostsDataKeeps, PollsDataKeeps DEF Both
<1>4. ASSUME NEW s \in Sides, Transport(s) PROVE IndInv'
  BY <1>4, DeliverKeeps, AcknowledgeKeeps, ExhaustKeeps DEF Transport
<1>5. ASSUME NEW s \in Sides, Dies(s) PROVE IndInv'
  BY <1>5, EndsKeeps DEF Dies, IndInv, TypeOK
<1>6. ASSUME NEW s \in Sides, Restarts(s) PROVE IndInv'
  BY <1>6, RestartsKeeps
<1>7. CASE UNCHANGED vars
  BY <1>7, StutterKeeps
<1> QED
  BY <1>1, <1>2, <1>3, <1>4, <1>5, <1>6, <1>7 DEF Next

(* The inductive invariant holds at every step, for any number of starts   *)
(* of either side (setup_ib to the first poll of the adapters' loops).     *)
THEOREM Invariance == Spec => []IndInv
<1>1. Init => IndInv
  BY InitIndInv
<1>2. IndInv /\ [Next]_vars => IndInv'
  BY NextKeeps
<1> QED
  BY <1>1, <1>2, PTL DEF Spec

(* No side streams over a connection on which the greetings did not        *)
(* arrive, and both ends of a stream are the starts that greeted each      *)
(* other, whatever the earlier starts have left (handshake, 'polling).     *)
THEOREM GreetedStream == Spec => []StreamingMeansGreeted
<1>1. ASSUME IndInv PROVE StreamingMeansGreeted
  <2>1. ASSUME NEW s \in Sides, pc[s] \in Returned, qp[s] # "ERR" PROVE Greeted(s)
    <3>1. pc[s] \notin Idle
      BY <2>1 DEF Idle, Fresh, Returned
    <3>2. qp[s] = "RTS"
      BY <1>1, <2>1, <3>1, Busy
    <3> QED
      BY <1>1, <2>1, <3>2, GreetedBy
  <2>2. ASSUME NEW s \in Sides, pc[s] = "streaming" PROVE Streams(s)
    BY <1>1, <2>2, Side DEF WorkInv
  <2>3. ASSUME \A s \in Sides : pc[s] = "streaming"
        PROVE  \A s \in Sides : dest[s] = start[Peer(s)]
    <3>1. met["server"] # {}
      BY <2>2, <2>3, SidesAre DEF Streams
    <3>2. reply[start["client"]] # None
      BY <1>1, <2>3, SidesAre DEF IndInv, TcpInv, Fresh
    <3>3. dest["server"] = start["client"]
      BY <1>1, <3>1, <3>2 DEF IndInv, PeerInv
    <3>4. Runs("client", dest["server"])
      BY <2>3, <3>3, SidesAre DEF Runs, Up
    <3>5. dest["client"] = start["server"]
      BY <1>1, <3>1, <3>4, SidesAre DEF IndInv, PeerInv
    <3> QED
      BY <3>3, <3>5, SidesAre
  <2> QED
    BY <2>1, <2>2, <2>3 DEF StreamingMeansGreeted, Streams
<1>2. IndInv => StreamingMeansGreeted
  BY <1>1
<1> QED
  BY <1>2, Invariance, PTL

(* When handshake returns, the card has nothing of it any more: a greeting *)
(* never meets a receive of the stream, nor data one of the handshake, and *)
(* the first completion of the adapters' loop is that of their message.    *)
THEOREM NothingLeft == Spec => []HandshakeLeavesNothing
<1>1. ASSUME IndInv, NEW s \in Sides
      PROVE  /\ pc[s] \in Returned => ~ Contains(sq[s], Hello) /\ ~ Contains(rq[s], Hello)
             /\ \A m \in met[s] : m[2] = m[3]
             /\ pc[s] = "streaming" => <<"client", Data, Data>> \in met[s]
  <2>1. \A q \in {<<>>, <<Data>>} : ~ Contains(q, Hello)
    BY IdsAre DEF Contains
  <2>2. CASE pc[s] = "data"
    <3>1. sq[s] # <<Hello>> /\ rq[s] # <<Hello>>
      BY <1>1, <2>2, Side DEF WorkInv
    <3>2. sq[s] \in {<<>>, <<Data>>} /\ rq[s] \in {<<>>, <<Data>>}
      BY <1>1, <3>1, Side
    <3> QED
      BY <1>1, <2>1, <2>2, <3>2, Side DEF MetInv
  <2>3. CASE pc[s] \in {"connected", "streaming"}
    <3>1. sq[s] = <<>> /\ rq[s] = <<>>
      BY <1>1, <2>3, Side DEF WorkInv
    <3>2. pc[s] = "streaming" => Streams(s)
      BY <1>1, Side DEF WorkInv
    <3> QED
      BY <1>1, <2>1, <3>1, <3>2, Side DEF MetInv, Streams
  <2>4. CASE pc[s] \notin Returned
    BY <1>1, <2>4, Side DEF MetInv, Returned
  <2> QED
    BY <2>2, <2>3, <2>4 DEF Returned
<1>2. IndInv => HandshakeLeavesNothing
  BY <1>1 DEF HandshakeLeavesNothing
<1> QED
  BY <1>2, Invariance, PTL
------------------------------------------------------------------------------
(* Nobody waits for somebody who waits.                                    *)

\* A step of a side beyond the exchange over TCP, or of the cards.
LEMMA AskStays ==
  ASSUME IndInv, AskInv, UNCHANGED <<start, tcp>>,
         \A s \in Sides : \/ pc'[s] = pc[s]
                          \/ /\ pc[s] \notin Fresh \cup {"reply"}
                             /\ pc'[s] \notin Fresh \cup {"reply"}
  PROVE  AskInv'
<1>1. UNCHANGED <<start, backlog, stream, written, reply>>
  BY DEF tcp
<1>2. "client" \in Sides /\ "server" \in Sides
  BY SidesAre
<1> QED
  BY <1>1, <1>2 DEF AskInv, Fresh

LEMMA AskExchange ==
  ASSUME IndInv, AskInv, NEW s \in Sides,
         SetsUp(s) \/ Binds \/ Accepts \/ ConnectRetry \/ WritesInfo \/ Replies
  PROVE  AskInv'
<1> USE DEF AskInv, Fresh
<1>0. /\ "client" \in Sides /\ "server" \in Sides /\ DOMAIN pc = Sides
      /\ start["client"] \in Starts /\ start["client"] # None /\ start["server"] # None
      /\ reply \in [Starts -> Starts \cup {None}] /\ backlog \in Seq(Starts)
      /\ stream \in Starts \cup {None}
  BY SidesAre, Numbers DEF IndInv, TypeOK
<1>1. CASE SetsUp(s)
  <2>1. UNCHANGED <<start, backlog, stream, written, reply>> /\ pc[s] = "setup"
        /\ pc' = [pc EXCEPT ![s] = IF s = "server" THEN "bind" ELSE "connect"]
    BY <1>1 DEF SetsUp, Goto, tcp
  <2> QED
    BY <1>0, <2>1, SidesAre
<1>2. CASE Binds
  <2>1. UNCHANGED <<start, backlog, stream, written, reply>> /\ pc["server"] = "bind"
        /\ pc' = [pc EXCEPT !["server"] = "accept"]
    BY <1>2 DEF Binds, Goto, tcp, exchange
  <2> QED
    BY <1>0, <2>1
<1>3. CASE Accepts
  <2>1. UNCHANGED <<start, written, reply>> /\ backlog # <<>>
        /\ stream' = Head(backlog) /\ backlog' = Tail(backlog)
        /\ pc' = [pc EXCEPT !["server"] = "read"]
    BY <1>3 DEF Accepts, Goto, exchange
  <2>2. /\ stream' = backlog[1] /\ 1 \in 1 .. Len(backlog)
        /\ \A i \in 1 .. Len(backlog') : i + 1 \in 1 .. Len(backlog) /\ backlog'[i] = backlog[i + 1]
    BY <1>0, <2>1
  <2> QED
    BY <1>0, <2>1, <2>2
<1>4. CASE ConnectRetry
  <2>1. /\ UNCHANGED <<start, stream, written, reply>>
        /\ \/ pc' = [pc EXCEPT !["client"] = "write"]
           \/ pc' = [pc EXCEPT !["client"] = "connect"] /\ backlog' = backlog
        /\ pc["client"] = "connect"
    BY <1>4 DEF ConnectRetry, Goto, OnRefusal, exchange
  <2> QED
    BY <1>0, <2>1
<1>5. CASE WritesInfo
  <2>1. /\ UNCHANGED <<start, backlog, stream, reply>>
        /\ written' = written \cup {start["client"]}
        /\ pc' = [pc EXCEPT !["client"] = "read"]
    BY <1>5 DEF WritesInfo, Goto, exchange
  <2> QED
    BY <1>0, <2>1
<1>6. CASE Replies
  <2>1. /\ UNCHANGED <<start, backlog, stream, written>> /\ pc["server"] = "reply"
        /\ reply' = [reply EXCEPT ![stream] = start["server"]]
        /\ pc' = [pc EXCEPT !["server"] = "modify"]
    BY <1>6 DEF Replies, Goto, exchange
  <2>2. stream \in Starts
    BY <1>0, <2>1 DEF IndInv, TcpInv
  <2>3. stream # None /\ reply'[stream] # None
    BY <1>0, <2>1, <2>2, StartsAre
  <2>4. pc'["client"] = pc["client"] /\ pc'["server"] = "modify"
    BY <1>0, <2>1
  <2> QED
    BY <2>1, <2>3, <2>4
<1> QED
  BY <1>1, <1>2, <1>3, <1>4, <1>5, <1>6

LEMMA AskReads ==
  ASSUME IndInv, AskInv, NEW s \in Sides, ReadsInfo(s), ~ Panics(s)
  PROVE  AskInv'
<1>1. /\ pc[s] = "read" /\ UNCHANGED <<start, backlog, stream, written, reply>>
      /\ pc' = [pc EXCEPT ![s] = IF s = "client" THEN "modify" ELSE "reply"]
  BY DEF ReadsInfo, Goto, exchange
<1>2. "client" \in Sides /\ "server" \in Sides /\ DOMAIN pc = Sides
  BY SidesAre DEF IndInv, TypeOK
<1> QED
  BY <1>1, <1>2, SidesAre DEF AskInv, Fresh

LEMMA AskEnds ==
  ASSUME IndInv, AskInv, NEW s \in Sides, Ends(s)
  PROVE  AskInv'
<1>1. /\ pc' = [pc EXCEPT ![s] = "gone"] /\ UNCHANGED <<start, written, reply>>
      /\ IF s = "server" THEN backlog' = <<>> /\ stream' = None
                         ELSE UNCHANGED <<backlog, stream>>
  BY DEF Ends, Goto
<1>2. /\ "client" \in Sides /\ "server" \in Sides /\ DOMAIN pc = Sides
      /\ start["client"] # None
  BY SidesAre, Numbers DEF IndInv, TypeOK
<1>3. CASE s = "server"
  BY <1>1, <1>2, <1>3 DEF AskInv, Fresh
<1>4. CASE s = "client"
  BY <1>1, <1>2, <1>4 DEF AskInv, Fresh
<1> QED
  BY <1>3, <1>4, SidesAre

LEMMA AskRestarts ==
  ASSUME IndInv, AskInv, NEW s \in Sides, Restarts(s)
  PROVE  AskInv'
<1>1. /\ pc[s] = "gone" /\ pc' = [pc EXCEPT ![s] = "setup"]
      /\ start' = [start EXCEPT ![s] = start[s] + 1]
      /\ UNCHANGED <<backlog, stream, written, reply>>
  BY DEF Restarts, Goto, Up, tcp
<1>2. /\ "client" \in Sides /\ "server" \in Sides /\ DOMAIN pc = Sides
      /\ DOMAIN start = Sides /\ start["client"] \in Nat
      /\ stream \in Nat /\ backlog \in Seq(Starts) /\ Starts \subseteq Nat
      /\ stream <= start["client"]
      /\ \A i \in 1 .. Len(backlog) : backlog[i] <= start["client"]
  BY SidesAre, StartsAre, Numbers DEF IndInv, TypeOK, TcpInv
<1>3. CASE s = "server"
  BY <1>1, <1>2, <1>3 DEF AskInv, Fresh
<1>4. CASE s = "client"
  <2>1. /\ pc'["client"] = "setup" /\ pc'["server"] = pc["server"]
        /\ start'["client"] = start["client"] + 1
    BY <1>1, <1>2, <1>4
  <2>2. ASSUME NEW i \in 1 .. Len(backlog) PROVE backlog[i] \in Nat
    BY <1>2, ElementOfSeq
  <2>3. stream # start'["client"] /\ \A i \in 1 .. Len(backlog) : backlog[i] # start'["client"]
    BY <1>2, <2>1, <2>2
  <2> QED
    BY <1>1, <2>1, <2>3 DEF AskInv, Fresh
<1> QED
  BY <1>3, <1>4, SidesAre

LEMMA AskKeeps ==
  ASSUME IndInv, AskInv, [Next]_vars
  PROVE  AskInv'
<1>0. DOMAIN pc = Sides
  BY DEF IndInv, TypeOK
<1>1. CASE Server \/ Client
  BY <1>1, AskExchange, SidesAre DEF Server, Client
<1>2. ASSUME NEW s \in Sides, Both(s) PROVE AskInv'
  <2>1. CASE SetsUp(s)
    BY <2>1, AskExchange
  <2>2. CASE ReadsInfo(s)
    BY <2>2, AskReads, AskEnds DEF Panics
  <2>3. CASE ModifiesQp(s) \/ HandshakeSends(s) \/ HandshakeReceives(s) \/ PostsData(s)
             \/ HandshakePolls(s)
    <3>1. /\ UNCHANGED <<start, tcp>> /\ pc[s] \notin Fresh \cup {"reply"}
          /\ \/ pc' = [pc EXCEPT ![s] = "hello"] \/ pc' = [pc EXCEPT ![s] = "modify"]
             \/ pc' = [pc EXCEPT ![s] = "await"] \/ pc' = [pc EXCEPT ![s] = "handshake"]
             \/ pc' = [pc EXCEPT ![s] = "data"] \/ pc' = [pc EXCEPT ![s] = "connected"]
      BY <2>3 DEF ModifiesQp, HandshakeSends, HandshakeReceives, PostsData, HandshakePolls,
                  Goto, handshake, Fresh
    <3> QED
      BY <1>0, <3>1, AskStays DEF Fresh
  <2>4. CASE PollsData(s)
    <3>1. CASE Panics(s)
      BY <3>1, AskEnds DEF Panics
    <3>2. CASE ~ Panics(s)
      <4>1. /\ UNCHANGED <<start, tcp>> /\ pc[s] \notin Fresh \cup {"reply"}
            /\ \/ pc' = [pc EXCEPT ![s] = "streaming"] \/ pc' = [pc EXCEPT ![s] = "data"]
        BY <2>4, <3>2 DEF PollsData, Goto, handshake, Fresh
      <4> QED
        BY <1>0, <4>1, AskStays DEF Fresh
    <3> QED
      BY <3>1, <3>2
  <2> QED
    BY <1>2, <2>1, <2>2, <2>3, <2>4 DEF Both
<1>3. ASSUME NEW s \in Sides, Transport(s) PROVE AskInv'
  <2>1. UNCHANGED <<pc, start, tcp>>
    BY <1>3 DEF Transport, Deliver, Acknowledge, Exhaust
  <2> QED
    BY <2>1, AskStays
<1>4. UNCHANGED vars => AskInv'
  BY AskStays DEF vars
<1> QED
  BY <1>1, <1>2, <1>3, <1>4, AskEnds, AskRestarts DEF Next, Dies

\* What one side does before it has posted its first message, or after, without
\* meeting anybody.
LEMMA UnusedStays ==
  ASSUME IndInv, UnusedInv, UNCHANGED met,
         \A s \in Sides : \/ pc[s] \notin {"data", "streaming"}
                          \/ pc'[s] \in {"data", "streaming"},
         \/ pc["client"] \notin {"data", "streaming"}
         \/ sq'["client"] # <<Data>>
         \/ UNCHANGED <<sq["client"], arrived["client"]>>,
         \/ pc["server"] \notin {"data", "streaming"}
         \/ rq'["server"] # <<Data>>
         \/ UNCHANGED rq["server"]
  PROVE  UnusedInv'
BY SidesAre DEF UnusedInv

LEMMA UnusedDelivers ==
  ASSUME IndInv, UnusedInv, NEW s \in Sides, Deliver(s)
  PROVE  UnusedInv'
<1> DEFINE first == <<"client", Data, Data>>
           m == <<s, sq[s][1], rq[Peer(s)][1]>>
<1>1. /\ UNCHANGED <<pc, sq>> /\ arrived' = [arrived EXCEPT ![s] = TRUE]
      /\ sq[s] # <<>> /\ rq[Peer(s)] # <<>>
      /\ met' = [t \in Sides |-> met[t] \cup {m}]
      /\ rq' = [rq EXCEPT ![Peer(s)] = Tail(rq[Peer(s)])]
  BY DEF Deliver
<1>2. /\ "client" \in Sides /\ "server" \in Sides /\ Peer("client") = "server"
      /\ Peer("server") = "client" /\ DOMAIN rq = Sides /\ DOMAIN arrived = Sides
  BY SidesAre DEF IndInv, TypeOK
<1>3. CASE s = "server"
  <2>1. m # first
    BY <1>3
  <2>2. /\ met'["client"] = met["client"] \cup {m} /\ met'["server"] = met["server"] \cup {m}
        /\ rq'["server"] = rq["server"] /\ arrived'["client"] = arrived["client"]
    BY <1>1, <1>2, <1>3
  <2>3. \A t \in Sides : first \in met'[t] => first \in met[t]
    BY <1>2, <2>1, <2>2, SidesAre
  <2> QED
    BY <1>1, <1>2, <2>2, <2>3 DEF UnusedInv
<1>4. CASE s = "client"
  <2>1. sq[s][1] = rq[Peer(s)][1] /\ sq[s][1] \in Ids
    BY Meets, <1>1, PostedSend
  <2>2. CASE sq[s][1] = Hello
    <3>1. m # first
      BY <2>1, <2>2, IdsAre
    <3>2. sq["client"] # <<Data>>
      BY <1>1, <1>4, <2>2, PostedSend, IdsAre
    <3>3. /\ met'["client"] = met["client"] \cup {m} /\ met'["server"] = met["server"] \cup {m}
          /\ rq'["server"] = <<>>
      BY <1>1, <1>2, <1>4, PostedRecv
    <3>4. \A t \in Sides : first \in met'[t] => first \in met[t]
      BY <1>2, <3>1, <3>3, SidesAre
    <3>5. sq'["client"] # <<Data>> /\ rq'["server"] # <<Data>> /\ UNCHANGED pc
      BY <1>1, <3>2, <3>3
    <3> QED
      BY <1>2, <3>4, <3>5 DEF UnusedInv
  <2>3. CASE sq[s][1] # Hello
    <3>1. pc["client"] = "data"
      BY <1>1, <1>2, <1>4, <2>3, PostedSend
    <3>2. pc["server"] = "data" /\ rq'["server"] = <<>>
      <4>1. rq["server"] # <<>> /\ rq["server"][1] # Hello
        BY <1>1, <1>2, <1>4, <2>1, <2>3
      <4>2. pc["server"] = "data" /\ Tail(rq["server"]) = <<>>
        BY <1>2, <4>1, PostedRecv
      <4> QED
        BY <1>1, <1>2, <1>4, <4>2
    <3>3. arrived'["client"]
      BY <1>1, <1>2, <1>4
    <3>4. /\ pc'["client"] = "data" /\ pc'["server"] = "data" /\ rq'["server"] # <<Data>>
      <4>1. << >> # <<Data>>
        OBVIOUS
      <4>2. pc' = pc
        BY <1>1
      <4> QED
        BY <3>1, <3>2, <4>1, <4>2
    <3> QED
      BY <3>3, <3>4 DEF UnusedInv
  <2> QED
    BY <2>2, <2>3
<1> QED
  BY <1>2, <1>3, <1>4, SidesAre

LEMMA UnusedEnds ==
  ASSUME IndInv, UnusedInv, NEW s \in Sides, Ends(s)
  PROVE  UnusedInv'
<1>1. /\ met' = [met EXCEPT ![s] = {}] /\ pc' = [pc EXCEPT ![s] = "gone"]
      /\ sq' = [sq EXCEPT ![s] = <<>>] /\ rq' = [rq EXCEPT ![s] = <<>>]
      /\ arrived' = [arrived EXCEPT ![s] = FALSE]
  BY DEF Ends, Goto
<1>2. \A t \in Sides : \/ t = s /\ met'[t] = {}
                       \/ UNCHANGED <<met[t], pc[t], sq[t], rq[t], arrived[t]>>
  BY <1>1 DEF IndInv, TypeOK
<1> QED
  BY <1>2, SidesAre DEF UnusedInv

LEMMA UnusedBoth ==
  ASSUME IndInv, UnusedInv, NEW s \in Sides, Both(s)
  PROVE  UnusedInv'
<1>0. /\ DOMAIN pc = Sides /\ DOMAIN sq = Sides /\ DOMAIN rq = Sides
      /\ "client" \in Sides /\ "server" \in Sides
  BY SidesAre DEF IndInv, TypeOK
<1>1. CASE SetsUp(s) \/ ModifiesQp(s) \/ (ReadsInfo(s) /\ ~ Panics(s))
  <2>1. /\ UNCHANGED <<met, sq, rq, arrived>> /\ pc[s] \notin {"data", "streaming"}
        /\ \A t \in Sides \ {s} : pc'[t] = pc[t]
    BY <1>0, <1>1 DEF SetsUp, ModifiesQp, ReadsInfo, Goto, work, exchange
  <2> QED
    BY <2>1, UnusedStays
<1>2. CASE (ReadsInfo(s) \/ PollsData(s)) /\ Panics(s)
  BY <1>1, <1>2, UnusedEnds DEF Panics
<1>3. CASE HandshakeSends(s) \/ HandshakeReceives(s) \/ HandshakePolls(s) \/ PostsData(s)
  <2>1. UNCHANGED <<met, arrived>> /\ pc[s] \notin {"data", "streaming"}
    BY <1>3 DEF HandshakeSends, HandshakeReceives, HandshakePolls, PostsData, handshake
  <2>2. \A t \in Sides \ {s} : UNCHANGED <<pc[t], sq[t], rq[t]>>
    BY <1>0, <1>3 DEF HandshakeSends, HandshakeReceives, HandshakePolls, PostsData,
                      PostSend, PostRecv, Flushed, Goto
  <2> QED
    BY <1>0, <2>1, <2>2, UnusedStays
<1>4. CASE PollsData(s) /\ ~ Panics(s)
  <2>1. /\ UNCHANGED <<met, arrived, sq, rq>> /\ pc'[s] \in {"data", "streaming"}
        /\ \A t \in Sides \ {s} : pc'[t] = pc[t]
    BY <1>0, <1>4 DEF PollsData, Goto, handshake
  <2> QED
    BY <2>1, UnusedStays
<1> QED
  BY <1>1, <1>2, <1>3, <1>4 DEF Both

LEMMA UnusedKeeps ==
  ASSUME IndInv, UnusedInv, [Next]_vars
  PROVE  UnusedInv'
<1>0. /\ DOMAIN pc = Sides /\ DOMAIN sq = Sides /\ DOMAIN rq = Sides
      /\ DOMAIN arrived = Sides /\ "client" \in Sides /\ "server" \in Sides
  BY SidesAre DEF IndInv, TypeOK
<1>1. CASE Server \/ Client
  <2>1. /\ UNCHANGED <<met, sq, rq, arrived>>
        /\ \A t \in Sides : pc'[t] = pc[t] \/ pc[t] \notin {"data", "streaming"}
    BY <1>0, <1>1 DEF Server, Client, Binds, Accepts, Replies, ConnectRetry, WritesInfo,
                      Goto, exchange, work
  <2> QED
    BY <2>1, UnusedStays
<1>2. ASSUME NEW s \in Sides, Acknowledge(s) PROVE UnusedInv'
  <2>1. /\ UNCHANGED <<met, pc, rq>>
        /\ sq' = [sq EXCEPT ![s] = Tail(sq[s])] /\ arrived' = [arrived EXCEPT ![s] = FALSE]
        /\ arrived[s]
    BY <1>2 DEF Acknowledge
  <2>2. sq'[s] = <<>>
    <3>1. sq[s] # <<>>
      BY <2>1, Side DEF QpInv
    <3> QED
      BY <1>0, <2>1, <3>1, PostedSend
  <2>3. ASSUME NEW t \in Sides PROVE sq'[t] # <<Data>> \/ UNCHANGED <<sq[t], arrived[t]>>
    <3>1. CASE t = s
      <4>1. << >> # <<Data>>
        OBVIOUS
      <4> QED
        BY <2>2, <3>1, <4>1
    <3>2. CASE t # s
      BY <1>0, <2>1, <3>2
    <3> QED
      BY <3>1, <3>2
  <2> QED
    BY <1>0, <2>1, <2>3, UnusedStays
<1>3. ASSUME NEW s \in Sides, Exhaust(s) PROVE UnusedInv'
  <2>1. /\ UNCHANGED <<met, pc>>
        /\ sq' = [sq EXCEPT ![s] = <<>>] /\ rq' = [rq EXCEPT ![s] = <<>>]
        /\ arrived' = [arrived EXCEPT ![s] = FALSE]
    BY <1>3 DEF Exhaust
  <2>2. \A t \in Sides : \/ sq'[t] = <<>> /\ rq'[t] = <<>>
                         \/ UNCHANGED <<sq[t], rq[t], arrived[t]>>
    BY <1>0, <2>1
  <2> QED
    BY <1>0, <2>1, <2>2, UnusedStays
<1>4. ASSUME NEW s \in Sides, Restarts(s) PROVE UnusedInv'
  <2>1. /\ UNCHANGED <<met, sq, rq, arrived>> /\ pc[s] = "gone"
        /\ \A t \in Sides \ {s} : pc'[t] = pc[t]
    BY <1>0, <1>4 DEF Restarts, Goto, work, Up
  <2> QED
    BY <2>1, UnusedStays
<1>5. UNCHANGED vars => UnusedInv'
  BY UnusedStays DEF vars, work
<1> QED
  BY <1>1, <1>2, <1>3, <1>4, <1>5, UnusedBoth, UnusedDelivers, UnusedEnds
     DEF Next, Transport, Dies

LEMMA InitAsks == Init => AskInv /\ UnusedInv
BY SidesAre, StartsAre, IdsAre DEF Init, AskInv, UnusedInv, Fresh

\* A send that waits is on a queue pair whose peer it reaches, and which has no
\* receive for it.
LEMMA WaitingSend ==
  ASSUME IndInv, NEW s \in Sides, ~ SomebodyMoves, sq[s] # <<>>
  PROVE  /\ ~ arrived[s] /\ rq[Peer(s)] = <<>> /\ Linked
         /\ dest[s] = start[Peer(s)] /\ dest[Peer(s)] = start[s]
         /\ met[Peer(s)] = met[s] /\ qp[Peer(s)] = "RTS"
         /\ pc[Peer(s)] \in {"handshake", "data", "streaming"}
<1> DEFINE p == Peer(s)
<1>1. p \in Sides /\ Peer(p) = s
  BY SidesAre
<1>2. qp[s] = "RTS"
  BY PostedSend
<1>3. ~ arrived[s] /\ Reaches(s) /\ rq[p] = <<>>
  BY <1>2 DEF SomebodyMoves
<1>4. Up(p) /\ start[p] = dest[s] /\ dest[p] = start[s] /\ qp[p] \in {"RTR", "RTS"}
  BY <1>3 DEF Reaches, Runs
<1>5. Up(s)
  BY PostedSend DEF Up, Idle, Fresh
<1>6. Linked
  BY <1>1, <1>4, <1>5, SidesAre DEF Linked, Runs
<1>7. met[p] = met[s]
  BY <1>6, SidesAre DEF IndInv, PeerInv
<1>8. pc[p] \notin {"setup", "modify", "hello", "await", "connected"}
  BY <1>1 DEF SomebodyMoves
<1>9. pc[p] \in {"handshake", "data", "streaming"}
  BY <1>1, <1>4, <1>8, Side DEF QpInv, States, Fresh
<1>10. qp[p] = "RTS"
  BY <1>1, <1>4, <1>9, Side DEF QpInv, Greeting, Returned
<1> QED
  BY <1>3, <1>4, <1>6, <1>7, <1>9, <1>10

\* What a side waits for in its handshake: its send, its receive, or both.
LEMMA HandshakeWaits ==
  ASSUME IndInv, NEW s \in Sides, ~ SomebodyMoves, pc[s] = "handshake"
  PROVE  /\ sq[s] = <<>> => rq[s] = <<Hello>> /\ qp[s] = "RTS"
         /\ rq[s] = <<>> => sq[s] # <<>> /\ qp[s] = "RTS"
<1>1. Unpolled(s) = 0
  BY DEF SomebodyMoves, Unpolled
<1>2. count[s] \in 0 .. 1 /\ Pending(s) + Unpolled(s) + count[s] = 2
  BY Side DEF WorkInv
<1>3. One(sq[s] # <<>>) \in {0, 1} /\ One(rq[s] # <<>>) \in {0, 1}
  BY DEF One
<1>4. One(sq[s] # <<>>) = 1 \/ One(rq[s] # <<>>) = 1
  BY <1>1, <1>2, <1>3 DEF Pending
<1>5. sq[s] # <<>> \/ rq[s] # <<>>
  BY <1>4 DEF One
<1>6. rq[s] # <<>> => rq[s] = <<Hello>>
  BY PostedRecv DEF Greeting
<1> QED
  BY <1>5, <1>6, PostedSend, PostedRecv

\* What a side waits for before it streams: its send, or its receive.
LEMMA DataWaits ==
  ASSUME IndInv, NEW s \in Sides, ~ SomebodyMoves, pc[s] = "data"
  PROVE  /\ qp[s] = "RTS"
         /\ s = "client" => sq[s] = <<Data>> /\ rq[s] = <<>>
         /\ s = "server" => rq[s] = <<Data>> /\ sq[s] = <<>>
<1>1. Unpolled(s) = 0
  BY DEF SomebodyMoves, Unpolled
<1>2. /\ Pending(s) + Unpolled(s) = 1
      /\ s = "client" => rq[s] = <<>>
      /\ s = "server" => sq[s] = <<>>
  BY Side DEF WorkInv
<1>3. One(sq[s] # <<>>) \in {0, 1} /\ One(rq[s] # <<>>) \in {0, 1}
  BY DEF One
<1>4. One(sq[s] # <<>>) = 1 \/ One(rq[s] # <<>>) = 1
  BY <1>1, <1>2, <1>3 DEF Pending
<1>5. sq[s] # <<>> \/ rq[s] # <<>>
  BY <1>4 DEF One
<1>6. pc[s] \notin Greeting
  BY DEF Greeting
<1>7. /\ sq[s] # <<>> => sq[s] = <<Data>> /\ qp[s] = "RTS"
      /\ rq[s] # <<>> => rq[s] = <<Data>> /\ qp[s] = "RTS"
  BY <1>6, PostedSend, PostedRecv
<1> QED
  BY <1>2, <1>5, <1>7, SidesAre

\* The greeting of a side has met its peer's receive, when neither is there any more.
LEMMA GreetingMet ==
  ASSUME IndInv, NEW s \in Sides, qp[s] = "RTS",
         pc[s] \in {"handshake", "data", "streaming"}
  PROVE  /\ sq[s] = <<>> => <<s, Hello, Hello>> \in met[s]
         /\ rq[s] = <<>> => <<Peer(s), Hello, Hello>> \in met[s]
<1>1. << >> # <<Hello>>
  OBVIOUS
<1>2. pc[s] \in Greeting \cup Returned /\ pc[s] # "await"
  BY DEF Greeting, Returned
<1> QED
  BY <1>1, <1>2, Side DEF MetInv

\* Nobody waits to send: a message that reaches the peer finds its receive.
LEMMA NothingToSend ==
  ASSUME IndInv, UnusedInv, NEW s \in Sides, ~ SomebodyMoves
  PROVE  sq[s] = <<>>
<1> SUFFICES ASSUME sq[s] # <<>> PROVE FALSE
  OBVIOUS
<1> DEFINE p == Peer(s)
<1>0. p \in Sides /\ Peer(p) = s /\ p # s
  BY SidesAre
<1>1. /\ ~ arrived[s] /\ rq[p] = <<>> /\ Linked /\ met[p] = met[s] /\ qp[p] = "RTS"
      /\ pc[p] \in {"handshake", "data", "streaming"}
  BY WaitingSend
<1>2. <<s, Hello, Hello>> \in met[s]
  BY <1>0, <1>1, GreetingMet
<1>3. sq[s] # <<Hello>>
  BY <1>1, <1>2, Side DEF MetInv
<1>4. s = "client" /\ pc[s] = "data" /\ sq[s] = <<Data>> /\ p = "server"
  BY <1>3, PostedSend, SidesAre DEF Ids
<1>5. <<"client", Data, Data>> \notin met["client"]
  BY <1>1, <1>4 DEF UnusedInv
<1>6. pc[p] # "streaming"
  BY <1>0, <1>1, <1>4, <1>5, Side DEF WorkInv, Streams
<1>7. pc[p] # "data"
  <2>1. << >> # <<Data>>
    OBVIOUS
  <2> QED
    BY <1>0, <1>1, <1>4, <2>1, DataWaits
<1>8. pc[p] = "handshake" /\ sq[p] # <<>>
  BY <1>0, <1>1, <1>6, <1>7, HandshakeWaits
<1>9. sq[p] = <<Hello>> /\ ~ arrived[p]
  BY <1>0, <1>8, PostedSend DEF Greeting, SomebodyMoves
<1>10. <<p, Hello, Hello>> \notin met[p]
  BY <1>0, <1>9, Side DEF MetInv
<1>11. qp[s] = "RTS" /\ pc[s] \in Returned
  BY <1>4, PostedSend DEF Returned
<1>12. Greeted(s)
  BY <1>11, GreetedBy
<1> QED
  BY <1>0, <1>1, <1>10, <1>12 DEF Greeted

\* Two sides that have met are linked, while they run.
LEMMA MetLinked ==
  ASSUME IndInv, NEW s \in Sides, Up(s), met[s] # {}, Runs(Peer(s), dest[s])
  PROVE  Linked /\ met[Peer(s)] = met[s] /\ dest[Peer(s)] = start[s]
<1>1. dest[Peer(s)] = start[s]
  BY DEF IndInv, PeerInv
<1>2. Linked
  BY <1>1, SidesAre DEF Linked, Runs
<1> QED
  BY <1>1, <1>2, SidesAre DEF IndInv, PeerInv

\* A handshake that waits has been forsaken: had the peer greeted, it would be here.
LEMMA HandshakeRests ==
  ASSUME IndInv, UnusedInv, NEW s \in Sides, ~ SomebodyMoves, pc[s] = "handshake"
  PROVE  Forsaken(s)
<1> DEFINE p == Peer(s)
<1>0. p \in Sides /\ Peer(p) = s /\ p # s
  BY SidesAre
<1>1. sq[s] = <<>> /\ rq[s] = <<Hello>> /\ qp[s] = "RTS" /\ sq[p] = <<>>
  BY <1>0, NothingToSend, HandshakeWaits
<1> SUFFICES ASSUME Runs(p, dest[s]) PROVE FALSE
  BY <1>1 DEF Forsaken
<1>2. <<s, Hello, Hello>> \in met[s] /\ <<p, Hello, Hello>> \notin met[s]
  BY <1>1, GreetingMet, Side DEF MetInv
<1>3. Linked /\ met[p] = met[s]
  BY <1>2, MetLinked DEF Up
<1>4. pc[p] \in {"handshake", "data", "streaming"}
  <2>1. pc[p] \notin Idle
    BY <1>0, <1>2, <1>3, Side DEF WorkInv
  <2>2. pc[p] \notin {"await", "connected"}
    BY <1>0 DEF SomebodyMoves
  <2> QED
    BY <1>0, <2>1, <2>2, Side DEF States, Idle, Fresh
<1>5. <<p, Hello, Hello>> \in met[p]
  <2>1. CASE pc[p] \in {"handshake", "data"}
    <3>1. qp[p] = "RTS"
      BY <1>0, <1>1, <2>1, HandshakeWaits, DataWaits
    <3> QED
      BY <1>0, <1>1, <1>4, <3>1, GreetingMet
  <2>2. CASE pc[p] = "streaming"
    BY <1>0, <2>2, Side DEF WorkInv, Streams, Greeted
  <2> QED
    BY <1>4, <2>1, <2>2
<1> QED
  BY <1>2, <1>3, <1>5

\* A server that waits for the first message waits for a client that is gone.
LEMMA DataRests ==
  ASSUME IndInv, UnusedInv, NEW s \in Sides, ~ SomebodyMoves, pc[s] = "data"
  PROVE  s = "server" /\ ~ Runs("client", dest[s])
<1>0. s = "server" /\ "client" \in Sides /\ "server" \in Sides
      /\ Peer(s) = "client" /\ Peer("client") = s
  <2>1. << >> # <<Data>>
    OBVIOUS
  <2> QED
    BY <2>1, DataWaits, NothingToSend, SidesAre
<1> SUFFICES ASSUME Runs("client", dest[s]) PROVE FALSE
  BY <1>0
<1>1. rq[s] = <<Data>> /\ qp[s] = "RTS"
  BY <1>0, DataWaits
<1>2. Greeted(s) /\ <<"client", Data, Data>> \notin met[s]
  BY <1>0, <1>1, GreetedBy DEF Returned, UnusedInv
<1>3. met[s] # {}
  BY <1>0, <1>2 DEF Greeted
<1>4. Linked /\ met["client"] = met[s]
  BY <1>0, <1>3, MetLinked DEF Up
<1>5. pc["client"] \in {"handshake", "data", "streaming"}
  <2>1. pc["client"] \notin Idle
    BY <1>0, <1>3, <1>4, Side DEF WorkInv
  <2>2. pc["client"] \notin {"await", "connected"}
    BY <1>0 DEF SomebodyMoves
  <2> QED
    BY <1>0, <2>1, <2>2, Side DEF States, Idle, Fresh
<1>6. pc["client"] # "streaming"
  BY <1>0, <1>2, <1>4, Side DEF WorkInv, Streams
<1>7. pc["client"] # "data"
  <2>1. << >> # <<Data>>
    OBVIOUS
  <2> QED
    BY <1>0, <2>1, DataWaits, NothingToSend
<1>8. pc["client"] # "handshake"
  BY <1>0, <1>4, HandshakeRests DEF Forsaken, Linked
<1> QED
  BY <1>5, <1>6, <1>7, <1>8

\* A client waits for its answer from a server whose handshake has been forsaken.
LEMMA ReadRests ==
  ASSUME IndInv, AskInv, UnusedInv, NEW s \in Sides, ~ SomebodyMoves, pc[s] = "read"
  PROVE  s = "client" /\ Forsaken("server")
<1>0. "client" \in Sides /\ "server" \in Sides
  BY SidesAre
<1>1. Info(s) = None /\ ~ Closed(s)
  BY DEF SomebodyMoves
<1>2. pc["client"] # "write"
  BY DEF SomebodyMoves
<1>3. s # "server"
  <2> SUFFICES ASSUME s = "server" PROVE FALSE
    OBVIOUS
  <2>1. stream # None /\ stream \notin written
    BY <1>1 DEF IndInv, TcpInv, Info
  <2>2. Up("client") /\ start["client"] = stream
    BY <1>1 DEF Closed, Runs
  <2>3. pc["client"] \notin {"gone", "setup", "connect", "write"}
    BY <1>2, <2>2 DEF AskInv, Up
  <2> QED
    BY <2>1, <2>2, <2>3 DEF AskInv
<1>4. s = "client" /\ reply[start["client"]] = None
  BY <1>1, <1>3, SidesAre DEF Info
<1>5. pc["server"] = "handshake"
  <2>0. pc["server"] \notin {"bind", "reply", "setup", "modify", "hello", "await", "connected"}
    BY <1>0 DEF SomebodyMoves
  <2>1. pc["server"] # "read"
    <3>1. pc["server"] = "read" => Info("server") = None /\ ~ Closed("server")
      BY <1>0 DEF SomebodyMoves
    <3> SUFFICES ASSUME pc["server"] = "read" PROVE FALSE
      OBVIOUS
    <3>2. stream # None /\ stream \notin written /\ start["client"] = stream
      BY <3>1 DEF IndInv, TcpInv, Info, Closed, Runs
    <3> QED
      BY <1>4, <3>2 DEF AskInv
  <2>2. CASE stream = start["client"]
    <3>1. stream # None
      BY <1>0, <2>2, Numbers
    <3>2. pc["server"] \in Fresh \cup {"reply"}
      BY <1>4, <2>2 DEF AskInv
    <3>3. pc["server"] \notin {"gone", "setup", "bind", "accept"}
      BY <3>1 DEF AskInv
    <3> QED
      BY <2>0, <2>1, <3>2, <3>3 DEF Fresh, AskInv
  <2>3. CASE stream # start["client"]
    <3>1. Listening /\ Contains(backlog, start["client"])
      BY <1>1, <1>4, <2>3 DEF Closed
    <3>2. pc["server"] # "accept"
      <4>1. backlog # <<>>
        BY <3>1 DEF Contains
      <4> QED
        BY <4>1 DEF SomebodyMoves
    <3> QED
      BY <2>0, <2>1, <3>1, <3>2 DEF Listening
  <2> QED
    BY <2>2, <2>3
<1> QED
  BY <1>0, <1>4, <1>5, HandshakeRests

\* Nobody waits for somebody who waits, but a client for a forsaken server.
LEMMA AllRest ==
  ASSUME IndInv, AskInv, UnusedInv
  PROVE  WaitsForNobody
<1> SUFFICES ASSUME ~ SomebodyMoves, NEW s \in Sides PROVE Rests(s)
  BY DEF WaitsForNobody
<1>1. /\ pc[s] \notin {"setup", "modify", "hello", "await", "connected"}
      /\ pc["server"] \notin {"bind", "reply"} /\ pc["client"] # "write"
      /\ pc["server"] = "accept" => backlog = <<>>
      /\ pc["client"] = "connect" => ~ Listening
  BY DEF SomebodyMoves
<1>2. CASE pc[s] \in {"bind", "accept", "reply", "connect", "write"}
  BY <1>1, <1>2, SidesAre DEF AskInv, Rests
<1>3. CASE pc[s] = "read"
  BY <1>3, ReadRests DEF Rests
<1>4. CASE pc[s] = "handshake"
  BY <1>4, HandshakeRests DEF Rests
<1>5. CASE pc[s] = "data"
  BY <1>5, DataRests DEF Rests
<1>6. CASE pc[s] \in {"gone", "streaming"}
  BY <1>6 DEF Rests
<1> QED
  BY <1>1, <1>2, <1>3, <1>4, <1>5, <1>6, Side DEF States

\* The two sides never wait for each other, however often either has failed and was
\* started again: when neither a process nor a card has a step left, a side streams, is
\* gone, or waits for a peer that is not there.  The exception is a client that reads
\* from a server whose handshake was forsaken, which still listens.  This is what
\* connect_retry, retry_cnt and the completions of failed requests are there for.
THEOREM NobodyWaits == Spec => []WaitsForNobody
<1>1. Init => AskInv /\ UnusedInv
  BY InitAsks
<1>2. IndInv /\ AskInv /\ UnusedInv /\ [Next]_vars => AskInv' /\ UnusedInv'
  BY AskKeeps, UnusedKeeps
<1>3. IndInv /\ AskInv /\ UnusedInv => WaitsForNobody
  BY AllRest
<1> QED
  BY <1>1, <1>2, <1>3, Invariance, PTL DEF Spec
------------------------------------------------------------------------------
(* Both handshakes fail, or neither.                                       *)

\* A step that neither links nor meets anybody, and breaks no queue pair.
LEMMA AlikeStays ==
  ASSUME AlikeInv, UNCHANGED <<start, dest, met>>,
         \A s \in Sides : pc[s] = "gone" => pc'[s] = "gone",
         \A s \in Sides : qp'[s] = "ERR" => qp[s] = "ERR"
  PROVE  AlikeInv'
<1>1. \A s \in Sides : Runs(Peer(s), dest[s])' => Runs(Peer(s), dest[s])
  BY SidesAre DEF Runs, Up
<1>2. Linked' => Linked
  BY <1>1 DEF Linked
<1> QED
  BY <1>2 DEF AlikeInv

\* A process that has just ended, or started, is linked to nobody.
LEMMA AlikeEnds ==
  ASSUME IndInv, NEW s \in Sides, Ends(s) \/ Restarts(s)
  PROVE  AlikeInv'
<1> DEFINE p == Peer(s)
<1>0. p \in Sides /\ Peer(p) = s /\ p # s /\ DOMAIN pc = Sides
  BY SidesAre DEF IndInv, TypeOK
<1>1. CASE Ends(s)
  <2>1. pc'[s] = "gone"
    BY <1>0, <1>1 DEF Ends, Goto
  <2>2. ~ Linked'
    BY <1>0, <2>1 DEF Linked, Runs, Up
  <2> QED
    BY <2>2 DEF AlikeInv
<1>2. CASE Restarts(s)
  <2>1. pc[s] = "gone" /\ UNCHANGED dest /\ start' = [start EXCEPT ![s] = @ + 1]
    BY <1>2 DEF Restarts, Up, tcp
  <2>2. dest[s] = None
    BY <2>1, Side DEF QpInv, Fresh
  <2>3. start'[p] = start[p] /\ start[p] # None
    BY <1>0, <2>1, Numbers
  <2>4. ~ Linked'
    BY <2>1, <2>2, <2>3 DEF Linked, Runs
  <2> QED
    BY <2>4 DEF AlikeInv
<1> QED
  BY <1>1, <1>2

\* Who has just got to know its peer has met nobody, nor has that peer.
LEMMA AlikeReads ==
  ASSUME IndInv, AlikeInv, NEW s \in Sides, ReadsInfo(s)
  PROVE  AlikeInv'
<1>1. CASE Panics(s)
  BY <1>1, AlikeEnds DEF Panics
<1>2. CASE ~ Panics(s)
  <2>1. pc[s] \in Idle /\ UNCHANGED met
    BY <1>2 DEF ReadsInfo, exchange, Idle, Fresh
  <2>2. met[s] = {}
    BY <2>1, WasIdle
  <2>3. IndInv'
    BY ReadsKeeps
  <2>4. Linked' => met'["client"] = met'["server"]
    BY <2>3 DEF IndInv, PeerInv
  <2>5. Linked' => \A t \in Sides : met'[t] = {}
    BY <2>1, <2>2, <2>4, SidesAre
  <2> QED
    BY <2>5 DEF AlikeInv
<1> QED
  BY <1>1, <1>2

\* A message that is delivered comes from a queue pair that works, to another.
LEMMA AlikeDelivers ==
  ASSUME NEW s \in Sides, Deliver(s)
  PROVE  AlikeInv'
<1>1. qp[s] = "RTS" /\ qp[Peer(s)] \in {"RTR", "RTS"} /\ UNCHANGED qp
  BY DEF Deliver, Reaches
<1>2. \A t \in Sides : qp'[t] # "ERR"
  BY <1>1, SidesAre
<1> QED
  BY <1>2 DEF AlikeInv

\* A queue pair gives up on a peer that is there when that is not ready yet, or has
\* given up before.
LEMMA AlikeExhausts ==
  ASSUME IndInv, AlikeInv, NEW s \in Sides, Exhaust(s)
  PROVE  AlikeInv'
<1> DEFINE p == Peer(s)
<1>0. p \in Sides /\ Peer(p) = s /\ p # s
  BY SidesAre
<1>1. qp[s] = "RTS" /\ ~ Reaches(s) /\ UNCHANGED <<pc, start, dest, met>>
  BY DEF Exhaust, tcp
<1>2. Linked' => Linked
  BY <1>1 DEF Linked, Runs, Up
<1>3. ASSUME Linked PROVE \A t \in Sides : met[t] = {}
  <2>1. Runs(p, dest[s]) /\ dest[p] = start[s]
    BY <1>0, <1>3 DEF Linked, Runs
  <2>2. qp[p] \notin {"RTR", "RTS"}
    BY <1>1, <2>1 DEF Reaches
  <2>3. CASE qp[p] = "ERR"
    BY <1>0, <1>3, <2>3 DEF AlikeInv
  <2>4. CASE qp[p] # "ERR"
    <3>1. pc[p] \notin Greeting \cup Returned
      BY <1>0, <2>2, <2>4, Side DEF QpInv
    <3>2. pc[p] \in Idle
      BY <1>0, <3>1, Side DEF States, Idle, Fresh, Greeting, Returned
    <3>3. met[p] = {}
      BY <1>0, <3>2, WasIdle
    <3>4. met["client"] = met["server"]
      BY <1>3 DEF IndInv, PeerInv
    <3> QED
      BY <1>0, <3>3, <3>4, SidesAre
  <2> QED
    BY <2>3, <2>4
<1> QED
  BY <1>1, <1>2, <1>3 DEF AlikeInv

LEMMA AlikeKeeps ==
  ASSUME IndInv, AlikeInv, [Next]_vars
  PROVE  AlikeInv'
<1>0. DOMAIN pc = Sides /\ DOMAIN qp = Sides /\ "client" \in Sides /\ "server" \in Sides
  BY SidesAre DEF IndInv, TypeOK
<1>1. CASE Server \/ Client
  <2>1. /\ UNCHANGED <<start, dest, met, qp>>
        /\ \A t \in Sides : pc[t] = "gone" => pc'[t] = "gone"
    BY <1>0, <1>1 DEF Server, Client, Binds, Accepts, Replies, ConnectRetry, WritesInfo,
                      Goto, exchange, tcp
  <2> QED
    BY <2>1, AlikeStays
<1>2. ASSUME NEW s \in Sides,
             SetsUp(s) \/ HandshakeSends(s) \/ HandshakeReceives(s) \/ HandshakePolls(s)
               \/ PostsData(s) \/ (PollsData(s) /\ ~ Panics(s))
      PROVE  AlikeInv'
  <2>1. /\ UNCHANGED <<start, dest, met, qp>> /\ pc[s] # "gone"
        /\ \A t \in Sides \ {s} : pc'[t] = pc[t]
    BY <1>0, <1>2 DEF SetsUp, HandshakeSends, HandshakeReceives, HandshakePolls,
                      PostsData, PollsData, Goto, handshake, tcp
  <2> QED
    BY <2>1, AlikeStays
<1>3. ASSUME NEW s \in Sides, ModifiesQp(s) PROVE AlikeInv'
  <2>1. /\ UNCHANGED <<start, dest, met>> /\ pc[s] = "modify"
        /\ qp' = [qp EXCEPT ![s] = Modified[qp[s]]]
        /\ \A t \in Sides \ {s} : pc'[t] = pc[t]
    BY <1>0, <1>3 DEF ModifiesQp, Goto, tcp
  <2>2. Modified[qp[s]] # "ERR"
    BY <2>1, Side DEF QpInv, Modified
  <2>3. \A t \in Sides : qp'[t] = "ERR" => qp[t] = "ERR"
    BY <1>0, <2>1, <2>2
  <2> QED
    BY <2>1, <2>3, AlikeStays
<1>4. ASSUME NEW s \in Sides, Both(s) PROVE AlikeInv'
  BY <1>2, <1>3, <1>4, AlikeReads, AlikeEnds DEF Both, Panics
<1>5. ASSUME NEW s \in Sides, Acknowledge(s) PROVE AlikeInv'
  BY <1>5, AlikeStays DEF Acknowledge, tcp
<1>6. ASSUME NEW s \in Sides, Transport(s) PROVE AlikeInv'
  BY <1>5, <1>6, AlikeDelivers, AlikeExhausts DEF Transport
<1>7. ASSUME NEW s \in Sides, Dies(s) \/ Restarts(s) PROVE AlikeInv'
  BY <1>7, AlikeEnds DEF Dies
<1>8. UNCHANGED vars => AlikeInv'
  BY AlikeStays DEF vars, tcp
<1> QED
  BY <1>1, <1>4, <1>6, <1>7, <1>8 DEF Next

\* When the handshakes of both sides have returned, and neither process is gone, both
\* queue pairs work or both are in error: a side whose greeting was answered cannot be
\* connected to one that has given up.  So two adapters get past set_qp_rts and
\* handshake together, or both fail at the first poll of their loops.
THEOREM HandshakesEndAlike == Spec => []EndAlike
<1>1. Init => AlikeInv
  BY DEF Init, AlikeInv
<1>2. IndInv /\ AlikeInv /\ [Next]_vars => AlikeInv'
  BY AlikeKeeps
<1>3. ASSUME IndInv, AlikeInv PROVE EndAlike
  <2> SUFFICES ASSUME Linked, \A s \in Sides : pc[s] \in Returned,
                      qp["client"] # qp["server"]
               PROVE  FALSE
    BY DEF EndAlike
  <2>1. \A s \in Sides : qp[s] \in {"RTS", "ERR"}
    BY <1>3, Side DEF QpInv
  <2>2. PICK s \in Sides : qp[s] = "RTS" /\ qp[Peer(s)] = "ERR"
    BY <2>1, SidesAre
  <2>3. met[s] = {}
    BY <1>3, <2>2, SidesAre DEF AlikeInv
  <2>4. Greeted(s)
    BY <1>3, <2>2, GreetedBy
  <2> QED
    BY <2>3, <2>4 DEF Greeted
<1>4. IndInv /\ AlikeInv => EndAlike
  BY <1>3
<1> QED
  BY <1>1, <1>2, <1>4, Invariance, PTL DEF Spec
==============================================================================
