----------------------------- MODULE Connection ------------------------------
(***************************************************************************)
(* How two adapters become the two ends of a reliable connection           *)
(* (shared/src/rdma_controller.rs): each makes a queue pair, they swap the *)
(* numbers of the queue pairs over TCP, each drives its own to             *)
(* ready-to-send, they greet each other over RDMA, and the first message   *)
(* of data follows.  The server answers before its queue pair is ready, so *)
(* the client's greeting may run out of retries.                           *)
(*                                                                         *)
(* Either side may fail or be killed at any step, and be started again.    *)
(* The n-th start of a side has a queue pair of its own, whose number is   *)
(* n: a queue pair and the sockets go with their process, what was written *)
(* to a socket stays.                                                      *)
(***************************************************************************)
EXTENDS Integers, FiniteSets, SequencesExt

CONSTANT MaxStarts   \* bound: how often a side is started

ASSUME ConnectionAssumption == MaxStarts \in Nat \ {0}

VARIABLES
  pc,         \* where each side is
  start,      \* how often each side has been started: the number of its queue pair
  backlog,    \* starts of the client that wait at the server's listener
  stream,     \* the start of the client that the server has accepted, or None
  written,    \* starts of the client that have written their DestQpInfo
  reply,      \* what each start of the client was answered, or None
  dest,       \* the DestQpInfo a side has read, or None
  qp,         \* the states of the queue pairs
  sq, rq,     \* wr_id of the work requests posted on each side
  arrived,    \* the first send of a side is in the peer's memory
  cq,         \* completion queues
  count,      \* completions that a handshake has counted
  met,        \* <<sender, wr_id of the send, wr_id of the receive>> of the deliveries
  faulty      \* this start has failed, was killed, or ran out of retries

tcp  == <<backlog, stream, written, reply, dest>>
work == <<sq, rq, arrived, cq>>
vars == <<pc, start, tcp, qp, work, count, met, faulty>>

Sides == {"server", "client"}
Peer(s) == IF s = "server" THEN "client" ELSE "server"

Starts == 1 .. MaxStarts
None   == 0
Hello  == 1    \* HANDSHAKE_WR_ID
Data   == 2    \* the wr_id of the adapters' loops

Up(s) == pc[s] # "gone"

\* The n-th start of a side is running.
Runs(s, n) == Up(s) /\ start[s] = n

Goto(s, label) == pc' = [pc EXCEPT ![s] = label]

Completion(id, opcode, status) == [id |-> id, opcode |-> opcode, status |-> status]

Init ==
  /\ pc = [s \in Sides |-> "setup"] /\ start = [s \in Sides |-> 1]
  /\ backlog = <<>> /\ stream = None
  /\ written = {} /\ reply = [n \in Starts |-> None]
  /\ dest = [s \in Sides |-> None]
  /\ qp = [s \in Sides |-> "RESET"]
  /\ sq = [s \in Sides |-> <<>>] /\ rq = [s \in Sides |-> <<>>]
  /\ arrived = [s \in Sides |-> FALSE]
  /\ cq = [s \in Sides |-> <<>>]
  /\ count = [s \in Sides |-> 0]
  /\ met = [s \in Sides |-> {}]
  /\ faulty = [s \in Sides |-> FALSE]

\* A process ends, and the kernel closes its sockets and destroys its queue pair.
Ends(s) ==
  /\ Goto(s, "gone")
  /\ IF s = "server" THEN backlog' = <<>> /\ stream' = None
                     ELSE UNCHANGED <<backlog, stream>>
  /\ dest' = [dest EXCEPT ![s] = None] /\ qp' = [qp EXCEPT ![s] = "RESET"]
  /\ sq' = [sq EXCEPT ![s] = <<>>] /\ rq' = [rq EXCEPT ![s] = <<>>]
  /\ arrived' = [arrived EXCEPT ![s] = FALSE] /\ cq' = [cq EXCEPT ![s] = <<>>]
  /\ count' = [count EXCEPT ![s] = 0] /\ met' = [met EXCEPT ![s] = {}]
  /\ UNCHANGED <<start, written, reply>>

Panics(s) == Ends(s) /\ UNCHANGED faulty

\* What fails on its own (a system call, ibv_modify_qp, writing to a peer that
\* is gone, reading a DestQpInfo out of bytes that need not be aligned) is a
\* panic, up to `connect_dest(config).unwrap()'; and the process may be killed.
Dies(s) ==
  /\ Up(s)
  /\ Ends(s)
  /\ faulty' = [faulty EXCEPT ![s] = TRUE]

Restarts(s) ==
  /\ ~ Up(s) /\ start[s] < MaxStarts
  /\ Goto(s, "setup")
  /\ start' = [start EXCEPT ![s] = @ + 1]
  /\ faulty' = [faulty EXCEPT ![s] = FALSE]
  /\ UNCHANGED <<tcp, qp, work, count, met>>

\* setup_ib as far as connect_dest: device, protection domain, completion queue,
\* queue pair.
SetsUp(s) ==
  /\ pc[s] = "setup"
  /\ Goto(s, IF s = "server" THEN "bind" ELSE "connect")
  /\ UNCHANGED <<start, tcp, qp, work, count, met, faulty>>
------------------------------------------------------------------------------
(* The exchange over TCP.                                                  *)

exchange == <<start, qp, work, count, met, faulty>>

\* TcpListener::bind
Binds ==
  /\ pc["server"] = "bind"
  /\ Goto("server", "accept")
  /\ UNCHANGED <<tcp, exchange>>

\* The listener is dropped when connect_qp_server returns.
Listening ==
  pc["server"] \in {"accept", "read", "reply", "modify", "hello", "await", "handshake"}

\* listener.accept takes the first of the queue, which may be gone by then.
Accepts ==
  /\ pc["server"] = "accept" /\ backlog # <<>>
  /\ Goto("server", "read")
  /\ stream' = Head(backlog)
  /\ backlog' = Tail(backlog)
  /\ UNCHANGED <<written, reply, dest, exchange>>

\* Mutant of OnRefusal: a refused connection is an error.
OnRefusalPanic == "gone"

\* connect_retry: refused connections are tried again, for ever.
OnRefusal == "connect"

ConnectRetry ==
  /\ pc["client"] = "connect"
  /\ IF Listening
       THEN Goto("client", "write") /\ backlog' = Append(backlog, start["client"])
       ELSE Goto("client", OnRefusal) /\ UNCHANGED backlog
  /\ UNCHANGED <<stream, written, reply, dest, exchange>>

\* stream.write_all of the client, which speaks first.
WritesInfo ==
  /\ pc["client"] = "write"
  /\ Goto("client", "read")
  /\ written' = written \cup {start["client"]}
  /\ UNCHANGED <<backlog, stream, reply, dest, exchange>>

\* stream.write of the server, which knows the client by then.
Replies ==
  /\ pc["server"] = "reply"
  /\ Goto("server", "modify")
  /\ reply' = [reply EXCEPT ![stream] = start["server"]]
  /\ UNCHANGED <<backlog, stream, written, dest, exchange>>

\* What a side can read from its stream, or None.
Info(s) ==
  IF s = "client" THEN reply[start["client"]]
  ELSE IF stream \in written THEN stream ELSE None

\* The peer's end of the stream is closed, or was never accepted.
Closed(s) ==
  IF s = "server" THEN ~ Runs("client", stream)
  ELSE /\ stream # start["client"]
       /\ ~ Listening \/ ~ Contains(backlog, start["client"])

\* stream.read_exact: the end of the stream without a DestQpInfo is a panic.
ReadsInfo(s) ==
  /\ pc[s] = "read"
  /\ \/ /\ Info(s) # None
        /\ dest' = [dest EXCEPT ![s] = Info(s)]
        /\ Goto(s, IF s = "client" THEN "modify" ELSE "reply")
        /\ UNCHANGED <<backlog, stream, written, reply, exchange>>
     \/ /\ Info(s) = None /\ Closed(s)
        /\ Panics(s)
------------------------------------------------------------------------------
(* set_qp_rts                                                              *)

Modified == [RESET |-> "INIT", INIT |-> "RTR", RTR |-> "RTS"]

\* One ibv_modify_qp after the other.
ModifiesQp(s) ==
  /\ pc[s] = "modify"
  /\ qp' = [qp EXCEPT ![s] = Modified[@]]
  /\ Goto(s, IF qp'[s] = "RTS" THEN "hello" ELSE "modify")
  /\ UNCHANGED <<start, tcp, work, count, met, faulty>>
------------------------------------------------------------------------------
(* Work requests: those of a queue pair in error are flushed at once.      *)

Flushed(s, id, opcode) ==
  cq' = [cq EXCEPT ![s] = Append(@, Completion(id, opcode, "WR_FLUSH_ERR"))]

PostSend(s, id) ==
  IF qp[s] = "ERR" THEN Flushed(s, id, "SEND") /\ UNCHANGED sq
                   ELSE sq' = [sq EXCEPT ![s] = Append(@, id)] /\ UNCHANGED cq

PostRecv(s, id) ==
  IF qp[s] = "ERR" THEN Flushed(s, id, "RECV") /\ UNCHANGED rq
                   ELSE rq' = [rq EXCEPT ![s] = Append(@, id)] /\ UNCHANGED cq

\* Two queue pairs understand each other.
Reaches(s) ==
  LET p == Peer(s) IN
  /\ qp[s] = "RTS" /\ Runs(p, dest[s])
  /\ qp[p] \in {"RTR", "RTS"} /\ dest[p] = start[s]

\* A message meets the peer's first receive; without one it waits.
Deliver(s) ==
  LET p == Peer(s) IN
  /\ Reaches(s) /\ sq[s] # <<>> /\ ~ arrived[s] /\ rq[p] # <<>>
  /\ arrived' = [arrived EXCEPT ![s] = TRUE]
  /\ met' = [t \in Sides |-> met[t] \cup {<<s, sq[s][1], rq[p][1]>>}]
  /\ cq' = [cq EXCEPT ![p] = Append(@, Completion(rq[p][1], "RECV", "SUCCESS"))]
  /\ rq' = [rq EXCEPT ![p] = Tail(@)]
  /\ UNCHANGED <<pc, start, tcp, qp, sq, count, faulty>>

Acknowledge(s) ==
  /\ arrived[s]
  /\ arrived' = [arrived EXCEPT ![s] = FALSE]
  /\ cq' = [cq EXCEPT ![s] = Append(@, Completion(sq[s][1], "SEND", "SUCCESS"))]
  /\ sq' = [sq EXCEPT ![s] = Tail(@)]
  /\ UNCHANGED <<pc, start, tcp, qp, rq, count, met, faulty>>

\* retry_cnt retries without an answer: the queue pair is in error, and what
\* else was posted is flushed.
Exhaust(s) ==
  /\ qp[s] = "RTS" /\ sq[s] # <<>> /\ ~ Reaches(s)
  /\ qp' = [qp EXCEPT ![s] = "ERR"]
  /\ cq' = [cq EXCEPT ![s] =
       @ \o << Completion(sq[s][1], "SEND", "RETRY_EXC_ERR") >>
         \o [i \in DOMAIN rq[s] |-> Completion(rq[s][i], "RECV", "WR_FLUSH_ERR")]]
  /\ sq' = [sq EXCEPT ![s] = <<>>] /\ rq' = [rq EXCEPT ![s] = <<>>]
  /\ arrived' = [arrived EXCEPT ![s] = FALSE]
  /\ faulty' = [faulty EXCEPT ![s] = TRUE]
  /\ UNCHANGED <<pc, start, tcp, count, met>>
------------------------------------------------------------------------------
(* handshake                                                               *)

handshake == <<start, tcp, qp, arrived, met, faulty>>

\* Mutant of GreetingId: the request is not marked as the handshake's.
GreetingUnmarked == 0

GreetingId == Hello

HandshakeSends(s) ==
  /\ pc[s] = "hello"
  /\ PostSend(s, GreetingId)
  /\ Goto(s, "await")
  /\ UNCHANGED <<handshake, rq, count>>

HandshakeReceives(s) ==
  /\ pc[s] = "await"
  /\ PostRecv(s, Hello)
  /\ Goto(s, "handshake")
  /\ UNCHANGED <<handshake, sq, count>>

\* Mutants of Counted: one completion is enough, or one more is wanted.
CountedOne(n) == n >= 1
CountedThree(n) == n > 2

Counted(n) == n >= 2

\* One round of the loop: poll_cq takes all there is, and what is counted is
\* the wr_id, whatever the status.
HandshakePolls(s) ==
  LET hellos == {i \in DOMAIN cq[s] : cq[s][i].id = Hello} IN
  /\ pc[s] = "handshake" /\ cq[s] # <<>>
  /\ cq' = [cq EXCEPT ![s] = <<>>]
  /\ count' = [count EXCEPT ![s] = @ + Cardinality(hellos)]
  /\ Goto(s, IF Counted(count'[s]) THEN "connected" ELSE "handshake")
  /\ UNCHANGED <<handshake, sq, rq>>
------------------------------------------------------------------------------
(* The first message of the adapters' loops.                               *)

PostsData(s) ==
  /\ pc[s] = "connected"
  /\ IF s = "client" THEN PostSend(s, Data) /\ UNCHANGED rq
                     ELSE PostRecv(s, Data) /\ UNCHANGED sq
  /\ Goto(s, "data")
  /\ UNCHANGED <<handshake, count>>

\* Mutant of Fatal: like the handshake, the loop does not look at the status.
FatalNever(wc) == FALSE

Fatal(wc) == wc.status # "SUCCESS"

\* 'polling: an error is a panic, the opcode of the side ends the loop.
PollsData(s) ==
  LET wc     == cq[s][1]
      wanted == IF s = "client" THEN "SEND" ELSE "RECV"
  IN
  /\ pc[s] = "data" /\ cq[s] # <<>>
  /\ \/ /\ Fatal(wc)
        /\ Panics(s)
     \/ /\ ~ Fatal(wc)
        /\ cq' = [cq EXCEPT ![s] = Tail(@)]
        /\ Goto(s, IF wc.opcode = wanted THEN "streaming" ELSE "data")
        /\ UNCHANGED <<handshake, sq, rq, count>>
------------------------------------------------------------------------------
Server == Binds \/ Accepts \/ Replies

Client == ConnectRetry \/ WritesInfo

Both(s) ==
  \/ SetsUp(s) \/ ReadsInfo(s) \/ ModifiesQp(s)
  \/ HandshakeSends(s) \/ HandshakeReceives(s) \/ HandshakePolls(s)
  \/ PostsData(s) \/ PollsData(s)

Transport(s) == Deliver(s) \/ Acknowledge(s) \/ Exhaust(s)

Next ==
  \/ Server \/ Client
  \/ \E s \in Sides : Both(s) \/ Transport(s) \/ Dies(s) \/ Restarts(s)

\* The processes run, TCP and the cards make progress.  Nothing has to fail, and
\* nobody has to start a side again.
Fairness ==
  /\ WF_vars(Server) /\ WF_vars(Client)
  /\ \A s \in Sides :
       /\ WF_vars(Both(s))
       /\ WF_vars(Deliver(s)) /\ WF_vars(Acknowledge(s)) /\ WF_vars(Exhaust(s))

Spec == Init /\ [][Next]_vars /\ Fairness
------------------------------------------------------------------------------
States == {"gone", "setup", "bind", "accept", "connect", "write", "read", "reply",
           "modify", "hello", "await", "handshake", "connected", "data", "streaming"}

Ids == {Hello, Data}

Completions == [id : Ids, opcode : {"SEND", "RECV"},
                status : {"SUCCESS", "RETRY_EXC_ERR", "WR_FLUSH_ERR"}]

\* Completions that wait.
Unpolled(s) == Len(cq[s])

(* Type correctness: the cards of a side never have more than one send and *)
(* one receive, and at most two completions wait.                          *)
TypeOK ==
  /\ pc \in [Sides -> States] /\ start \in [Sides -> Starts]
  /\ backlog \in Seq(Starts) /\ stream \in Starts \cup {None}
  /\ written \subseteq Starts /\ reply \in [Starts -> Starts \cup {None}]
  /\ dest \in [Sides -> Starts \cup {None}]
  /\ qp \in [Sides -> {"RESET", "INIT", "RTR", "RTS", "ERR"}]
  /\ sq \in [Sides -> {<<>>, <<Hello>>, <<Data>>}]
  /\ rq \in [Sides -> {<<>>, <<Hello>>, <<Data>>}]
  /\ cq \in [Sides -> Seq(Completions)] /\ \A s \in Sides : Unpolled(s) <= 2
  /\ arrived \in [Sides -> BOOLEAN] /\ count \in [Sides -> 0 .. 2]
  /\ met \in [Sides -> SUBSET (Sides \X Ids \X Ids)]
  /\ faulty \in [Sides -> BOOLEAN]

\* The handshake has returned.
Returned == {"connected", "data", "streaming"}

\* The greetings of both sides have arrived.
Greeted(s) == \A t \in Sides : <<t, Hello, Hello>> \in met[s]

(* "Handshake done", State::Connected: the greetings of both sides have    *)
(* arrived.  The code counts failed completions too.                       *)
ConnectedMeansGreeted == \A s \in Sides : pc[s] \in Returned => Greeted(s)

(* It is so unless the queue pair is in error, and the first poll of the   *)
(* adapter's loop notices that: no side streams over a connection on which *)
(* the greetings did not arrive.  And both ends of a stream are the starts *)
(* that greeted each other: what is left of earlier starts, in the queue   *)
(* of the listener or in a stream, does not get into a connection.         *)
StreamingMeansGreeted ==
  /\ \A s \in Sides : pc[s] \in Returned /\ qp[s] # "ERR" => Greeted(s)
  /\ \A s \in Sides : pc[s] = "streaming" => Greeted(s)
  /\ (\A s \in Sides : pc[s] = "streaming") =>
        \A s \in Sides : dest[s] = start[Peer(s)]

(* handshake's buffer and memory region live on its stack: when it has     *)
(* returned, no work request of the card refers to them any more.  So a    *)
(* greeting never fills a receive of the stream, nor data the buffer of    *)
(* the handshake, and the adapter's first poll, which does not look at     *)
(* wr_id, ends for a message of the stream.                                *)
HandshakeLeavesNothing ==
  \A s \in Sides :
    /\ pc[s] \in Returned => ~ Contains(sq[s], Hello) /\ ~ Contains(rq[s], Hello)
    /\ \A m \in met[s] : m[2] = m[3]
    /\ pc[s] = "streaming" => <<"client", Data, Data>> \in met[s]

(* Two sides that start, for the first time or again, end up streaming,    *)
(* whoever starts first, unless one of them fails.                         *)
Connects ==
  (pc["server"] \in {"setup", "bind"} /\ pc["client"] \in {"setup", "connect"}) ~>
    ((\E s \in Sides : faulty[s]) \/ \A s \in Sides : pc[s] = "streaming")

\* The peer has taken this side's greeting and is gone without one of its own.
\* Nothing tells: the queue pair has nothing to send any more.
Forsaken(s) == pc[s] = "handshake" /\ sq[s] = <<>> /\ ~ Runs(Peer(s), dest[s])

(* A side that has got past accept or connect_retry, which wait for ever   *)
(* for a peer that does not come, is told when its peer has failed.  There *)
(* is one exception: a handshake that is forsaken does not end, and as the *)
(* listener is still open, a new client that connects to it waits too.     *)
WaitsOnlyWhenForsaken ==
  \A s \in Sides :
    /\ pc[s] = "handshake" ~> pc[s] # "handshake" \/ Forsaken(s)
    /\ pc[s] = "read" ~> pc[s] # "read" \/ Forsaken(Peer(s))
------------------------------------------------------------------------------
(* The inductive invariant behind the safety properties.                   *)

\* A side that has not read the DestQpInfo of its peer.
Fresh == {"gone", "setup", "bind", "accept", "connect", "write", "read"}

\* A side that has not posted anything.
Idle == Fresh \cup {"reply", "modify", "hello"}

Greeting == {"await", "handshake"}

\* What a process knows of its peer, and what its queue pair is good for.
QpInv(s) ==
  /\ pc[s] \in Fresh <=> dest[s] = None
  /\ pc[s] \in Fresh \cup {"reply"} => qp[s] = "RESET"
  /\ pc[s] = "modify" => qp[s] \in {"RESET", "INIT", "RTR"}
  /\ pc[s] = "hello" => qp[s] = "RTS"
  /\ pc[s] \in Greeting \cup Returned => qp[s] \in {"RTS", "ERR"}
  /\ qp[s] = "ERR" => sq[s] = <<>> /\ rq[s] = <<>>
  /\ arrived[s] => sq[s] # <<>>

\* The client has sent its first message, and the greetings came before it.
Streams(s) == Greeted(s) /\ <<"client", Data, Data>> \in met[s]

One(fact) == IF fact THEN 1 ELSE 0

\* Requests that are posted and not completed.
Pending(s) == One(sq[s] # <<>>) + One(rq[s] # <<>>)

\* Each request that is posted is on a queue of the card, completed, or counted.
WorkInv(s) ==
  /\ pc[s] \in Idle =>
       /\ sq[s] = <<>> /\ rq[s] = <<>> /\ cq[s] = <<>>
       /\ count[s] = 0 /\ met[s] = {}
  /\ pc[s] \in Greeting =>
       /\ sq[s] # <<Data>> /\ rq[s] # <<Data>>
       /\ \A wc \in Range(cq[s]) : wc.id = Hello
  /\ pc[s] = "await" =>
       rq[s] = <<>> /\ count[s] = 0 /\ Pending(s) + Unpolled(s) = 1
  /\ pc[s] = "handshake" =>
       count[s] < 2 /\ Pending(s) + Unpolled(s) + count[s] = 2
  /\ pc[s] \in {"connected", "streaming"} => sq[s] = <<>> /\ rq[s] = <<>> /\ cq[s] = <<>>
  /\ pc[s] = "data" =>
       /\ sq[s] # <<Hello>> /\ rq[s] # <<Hello>>
       /\ IF s = "client" THEN rq[s] = <<>> ELSE sq[s] = <<>>
       /\ Pending(s) + Unpolled(s) = 1
       /\ \A wc \in Range(cq[s]) :
            /\ wc.opcode = IF s = "client" THEN "SEND" ELSE "RECV"
            /\ ~ Fatal(wc) => Streams(s)
  /\ pc[s] = "streaming" => Streams(s)

\* While its queue pair works, what is not posted any more has met its match.
MetInv(s) ==
  /\ \A m \in met[s] : m[2] = m[3]
  /\ arrived[s] => <<s, sq[s][1], sq[s][1]>> \in met[s]
  /\ sq[s] = <<Hello>> /\ ~ arrived[s] => <<s, Hello, Hello>> \notin met[s]
  /\ pc[s] = "await" \/ rq[s] = <<Hello>> => <<Peer(s), Hello, Hello>> \notin met[s]
  /\ pc[s] \in Greeting \cup Returned /\ qp[s] = "RTS" =>
       /\ sq[s] # <<Hello>> => <<s, Hello, Hello>> \in met[s]
       /\ pc[s] # "await" /\ rq[s] # <<Hello>> => <<Peer(s), Hello, Hello>> \in met[s]

SideInv(s) == QpInv(s) /\ WorkInv(s) /\ MetInv(s)

\* What is written of a start is no news from the future.
TcpInv ==
  /\ \A s \in Sides : dest[s] <= start[Peer(s)]
  /\ \A n \in written : n <= start["client"]
  /\ \A n \in Starts : /\ reply[n] <= start["server"]
                       /\ n > start["client"] => reply[n] = None
  /\ pc["server"] \in {"read", "reply"} => stream # None
  /\ stream <= start["client"] /\ \A i \in 1 .. Len(backlog) : backlog[i] <= start["client"]
  /\ pc["client"] \notin Fresh => reply[start["client"]] # None

Linked == \A s \in Sides : Runs(Peer(s), dest[s])

\* A side has met no other process than the one it is linked with, if that still
\* runs; and a client that is started later gets no answer from that server.
PeerInv ==
  /\ Linked => met["client"] = met["server"]
  /\ \A s \in Sides :
       met[s] # {} /\ Runs(Peer(s), dest[s]) => dest[Peer(s)] = start[s]
  /\ met["server"] # {} =>
       dest["server"] = start["client"] \/ reply[start["client"]] = None

(* The inductive invariant: each request of the handshake and of the first *)
(* message is posted, completed or counted, what is neither has met the    *)
(* peer's, and the two processes that have met are linked.                 *)
IndInv ==
  /\ TypeOK
  /\ \A s \in Sides : SideInv(s)
  /\ TcpInv /\ PeerInv
------------------------------------------------------------------------------
(* What Connects and WaitsOnlyWhenForsaken rest on, and no fairness can    *)
(* make up for.                                                            *)

\* Who has asked whom over TCP.
AskInv ==
  /\ pc["client"] \notin {"bind", "accept", "reply"} /\ pc["server"] \notin {"connect", "write"}
  /\ pc["client"] \in {"setup", "connect"} =>
       /\ stream # start["client"]
       /\ \A i \in 1 .. Len(backlog) : backlog[i] # start["client"]
  /\ pc["client"] \notin {"gone", "setup", "connect", "write"} => start["client"] \in written
  /\ pc["server"] \in {"gone", "setup", "bind", "accept"} => stream = None
  /\ pc["server"] \notin Fresh \cup {"reply"} => stream # None /\ reply[stream] # None

\* The first message is delivered once: neither its send nor the receive that waits
\* for it has met anything before.
UnusedInv ==
  LET first == <<"client", Data, Data>> IN
  /\ pc["client"] \notin {"data", "streaming"} \/ (sq["client"] = <<Data>> /\ ~ arrived["client"]) =>
       first \notin met["client"]
  /\ pc["server"] \notin {"data", "streaming"} \/ rq["server"] = <<Data>> =>
       first \notin met["server"]

\* A process or a card has a step to take by itself: the guards of Server, Client,
\* Both and Transport.
SomebodyMoves ==
  \/ pc["server"] \in {"bind", "reply"} \/ (pc["server"] = "accept" /\ backlog # <<>>)
  \/ pc["client"] = "write" \/ (pc["client"] = "connect" /\ Listening)
  \/ \E s \in Sides :
       \/ pc[s] \in {"setup", "modify", "hello", "await", "connected"}
       \/ pc[s] = "read" /\ (Info(s) # None \/ Closed(s))
       \/ pc[s] \in {"handshake", "data"} /\ cq[s] # <<>>
       \/ arrived[s]
       \/ qp[s] = "RTS" /\ sq[s] # <<>> /\ (~ Reaches(s) \/ rq[Peer(s)] # <<>>)

\* What a side may wait for, for ever if nobody starts another process.
Rests(s) ==
  \/ pc[s] \in {"gone", "streaming"}
  \/ s = "server" /\ pc[s] = "accept" /\ backlog = <<>>
  \/ s = "client" /\ pc[s] = "connect" /\ ~ Listening
  \/ s = "server" /\ pc[s] = "data" /\ ~ Runs("client", dest[s])
  \/ Forsaken(s)
  \/ s = "client" /\ pc[s] = "read" /\ Forsaken("server")

(* Two sides never wait for each other, whatever their starts before have  *)
(* left behind: when nobody has a step left, either side streams, is gone, *)
(* or waits for a peer that is not there; but for a client that waits for  *)
(* a server whose handshake is forsaken.                                   *)
WaitsForNobody == SomebodyMoves \/ \A s \in Sides : Rests(s)
------------------------------------------------------------------------------
(* What the adapters' loops start from.                                    *)

\* A queue pair that gives up has reached nobody, as long as its peer is there.
AlikeInv ==
  Linked /\ (\E s \in Sides : qp[s] = "ERR") => \A s \in Sides : met[s] = {}

(* The handshakes of two processes that have not lost each other end       *)
(* alike: with queue pairs that both work, or that are both in error,      *)
(* which neither notices.                                                  *)
EndAlike ==
  Linked /\ (\A s \in Sides : pc[s] \in Returned) => qp["client"] = qp["server"]
==============================================================================
