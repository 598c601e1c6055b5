----------------------------- MODULE RcPingpong ------------------------------
(***************************************************************************)
(* rc-pingpong (rc-pingpong/rc-pingpong.c): a client and a server bounce a *)
(* message back and forth, each out of the one buffer it also receives     *)
(* into.  They exchange addresses over TCP; the server's queue pair is     *)
(* ready before it answers.  A side waits for completions by polling, or,  *)
(* with --events, for an event of its completion channel, after which it   *)
(* polls once for at most two completions.                                 *)
(***************************************************************************)
EXTENDS Integers, Sequences, FiniteSets

CONSTANTS
  IterCounts,   \* the values of --iters that are tried
  RxDepths      \* those of --rx-depth

ASSUME PingpongAssumption ==
  IterCounts \subseteq Nat \ {0} /\ RxDepths \subseteq Nat \ {0}

VARIABLES
  iters, rxDepth, useEvent,  \* the options of each side, which are not compared
  pc,                 \* where each side is
  listening,          \* the server's socket listens
  told,               \* the sides that have written to the TCP connection
  connected,          \* the queue pairs that are in RTS
  sq,                 \* the send of each side: none, posted or landed
  rq,                 \* receives posted on each side and not met
  cq,                 \* completion queue of each side
  armed, events,      \* ibv_req_notify_cq is in force; events of the channel
  wcs,                \* completions polled and not yet handled
  pending,            \* ctx->pending
  routs, rcnt, scnt,  \* the variables of main
  landed              \* messages of each side that have arrived

options == <<iters, rxDepth, useEvent>>
socket  == <<listening, told>>
channel == <<armed, events>>
counts  == <<pending, routs, rcnt, scnt>>
vars == <<options, pc, socket, connected, sq, rq, cq, channel, wcs, counts, landed>>

Sides == {"client", "server"}
Peer(s) == IF s = "client" THEN "server" ELSE "client"

Goto(s, label) == pc' = [pc EXCEPT ![s] = label]

\* A completion enters the queue, and makes an event if one was asked for.
Complete(s, wc) ==
  /\ cq' = [cq EXCEPT ![s] = Append(@, wc)]
  /\ armed' = [armed EXCEPT ![s] = FALSE]
  /\ events' = [events EXCEPT ![s] = IF armed[s] THEN @ + 1 ELSE @]

\* All receives are posted, and the notification requested, before the sides
\* talk to each other.
Init ==
  /\ iters \in [Sides -> IterCounts]
  /\ rxDepth \in [Sides -> RxDepths] /\ useEvent \in [Sides -> BOOLEAN]
  /\ pc = [s \in Sides |-> IF s = "client" THEN "dial" ELSE "listen"]
  /\ listening = FALSE /\ told = {} /\ connected = {}
  /\ sq = [s \in Sides |-> "none"] /\ rq = rxDepth
  /\ cq = [s \in Sides |-> <<>>]
  /\ armed = useEvent /\ events = [s \in Sides |-> 0]
  /\ wcs = [s \in Sides |-> <<>>]
  /\ pending = [s \in Sides |-> {}] /\ routs = rxDepth
  /\ rcnt = [s \in Sides |-> 0] /\ scnt = [s \in Sides |-> 0]
  /\ landed = [s \in Sides |-> 0]
------------------------------------------------------------------------------
(* The exchange of addresses, and the first message.                       *)

idle == <<options, sq, rq, cq, channel, wcs, counts, landed>>

Listen ==
  /\ pc["server"] = "listen"
  /\ Goto("server", "accept")
  /\ listening' = TRUE
  /\ UNCHANGED <<told, connected, idle>>

\* The client connects once, and writes its address.
Dial ==
  /\ pc["client"] = "dial"
  /\ \/ listening /\ Goto("client", "read") /\ told' = told \cup {"client"}
     \/ ~ listening /\ Goto("client", "refused") /\ UNCHANGED told
  /\ UNCHANGED <<listening, connected, idle>>

\* The server has the client's address.
Accept ==
  /\ pc["server"] = "accept" /\ "client" \in told
  /\ Goto("server", "connect")
  /\ UNCHANGED <<socket, connected, idle>>

\* Mutant of ServerConnects: the server answers first.
ServerConnectsLate ==
  \/ /\ pc["server"] = "connect"
     /\ Goto("server", "reply")
     /\ UNCHANGED <<socket, connected, idle>>
  \/ /\ pc["server"] = "loop" /\ "server" \notin connected
     /\ connected' = connected \cup {"server"}
     /\ UNCHANGED <<pc, socket, idle>>

\* pp_connect_ctx of the server
ServerConnects ==
  /\ pc["server"] = "connect"
  /\ Goto("server", "reply")
  /\ connected' = connected \cup {"server"}
  /\ UNCHANGED <<socket, idle>>

Reply ==
  /\ pc["server"] = "reply"
  /\ Goto("server", "done")
  /\ told' = told \cup {"server"}
  /\ UNCHANGED <<listening, connected, idle>>

\* The client has the server's address; "done".
ClientReads ==
  /\ pc["client"] = "read" /\ "server" \in told
  /\ Goto("client", "connect")
  /\ told' = told \cup {"done"}
  /\ UNCHANGED <<listening, connected, idle>>

\* Mutant of ServerStarts: both sides send first.
ServerSendsToo ==
  /\ pc["server"] = "done" /\ "done" \in told
  /\ Goto("server", "loop")
  /\ sq' = [sq EXCEPT !["server"] = "posted"]
  /\ pending' = [pending EXCEPT !["server"] = {"recv", "send"}]
  /\ UNCHANGED <<options, socket, connected, rq, cq, channel, wcs, routs, rcnt, scnt,
                 landed>>

ServerStarts ==
  /\ pc["server"] = "done" /\ "done" \in told
  /\ Goto("server", "loop")
  /\ pending' = [pending EXCEPT !["server"] = {"recv"}]
  /\ UNCHANGED <<options, socket, connected, sq, rq, cq, channel, wcs, routs, rcnt,
                 scnt, landed>>

\* pp_connect_ctx of the client, and the first pp_post_send
ClientStarts ==
  /\ pc["client"] = "connect"
  /\ Goto("client", "loop")
  /\ connected' = connected \cup {"client"}
  /\ sq' = [sq EXCEPT !["client"] = "posted"]
  /\ pending' = [pending EXCEPT !["client"] = {"recv", "send"}]
  /\ UNCHANGED <<options, socket, rq, cq, channel, wcs, routs, rcnt, scnt, landed>>
------------------------------------------------------------------------------
(* The loop of main.                                                       *)

network == <<options, socket, connected, landed>>

\* while (rcnt < iters || scnt < iters)
Loop(s) ==
  /\ pc[s] = "loop"
  /\ Goto(s, IF rcnt[s] >= iters[s] /\ scnt[s] >= iters[s] THEN "close"
             ELSE IF useEvent[s] THEN "event" ELSE "poll")
  /\ UNCHANGED <<network, sq, rq, cq, channel, wcs, counts>>

\* ibv_get_cq_event
GetEvent(s) ==
  /\ pc[s] = "event" /\ events[s] > 0
  /\ Goto(s, "arm")
  /\ events' = [events EXCEPT ![s] = @ - 1]
  /\ UNCHANGED <<network, sq, rq, cq, armed, wcs, counts>>

TwoOf(queue) == SubSeq(queue, 1, IF Len(queue) < 2 THEN Len(queue) ELSE 2)

\* Mutant of RestOf: the last completion is handled twice.
RestAndLast(queue) ==
  IF queue = <<>> THEN queue ELSE SubSeq(queue, Len(TwoOf(queue)), Len(queue))

RestOf(queue) == SubSeq(queue, Len(TwoOf(queue)) + 1, Len(queue))

\* Mutant of Arm: the notification is requested after the poll.
ArmLate(s) ==
  \/ /\ pc[s] = "arm"
     /\ wcs' = [wcs EXCEPT ![s] = TwoOf(cq[s])]
     /\ cq' = [cq EXCEPT ![s] = RestOf(@)]
     /\ Goto(s, "armlate")
     /\ UNCHANGED <<network, sq, rq, channel, counts>>
  \/ /\ pc[s] = "armlate"
     /\ armed' = [armed EXCEPT ![s] = TRUE]
     /\ Goto(s, IF wcs[s] = <<>> THEN "loop" ELSE "handle")
     /\ UNCHANGED <<network, sq, rq, cq, events, wcs, counts>>

\* ibv_req_notify_cq
Arm(s) ==
  /\ pc[s] = "arm"
  /\ Goto(s, "poll")
  /\ armed' = [armed EXCEPT ![s] = TRUE]
  /\ UNCHANGED <<network, sq, rq, cq, events, wcs, counts>>

\* ibv_poll_cq of two completions, again and again unless use_event
Poll(s) ==
  /\ pc[s] = "poll"
  /\ useEvent[s] \/ cq[s] # <<>>
  /\ wcs' = [wcs EXCEPT ![s] = TwoOf(cq[s])]
  /\ cq' = [cq EXCEPT ![s] = RestOf(@)]
  /\ Goto(s, IF cq[s] = <<>> THEN "loop" ELSE "handle")
  /\ UNCHANGED <<network, sq, rq, channel, counts>>

Unpolled(s, wc) == Cardinality({i \in 1 .. Len(cq[s]) : cq[s][i] = wc})

\* A queue pair holds max_send_wr = 1 send and max_recv_wr = rx_depth receives,
\* each until its completion is polled.
SendRoom(s) == sq[s] = "none" /\ Unpolled(s, "send") = 0

RecvRoom(s) == rxDepth[s] - rq[s] - Unpolled(s, "recv")

\* Mutant of LowOn: receives are posted again only when all are used up, and
\* one more.
LowOnNever(n) == n < 0

LowOn(n) == n <= 1

MoreToSend(s, n) == n < iters[s]

\* One completion: an error ends the program, and so does a post that fails.
Handle(s) ==
  LET wc      == Head(wcs[s])
      left    == IF wc = "recv" THEN routs[s] - 1 ELSE routs[s]
      wanted  == IF wc = "recv" /\ LowOn(left) THEN rxDepth[s] - left ELSE 0
      sentNow == IF wc = "send" THEN scnt[s] + 1 ELSE scnt[s]
      waits   == pending[s] \ {wc}
      sends   == MoreToSend(s, sentNow) /\ waits = {}
  IN
  /\ pc[s] = "handle"
  /\ IF wc = "error" \/ wanted > RecvRoom(s) \/ (sends /\ ~ SendRoom(s))
       THEN /\ Goto(s, "failed")
            /\ connected' = connected \ {s}
            /\ UNCHANGED <<sq, rq, wcs, counts>>
       ELSE /\ Goto(s, IF Len(wcs[s]) = 1 THEN "loop" ELSE "handle")
            /\ wcs' = [wcs EXCEPT ![s] = Tail(@)]
            /\ routs' = [routs EXCEPT ![s] = left + wanted]
            /\ rq' = [rq EXCEPT ![s] = @ + wanted]
            /\ rcnt' = [rcnt EXCEPT ![s] = IF wc = "recv" THEN @ + 1 ELSE @]
            /\ scnt' = [scnt EXCEPT ![s] = sentNow]
            /\ pending' = [pending EXCEPT ![s] = IF sends THEN {"recv", "send"} ELSE waits]
            /\ sq' = [sq EXCEPT ![s] = IF sends THEN "posted" ELSE @]
            /\ UNCHANGED connected
  /\ UNCHANGED <<options, socket, cq, channel, landed>>

\* pp_close_ctx: the queue pair is destroyed.  That destroying the completion
\* queue then fails, for the 199 other queue pairs made for it, is nothing to
\* the peer.
Close(s) ==
  /\ pc[s] = "close"
  /\ Goto(s, "closed")
  /\ connected' = connected \ {s}
  /\ UNCHANGED <<options, socket, sq, rq, cq, channel, wcs, counts, landed>>
------------------------------------------------------------------------------
(* The transport.                                                          *)

outside == <<options, pc, socket, connected, wcs, counts>>

Deliver(s) ==
  LET p == Peer(s) IN
  /\ sq[s] = "posted" /\ {s, p} \subseteq connected /\ rq[p] > 0
  /\ sq' = [sq EXCEPT ![s] = "landed"]
  /\ rq' = [rq EXCEPT ![p] = @ - 1]
  /\ landed' = [landed EXCEPT ![s] = @ + 1]
  /\ Complete(p, "recv")
  /\ UNCHANGED outside

Acknowledge(s) ==
  /\ sq[s] = "landed" /\ s \in connected
  /\ sq' = [sq EXCEPT ![s] = "none"]
  /\ Complete(s, "send")
  /\ UNCHANGED <<outside, rq, landed>>

\* Retries run out: the message, or its acknowledgement, was lost, and the peer
\* has no queue pair yet or any more.
Exhaust(s) ==
  /\ sq[s] # "none" /\ s \in connected /\ Peer(s) \notin connected
  /\ sq' = [sq EXCEPT ![s] = "none"]
  /\ Complete(s, "error")
  /\ UNCHANGED <<outside, rq, landed>>
------------------------------------------------------------------------------
Setup == Listen \/ Dial \/ Accept \/ ServerConnects \/ Reply \/ ClientReads
         \/ ServerStarts \/ ClientStarts

Main(s) == Loop(s) \/ GetEvent(s) \/ Arm(s) \/ Poll(s) \/ Handle(s) \/ Close(s)

Transport(s) == Deliver(s) \/ Acknowledge(s) \/ Exhaust(s)

Next == Setup \/ \E s \in Sides : Main(s) \/ Transport(s)

\* The programs run and the cards make progress.
Fairness ==
  /\ WF_vars(Setup)
  /\ \A s \in Sides : WF_vars(Main(s)) /\ WF_vars(Transport(s))

Spec == Init /\ [][Next]_vars /\ Fairness
------------------------------------------------------------------------------
\* The exchanges that both sides want.
Common == IF iters["client"] < iters["server"] THEN iters["client"] ELSE iters["server"]

States == {"dial", "read", "refused", "listen", "accept", "reply", "done", "connect",
           "loop", "event", "arm", "poll", "handle", "close", "closed", "failed"}

Kinds == {"send", "recv", "error"}

(* Type correctness; a side sends --iters messages at most, and receives   *)
(* at most one that it did not ask for.                                    *)
TypeOK ==
  /\ iters \in [Sides -> IterCounts]
  /\ rxDepth \in [Sides -> RxDepths] /\ useEvent \in [Sides -> BOOLEAN]
  /\ pc \in [Sides -> States]
  /\ listening \in BOOLEAN
  /\ told \subseteq Sides \cup {"done"} /\ connected \subseteq Sides
  /\ sq \in [Sides -> {"none", "posted", "landed"}] /\ rq \in [Sides -> Nat]
  /\ cq \in [Sides -> Seq(Kinds)] /\ wcs \in [Sides -> Seq(Kinds)]
  /\ armed \in [Sides -> BOOLEAN] /\ events \in [Sides -> Nat]
  /\ pending \in [Sides -> SUBSET {"send", "recv"}]
  /\ routs \in [Sides -> Nat]
  /\ scnt \in [Sides -> Nat] /\ rcnt \in [Sides -> Nat]
  /\ landed \in [Sides -> Nat]

(* A side sends from the buffer it receives into: no message is on its way *)
(* to a side whose own has not arrived.  The sides take turns, whatever    *)
(* their options.                                                          *)
BufferStable ==
  /\ ~ (sq["client"] = "posted" /\ sq["server"] = "posted")
  /\ landed["client"] - landed["server"] \in {0, 1}

\* Two completions wait at most, besides an error: wc[2] is enough for one poll
\* per event, and the completion queue of rx_depth + 1 never overruns.
PollTakesAll ==
  \A s \in Sides : Unpolled(s, "send") + Unpolled(s, "recv") <= 2

\* A message never waits for a receive, although receives are posted again only
\* when one is left.
ReceiverReady ==
  \A s \in Sides : sq[s] = "posted" /\ Peer(s) \in connected => rq[Peer(s)] > 0

(* The queues suffice: one poll of wc[2] takes all that an event announced, *)
(* and every message meets a receive.                                      *)
QueuesSuffice == PollTakesAll /\ ReceiverReady

(* "Failed status": a side fails only at the very end, when all messages   *)
(* that both sides want have arrived and the peer, which wanted no more,   *)
(* is gone.                                                                *)
FailsOnlyAtTheEnd ==
  \A s \in Sides : pc[s] = "failed" =>
    /\ pc[Peer(s)] = "closed" /\ iters[Peer(s)] <= iters[s]
    /\ \A t \in Sides : landed[t] >= Common

(* No wakeup is lost, with --events or without: once the client has        *)
(* reached the server, a side returns whose peer has as many iterations or *)
(* more.  The other one may wait for ever for a message that is not sent.  *)
Finishes ==
  \A s \in Sides :
    ("client" \in told /\ iters[s] <= iters[Peer(s)]) ~> pc[s] \in {"closed", "failed"}
------------------------------------------------------------------------------
(* The inductive invariant behind the safety properties.                   *)

In(queue) == {queue[i] : i \in 1 .. Len(queue)}

\* Completions that a side has not handled.
Waiting(s) == In(cq[s]) \cup In(wcs[s])

One(fact) == IF fact THEN 1 ELSE 0

\* The messages that a side has posted.
Posts(s) ==
  scnt[s] + One("send" \in Waiting(s)) + One("error" \in Waiting(s)) + One(sq[s] # "none")

\* At most one send and one receive, each with at most one completion.
IsQueue(queue) ==
  /\ Len(queue) <= 2
  /\ \A i, j \in 1 .. Len(queue) : queue[i] = queue[j] => i = j

QueueInv(s) ==
  /\ IsQueue(cq[s]) /\ IsQueue(wcs[s])
  /\ In(cq[s]) \cap In(wcs[s]) = {}
  /\ "send" \notin Waiting(s) \/ "error" \notin Waiting(s)
  /\ sq[s] # "none" => "send" \notin Waiting(s) /\ "error" \notin Waiting(s)
  /\ wcs[s] # <<>> <=> pc[s] \in {"handle", "failed"}

\* Every message of the peer takes a receive, and is counted when it is handled.
ReceiveInv(s) ==
  /\ routs[s] > 0 /\ routs[s] <= rxDepth[s]
  /\ rq[s] + One("recv" \in Waiting(s)) = routs[s]
  /\ rcnt[s] + One("recv" \in Waiting(s)) = landed[Peer(s)]

\* A side posts a message, waits for its completion and only then the next.
SendInv(s) ==
  /\ Posts(s) <= iters[s]
  /\ Posts(s) = scnt[s] + One("send" \in pending[s])
  /\ landed[s] <= Posts(s) /\ Posts(s) <= landed[s] + 1
  /\ sq[s] = "posted" => landed[s] + 1 = Posts(s)
  /\ sq[s] # "posted" /\ "error" \notin Waiting(s) => landed[s] = Posts(s)

Starting == {"dial", "listen", "accept", "read", "refused", "reply", "done", "connect"}

\* The client posts its next message when it has the server's answer to the last,
\* the server when it has the client's next.
TurnInv ==
  /\ \A s \in Sides : pc[s] \in Starting => Posts(s) = 0 /\ rcnt[s] = 0
  /\ pc["client"] \notin Starting =>
       Posts("client") = rcnt["client"] + One("recv" \in pending["client"])
  /\ pc["server"] \notin Starting =>
       Posts("server") = rcnt["server"] - One("recv" \notin pending["server"])

\* The server is connected before the client is, and both stay so while they run.
SetupInv ==
  /\ pc["client"] \notin {"listen", "accept", "reply", "done"}
  /\ pc["server"] \notin {"dial", "read", "refused"}
  /\ "client" \in connected <=> pc["client"] \notin Starting \cup {"closed", "failed"}
  /\ "server" \in connected <=>
       pc["server"] \notin {"listen", "accept", "connect", "closed", "failed"}
  /\ pc["client"] \notin {"dial", "read", "refused"} => "server" \in told
  /\ "server" \in told =>
       pc["server"] \notin {"listen", "accept", "connect", "reply"}

\* A side that returns has all it wants; a completion in error comes from the
\* peer's return, and is all that fails a side.
EndInv(s) ==
  /\ pc[s] \in {"close", "closed"} => rcnt[s] >= iters[s] /\ scnt[s] >= iters[s]
  /\ "error" \in Waiting(s) => pc[Peer(s)] = "closed"
  /\ pc[s] = "failed" => "error" \in Waiting(s)

(* The counts: each completion occurs once, what is posted, landed and     *)
(* pending agrees, and each side's next message waits for the other's last. *)
CountsInv ==
  /\ TypeOK
  /\ \A s \in Sides : QueueInv(s) /\ ReceiveInv(s) /\ SendInv(s) /\ EndInv(s)
  /\ TurnInv /\ SetupInv

\* With --events, a completion that nobody has polled yet has made an event, or
\* is about to be polled.  A side waits only while it wants more, and has
\* nothing to wait for only when it has sent all.
WakeInv(s) ==
  /\ pc[s] \in {"event", "arm"} => useEvent[s]
  /\ useEvent[s] /\ pc[s] # "arm" => armed[s] \/ events[s] > 0
  /\ useEvent[s] /\ pc[s] \notin {"arm", "poll"} => cq[s] = <<>> \/ events[s] > 0
  /\ pc[s] \in {"event", "arm", "poll"} => rcnt[s] < iters[s] \/ scnt[s] < iters[s]
  /\ pc[s] \notin Starting /\ pending[s] = {} => scnt[s] >= iters[s]

\* Who has written to the TCP connection.
ToldInv ==
  /\ "client" \in told <=> pc["client"] \notin {"dial", "refused"}
  /\ "server" \in told <=> pc["server"] \notin {"listen", "accept", "connect", "reply"}
  /\ "done" \in told <=> pc["client"] \notin {"dial", "refused", "read"}

(* The inductive invariant: the counts, and that no wakeup is lost.        *)
IndInv ==
  /\ CountsInv
  /\ \A s \in Sides : WakeInv(s)
  /\ ToldInv
------------------------------------------------------------------------------
(* What Finishes rests on, and no fairness can make up for.                *)

(* A side that waits for an event while a completion is in its queue has   *)
(* one coming: ibv_req_notify_cq comes before the last ibv_poll_cq.        *)
NoLostWakeup ==
  \A s \in Sides : pc[s] = "event" /\ cq[s] # <<>> => events[s] > 0

\* Some step is possible: the guards of the actions.
Moves ==
  \/ pc["client"] \in {"dial", "connect"} \/ pc["server"] \in {"listen", "connect", "reply"}
  \/ pc["server"] = "accept" /\ "client" \in told
  \/ pc["client"] = "read" /\ "server" \in told
  \/ pc["server"] = "done" /\ "done" \in told
  \/ \E s \in Sides :
       \/ pc[s] \in {"loop", "arm", "handle", "close"}
       \/ pc[s] = "event" /\ events[s] > 0
       \/ pc[s] = "poll" /\ (useEvent[s] \/ cq[s] # <<>>)
       \/ sq[s] = "posted" /\ {s, Peer(s)} \subseteq connected /\ rq[Peer(s)] > 0
       \/ sq[s] = "landed" /\ s \in connected
       \/ sq[s] # "none" /\ s \in connected /\ Peer(s) \notin connected

(* The sides never wait for each other: once the client has reached the    *)
(* server, there is a step to take until a side whose peer wants as many   *)
(* messages or more has returned.                                          *)
NeverStuck ==
  \A s \in Sides :
    "client" \in told /\ iters[s] <= iters[Peer(s)] => pc[s] \in {"closed", "failed"} \/ Moves
==============================================================================
