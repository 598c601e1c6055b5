------------------------------ MODULE Loopback -------------------------------
(***************************************************************************)
(* The loopback test (loopback/src): client and server in one process, a   *)
(* host and an adapter thread each.  The four meet at a barrier; after     *)
(* spec.duration each host sets the stop flag of its side, which its       *)
(* adapter reads only while it polls for a completion.  An adapter that    *)
(* returns deregisters its memory while its work request is still posted.  *)
(*                                                                         *)
(* A message is the unit: spec.message_size and spec.batch_size are equal. *)
(* What the rings and the transport do in detail is in RefRingBuffer and   *)
(* RcQueuePair.                                                            *)
(***************************************************************************)
EXTENDS Integers, FiniteSets

CONSTANTS
  Room,         \* messages that fit in a ring: buffer_size / message_size
  MaxMessages   \* bound: messages that the client's host writes at most

ASSUME LoopbackAssumption == Room \in Nat \ {0} /\ MaxMessages \in Nat

VARIABLES
  ready,        \* threads that have reached the barrier
  link,         \* the queue pairs of both sides when setup_ib has returned, or "none"
  hpc, apc,     \* where the host and the adapter of each side are
  stop,         \* the stop flag of each side
  head, tail,   \* the counters of each ring, in messages
  mem,          \* the message in each slot of each ring, or Empty
  expected,     \* the server's host's next message
  sendAt,       \* slot of the posted send, or None
  recvAt,       \* slot of the posted receive, or None
  landed,       \* messages copied into the server's ring so far
  unacked,      \* the posted send has landed
  cq            \* what the completion queue of each side holds

barrier   == <<ready, link>>
rings     == <<head, tail, mem>>
transport == <<sendAt, recvAt, landed, unacked, cq>>
vars == <<barrier, hpc, apc, stop, rings, expected, transport>>

Sides == {"client", "server"}
Slots == 0 .. Room - 1
Empty == -1
None  == -1

\* The slot of the p-th message: (p * message_size) % buffer_size
SlotOf(p) == p % Room

Init ==
  /\ ready = 0 /\ link = "none"
  /\ hpc = [s \in Sides |-> "start"] /\ apc = [s \in Sides |-> "setup"]
  /\ stop = [s \in Sides |-> FALSE]
  /\ head = [s \in Sides |-> 0] /\ tail = [s \in Sides |-> 0]
  /\ mem = [s \in Sides |-> [i \in Slots |-> Empty]]
  /\ expected = 0
  /\ sendAt = None /\ recvAt = None /\ landed = 0 /\ unacked = FALSE
  /\ cq = [s \in Sides |-> "none"]
------------------------------------------------------------------------------
(* The barrier.                                                            *)

AllReady == ready >= 4

\* ready.fetch_add of a host
HostArrives(s) ==
  /\ hpc[s] = "start"
  /\ hpc' = [hpc EXCEPT ![s] = "barrier"]
  /\ ready' = ready + 1
  /\ UNCHANGED <<link, apc, stop, rings, expected, transport>>

\* setup_ib and the registration have returned, ready.fetch_add.  setup_ib also
\* returns Ok when the greetings have failed and the queue pair is in error (see
\* Connection): then those of both sides are (EndAlike).
AdapterArrives(s) ==
  /\ apc[s] = "setup"
  /\ apc' = [apc EXCEPT ![s] = "barrier"]
  /\ link' \in IF link = "none" THEN {"RTS", "ERR"} ELSE {link}
  /\ ready' = ready + 1
  /\ UNCHANGED <<hpc, stop, rings, expected, transport>>

\* .expect("Failed to setup IB"): the thread is gone, the others stay.  Or it never
\* leaves its handshake, because the other one is gone.
SetupFails(s) ==
  /\ apc[s] = "setup"
  /\ apc' = [apc EXCEPT ![s] = "failed"]
  /\ UNCHANGED <<barrier, hpc, stop, rings, expected, transport>>

HostPasses(s) ==
  /\ hpc[s] = "barrier" /\ AllReady
  /\ hpc' = [hpc EXCEPT ![s] = "work"]
  /\ UNCHANGED <<barrier, apc, stop, rings, expected, transport>>

AdapterPasses(s) ==
  /\ apc[s] = "barrier" /\ AllReady
  /\ apc' = [apc EXCEPT ![s] = "try"]
  /\ UNCHANGED <<barrier, hpc, stop, rings, expected, transport>>
------------------------------------------------------------------------------
(* The hosts.                                                              *)

\* Mutant of HasRoom: a full ring has room for one more.
HasRoomOneMore(s) == tail[s] - head[s] <= Room

HasRoom(s) == tail[s] - head[s] < Room

\* try_reserve, fill and commit a batch
ClientHostWrites ==
  /\ hpc["client"] = "work"
  /\ tail["client"] < MaxMessages
  /\ HasRoom("client")
  /\ mem' = [mem EXCEPT !["client"][SlotOf(tail["client"])] = tail["client"]]
  /\ tail' = [tail EXCEPT !["client"] = @ + 1]
  /\ UNCHANGED <<barrier, hpc, apc, stop, head, expected, transport>>

\* read_exact, check and commit a batch
ServerHostReads ==
  /\ hpc["server"] = "work"
  /\ head["server"] < tail["server"]
  /\ IF mem["server"][SlotOf(head["server"])] = expected
       THEN /\ expected' = expected + 1
            /\ head' = [head EXCEPT !["server"] = @ + 1]
            /\ UNCHANGED hpc
       ELSE /\ hpc' = [hpc EXCEPT !["server"] = "panicked"]
            /\ UNCHANGED <<head, expected>>
  /\ UNCHANGED <<barrier, apc, stop, tail, mem, transport>>

\* clock.now() - begin > spec.duration
TimeIsUp(s) ==
  /\ hpc[s] = "work"
  /\ hpc' = [hpc EXCEPT ![s] = "stop"]
  /\ UNCHANGED <<barrier, apc, stop, rings, expected, transport>>

\* stop.store_release(true)
HostStops(s) ==
  /\ hpc[s] = "stop"
  /\ hpc' = [hpc EXCEPT ![s] = "ended"]
  /\ stop' = [stop EXCEPT ![s] = TRUE]
  /\ UNCHANGED <<barrier, apc, rings, expected, transport>>
------------------------------------------------------------------------------
(* The adapters.                                                           *)

\* A queue pair in error flushes at once what is posted.
Flushed(s) == cq' = [cq EXCEPT ![s] = "error"]

\* read_exact and post_send
ClientPosts ==
  /\ apc["client"] = "try"
  /\ head["client"] < tail["client"]
  /\ IF link = "ERR" THEN Flushed("client") /\ UNCHANGED sendAt
                     ELSE sendAt' = SlotOf(head["client"]) /\ UNCHANGED cq
  /\ apc' = [apc EXCEPT !["client"] = "check"]
  /\ UNCHANGED <<barrier, hpc, stop, rings, expected, recvAt, landed, unacked>>

\* try_reserve and post_recv
ServerPosts ==
  /\ apc["server"] = "try"
  /\ HasRoom("server")
  /\ IF link = "ERR" THEN Flushed("server") /\ UNCHANGED recvAt
                     ELSE recvAt' = SlotOf(tail["server"]) /\ UNCHANGED cq
  /\ apc' = [apc EXCEPT !["server"] = "check"]
  /\ UNCHANGED <<barrier, hpc, stop, rings, expected, sendAt, landed, unacked>>

\* Mutant of Stopped: both sides share one flag.
StoppedEither(s) == \E t \in Sides : stop[t]

Stopped(s) == stop[s]

\* Mutant of AtStop: the flag ends the polling loop only.
AtStopCommits == "commit"

AtStop == "ended"

\* stop.load_acquire: break 'outer, and the memory region is deregistered.
ChecksStop(s) ==
  /\ apc[s] = "check"
  /\ apc' = [apc EXCEPT ![s] = IF Stopped(s) THEN AtStop ELSE "poll"]
  /\ UNCHANGED <<barrier, hpc, stop, rings, expected, transport>>

\* Mutants of AfterEmptyPoll: it ends the loop as well, or it is repeated without
\* a look at the flag.
AfterEmptyPollCommit == "commit"
AfterEmptyPollAgain  == "poll"

AfterEmptyPoll == "check"

\* poll_cq: nothing, the completion waited for, or one in error.  A panic
\* deregisters the memory as well.
Polls(s) ==
  /\ apc[s] = "poll"
  /\ apc' = [apc EXCEPT ![s] = CASE cq[s] = "none"  -> AfterEmptyPoll
                                 [] cq[s] = "ok"    -> "commit"
                                 [] cq[s] = "error" -> "panicked"]
  /\ cq' = [cq EXCEPT ![s] = "none"]
  /\ UNCHANGED <<barrier, hpc, stop, rings, expected, sendAt, recvAt, landed, unacked>>

\* reader.commit(), buffer.commit()
Commits(s) ==
  /\ apc[s] = "commit"
  /\ apc' = [apc EXCEPT ![s] = "try"]
  /\ IF s = "client"
       THEN head' = [head EXCEPT ![s] = @ + 1] /\ UNCHANGED tail
       ELSE tail' = [tail EXCEPT ![s] = @ + 1] /\ UNCHANGED head
  /\ UNCHANGED <<barrier, hpc, stop, mem, expected, transport>>
------------------------------------------------------------------------------
(* The transport.  Queue pairs are never destroyed, memory regions are.    *)

Registered(s) == apc[s] \notin {"setup", "failed", "ended", "panicked"}

Deliver ==
  /\ sendAt # None /\ ~ unacked /\ recvAt # None
  /\ Registered("client") /\ Registered("server")
  /\ mem' = [mem EXCEPT !["server"][recvAt] = mem["client"][sendAt]]
  /\ recvAt' = None
  /\ landed' = landed + 1
  /\ unacked' = TRUE
  /\ cq' = [cq EXCEPT !["server"] = "ok"]
  /\ UNCHANGED <<barrier, hpc, apc, stop, head, tail, expected, sendAt>>

Acknowledge ==
  /\ unacked
  /\ sendAt' = None /\ unacked' = FALSE
  /\ cq' = [cq EXCEPT !["client"] = "ok"]
  /\ UNCHANGED <<barrier, hpc, apc, stop, rings, expected, recvAt, landed>>

\* The receive that a message meets refers to memory that is gone.
Refuse ==
  /\ sendAt # None /\ ~ unacked /\ recvAt # None
  /\ Registered("client") /\ ~ Registered("server")
  /\ sendAt' = None /\ recvAt' = None
  /\ cq' = [s \in Sides |-> "error"]
  /\ UNCHANGED <<barrier, hpc, apc, stop, rings, expected, landed, unacked>>
------------------------------------------------------------------------------
Host(s) ==
  \/ HostArrives(s) \/ HostPasses(s) \/ HostStops(s)
  \/ s = "client" /\ ClientHostWrites
  \/ s = "server" /\ ServerHostReads

Adapter(s) ==
  \/ AdapterArrives(s) \/ AdapterPasses(s)
  \/ ChecksStop(s) \/ Polls(s) \/ Commits(s)
  \/ s = "client" /\ ClientPosts
  \/ s = "server" /\ ServerPosts

Transport == Deliver \/ Acknowledge \/ Refuse

Next ==
  \/ \E s \in Sides : Host(s) \/ TimeIsUp(s) \/ Adapter(s) \/ SetupFails(s)
  \/ Transport

\* The threads run, the cards make progress, and time passes.
Fairness ==
  /\ \A s \in Sides : WF_vars(Host(s)) /\ WF_vars(TimeIsUp(s)) /\ WF_vars(Adapter(s))
  /\ WF_vars(Transport)

Spec == Init /\ [][Next]_vars /\ Fairness
------------------------------------------------------------------------------
(* Type correctness.                                                       *)
TypeOK ==
  /\ ready \in 0 .. 4 /\ link \in {"none", "RTS", "ERR"}
  /\ hpc \in [Sides -> {"start", "barrier", "work", "stop", "ended", "panicked"}]
  /\ apc \in [Sides -> {"setup", "failed", "barrier", "try", "check", "poll",
                        "commit", "ended", "panicked"}]
  /\ stop \in [Sides -> BOOLEAN]
  /\ head \in [Sides -> Nat] /\ tail \in [Sides -> Nat]
  /\ \A s \in Sides : tail[s] - head[s] \in 0 .. Room
  /\ mem \in [Sides -> [Slots -> 0 .. MaxMessages \cup {Empty}]]
  /\ expected \in Nat /\ landed \in Nat
  /\ sendAt \in Slots \cup {None} /\ recvAt \in Slots \cup {None}
  /\ unacked \in BOOLEAN
  /\ cq \in [Sides -> {"none", "ok", "error"}]

(* Each side commits the messages that have landed, and no other, also     *)
(* when it is stopped in the middle of one: the counters of the two rings  *)
(* never drift apart by more than the message in flight, and the server's  *)
(* host never sees a "Data mismatch" (loopback/src/server.rs:83), however  *)
(* the sides stop.                                                         *)
InStep ==
  /\ landed - 1 <= head["client"] /\ head["client"] <= landed
  /\ landed - 1 <= tail["server"] /\ tail["server"] <= landed
  /\ hpc["server"] # "panicked"

(* Over a connection that works, the client's adapter panics only when the *)
(* server has stopped before it, and the server's never.  Over one whose   *)
(* handshake has failed unnoticed, an adapter finds out before it takes    *)
(* any message for sent or received.                                       *)
PanicsHaveACause ==
  /\ apc["client"] = "panicked" => link = "ERR" \/ stop["server"]
  /\ apc["server"] = "panicked" => link = "ERR"
  /\ link = "ERR" => head["client"] = 0 /\ tail["server"] = 0

Over(s) == apc[s] \in {"ended", "panicked"}

(* An adapter of a busy side stops: one whose ring, when the flag is set,  *)
(* still has work for two more messages.                                   *)
StopsIfBusy ==
  /\ stop["client"] /\ tail["client"] - head["client"] >= 2 ~> Over("client")
  /\ stop["server"] /\ tail["server"] - head["server"] <= Room - 2 ~> Over("server")

(* "Finished RDMA Ring Buffer Test" (loopback/src/server.rs:100): the test *)
(* ends when the time is up.                                               *)
Finishes == ready = 4 ~> \A s \in Sides : hpc[s] = "ended" /\ Over(s)
------------------------------------------------------------------------------
(* The inductive invariant behind the safety properties.                   *)

\* Every thread is counted at the barrier once.
BarrierInv ==
  LET host(s)    == IF hpc[s] = "start" THEN 0 ELSE 1
      adapter(s) == IF apc[s] \in {"setup", "failed"} THEN 0 ELSE 1
  IN  ready = host("client") + adapter("client") + host("server") + adapter("server")

\* Who has left setup_ib has a queue pair, and a message lands only over one that works.
LinkInv ==
  /\ \A s \in Sides : apc[s] \notin {"setup", "failed"} => link # "none"
  /\ link # "RTS" => landed = 0

Idle(s) == apc[s] \in {"setup", "failed", "barrier", "try"}
Busy(s) == apc[s] \in {"check", "poll", "ended"}

\* The send is posted from slot at, has landed or not, or wc tells how it ended;
\* n of the message at head have landed.
SendIs(at, un, wc, n) ==
  /\ sendAt = at /\ unacked = un /\ cq["client"] = wc
  /\ landed = head["client"] + n

\* The client's adapter waits for the message at head, which stays where it is
\* until it has been waited for.  Only a failed handshake or the end of the server
\* fails it.
ClientInv ==
  LET at    == SlotOf(head["client"])
      fails == link = "ERR" \/ apc["server"] = "ended"
  IN
  /\ Idle("client") => SendIs(None, FALSE, "none", 0)
  /\ Busy("client") =>
       /\ head["client"] < tail["client"]
       /\ \/ SendIs(at, FALSE, "none", 0) /\ link = "RTS"
          \/ SendIs(at, TRUE, "none", 1)
          \/ SendIs(None, FALSE, "ok", 1)
          \/ SendIs(None, FALSE, "error", 0) /\ fails
  /\ apc["client"] = "commit" =>
       head["client"] < tail["client"] /\ SendIs(None, FALSE, "none", 1)
  /\ apc["client"] = "panicked" =>
       SendIs(None, FALSE, "none", 0) /\ fails

RecvIs(at, wc, n) ==
  /\ recvAt = at /\ cq["server"] = wc
  /\ landed = tail["server"] + n

\* The server's adapter waits for the message that goes to tail.
ServerInv ==
  /\ Idle("server") => RecvIs(None, "none", 0)
  /\ Busy("server") =>
       /\ HasRoom("server")
       /\ \/ RecvIs(SlotOf(tail["server"]), "none", 0) /\ link = "RTS"
          \/ RecvIs(None, "ok", 1)
          \/ RecvIs(None, "error", 0) /\ (link = "ERR" \/ apc["server"] = "ended")
  /\ apc["server"] = "commit" => HasRoom("server") /\ RecvIs(None, "none", 1)
  /\ apc["server"] = "ended" => stop["server"]
  /\ apc["server"] = "panicked" => RecvIs(None, "none", 0) /\ link = "ERR"

\* The rings hold the messages that are in flight, the server's also the one
\* that has landed and is not committed.
DataInv ==
  /\ \A p \in head["client"] .. tail["client"] - 1 : mem["client"][SlotOf(p)] = p
  /\ \A p \in head["server"] .. landed - 1 : mem["server"][SlotOf(p)] = p
  /\ expected = head["server"]
  /\ hpc["server"] # "panicked"

(* The inductive invariant.                                                *)
IndInv == TypeOK /\ BarrierInv /\ LinkInv /\ ClientInv /\ ServerInv /\ DataInv
------------------------------------------------------------------------------
(* What the liveness properties rest on, and no fairness can make up for.  *)

\* A step that takes a message on is possible: an adapter's, other than one more
\* look at an empty completion queue, or the transport's.
MessageMoves ==
  \/ \E s \in Sides :
       \/ apc[s] \in {"barrier", "commit"}
       \/ apc[s] \in {"check", "poll"} /\ cq[s] # "none"
  \/ apc["client"] = "try" /\ head["client"] < tail["client"]
  \/ apc["server"] = "try" /\ HasRoom("server")
  \/ unacked \/ (sendAt # None /\ recvAt # None)

(* The adapters never wait for each other: past the barrier, while neither *)
(* has stopped and there is a message to send and room for it, it goes on. *)
NeverStalls ==
  /\ ready = 4 /\ \A s \in Sides : ~ Over(s)
  /\ head["client"] < tail["client"] /\ HasRoom("server")
  => MessageMoves

\* An adapter that has nothing to work on, and whose host has ended.
Starved(s) ==
  /\ apc[s] = "try" /\ hpc[s] = "ended"
  /\ IF s = "client" THEN head[s] = tail[s] ELSE ~ HasRoom(s)

(* Why the test may never end: no step of anybody saves an adapter that is *)
(* starved, as it reads the stop flag only after it has posted a request.  *)
StarvedForGood == [][\A s \in Sides : Starved(s) => Starved(s)']_vars
==============================================================================
