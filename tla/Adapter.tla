------------------------------- MODULE Adapter -------------------------------
(***************************************************************************)
(* The adapter processes (adapter/src/main.rs): the client's takes whole   *)
(* messages from its ring and posts them as sends, the server's reserves   *)
(* room for whole messages and posts it as receives.  Neither copies       *)
(* anything: the card works on the slots of the chunk, and the chunk is    *)
(* committed when its completion has been polled.  A second thread of each *)
(* ends the process when the host at the other end of the IPC socket ends. *)
(*                                                                         *)
(* The counters of a ring are loaded and stored in single steps here, and  *)
(* a load sees the last store: RefRingBuffer shows that this is what the   *)
(* weaker loads of the code amount to.                                     *)
(***************************************************************************)
EXTENDS RcQueuePair

VARIABLES
  msg,     \* --message-size of each adapter
  apc,     \* where its main thread is
  chunk    \* the chunk of its ring that it holds

avars == <<msg, apc, chunk>>

Chunk(start, len) == [start |-> start, end |-> start + len]

ChunkLen(c) == c.end - c.start

AdapterInit ==
  /\ apc = [s \in Sides |-> "try"]
  /\ chunk = [s \in Sides |-> Chunk(0, 0)]

At(s, label) == up[s] /\ apc[s] = label

Goto(s, label) == apc' = [apc EXCEPT ![s] = label]

\* Mutant of Wanted: the server's adapter reserves one slot too few.
WantedShort(s) == IF s = "server" THEN msg[s] - 1 ELSE msg[s]

Wanted(s) == msg[s]

\* receiver.read_exact(message_size) of the client, sender.try_reserve of the
\* server; when there is less, the loop tries again.
Takes(s) ==
  LET r == ring[s] IN
  /\ At(s, "try")
  /\ \/ /\ s = "client" /\ Readable(r.head, r.tail) >= Wanted(s)
        /\ chunk' = [chunk EXCEPT ![s] = Chunk(r.head, Wanted(s))]
     \/ /\ s = "server" /\ Reservable(r.head, r.tail) >= Wanted(s)
        /\ chunk' = [chunk EXCEPT ![s] = Chunk(r.tail, Wanted(s))]
  /\ Goto(s, "post")
  /\ UNCHANGED <<qpVars, msg>>

\* The rings after commit(): the client's adapter moves head, the server's tail.
Committed(s) ==
  IF s = "client" THEN [ring EXCEPT ![s].head = chunk[s].end]
                  ELSE [ring EXCEPT ![s].tail = chunk[s].end]

\* Mutant of AtPost: the chunk is committed as soon as it is posted.
AtPostCommitted(s) == Committed(s)

AtPost(s) == ring

\* Mutant of AfterPost: nobody waits for the completion.
AfterPostCommits(s) == IF s = "server" THEN "commit" ELSE "poll"

AfterPost(s) == "poll"

\* ib_resource.post_send(2, &mut mr, reader.deref(), true) of the client,
\* ib_resource.post_recv(2, &mut mr, Out::from(writer.deref_mut())) of the server.
Posts(s) ==
  /\ At(s, "post")
  /\ IF s = "client" THEN PostSend(chunk[s].start, ChunkLen(chunk[s]))
                     ELSE PostRecv(chunk[s].start, ChunkLen(chunk[s]))
  /\ ring' = AtPost(s)
  /\ Goto(s, AfterPost(s))
  /\ UNCHANGED <<up, msg, chunk>>

\* Mutant of Awaited: the opcode of the other side.
AwaitedOther(s) == IF s = "client" THEN "RECV" ELSE "SEND"

Awaited(s) == IF s = "client" THEN "SEND" ELSE "RECV"

\* The polling loop, once poll_cq returns something.  How many bytes arrived
\* (wc.byte_len) is not looked at; a completion in error is a panic of the main
\* thread, which ends the process.
Polls(s) ==
  /\ At(s, "poll")
  /\ PollCq(s)
  /\ \/ /\ cq[s][1].status = "SUCCESS"
        /\ Goto(s, IF cq[s][1].opcode = Awaited(s) THEN "commit" ELSE "poll")
        /\ UNCHANGED up
     \/ /\ cq[s][1].status # "SUCCESS"
        /\ Goto(s, "panicked")
        /\ up' = [up EXCEPT ![s] = FALSE]
  /\ UNCHANGED <<ring, msg, chunk>>

Commits(s) ==
  /\ At(s, "commit")
  /\ ring' = Committed(s)
  /\ Goto(s, "try")
  /\ UNCHANGED <<up, queues, msg, chunk>>

\* Mutant of MayExit: only between two messages.
MayExitBetween(s) == apc[s] = "try"

MayExit(s) == TRUE

\* The IPC thread has read the end of the stream: exit(0), whatever the main
\* thread is doing.
Exits(s, hostGone) ==
  /\ up[s] /\ hostGone /\ MayExit(s)
  /\ Goto(s, "exited")
  /\ up' = [up EXCEPT ![s] = FALSE]
  /\ UNCHANGED <<ring, queues, msg, chunk>>

AdapterMain(s) == Takes(s) \/ Posts(s) \/ Polls(s) \/ Commits(s)
==============================================================================
