-------------------------------- MODULE Host ---------------------------------
(***************************************************************************)
(* The host processes (host/src/main.rs): the client writes batches of a   *)
(* running count to its ring, the server reads what there is and panics    *)
(* unless it is the same running count.  Each maps the ring that its       *)
(* adapter created, as Rendezvous shows, and ends when its time is up.     *)
(***************************************************************************)
EXTENDS RcQueuePair

CONSTANT MaxData   \* bound: the client does not write a batch that goes beyond it

ASSUME HostAssumption == MaxData \in Nat

VARIABLES
  batch,        \* --batch-size of the client
  hpc,          \* where each host is
  next, room,   \* the client: its expected_data, and the room that write has found
  hchunk,       \* the server: the chunk it reads
  expected,     \* the server: its expected_data
  sent, got     \* history: items published by the client, given back by the server

chvars == <<batch, next, room, sent>>
shvars == <<hchunk, expected, got>>
hvars  == <<hpc, chvars, shvars>>

HostInit ==
  /\ hpc = [s \in Sides |-> IF s = "client" THEN "fill" ELSE "read"]
  /\ next = 0 /\ room = 0
  /\ hchunk = [start |-> 0, end |-> 0]
  /\ expected = 0
  /\ sent = <<>> /\ got = <<>>

HostGoto(s, label) == hpc' = [hpc EXCEPT ![s] = label]
------------------------------------------------------------------------------
(* The client.                                                             *)

\* for val in buffer.iter_mut(): the next batch counts.
Fills ==
  /\ hpc["client"] = "fill"
  /\ next' = next + batch
  /\ HostGoto("client", "write")
  /\ UNCHANGED <<qpVars, batch, room, sent, shvars>>

\* sender.write(&mut buffer) up to its copies; when there is no room it returns
\* 0 and the loop tries again.
Loads ==
  /\ hpc["client"] = "write"
  /\ next <= MaxData
  /\ room' = Least(batch, Writable(ring["client"].head, ring["client"].tail))
  /\ room' # 0
  /\ HostGoto("client", "copy")
  /\ UNCHANGED <<qpVars, batch, next, sent, shvars>>

\* The k-th count of the buffer.
Buffer(k) == next - batch + k

\* The slots of the client's ring after the copies of len items of the buffer.
CopiedSlots(len) ==
  LET tail == ring["client"].tail IN
  [s \in Slots |->
     IF \E k \in 0 .. len - 1 : CopySlot(tail, len, k) = s
     THEN Buffer(CHOOSE k \in 0 .. len - 1 : CopySlot(tail, len, k) = s)
     ELSE ring["client"].slots[s]]

\* sender.write from its copies to its return.  Unless it has written all of the
\* buffer, all of the buffer is written again.
Writes ==
  /\ hpc["client"] = "copy"
  /\ ring' = [ring EXCEPT !["client"].slots = CopiedSlots(room), !["client"].tail = @ + room]
  /\ sent' = sent \o [k \in 1 .. room |-> Buffer(k - 1)]
  /\ HostGoto("client", IF room = batch THEN "fill" ELSE "write")
  /\ UNCHANGED <<up, queues, batch, next, room, shvars>>
------------------------------------------------------------------------------
(* The server.                                                             *)

\* receiver.read(): all there is up to the end of the buffer.
Reads ==
  LET r == ring["server"] IN
  /\ hpc["server"] = "read"
  /\ HostGoto("server", "check")
  /\ hchunk' = [start |-> r.head, end |-> r.head + Readable(r.head, r.tail)]
  /\ UNCHANGED <<qpVars, chvars, expected, got>>

\* The values of the chunk that is being read.
Seen == [k \in 1 .. hchunk.end - hchunk.start |->
           ring["server"].slots[SliceSlot(hchunk.start, k - 1)]]

\* The loop over the chunk, and the commit after it: a wrong value is a panic.
Checks ==
  /\ hpc["server"] = "check"
  /\ \/ /\ \A k \in DOMAIN Seen : Seen[k] = expected + k - 1
        /\ HostGoto("server", "read")
        /\ expected' = expected + Len(Seen)
        /\ ring' = [ring EXCEPT !["server"].head = hchunk.end]
        /\ got' = got \o Seen
     \/ /\ \E k \in DOMAIN Seen : Seen[k] # expected + k - 1
        /\ HostGoto("server", "mismatch")
        /\ UNCHANGED <<expected, ring, got>>
  /\ UNCHANGED <<up, queues, chvars, hchunk>>
------------------------------------------------------------------------------
\* clock.now() - begin > duration
TimesOut(s) ==
  /\ hpc[s] = IF s = "client" THEN "write" ELSE "read"
  /\ HostGoto(s, "last")
  /\ UNCHANGED <<qpVars, chvars, shvars>>

\* ipc.write(&[1]).unwrap(): a panic when the adapter is gone.  The IPC socket is
\* closed with the process in any case.
SaysLast(s) ==
  /\ hpc[s] = "last"
  /\ HostGoto(s, IF up[s] THEN "ended" ELSE "broken")
  /\ UNCHANGED <<qpVars, chvars, shvars>>

HostMain(s) ==
  \/ s = "client" /\ (Fills \/ Loads \/ Writes)
  \/ s = "server" /\ (Reads \/ Checks)
  \/ SaysLast(s)

HostGone(s) == hpc[s] \in {"ended", "broken", "mismatch"}
==============================================================================
