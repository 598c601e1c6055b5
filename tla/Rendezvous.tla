----------------------------- MODULE Rendezvous ------------------------------
(***************************************************************************)
(* How a host finds the ring of an adapter: shared/src/ipc.rs, and the     *)
(* beginning and the end of adapter/src/main.rs and host/src/main.rs.      *)
(*                                                                         *)
(* An adapter creates a segment of shared memory, initialises the ring in  *)
(* it, makes the socket file "sync", serves the first host that connects   *)
(* and tells it the name of the segment.  The file is never removed, so    *)
(* the one a host finds may be that of an adapter that has been killed, or *)
(* that has its host already, or that does not listen yet.  Every process  *)
(* of one directory uses the same name, and processes are started and      *)
(* killed, and the file removed, at any time.                              *)
(***************************************************************************)
EXTENDS Integers, Sequences

CONSTANTS
  Adapters, Hosts,   \* the processes that are started in the directory
  None

ASSUME RendezvousAssumption == None \notin Adapters \cup Hosts

VARIABLES
  apc, hpc,    \* where each process is
  segment,     \* the shared memory of each adapter: none, raw or ring
  file,        \* the adapter whose socket "sync" names, or None
  backlog,     \* hosts that have connected and are not accepted
  peer,        \* the host that an adapter has accepted, or None
  told,        \* adapters that have written their metadata
  conn,        \* the adapter at the other end of a host's stream, or None
  name,        \* the metadata a host has read: the adapter, or None
  ring         \* the segment a host has mapped: its adapter, or None

sockets == <<file, backlog, peer, told>>
host    == <<hpc, conn, name, ring>>
adapter == <<apc, segment, file, peer, told>>
vars == <<apc, segment, sockets, host>>

Init ==
  /\ apc = [a \in Adapters |-> "off"] /\ hpc = [h \in Hosts |-> "off"]
  /\ segment = [a \in Adapters |-> "none"]
  /\ file = None
  /\ backlog = [a \in Adapters |-> <<>>] /\ peer = [a \in Adapters |-> None]
  /\ told = {}
  /\ conn = [h \in Hosts |-> None]
  /\ name = [h \in Hosts |-> None] /\ ring = [h \in Hosts |-> None]

AdapterEnds == {"exited", "panicked", "failed", "killed"}
HostEnds    == {"ended", "refused", "reset", "unmapped", "broken", "killed"}

AdapterGone(a) == apc[a] \in AdapterEnds
HostGone(h)    == hpc[h] \in HostEnds
------------------------------------------------------------------------------
(* The adapter.                                                            *)

\* Mutant of Unlinking: the segment's owner goes out of scope before the loops.
UnlinkingEarly == {"panicked", "failed", "serve"}

\* A panic unwinds main, and the segment is dropped: its name is gone.  exit(0)
\* and a signal leave it behind.
Unlinking == {"panicked", "failed"}

Goto(a, label) ==
  /\ apc' = [apc EXCEPT ![a] = label]
  /\ segment' = [segment EXCEPT ![a] = IF label \in Unlinking THEN "none" ELSE @]

\* main, as far as setup_ib, which Connection has the end of.
StartAdapter(a) ==
  /\ apc[a] = "off"
  /\ Goto(a, "setup")
  /\ UNCHANGED <<sockets, host>>

\* ShmemConf::new().create() under a name that nobody else uses, and its
\* registration.
CreateSegment(a) ==
  /\ apc[a] = "setup"
  /\ apc' = [apc EXCEPT ![a] = "init"]
  /\ segment' = [segment EXCEPT ![a] = "raw"]
  /\ UNCHANGED <<sockets, host>>

\* Mutant of InitRing: the ring is written to a copy.
InitRingCopy(a) ==
  /\ apc[a] = "init"
  /\ Goto(a, "exists")
  /\ UNCHANGED <<sockets, host>>

\* uninit.write(RingBufferConst::new())
InitRing(a) ==
  /\ apc[a] = "init"
  /\ apc' = [apc EXCEPT ![a] = "exists"]
  /\ segment' = [segment EXCEPT ![a] = "ring"]
  /\ UNCHANGED <<sockets, host>>

\* Ipc::create: path.exists()
LooksForFile(a) ==
  /\ apc[a] = "exists"
  /\ Goto(a, IF file = None THEN "bind" ELSE "remove")
  /\ UNCHANGED <<sockets, host>>

\* fs::remove_file(path).unwrap(): another process may have removed it.
RemovesFile(a) ==
  /\ apc[a] = "remove"
  /\ Goto(a, IF file = None THEN "panicked" ELSE "bind")
  /\ file' = None
  /\ UNCHANGED <<backlog, peer, told, host>>

\* UnixListener::bind, its first half: the file appears, unless another process
\* has made it.
Binds(a) ==
  /\ apc[a] = "bind"
  /\ IF file = None THEN Goto(a, "listen") /\ file' = a
                    ELSE Goto(a, "panicked") /\ UNCHANGED file
  /\ UNCHANGED <<backlog, peer, told, host>>

\* Its second half: from here on hosts can connect.
Listens(a) ==
  /\ apc[a] = "listen"
  /\ Goto(a, "accept")
  /\ UNCHANGED <<sockets, host>>

\* listener.accept() takes the first of the queue, which may be gone by then;
\* the listener is dropped with create, and the others with it.
Accepts(a) ==
  /\ apc[a] = "accept" /\ backlog[a] # <<>>
  /\ Goto(a, "write")
  /\ peer' = [peer EXCEPT ![a] = Head(backlog[a])]
  /\ backlog' = [backlog EXCEPT ![a] = <<>>]
  /\ UNCHANGED <<file, told, host>>

\* init_metadata.write_to(&mut ipc), which panics if the host is gone, and the
\* start of the IPC thread.
WritesMetadata(a) ==
  /\ apc[a] = "write"
  /\ IF HostGone(peer[a]) THEN Goto(a, "panicked") /\ UNCHANGED told
                          ELSE Goto(a, "serve") /\ told' = told \cup {a}
  /\ UNCHANGED <<file, backlog, peer, host>>

\* Mutants of StreamEnds: the thread waits for the byte that a host writes when
\* its time is up, or for nothing.
StreamEndsWithByte(a) == hpc[peer[a]] = "ended"
StreamEndsAtOnce(a) == TRUE

StreamEnds(a) == HostGone(peer[a])

\* The IPC thread: read_to_end(..).unwrap() returns when the host is gone, and
\* exit(0) ends the process.  But a host that goes with the metadata unread
\* resets the stream: the thread panics, and the main thread runs on alone.
IpcThreadEnds(a) ==
  /\ apc[a] = "serve" /\ StreamEnds(a)
  /\ Goto(a, IF name[peer[a]] = None THEN "orphan" ELSE "exited")
  /\ UNCHANGED <<sockets, host>>

\* What panics in the main thread besides: the setup, and in the loops a
\* completion in error.
AdapterFails(a) ==
  /\ apc[a] \in {"setup", "serve", "orphan"}
  /\ Goto(a, "failed")
  /\ UNCHANGED <<sockets, host>>
------------------------------------------------------------------------------
(* The host.                                                               *)

HostGoto(h, label) == hpc' = [hpc EXCEPT ![h] = label]

StartHost(h) ==
  /\ hpc[h] = "off"
  /\ HostGoto(h, "wait")
  /\ UNCHANGED <<adapter, backlog, conn, name, ring>>

\* Ipc::open: while !path.exists()
Waits(h) ==
  /\ hpc[h] = "wait" /\ file # None
  /\ HostGoto(h, "connect")
  /\ UNCHANGED <<adapter, backlog, conn, name, ring>>

\* Mutant of Listening: the listener lives as long as the adapter.
ListeningOn == file # None /\ apc[file] \in {"accept", "write", "serve"}

Listening == file # None /\ apc[file] = "accept"

\* UnixStream::connect(path).unwrap(): refused unless the socket listens.
Connects(h) ==
  /\ hpc[h] = "connect"
  /\ IF Listening
       THEN /\ HostGoto(h, "read")
            /\ conn' = [conn EXCEPT ![h] = file]
            /\ backlog' = [backlog EXCEPT ![file] = Append(@, h)]
       ELSE /\ HostGoto(h, "refused")
            /\ UNCHANGED <<conn, backlog>>
  /\ UNCHANGED <<adapter, name, ring>>

\* Mutant of Closed: the streams that were not accepted stay open with the
\* adapter.
ClosedWithAdapter(h) == AdapterGone(conn[h])

\* The adapter's end of the stream is closed, or was never accepted.
Closed(h) ==
  \/ AdapterGone(conn[h])
  \/ apc[conn[h]] # "accept" /\ peer[conn[h]] # h

\* RingBufferMetaData::read_from: what was written can be read though the
\* adapter is gone; the end of the stream without it is a panic.
ReadsMetadata(h) ==
  LET a == conn[h]
      written == peer[a] = h /\ a \in told
  IN
  /\ hpc[h] = "read"
  /\ \/ /\ written
        /\ HostGoto(h, "map")
        /\ name' = [name EXCEPT ![h] = a]
     \/ /\ ~ written /\ Closed(h)
        /\ HostGoto(h, "reset")
        /\ UNCHANGED name
  /\ UNCHANGED <<adapter, backlog, conn, ring>>

\* ShmemConf::new().os_id(..).open().unwrap(), and the pointers into it.
MapsRing(h) ==
  /\ hpc[h] = "map"
  /\ IF segment[name[h]] # "none"
       THEN HostGoto(h, "run") /\ ring' = [ring EXCEPT ![h] = name[h]]
       ELSE HostGoto(h, "unmapped") /\ UNCHANGED ring
  /\ UNCHANGED <<adapter, backlog, conn, name>>

\* The loop has ended: ipc.write(&[1]).unwrap() panics if the adapter is gone.
Finishes(h) ==
  /\ hpc[h] = "run"
  /\ HostGoto(h, IF AdapterGone(conn[h]) THEN "broken" ELSE "ended")
  /\ UNCHANGED <<adapter, backlog, conn, name, ring>>
------------------------------------------------------------------------------
(* just kill: rm sync, killall rdma_adapter, killall rdma_host.  Any of    *)
(* them may also come alone.                                               *)

RemovesSync ==
  /\ file # None /\ file' = None
  /\ UNCHANGED <<apc, segment, backlog, peer, told, host>>

KillsAdapter(a) ==
  /\ ~ AdapterGone(a) /\ apc[a] # "off"
  /\ Goto(a, "killed")
  /\ UNCHANGED <<sockets, host>>

\* A data mismatch in the loop is no different.
KillsHost(h) ==
  /\ ~ HostGone(h) /\ hpc[h] # "off"
  /\ HostGoto(h, "killed")
  /\ UNCHANGED <<adapter, backlog, conn, name, ring>>
------------------------------------------------------------------------------
Adapter(a) ==
  \/ CreateSegment(a) \/ InitRing(a) \/ LooksForFile(a) \/ RemovesFile(a)
  \/ Binds(a) \/ Listens(a) \/ Accepts(a) \/ WritesMetadata(a) \/ IpcThreadEnds(a)

Host(h) == Waits(h) \/ Connects(h) \/ ReadsMetadata(h) \/ MapsRing(h) \/ Finishes(h)

Next ==
  \/ \E a \in Adapters : StartAdapter(a) \/ Adapter(a) \/ AdapterFails(a) \/ KillsAdapter(a)
  \/ \E h \in Hosts : StartHost(h) \/ Host(h) \/ KillsHost(h)
  \/ RemovesSync

\* The processes run, and a host's time runs out.  Nobody has to be started,
\* and nothing has to fail.
Fairness ==
  /\ \A a \in Adapters : WF_vars(Adapter(a))
  /\ \A h \in Hosts : WF_vars(Host(h))

Spec == Init /\ [][Next]_vars /\ Fairness
------------------------------------------------------------------------------
AdapterStates == AdapterEnds \cup {"off", "setup", "init", "exists", "remove", "bind",
                                   "listen", "accept", "write", "serve", "orphan"}

HostStates == HostEnds \cup {"off", "wait", "connect", "read", "map", "run"}

(* Type correctness.                                                       *)
TypeOK ==
  /\ apc \in [Adapters -> AdapterStates] /\ hpc \in [Hosts -> HostStates]
  /\ segment \in [Adapters -> {"none", "raw", "ring"}]
  /\ file \in Adapters \cup {None}
  /\ backlog \in [Adapters -> Seq(Hosts)] /\ peer \in [Adapters -> Hosts \cup {None}]
  /\ told \subseteq Adapters
  /\ conn \in [Hosts -> Adapters \cup {None}]
  /\ name \in [Hosts -> Adapters \cup {None}] /\ ring \in [Hosts -> Adapters \cup {None}]

(* A ring is mapped by one host at most, ever, and only when it is         *)
(* initialised, however many adapters and hosts meet at the one file, and  *)
(* whichever of them are killed: the ring buffer has one producer and one  *)
(* consumer.                                                               *)
Attached == INSTANCE Attachment WITH offered <- {a \in Adapters : segment[a] = "ring"}

AttachmentSpec == Attached!Spec

(* unwrap and expect in host/src/main.rs (34, 38, 46, 138): once it has    *)
(* read the metadata a host fails only because its adapter has failed or   *)
(* was killed, and never because the adapter went first by itself; a       *)
(* killed adapter's ring can still be mapped.  Only a killed host leaves   *)
(* an adapter behind that nothing ends.                                    *)
HostsFailWithTheirAdapter ==
  /\ \A h \in Hosts :
       /\ hpc[h] = "unmapped" => apc[conn[h]] = "failed"
       /\ hpc[h] = "broken" => apc[conn[h]] \in {"failed", "killed"}
  /\ \A a \in Adapters : apc[a] = "orphan" => hpc[peer[a]] = "killed"

(* A host that has connected gets its metadata or an error, also when the  *)
(* adapter serves another host, for ever perhaps; and an adapter whose     *)
(* ring a host has mapped does not outlive that host, whatever ends it.    *)
NobodyLeftBehind ==
  /\ \A h \in Hosts : hpc[h] = "read" ~> hpc[h] # "read"
  /\ \A h \in Hosts : \A a \in Adapters :
       ring[h] = a /\ HostGone(h) ~> AdapterGone(a)

\* Whatever else was started in the directory is gone.
Alone(a, h) ==
  /\ \A b \in Adapters \ {a} : AdapterGone(b) \/ apc[b] = "off"
  /\ \A g \in Hosts \ {h} : HostGone(g) \/ hpc[g] = "off"

(* A host that finds an adapter listening runs and both end properly, no   *)
(* matter what earlier processes have left behind, unless one of the two   *)
(* fails, somebody removes the file or starts others.                      *)
Meets ==
  \A a \in Adapters : \A h \in Hosts :
    (Alone(a, h) /\ file = a /\ apc[a] = "accept" /\ backlog[a] = <<>> /\ hpc[h] = "wait") ~>
      \/ apc[a] = "exited" /\ hpc[h] = "ended"
      \/ apc[a] \in {"failed", "killed"} \/ hpc[h] = "killed"
      \/ file # a \/ ~ Alone(a, h)
------------------------------------------------------------------------------
(* Why it is so.                                                           *)

HasRing == {"exists", "remove", "bind", "listen", "accept", "write", "serve", "orphan", "exited"}

\* The segment of an adapter whose metadata a host may have is there, unless the
\* adapter has failed.
SegmentInv(a) ==
  /\ apc[a] \in {"off", "setup"} \cup Unlinking => segment[a] = "none"
  /\ apc[a] \in HasRing \/ (apc[a] = "killed" /\ a \in told) => segment[a] = "ring"

\* Hosts wait for an adapter that accepts, until it is killed.
BacklogInv(a) ==
  /\ backlog[a] # <<>> => apc[a] \in {"accept", "killed"}
  /\ \A i \in 1 .. Len(backlog[a]) : conn[backlog[a][i]] = a

\* An adapter has one host, which it tells its metadata, and outlives it only by
\* one step, or if the host was killed before it read them.
PeerInv(a) ==
  /\ apc[a] \in {"write", "serve", "orphan", "exited"} => peer[a] # None
  /\ peer[a] # None => /\ apc[a] \in {"write", "serve", "orphan"} \cup AdapterEnds
                       /\ conn[peer[a]] = a
  /\ a \in told => peer[a] # None /\ apc[a] \in {"serve", "orphan", "exited", "failed", "killed"}
  /\ apc[a] \in {"serve", "orphan", "exited"} => a \in told
  /\ apc[a] = "exited" => HostGone(peer[a])
  /\ apc[a] = "orphan" => hpc[peer[a]] = "killed"

\* A host gets its metadata from the adapter that has accepted it.
NameInv(h) ==
  /\ hpc[h] \in {"off", "wait", "connect", "refused"} => conn[h] = None
  /\ hpc[h] \in {"read", "reset"} => conn[h] # None
  /\ hpc[h] \in {"off", "wait", "connect", "refused", "read", "reset"} => name[h] = None
  /\ hpc[h] \in {"map", "run", "unmapped", "broken", "ended"} => name[h] # None
  /\ conn[h] # None => apc[conn[h]] \in {"accept", "write", "serve", "orphan"} \cup AdapterEnds
  /\ name[h] # None => conn[h] = name[h] /\ name[h] \in told /\ peer[name[h]] = h
  /\ hpc[h] = "reset" =>
       AdapterGone(conn[h]) \/ (apc[conn[h]] # "accept" /\ peer[conn[h]] # h)

\* A host maps the ring it was told of.
RingInv(h) ==
  /\ ring[h] # None => ring[h] = name[h]
  /\ hpc[h] = "map" => ring[h] = None
  /\ hpc[h] = "unmapped" => apc[conn[h]] = "failed"
  /\ hpc[h] = "broken" => apc[conn[h]] \in {"failed", "killed"}

(* The inductive invariant: an adapter and a host agree about each other.  *)
(* Whoever an adapter has accepted is connected to it, whoever has its     *)
(* metadata was accepted by it, and the metadata are good until it fails.  *)
IndInv ==
  /\ TypeOK
  /\ \A a \in Adapters : SegmentInv(a) /\ BacklogInv(a) /\ PeerInv(a)
  /\ \A h \in Hosts : NameInv(h) /\ RingInv(h)
------------------------------------------------------------------------------
(* What NobodyLeftBehind rests on, and no fairness can make up for.        *)

\* A host that waits for an adapter that accepts is not alone in its queue.
QueuedInv ==
  \A h \in Hosts :
    hpc[h] = "read" /\ apc[conn[h]] = "accept" => backlog[conn[h]] # <<>>

\* Some process has a step to take by itself: the guards of Adapter and Host.
SomebodyMoves ==
  \/ \E a \in Adapters :
       \/ apc[a] \in {"setup", "init", "exists", "remove", "bind", "listen", "write"}
       \/ apc[a] = "accept" /\ backlog[a] # <<>>
       \/ apc[a] = "serve" /\ StreamEnds(a)
  \/ \E h \in Hosts :
       \/ hpc[h] \in {"connect", "map", "run"}
       \/ hpc[h] = "wait" /\ file # None
       \/ hpc[h] = "read" /\ (Closed(h) \/ conn[h] \in told)

(* Adapters and hosts never wait for each other, however many there are    *)
(* and whoever is killed: when nobody has a step left, no host has         *)
(* connected without an answer, and no adapter that runs has a host but    *)
(* the one that was killed before it had read its metadata.                *)
NobodyWaitsInVain ==
  SomebodyMoves \/
    /\ \A a \in Adapters :
         AdapterGone(a) \/ apc[a] \in {"off", "orphan"} \/ (apc[a] = "accept" /\ backlog[a] = <<>>)
    /\ \A h \in Hosts : HostGone(h) \/ hpc[h] = "off" \/ (hpc[h] = "wait" /\ file = None)
==============================================================================
