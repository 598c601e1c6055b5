-------------------------- MODULE RendezvousProofs ---------------------------
(***************************************************************************)
(* The safety properties of Rendezvous, for any number of adapters and     *)
(* hosts that share a socket file.                                         *)
(***************************************************************************)
EXTENDS Rendezvous, SequenceTheorems, TLAPS

\* Where an adapter has never listened, so that no host knows of it.
Early == {"off", "setup", "init", "exists", "remove", "bind", "listen"}

\* Initially there is nothing to agree about.
LEMMA InitIndInv == Init => IndInv
<1> SUFFICES ASSUME Init PROVE IndInv
  OBVIOUS
<1> USE DEF Init
<1>1. TypeOK
  BY DEF TypeOK, AdapterStates, HostStates
<1>2. ASSUME NEW a \in Adapters PROVE SegmentInv(a) /\ BacklogInv(a) /\ PeerInv(a)
  BY <1>2 DEF SegmentInv, BacklogInv, PeerInv, HasRing
<1>3. ASSUME NEW h \in Hosts PROVE NameInv(h) /\ RingInv(h)
  BY <1>3 DEF NameInv, RingInv
<1> QED
  BY <1>1, <1>2, <1>3 DEF IndInv

\* What a step keeps that changes neither the adapters nor what hosts are told.
LEMMA SegmentsStay ==
  ASSUME IndInv, UNCHANGED <<apc, segment, told>>
  PROVE  \A b \in Adapters : SegmentInv(b)'
BY DEF IndInv, SegmentInv

\* An adapter that no host knows of may do, and become, anything short of
\* serving.
LEMMA EarlyMove ==
  ASSUME IndInv, NEW a \in Adapters, apc[a] \in Early,
         NEW l \in Early \cup {"accept", "panicked", "failed", "killed"},
         apc' = [apc EXCEPT ![a] = l], UNCHANGED <<backlog, peer, told, host>>
  PROVE  /\ \A b \in Adapters : BacklogInv(b)' /\ PeerInv(b)'
         /\ \A h \in Hosts : NameInv(h)' /\ RingInv(h)'
<1> USE RendezvousAssumption DEF IndInv, TypeOK, host, Early
<1>1. backlog[a] = <<>> /\ peer[a] = None /\ a \notin told
  BY DEF BacklogInv, PeerInv, AdapterEnds
<1>2. \A h \in Hosts : conn[h] # a
  BY DEF NameInv, AdapterEnds
<1>3. \A b \in Adapters \ {a} : apc'[b] = apc[b]
  OBVIOUS
<1>4. \A b \in Adapters : BacklogInv(b)'
  BY <1>1, <1>3 DEF BacklogInv
<1>5. \A b \in Adapters : PeerInv(b)'
  BY <1>1, <1>3 DEF PeerInv, HostGone
<1>6. \A h \in Hosts : NameInv(h)'
  BY <1>2, <1>3 DEF NameInv, AdapterGone
<1>7. \A h \in Hosts : RingInv(h)'
  BY <1>2, <1>3 DEF RingInv
<1> QED
  BY <1>4, <1>5, <1>6, <1>7

\* The start of an adapter, up to its listening.
LEMMA EarlyStep ==
  ASSUME IndInv, NEW a \in Adapters,
         \/ StartAdapter(a) \/ CreateSegment(a) \/ InitRing(a) \/ LooksForFile(a)
         \/ RemovesFile(a) \/ Binds(a) \/ Listens(a)
  PROVE  IndInv'
<1> USE RendezvousAssumption DEF IndInv, TypeOK, SegmentInv, Unlinking, Goto, sockets, host
<1> DEFINE Moves(from, l) ==
             /\ apc[a] \in from
             /\ apc' = [apc EXCEPT ![a] = l]
             /\ UNCHANGED <<backlog, peer, told, host>>
           Rest == /\ \A b \in Adapters : BacklogInv(b)' /\ PeerInv(b)'
                   /\ \A h \in Hosts : NameInv(h)' /\ RingInv(h)'
           Mine == TypeOK' /\ \A b \in Adapters : SegmentInv(b)'
<1>1. ASSUME NEW l \in Early \cup {"accept", "panicked", "failed", "killed"}, Moves(Early, l)
      PROVE  Rest
  BY <1>1, EarlyMove
<1>2. CASE StartAdapter(a)
  <2>1. Moves(Early, "setup") /\ Mine
    BY <1>2 DEF StartAdapter, Early, AdapterStates, HasRing
  <2> QED
    BY <1>1, <2>1 DEF Early
<1>3. CASE CreateSegment(a)
  <2>1. Moves(Early, "init") /\ Mine
    BY <1>3 DEF CreateSegment, Early, AdapterStates, HasRing
  <2> QED
    BY <1>1, <2>1 DEF Early
<1>4. CASE InitRing(a)
  <2>1. Moves(Early, "exists") /\ Mine
    BY <1>4 DEF InitRing, Early, AdapterStates, HasRing
  <2> QED
    BY <1>1, <2>1 DEF Early
<1>5. CASE LooksForFile(a)
  <2>1. PICK l \in {"bind", "remove"} : Moves(Early, l) /\ Mine
    BY <1>5 DEF LooksForFile, Early, AdapterStates, HasRing
  <2> QED
    BY <1>1, <2>1 DEF Early
<1>6. CASE RemovesFile(a)
  <2>1. PICK l \in {"bind", "panicked"} : Moves(Early, l) /\ Mine
    BY <1>6 DEF RemovesFile, Early, AdapterStates, AdapterEnds, HasRing
  <2> QED
    BY <1>1, <2>1 DEF Early
<1>7. CASE Binds(a)
  <2>1. PICK l \in {"listen", "panicked"} : Moves(Early, l) /\ Mine
    BY <1>7 DEF Binds, Early, AdapterStates, AdapterEnds, HasRing
  <2> QED
    BY <1>1, <2>1 DEF Early
<1>8. CASE Listens(a)
  <2>1. Moves(Early, "accept") /\ Mine
    BY <1>8 DEF Listens, Early, AdapterStates, HasRing
  <2> QED
    BY <1>1, <2>1 DEF Early
<1> QED
  BY <1>2, <1>3, <1>4, <1>5, <1>6, <1>7, <1>8

\* Once a host may know of it, an adapter can be killed, fail, or panic before it
\* has told anything.
LEMMA LateEnd ==
  ASSUME IndInv, NEW a \in Adapters, apc[a] \in {"accept", "write", "serve", "orphan"},
         NEW l \in {"panicked", "failed", "killed"},
         apc[a] = "accept" => l = "killed", l = "panicked" => a \notin told,
         apc' = [apc EXCEPT ![a] = l], UNCHANGED <<backlog, peer, told, host>>
  PROVE  /\ \A b \in Adapters : BacklogInv(b)' /\ PeerInv(b)'
         /\ \A h \in Hosts : NameInv(h)' /\ RingInv(h)'
<1> USE RendezvousAssumption DEF IndInv, TypeOK, host
<1>1. apc'[a] = l /\ \A b \in Adapters \ {a} : apc'[b] = apc[b]
  OBVIOUS
<1>2. \A b \in Adapters : BacklogInv(b)'
  BY <1>1 DEF BacklogInv
<1>3. \A b \in Adapters : PeerInv(b)'
  BY <1>1 DEF PeerInv, HostGone, AdapterEnds
<1>4. \A h \in Hosts : NameInv(h)'
  BY <1>1 DEF NameInv, AdapterGone, AdapterEnds
<1>5. \A h \in Hosts : RingInv(h)'
  BY <1>1 DEF RingInv
<1> QED
  BY <1>2, <1>3, <1>4, <1>5

\* The adapter fails, or is killed.
LEMMA EndStep ==
  ASSUME IndInv, NEW a \in Adapters, AdapterFails(a) \/ KillsAdapter(a)
  PROVE  IndInv'
<1> USE RendezvousAssumption DEF IndInv, TypeOK, Goto, sockets, host
<1>1. PICK l \in {"failed", "killed"} :
        /\ apc[a] \in Early \cup {"accept", "write", "serve", "orphan"}
        /\ apc[a] = "accept" => l = "killed"
        /\ apc' = [apc EXCEPT ![a] = l]
        /\ UNCHANGED <<file, backlog, peer, told, host>>
  BY DEF AdapterFails, KillsAdapter, AdapterGone, AdapterStates, AdapterEnds, Early
<1>2. TypeOK'
  BY DEF AdapterFails, KillsAdapter, AdapterStates, AdapterEnds
<1>3. \A b \in Adapters : SegmentInv(b)'
  <2>1. a \in told => apc[a] \in {"serve", "orphan", "exited", "failed", "killed"}
    BY DEF PeerInv
  <2> QED
    BY <1>1, <2>1 DEF AdapterFails, KillsAdapter, SegmentInv, Unlinking, HasRing, Early
<1>4. CASE apc[a] \in Early
  BY <1>1, <1>2, <1>3, <1>4, EarlyMove
<1>5. CASE apc[a] \in {"accept", "write", "serve", "orphan"}
  BY <1>1, <1>2, <1>3, <1>5, LateEnd
<1> QED
  BY <1>1, <1>4, <1>5

\* The adapter accepts the first host of its queue.
LEMMA AcceptsStep ==
  ASSUME IndInv, NEW a \in Adapters, Accepts(a)
  PROVE  IndInv'
<1> USE RendezvousAssumption DEF IndInv, TypeOK, Goto, host, Accepts
<1> DEFINE g == Head(backlog[a])
<1>1. g \in Hosts /\ conn[g] = a
  BY EmptySeq, LenProperties DEF BacklogInv
<1>2. apc'[a] = "write" /\ \A b \in Adapters \ {a} : apc'[b] = apc[b]
  OBVIOUS
<1>3. /\ peer'[a] = g /\ \A b \in Adapters \ {a} : peer'[b] = peer[b]
      /\ backlog'[a] = <<>> /\ \A b \in Adapters \ {a} : backlog'[b] = backlog[b]
  OBVIOUS
<1>4. a \notin told /\ peer[a] = None
  BY DEF PeerInv, AdapterEnds
<1>5. TypeOK'
  BY <1>1 DEF Unlinking, AdapterStates
<1>6. \A b \in Adapters : SegmentInv(b)'
  BY <1>2 DEF SegmentInv, Unlinking, HasRing
<1>7. \A b \in Adapters : BacklogInv(b)'
  BY <1>2, <1>3 DEF BacklogInv
<1>8. \A b \in Adapters : PeerInv(b)'
  BY <1>1, <1>2, <1>3, <1>4 DEF PeerInv, HostGone
<1>9. \A h \in Hosts : NameInv(h)'
  BY <1>2, <1>3, <1>4 DEF NameInv, AdapterGone, AdapterEnds
<1>10. \A h \in Hosts : RingInv(h)'
  BY <1>2 DEF RingInv
<1> QED
  BY <1>5, <1>6, <1>7, <1>8, <1>9, <1>10

\* The adapter tells its host the name of the segment, or panics as it is gone.
LEMMA WritesMetadataStep ==
  ASSUME IndInv, NEW a \in Adapters, WritesMetadata(a)
  PROVE  IndInv'
<1> USE RendezvousAssumption DEF IndInv, TypeOK, Goto, host
<1>1. a \notin told /\ segment[a] = "ring"
  BY DEF WritesMetadata, PeerInv, SegmentInv, HasRing
<1>2. CASE HostGone(peer[a])
  <2>1. TypeOK' /\ \A b \in Adapters : SegmentInv(b)'
    BY <1>2 DEF WritesMetadata, SegmentInv, Unlinking, HasRing, AdapterStates, AdapterEnds
  <2> QED
    BY <1>1, <1>2, <2>1, LateEnd DEF WritesMetadata
<1>3. CASE ~ HostGone(peer[a])
  <2>1. /\ apc[a] = "write" /\ apc'[a] = "serve"
        /\ \A b \in Adapters \ {a} : apc'[b] = apc[b]
        /\ told' = told \cup {a}
        /\ UNCHANGED <<file, backlog, peer, host>>
    BY <1>3 DEF WritesMetadata
  <2>2. segment' = segment
    BY <1>3 DEF WritesMetadata, Unlinking
  <2>3. TypeOK'
    <3>1. apc' = [apc EXCEPT ![a] = "serve"]
      BY <1>3 DEF WritesMetadata
    <3>2. apc' \in [Adapters -> AdapterStates]
      BY <3>1 DEF AdapterStates
    <3> QED
      BY <2>1, <2>2, <3>2
  <2>4. \A b \in Adapters : SegmentInv(b)'
    BY <1>1, <2>1, <2>2 DEF SegmentInv, Unlinking, HasRing
  <2>5. \A b \in Adapters : BacklogInv(b)'
    BY <2>1 DEF BacklogInv
  <2>6. \A b \in Adapters : PeerInv(b)'
    BY <2>1 DEF PeerInv, HostGone
  <2>7. \A h \in Hosts : NameInv(h)'
    BY <2>1 DEF NameInv, AdapterGone, AdapterEnds
  <2>8. \A h \in Hosts : RingInv(h)'
    BY <2>1 DEF RingInv, NameInv
  <2> QED
    BY <2>3, <2>4, <2>5, <2>6, <2>7, <2>8
<1> QED
  BY <1>2, <1>3

\* The host is gone: the process exits, or loses its IPC thread.
LEMMA IpcThreadEndsStep ==
  ASSUME IndInv, NEW a \in Adapters, IpcThreadEnds(a)
  PROVE  IndInv'
<1> USE RendezvousAssumption DEF IndInv, TypeOK, sockets, host
<1> DEFINE h == peer[a]
<1>1. PICK l \in {"orphan", "exited"} :
        /\ apc'[a] = l /\ \A b \in Adapters \ {a} : apc'[b] = apc[b]
        /\ l = "orphan" <=> name[h] = None
        /\ segment' = segment /\ UNCHANGED <<file, backlog, peer, told, host>>
  BY DEF IpcThreadEnds, Goto, Unlinking
<1>2. /\ apc[a] = "serve" /\ HostGone(h)
      /\ h \in Hosts /\ conn[h] = a /\ a \in told
  BY DEF IpcThreadEnds, StreamEnds, PeerInv
<1>3. name[h] = None => hpc[h] = "killed"
  <2>1. hpc[h] # "reset" /\ hpc[h] # "refused"
    BY <1>2 DEF NameInv, AdapterGone, AdapterEnds
  <2> QED
    BY <1>2, <2>1 DEF NameInv, HostGone, HostEnds
<1>4. TypeOK'
  BY DEF IpcThreadEnds, Goto, Unlinking, AdapterStates, AdapterEnds
<1>5. \A b \in Adapters : SegmentInv(b)'
  BY <1>1, <1>2 DEF SegmentInv, Unlinking, HasRing
<1>6. \A b \in Adapters : BacklogInv(b)'
  BY <1>1, <1>2 DEF BacklogInv
<1>7. \A b \in Adapters : PeerInv(b)'
  BY <1>1, <1>2, <1>3 DEF PeerInv, HostGone, AdapterEnds
<1>8. \A g \in Hosts : NameInv(g)'
  <2> SUFFICES ASSUME NEW g \in Hosts PROVE NameInv(g)'
    OBVIOUS
  <2>1. CASE conn[g] = a
    BY <1>1, <1>2, <2>1 DEF NameInv, AdapterGone, AdapterEnds
  <2>2. CASE conn[g] # a
    BY <1>1, <2>2 DEF NameInv, AdapterGone
  <2> QED
    BY <2>1, <2>2
<1>9. \A g \in Hosts : RingInv(g)'
  BY <1>1, <1>2 DEF RingInv, NameInv
<1> QED
  BY <1>4, <1>5, <1>6, <1>7, <1>8, <1>9

------------------------------------------------------------------------------
(* The steps of a host, and the removal of the file.                       *)

\* A host that moves on disturbs the adapter's view of it only by ending, and it
\* is disturbed itself only by what it has just found out.
LEMMA HostMove ==
  ASSUME IndInv, NEW h \in Hosts, NEW l \in HostStates, ~ HostGone(h),
         hpc' = [hpc EXCEPT ![h] = l],
         UNCHANGED <<apc, segment, sockets, conn>>,
         \A g \in Hosts \ {h} : name'[g] = name[g] /\ ring'[g] = ring[g],
         name' \in [Hosts -> Adapters \cup {None}],
         ring' \in [Hosts -> Adapters \cup {None}],
         NameInv(h)', RingInv(h)'
  PROVE  IndInv'
<1> USE DEF IndInv, TypeOK, sockets
<1>1. hpc'[h] = l /\ \A g \in Hosts \ {h} : hpc'[g] = hpc[g]
  OBVIOUS
<1>2. TypeOK'
  OBVIOUS
<1>3. \A b \in Adapters : SegmentInv(b)'
  BY DEF SegmentInv
<1>4. \A b \in Adapters : BacklogInv(b)'
  BY DEF BacklogInv
<1>5. \A b \in Adapters : PeerInv(b)'
  BY <1>1 DEF PeerInv, HostGone, HostEnds
<1>6. \A g \in Hosts \ {h} : NameInv(g)' /\ RingInv(g)'
  BY <1>1 DEF NameInv, RingInv, AdapterGone
<1> QED
  BY <1>2, <1>3, <1>4, <1>5, <1>6

\* A host starts, finds a file, or is killed.
LEMMA HostStep ==
  ASSUME IndInv, NEW h \in Hosts, StartHost(h) \/ Waits(h) \/ KillsHost(h)
  PROVE  IndInv'
<1> USE DEF IndInv, TypeOK, HostGoto, adapter, sockets
<1>1. PICK l \in {"wait", "connect", "killed"} :
        /\ l = "wait" => hpc[h] = "off"
        /\ l = "connect" => hpc[h] = "wait"
        /\ ~ HostGone(h)
        /\ hpc' = [hpc EXCEPT ![h] = l]
        /\ UNCHANGED <<apc, segment, sockets, conn, name, ring>>
  BY DEF StartHost, Waits, KillsHost, HostGone, HostEnds
<1>2. l \in HostStates
  BY DEF HostStates, HostEnds
<1>3. NameInv(h)' /\ RingInv(h)'
  BY <1>1 DEF NameInv, RingInv, AdapterGone
<1> QED
  BY <1>1, <1>2, <1>3, HostMove

\* A host connects and waits in the queue, or is refused.
LEMMA ConnectsStep ==
  ASSUME IndInv, NEW h \in Hosts, Connects(h)
  PROVE  IndInv'
<1> USE RendezvousAssumption DEF IndInv, TypeOK, HostGoto, adapter, sockets
<1>1. hpc[h] = "connect" /\ ~ HostGone(h) /\ conn[h] = None /\ name[h] = None
  BY DEF Connects, HostGone, HostEnds, NameInv
<1>2. CASE ~ Listening
  <2>1. /\ hpc' = [hpc EXCEPT ![h] = "refused"]
        /\ UNCHANGED <<apc, segment, sockets, conn, name, ring>>
    BY <1>2 DEF Connects
  <2>2. NameInv(h)' /\ RingInv(h)'
    BY <1>1, <2>1 DEF NameInv, RingInv
  <2> QED
    BY <1>1, <2>1, <2>2, HostMove DEF HostStates, HostEnds
<1>3. CASE Listening
  <2>1. file \in Adapters /\ apc[file] = "accept"
    BY <1>3 DEF Listening
  <2>2. /\ hpc' = [hpc EXCEPT ![h] = "read"]
        /\ conn' = [conn EXCEPT ![h] = file]
        /\ backlog' = [backlog EXCEPT ![file] = Append(backlog[file], h)]
        /\ UNCHANGED <<apc, segment, file, peer, told, name, ring>>
    BY <1>3 DEF Connects
  <2>3. /\ hpc'[h] = "read" /\ \A g \in Hosts \ {h} : hpc'[g] = hpc[g]
        /\ conn'[h] = file /\ \A g \in Hosts \ {h} : conn'[g] = conn[g]
    BY <2>2
  <2>4. /\ backlog'[file] = Append(backlog[file], h)
        /\ \A b \in Adapters \ {file} : backlog'[b] = backlog[b]
    BY <2>1, <2>2
  <2>5. TypeOK'
    <3>1. hpc' \in [Hosts -> HostStates]
      BY <2>2 DEF HostStates
    <3>2. backlog' \in [Adapters -> Seq(Hosts)]
      BY <2>1, <2>2, AppendProperties
    <3> QED
      BY <2>1, <2>2, <3>1, <3>2
  <2>6. \A b \in Adapters : SegmentInv(b)'
    BY <2>2 DEF SegmentInv
  <2>7. \A b \in Adapters : BacklogInv(b)'
    <3> SUFFICES ASSUME NEW b \in Adapters PROVE BacklogInv(b)'
      OBVIOUS
    <3>1. \A i \in 1 .. Len(backlog[b]) :
            backlog[b][i] \in Hosts /\ conn[backlog[b][i]] = b
      BY LenProperties DEF BacklogInv
    <3>2. \A i \in 1 .. Len(backlog[b]) : conn'[backlog[b][i]] = b
      BY <1>1, <2>3, <3>1
    <3>3. CASE b # file
      BY <2>2, <2>4, <3>2, <3>3 DEF BacklogInv
    <3>4. CASE b = file
      <4>1. /\ Len(backlog'[b]) = Len(backlog[b]) + 1
            /\ \A i \in 1 .. Len(backlog[b]) : backlog'[b][i] = backlog[b][i]
            /\ backlog'[b][Len(backlog[b]) + 1] = h
        BY <2>4, <3>4, AppendProperties
      <4>2. \A i \in 1 .. Len(backlog'[b]) : conn'[backlog'[b][i]] = b
        <5> SUFFICES ASSUME NEW i \in 1 .. Len(backlog[b]) + 1
                     PROVE  conn'[backlog'[b][i]] = b
          BY <4>1
        <5>1. Len(backlog[b]) \in Nat
          BY LenProperties
        <5>2. CASE i = Len(backlog[b]) + 1
          BY <2>3, <3>4, <4>1, <5>2
        <5>3. CASE i \in 1 .. Len(backlog[b])
          BY <3>2, <4>1, <5>3
        <5> QED
          BY <5>1, <5>2, <5>3
      <4> QED
        BY <2>1, <2>2, <3>4, <4>2 DEF BacklogInv
    <3> QED
      BY <3>3, <3>4
  <2>8. \A b \in Adapters : PeerInv(b)'
    <3> SUFFICES ASSUME NEW b \in Adapters PROVE PeerInv(b)'
      OBVIOUS
    <3>1. peer[b] # None => peer[b] \in Hosts /\ peer[b] # h
      BY <1>1 DEF PeerInv
    <3> QED
      BY <2>2, <2>3, <3>1 DEF PeerInv, HostGone
  <2>9. \A g \in Hosts : NameInv(g)'
    BY <1>1, <2>1, <2>2, <2>3 DEF NameInv, AdapterGone
  <2>10. \A g \in Hosts : RingInv(g)'
    BY <2>2, <2>3 DEF RingInv
  <2> QED
    BY <2>5, <2>6, <2>7, <2>8, <2>9, <2>10
<1> QED
  BY <1>2, <1>3

\* A host has what the adapter has written, or finds that nothing will come.
LEMMA ReadsMetadataStep ==
  ASSUME IndInv, NEW h \in Hosts, ReadsMetadata(h)
  PROVE  IndInv'
<1> USE RendezvousAssumption DEF IndInv, TypeOK, HostGoto, adapter
<1> DEFINE a == conn[h]
           written == peer[a] = h /\ a \in told
<1>1. /\ hpc[h] = "read" /\ ~ HostGone(h) /\ a \in Adapters /\ name[h] = None
      /\ ring[h] = None
  BY DEF ReadsMetadata, NameInv, RingInv, HostGone, HostEnds
<1>2. UNCHANGED <<apc, segment, sockets, conn, ring>>
  BY DEF ReadsMetadata, sockets
<1>3. CASE written /\ hpc' = [hpc EXCEPT ![h] = "map"] /\ name' = [name EXCEPT ![h] = a]
  <2>1. NameInv(h)' /\ RingInv(h)'
    BY <1>1, <1>2, <1>3 DEF NameInv, RingInv, sockets
  <2> QED
    BY <1>1, <1>2, <1>3, <2>1, HostMove DEF HostStates
<1>4. CASE ~ written /\ Closed(h) /\ hpc' = [hpc EXCEPT ![h] = "reset"] /\ name' = name
  <2>1. NameInv(h)'
    BY <1>1, <1>2, <1>4 DEF NameInv, sockets, Closed, AdapterGone
  <2>2. RingInv(h)'
    BY <1>1, <1>2, <1>4 DEF RingInv
  <2> QED
    BY <1>1, <1>2, <1>4, <2>1, <2>2, HostMove DEF HostStates, HostEnds
<1> QED
  BY <1>3, <1>4 DEF ReadsMetadata

\* A host opens the segment, or fails as the adapter has.
LEMMA MapsRingStep ==
  ASSUME IndInv, NEW h \in Hosts, MapsRing(h)
  PROVE  IndInv'
<1> USE RendezvousAssumption DEF IndInv, TypeOK, HostGoto, adapter
<1> DEFINE a == name[h]
<1>1. /\ hpc[h] = "map" /\ ~ HostGone(h)
      /\ a \in Adapters /\ conn[h] = a /\ a \in told /\ peer[a] = h
      /\ ring[h] = None
  BY DEF MapsRing, NameInv, RingInv, HostGone, HostEnds
<1>2. UNCHANGED <<apc, segment, sockets, conn, name>>
  BY DEF MapsRing, sockets
<1>3. CASE segment[a] # "none"
  <2>1. hpc' = [hpc EXCEPT ![h] = "run"] /\ ring' = [ring EXCEPT ![h] = a]
    BY <1>3 DEF MapsRing
  <2>2. NameInv(h)' /\ RingInv(h)'
    BY <1>1, <1>2, <2>1 DEF NameInv, RingInv, sockets
  <2> QED
    BY <1>1, <1>2, <2>1, <2>2, HostMove DEF HostStates
<1>4. CASE segment[a] = "none"
  <2>1. hpc' = [hpc EXCEPT ![h] = "unmapped"] /\ ring' = ring
    BY <1>4 DEF MapsRing
  <2>2. apc[a] = "failed"
    BY <1>1, <1>4 DEF PeerInv, SegmentInv, HasRing
  <2>3. NameInv(h)' /\ RingInv(h)'
    BY <1>1, <1>2, <2>1, <2>2 DEF NameInv, RingInv, sockets
  <2> QED
    BY <1>1, <1>2, <2>1, <2>3, HostMove DEF HostStates, HostEnds
<1> QED
  BY <1>3, <1>4

\* A host's time is up: it ends, or fails as the adapter has failed or was killed.
LEMMA FinishesStep ==
  ASSUME IndInv, NEW h \in Hosts, Finishes(h)
  PROVE  IndInv'
<1> USE RendezvousAssumption DEF IndInv, TypeOK, HostGoto, adapter
<1> DEFINE a == conn[h]
<1>1. /\ hpc[h] = "run" /\ ~ HostGone(h)
      /\ name[h] = a /\ a \in Adapters /\ a \in told /\ peer[a] = h
  BY DEF Finishes, NameInv, HostGone, HostEnds
<1>2. UNCHANGED <<apc, segment, sockets, conn, name, ring>>
  BY DEF Finishes, sockets
<1>3. AdapterGone(a) => apc[a] \in {"failed", "killed"}
  BY <1>1 DEF PeerInv, AdapterGone, AdapterEnds
<1>4. PICK l \in {"broken", "ended"} :
        /\ hpc' = [hpc EXCEPT ![h] = l]
        /\ l = "broken" => AdapterGone(a)
  BY DEF Finishes
<1>5. NameInv(h)' /\ RingInv(h)'
  BY <1>1, <1>2, <1>3, <1>4 DEF NameInv, RingInv, sockets
<1> QED
  BY <1>1, <1>2, <1>4, <1>5, HostMove DEF HostStates, HostEnds

\* Nothing but an adapter that starts, and a host that connects, looks at the
\* file.
LEMMA RemovesSyncStep ==
  ASSUME IndInv, RemovesSync \/ UNCHANGED vars
  PROVE  IndInv'
<1>1. /\ UNCHANGED <<apc, segment, backlog, peer, told, host>>
      /\ file' \in {file, None}
  BY DEF RemovesSync, vars, sockets
<1>2. TypeOK'
  BY <1>1 DEF IndInv, TypeOK, host
<1>3. \A b \in Adapters : SegmentInv(b)' /\ BacklogInv(b)' /\ PeerInv(b)'
  BY <1>1 DEF IndInv, SegmentInv, BacklogInv, PeerInv, HostGone, host
<1>4. \A g \in Hosts : NameInv(g)' /\ RingInv(g)'
  BY <1>1 DEF IndInv, NameInv, RingInv, AdapterGone, host
<1> QED
  BY <1>2, <1>3, <1>4 DEF IndInv

LEMMA NextIndInv == IndInv /\ [Next]_vars => IndInv'
<1> SUFFICES ASSUME IndInv, [Next]_vars PROVE IndInv'
  OBVIOUS
<1>1. ASSUME NEW a \in Adapters, StartAdapter(a) \/ Adapter(a) \/ AdapterFails(a) \/ KillsAdapter(a)
      PROVE  IndInv'
  BY <1>1, EarlyStep, AcceptsStep, WritesMetadataStep, IpcThreadEndsStep, EndStep DEF Adapter
<1>2. ASSUME NEW h \in Hosts, StartHost(h) \/ Host(h) \/ KillsHost(h)
      PROVE  IndInv'
  BY <1>2, HostStep, ConnectsStep, ReadsMetadataStep, MapsRingStep, FinishesStep DEF Host
<1>3. CASE RemovesSync \/ UNCHANGED vars
  BY <1>3, RemovesSyncStep
<1> QED
  BY <1>1, <1>2, <1>3 DEF Next

(* IndInv is an invariant, for any number of adapters and hosts: what an   *)
(* adapter and a host know of each other (ipc.rs, ring_buffer_metadata.rs) *)
(* agrees, whoever is started or killed when, and whatever happens to the  *)
(* socket file.                                                            *)
THEOREM Invariance == Spec => []IndInv
BY InitIndInv, NextIndInv, PTL DEF Spec

(* A host that has read the metadata (host/src/main.rs:38) fails only with *)
(* its adapter, and only a killed host leaves an adapter behind that       *)
(* nothing ends (adapter/src/main.rs:117).                                 *)
THEOREM FailTogether == Spec => []HostsFailWithTheirAdapter
<1>1. ASSUME IndInv PROVE HostsFailWithTheirAdapter
  BY <1>1 DEF IndInv, RingInv, PeerInv, HostsFailWithTheirAdapter
<1> QED
  BY <1>1, Invariance, PTL
------------------------------------------------------------------------------
(* Rendezvous implements Attachment.                                       *)

offered == {a \in Adapters : segment[a] = "ring"}

\* A ring has one host at most: the one that its adapter has accepted.
LEMMA OneHost ==
  ASSUME IndInv, NEW h \in Hosts, MapsRing(h), segment[name[h]] # "none"
  PROVE  /\ name[h] \in offered
         /\ ring[h] = None
         /\ \A g \in Hosts : ring[g] # name[h]
<1> USE RendezvousAssumption DEF IndInv, TypeOK, MapsRing
<1> DEFINE a == name[h]
<1>1. a \in Adapters /\ a \in told /\ peer[a] = h /\ ring[h] = None
  BY DEF NameInv, RingInv
<1>2. segment[a] = "ring"
  BY <1>1 DEF PeerInv, SegmentInv, HasRing, Unlinking
<1>3. ASSUME NEW g \in Hosts, ring[g] = a PROVE FALSE
  <2>1. name[g] = a /\ peer[a] = g
    BY <1>1, <1>3 DEF RingInv, NameInv
  <2> QED
    BY <1>1, <1>3, <2>1
<1> QED
  BY <1>1, <1>2, <1>3 DEF offered

\* The segment of one adapter changes, and no host.
LEMMA OfferOrWithdraw ==
  ASSUME NEW a \in Adapters, UNCHANGED ring,
         \A b \in Adapters \ {a} : segment'[b] = segment[b]
  PROVE  [Attached!Next]_(Attached!vars)
<1>1. CASE a \in offered <=> a \in offered'
  <2>1. offered' = offered
    BY <1>1 DEF offered
  <2> QED
    BY <2>1 DEF Attached!vars, offered
<1>2. CASE a \notin offered /\ a \in offered'
  <2>1. offered' = offered \cup {a}
    BY <1>2 DEF offered
  <2>2. Attached!Offer(a)
    BY <1>2, <2>1 DEF Attached!Offer, offered
  <2> QED
    BY <2>2 DEF Attached!Next
<1>3. CASE a \in offered /\ a \notin offered'
  <2>1. offered' = offered \ {a}
    BY <1>3 DEF offered
  <2>2. Attached!Withdraw(a)
    BY <1>3, <2>1 DEF Attached!Withdraw, offered
  <2> QED
    BY <2>2 DEF Attached!Next
<1> QED
  BY <1>1, <1>2, <1>3

\* Every step offers or withdraws a ring, attaches a host to one, or is none of
\* Attachment.
LEMMA StepSimulation ==
  ASSUME IndInv, [Next]_vars PROVE [Attached!Next]_(Attached!vars)
<1>1. ASSUME NEW a \in Adapters, StartAdapter(a) \/ Adapter(a) \/ AdapterFails(a) \/ KillsAdapter(a)
      PROVE  [Attached!Next]_(Attached!vars)
  <2>1. UNCHANGED ring /\ \A b \in Adapters \ {a} : segment'[b] = segment[b]
    BY <1>1 DEF IndInv, TypeOK, StartAdapter, Adapter, AdapterFails, KillsAdapter,
                CreateSegment, InitRing, LooksForFile, RemovesFile, Binds, Listens,
                Accepts, WritesMetadata, IpcThreadEnds, Goto, host
  <2> QED
    BY <2>1, OfferOrWithdraw
<1>2. ASSUME NEW h \in Hosts, MapsRing(h), segment[name[h]] # "none"
      PROVE  [Attached!Next]_(Attached!vars)
  <2>1. ring' = [ring EXCEPT ![h] = name[h]] /\ segment' = segment
    BY <1>2 DEF MapsRing, adapter
  <2>2. Attached!Attach(h, name[h])
    BY <1>2, <2>1, OneHost DEF Attached!Attach, offered
  <2>3. name[h] \in Adapters
    BY <1>2, OneHost DEF offered
  <2> QED
    BY <2>2, <2>3 DEF Attached!Next
<1>3. ASSUME UNCHANGED <<segment, ring>>
      PROVE  [Attached!Next]_(Attached!vars)
  BY <1>3 DEF Attached!vars
<1>4. ASSUME NEW h \in Hosts, StartHost(h) \/ Host(h) \/ KillsHost(h)
      PROVE  [Attached!Next]_(Attached!vars)
  <2>1. \/ MapsRing(h) /\ segment[name[h]] # "none"
        \/ UNCHANGED <<segment, ring>>
    BY <1>4 DEF StartHost, Host, KillsHost, Waits, Connects, ReadsMetadata, MapsRing,
                Finishes, adapter
  <2> QED
    BY <1>2, <1>3, <2>1
<1>5. CASE RemovesSync \/ UNCHANGED vars
  BY <1>3, <1>5 DEF RemovesSync, vars, host
<1> QED
  BY <1>1, <1>4, <1>5 DEF Next

(* However many adapters and hosts meet at one socket file, a ring is      *)
(* mapped by one host at most, ever, and only when it is initialised.      *)
THEOREM ImplementsAttachment == Spec => AttachmentSpec
<1>1. Init => Attached!Init
  BY DEF Init, Attached!Init
<1>2. IndInv /\ [Next]_vars => [Attached!Next]_(Attached!vars)
  BY StepSimulation
<1> QED
  BY <1>1, <1>2, Invariance, PTL DEF Spec, AttachmentSpec, Attached!Spec
------------------------------------------------------------------------------
(* Nobody waits for somebody who waits.                                    *)

\* An adapter does not come to accept while a host is connected to it.
LEMMA QueuedKeeps ==
  ASSUME IndInv, QueuedInv, [Next]_vars
  PROVE  QueuedInv'
<1> SUFFICES ASSUME NEW h \in Hosts, hpc'[h] = "read", apc'[conn'[h]] = "accept"
             PROVE  backlog'[conn'[h]] # <<>>
  BY DEF QueuedInv
<1> DEFINE b == conn'[h]
<1>0. /\ DOMAIN apc = Adapters /\ DOMAIN hpc = Hosts /\ DOMAIN conn = Hosts
      /\ DOMAIN backlog = Adapters /\ \A a \in Adapters : backlog[a] \in Seq(Hosts)
      /\ \A g \in Hosts : conn[g] \in Adapters \cup {None}
      /\ None \notin Adapters
      /\ hpc[h] = "read" => conn[h] # None
      /\ conn[h] # None => apc[conn[h]] # "listen"
  BY RendezvousAssumption DEF IndInv, TypeOK, NameInv, AdapterEnds
<1>1. CASE UNCHANGED <<hpc[h], conn[h]>>
  <2>1. conn[h] \in Adapters /\ b = conn[h] /\ hpc[h] = "read"
    BY <1>0, <1>1
  <2>2. apc[b] # "accept" => apc'[b] # "accept"
    <3>1. ASSUME NEW a \in Adapters,
                 StartAdapter(a) \/ Adapter(a) \/ AdapterFails(a) \/ KillsAdapter(a)
          PROVE  \A c \in Adapters : apc'[c] = "accept" => apc[c] \in {"accept", "listen"}
      <4>1. CASE StartAdapter(a) \/ CreateSegment(a) \/ InitRing(a) \/ Listens(a)
        BY <1>0, <4>1 DEF StartAdapter, CreateSegment, InitRing, Listens, Goto
      <4>2. CASE LooksForFile(a) \/ RemovesFile(a) \/ Binds(a)
        BY <1>0, <4>2 DEF LooksForFile, RemovesFile, Binds, Goto
      <4>3. CASE Accepts(a) \/ WritesMetadata(a) \/ IpcThreadEnds(a)
        <5>1. apc'[a] # "accept" /\ \A c \in Adapters \ {a} : apc'[c] = apc[c]
          <6>1. CASE Accepts(a)
            BY <1>0, <6>1 DEF Accepts, Goto
          <6>2. CASE WritesMetadata(a)
            BY <1>0, <6>2 DEF WritesMetadata, Goto
          <6>3. CASE IpcThreadEnds(a)
            BY <1>0, <6>3 DEF IpcThreadEnds, Goto
          <6> QED
            BY <4>3, <6>1, <6>2, <6>3
        <5> QED
          BY <5>1
      <4>4. CASE AdapterFails(a) \/ KillsAdapter(a)
        BY <1>0, <4>4 DEF AdapterFails, KillsAdapter, Goto
      <4> QED
        BY <3>1, <4>1, <4>2, <4>3, <4>4 DEF Adapter
    <3>2. ASSUME NEW g \in Hosts, StartHost(g) \/ Host(g) \/ KillsHost(g)
          PROVE  apc' = apc
      BY <3>2 DEF StartHost, Host, KillsHost, Waits, Connects, ReadsMetadata, MapsRing,
                  Finishes, adapter
    <3>3. RemovesSync \/ UNCHANGED vars => apc' = apc
      BY DEF RemovesSync, vars
    <3> QED
      BY <1>0, <2>1, <3>1, <3>2, <3>3 DEF Next
  <2>3. apc'[b] = "accept" /\ backlog[b] # <<>> => backlog'[b] # <<>>
    <3>1. ASSUME NEW a \in Adapters, Accepts(a)
          PROVE  apc'[a] # "accept" /\ \A c \in Adapters \ {a} : backlog'[c] = backlog[c]
      BY <1>0, <3>1 DEF Accepts, Goto
    <3>2. ASSUME NEW g \in Hosts, Connects(g)
          PROVE  backlog'[b] = backlog[b] \/ backlog'[b] = Append(backlog[b], g)
      <4>1. \/ backlog' = backlog
            \/ backlog' = [backlog EXCEPT ![file] = Append(backlog[file], g)]
        BY <3>2 DEF Connects
      <4>2. CASE backlog' = backlog
        BY <4>2
      <4>3. CASE backlog' = [backlog EXCEPT ![file] = Append(backlog[file], g)]
        <5> DEFINE c == conn[h]
        <5>1. c \in DOMAIN backlog /\ b = c
          BY <1>0, <2>1
        <5> HIDE DEF b, c
        <5>2. backlog'[c] = IF c = file THEN Append(backlog[file], g) ELSE backlog[c]
          BY <4>3, <5>1
        <5> QED
          BY <5>1, <5>2
      <4> QED
        BY <4>1, <4>2, <4>3
    <3>3. ASSUME NEW q \in Seq(Hosts), NEW g \in Hosts PROVE Append(q, g) # <<>>
      BY AppendProperties
    <3>4. ASSUME NEW a \in Adapters,
                 StartAdapter(a) \/ Adapter(a) \/ AdapterFails(a) \/ KillsAdapter(a)
          PROVE  Accepts(a) \/ backlog' = backlog
      BY <3>4 DEF StartAdapter, Adapter, AdapterFails, KillsAdapter, CreateSegment, InitRing,
                  LooksForFile, RemovesFile, Binds, Listens, WritesMetadata,
                  IpcThreadEnds, sockets
    <3>5. ASSUME NEW g \in Hosts, StartHost(g) \/ Host(g) \/ KillsHost(g)
          PROVE  Connects(g) \/ backlog' = backlog
      BY <3>5 DEF StartHost, Host, KillsHost, Waits, ReadsMetadata, MapsRing, Finishes
    <3>6. RemovesSync \/ UNCHANGED vars => backlog' = backlog
      BY DEF RemovesSync, vars, sockets
    <3> QED
      BY <2>1, <3>1, <3>2, <3>3, <3>4, <3>5, <3>6 DEF Next
  <2> QED
    BY <2>1, <2>2, <2>3 DEF QueuedInv
<1>2. CASE ~ UNCHANGED <<hpc[h], conn[h]>>
  <2>1. Connects(h)
    <3>1. ASSUME NEW g \in Hosts, StartHost(g) \/ KillsHost(g) \/ Waits(g) \/ MapsRing(g)
                                  \/ Finishes(g) \/ ReadsMetadata(g)
          PROVE  UNCHANGED conn /\ \E l : l # "read" /\ hpc' = [hpc EXCEPT ![g] = l]
      BY <3>1 DEF StartHost, KillsHost, Waits, MapsRing, Finishes, ReadsMetadata, HostGoto
    <3>2. ASSUME NEW g \in Hosts, Connects(g)
          PROVE  \A f \in Hosts \ {g} : UNCHANGED <<hpc[f], conn[f]>>
      BY <1>0, <3>2 DEF Connects, HostGoto
    <3>3. ASSUME NEW a \in Adapters,
                 StartAdapter(a) \/ Adapter(a) \/ AdapterFails(a) \/ KillsAdapter(a)
          PROVE  UNCHANGED <<hpc, conn>>
      BY <3>3 DEF StartAdapter, Adapter, AdapterFails, KillsAdapter, CreateSegment, InitRing,
                  LooksForFile, RemovesFile, Binds, Listens, Accepts, WritesMetadata,
                  IpcThreadEnds, host
    <3>4. RemovesSync \/ UNCHANGED vars => UNCHANGED <<hpc, conn>>
      BY DEF RemovesSync, vars, host
    <3> QED
      BY <1>0, <1>2, <3>1, <3>2, <3>3, <3>4 DEF Next, Host
  <2>2. /\ Listening /\ conn' = [conn EXCEPT ![h] = file]
        /\ backlog' = [backlog EXCEPT ![file] = Append(@, h)]
    BY <1>0, <2>1 DEF Connects, HostGoto
  <2>3. file \in Adapters
    BY <2>2 DEF Listening, IndInv, TypeOK
  <2>4. b = file /\ backlog'[file] = Append(backlog[file], h)
    BY <1>0, <2>2, <2>3
  <2> QED
    BY <1>0, <2>3, <2>4
<1> QED
  BY <1>1, <1>2

\* When nobody has a step left, nobody waits for somebody who is there.
THEOREM NoneWaitsInVain == Spec => []NobodyWaitsInVain
<1>1. ASSUME IndInv, QueuedInv, ~ SomebodyMoves
      PROVE  /\ \A a \in Adapters :
                  AdapterGone(a) \/ apc[a] \in {"off", "orphan"}
                  \/ (apc[a] = "accept" /\ backlog[a] = <<>>)
             /\ \A h \in Hosts :
                  HostGone(h) \/ hpc[h] = "off" \/ (hpc[h] = "wait" /\ file = None)
  <2> USE <1>1
  <2>1. ASSUME NEW h \in Hosts, hpc[h] = "read" PROVE FALSE
    <3> DEFINE a == conn[h]
    <3>1. a \in Adapters /\ ~ Closed(h) /\ a \notin told
      BY <2>1 DEF IndInv, TypeOK, NameInv, SomebodyMoves
    <3>2. ~ AdapterGone(a) /\ (apc[a] = "accept" \/ peer[a] = h)
      BY <3>1 DEF Closed
    <3>3. apc[a] \in {"accept", "write", "serve", "orphan"}
      BY <2>1, <3>1, <3>2 DEF IndInv, NameInv, AdapterGone
    <3>4. apc[a] \notin {"serve", "orphan", "write"}
      BY <3>1 DEF IndInv, PeerInv, SomebodyMoves
    <3>5. apc[a] = "accept" /\ backlog[a] # <<>>
      BY <2>1, <3>3, <3>4 DEF QueuedInv
    <3> QED
      BY <3>1, <3>5 DEF SomebodyMoves
  <2>2. ASSUME NEW h \in Hosts
        PROVE  HostGone(h) \/ hpc[h] = "off" \/ (hpc[h] = "wait" /\ file = None)
    <3>1. hpc[h] \in HostStates /\ hpc[h] \notin {"connect", "map", "run", "read"}
      BY <2>1 DEF IndInv, TypeOK, SomebodyMoves
    <3> QED
      BY <3>1 DEF HostStates, HostGone, SomebodyMoves
  <2>3. ASSUME NEW a \in Adapters
        PROVE  AdapterGone(a) \/ apc[a] \in {"off", "orphan"}
               \/ (apc[a] = "accept" /\ backlog[a] = <<>>)
    <3>1. apc[a] # "serve"
      <4> SUFFICES ASSUME apc[a] = "serve" PROVE FALSE
        OBVIOUS
      <4>1. peer[a] \in Hosts /\ conn[peer[a]] = a
        BY DEF IndInv, TypeOK, PeerInv
      <4>2. ~ HostGone(peer[a])
        BY DEF SomebodyMoves, StreamEnds
      <4>3. hpc[peer[a]] \in {"off", "wait"}
        BY <2>2, <4>1, <4>2
      <4>4. conn[peer[a]] = None
        BY <4>1, <4>3 DEF IndInv, NameInv
      <4> QED
        BY <4>1, <4>4, RendezvousAssumption
    <3>2. apc[a] \in AdapterStates
          /\ apc[a] \notin {"setup", "init", "exists", "remove", "bind", "listen", "write"}
          /\ (apc[a] = "accept" => backlog[a] = <<>>)
      BY DEF IndInv, TypeOK, SomebodyMoves
    <3> QED
      BY <3>1, <3>2 DEF AdapterStates, AdapterGone
  <2> QED
    BY <2>2, <2>3
<1>2. Init => QueuedInv
  BY DEF Init, QueuedInv
<1>3. IndInv /\ QueuedInv => NobodyWaitsInVain
  BY <1>1 DEF NobodyWaitsInVain
<1> QED
  BY <1>2, <1>3, QueuedKeeps, Invariance, PTL DEF Spec
==============================================================================
