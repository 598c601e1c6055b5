------------------------------ MODULE Pipeline -------------------------------
(***************************************************************************)
(* The whole program at work: the client's host fills a ring, the client's *)
(* adapter sends its slots as they are, the server's adapter receives into *)
(* the slots of another ring, and the server's host reads them.            *)
(***************************************************************************)
EXTENDS Adapter, Host

CONSTANT Arguments   \* the command lines: batch sizes and message sizes

ASSUME ArgumentsAssumption ==
  Arguments \subseteq [batch : Nat \ {0}, cmsg : Nat \ {0}, smsg : Nat \ {0}]

vars == <<qpVars, avars, hvars>>

Init ==
  /\ \E args \in Arguments :
       batch = args.batch /\ msg = [client |-> args.cmsg, server |-> args.smsg]
  /\ QpInit /\ AdapterInit /\ HostInit

HostSteps(s) == HostMain(s) /\ UNCHANGED avars

AdapterSteps(s) == AdapterMain(s) /\ UNCHANGED hvars

IpcThread(s) == Exits(s, HostGone(s)) /\ UNCHANGED hvars

Network == Cards /\ UNCHANGED <<avars, hvars>>

\* Both hosts and both adapters have ended.
AllEnded ==
  /\ \A s \in Sides : HostGone(s) /\ ~ up[s]
  /\ UNCHANGED vars

Next ==
  \/ \E s \in Sides : HostSteps(s) \/ AdapterSteps(s) \/ IpcThread(s)
  \/ \E s \in Sides : TimesOut(s) /\ UNCHANGED avars
  \/ Network \/ AllEnded

\* Every loop polls without ever sleeping, the cards make progress, and the IPC
\* thread wakes up at the end of its stream.  Nothing makes the time run out.
Fairness ==
  /\ \A s \in Sides :
       WF_vars(HostSteps(s)) /\ WF_vars(AdapterSteps(s)) /\ WF_vars(IpcThread(s))
  /\ WF_vars(Network)

Spec == Init /\ [][Next]_vars /\ Fairness
------------------------------------------------------------------------------
(* The arguments under which the program works: the adapters agree on the  *)
(* size of a message, messages and batches divide the ring, and batches    *)
(* divide messages.  So they are in the justfile and by default.           *)
SameMessage == msg["client"] = msg["server"]

Aligned ==
  /\ SameMessage
  /\ BufferSize % msg["client"] = 0
  /\ BufferSize % batch = 0 /\ msg["client"] % batch = 0

Rings == [head : Nat, tail : Nat, slots : [Slots -> Nat \cup {NoItem}]]

Requests == [at : Slots, len : 1 .. BufferSize]

Statuses == {"SUCCESS", "REM_INV_REQ_ERR", "LOC_LEN_ERR", "RETRY_EXC_ERR"}

Completions == [opcode : {"SEND", "RECV"}, status : Statuses]

Chunks == [start : Nat, end : Nat]

(* Type correctness, whatever the arguments.                               *)
TypeOK ==
  /\ ring \in [Sides -> Rings] /\ up \in [Sides -> BOOLEAN]
  /\ sq \in Seq(Requests) /\ rq \in Seq(Requests)
  /\ moved \in Nat \cup {Delivered}
  /\ cq \in [Sides -> Seq(Completions)]
  /\ apc \in [Sides -> {"try", "post", "poll", "commit", "panicked", "exited"}]
  /\ chunk \in [Sides -> Chunks] /\ hchunk \in Chunks
  /\ hpc \in [Sides -> {"fill", "write", "copy", "last", "ended", "broken",
                        "read", "check", "mismatch"}]
  /\ batch \in Nat \ {0} /\ msg \in [Sides -> Nat \ {0}]
  /\ next \in 0 .. MaxData + batch /\ room \in Nat /\ expected \in Nat
  /\ sent \in Seq(Nat) /\ got \in Seq(Nat)

(* "Data mismatch: expected {}, got {}" (host/src/main.rs:102): the server's *)
(* host never panics, since every count arrives once and in order.         *)
NoMismatch == hpc["server"] # "mismatch"

(* So it is with aligned arguments, whoever ends when.                     *)
AlignedNoMismatch == Aligned => NoMismatch

(* Two rings and a connection behave as one FIFO stream with room for the  *)
(* items of both rings: nothing is lost, repeated or reordered on the way  *)
(* from what Sender::write has published to what the server has checked.   *)
Stream == INSTANCE SpscFifo WITH Capacity <- 2 * BufferSize, Items <- Nat

StreamSpec == Stream!Spec

RequestSlots(wr) == wr.at .. wr.at + wr.len - 1

(* Zero copy: from post_send to its completion the card may read the slots *)
(* of the chunk at any time, so nobody writes to them.                     *)
SendSlotsStable ==
  [][\A i \in DOMAIN sq : \A s \in RequestSlots(sq[i]) :
       ring'["client"].slots[s] = ring["client"].slots[s]]_vars

(* From post_recv to its completion the card may write to the slots of the *)
(* chunk at any time, so the host is not shown any of them.                *)
RecvSlotsHidden ==
  \A i \in DOMAIN rq : \A s \in RequestSlots(rq[i]) :
    \A p \in ring["server"].head .. ring["server"].tail - 1 : p % BufferSize # s

(* What the server's adapter commits is what the client's host wrote next: *)
(* the completion it polled, whose wr_id nobody looks at, was that of this *)
(* chunk, and the whole chunk was filled.  A chunk is longer than the      *)
(* message that filled it only if the adapters' sizes differ, since        *)
(* wc.byte_len is not looked at.                                           *)
CommitsWhatArrived ==
  LET c == chunk["server"] IN
  SameMessage /\ apc["server"] = "commit" =>
    \A k \in 0 .. ChunkLen(c) - 1 :
      /\ c.start + k < Len(sent)
      /\ ring["server"].slots[SliceSlot(c.start, k)] = sent[c.start + k + 1]

(* Unless messages are too long, which ends both adapters, nobody fails by *)
(* itself.  The client's adapter fails only when the server's, and so the  *)
(* server's host, has ended before it; the server's never does, as a       *)
(* posted receive just waits.  A host fails at its last write              *)
(* (host/src/main.rs:138) only when its adapter has failed: adapters never *)
(* end first, so the server's host never fails there.                      *)
FailsOnlyAfterServer ==
  msg["client"] <= msg["server"] =>
    /\ apc["client"] = "panicked" => ~ up["server"] /\ HostGone("server")
    /\ apc["server"] # "panicked"
    /\ hpc["client"] = "broken" => apc["client"] = "panicked"
    /\ hpc["server"] # "broken"

(* An adapter does not outlive its host, though its main thread may be in a *)
(* polling loop that nothing else ends.                                    *)
AdapterFollowsHost == \A s \in Sides : HostGone(s) ~> ~ up[s]

(* Unless a host ends, whole messages that the client has published reach  *)
(* the server.                                                             *)
MessagesArrive ==
  \A n \in 1 .. MaxData :
    (Aligned /\ n % msg["client"] = 0 /\ Len(sent) >= n) ~>
      (Len(got) >= n \/ \E s \in Sides : hpc[s] = "last" \/ HostGone(s))
------------------------------------------------------------------------------
(* The inductive invariant behind the safety properties.                   *)

CHead == ring["client"].head
CTail == ring["client"].tail
SHead == ring["server"].head
STail == ring["server"].tail
CSlots == ring["client"].slots
SSlots == ring["server"].slots
CMsg == msg["client"]
SMsg == msg["server"]

\* Where the processes are, and who is gone.
ProcessInv ==
  /\ hpc["client"] \in {"fill", "write", "copy", "last", "ended", "broken"}
  /\ hpc["server"] \in {"read", "check", "last", "ended", "broken", "mismatch"}
  /\ \A s \in Sides :
       /\ up[s] <=> apc[s] \notin {"panicked", "exited"}
       /\ apc[s] = "exited" => HostGone(s)
       /\ hpc[s] = "broken" => apc[s] = "panicked"

\* The client's ring holds what is published and not yet sent; its host copies
\* only where there is room.
ClientRingInv ==
  /\ CHead <= CTail /\ CTail <= CHead + BufferSize
  /\ CTail = Len(sent)
  /\ \A p \in CHead .. CTail - 1 : CSlots[p % BufferSize] = sent[p + 1]
  /\ hpc["client"] \in {"fill", "copy"} => next <= MaxData
  /\ hpc["client"] \in {"write", "copy"} => batch <= next
  /\ hpc["client"] = "copy" =>
       room > 0 /\ room <= batch /\ CTail + room <= CHead + BufferSize

\* A message is the contiguous slots from head on, all published.
MessageReady == CHead + CMsg <= CTail /\ CMsg <= ToEnd(CHead)

\* The client's adapter has at most one message on its way, of the chunk it holds.
SendInv ==
  /\ apc["client"] \in {"post", "poll", "commit"} =>
       chunk["client"] = Chunk(CHead, CMsg) /\ MessageReady
  /\ \/ sq = <<>> /\ moved = 0
     \/ /\ sq = <<Request(CHead, CMsg)>> /\ moved \in -1 .. CMsg
        /\ MessageReady
        /\ apc["client"] \in {"poll", "exited"} /\ cq["client"] = <<>>
  /\ \/ cq["client"] = <<>>
     \/ /\ \E st \in Statuses : cq["client"] = <<Completion("SEND", st)>>
        /\ sq = <<>>
        /\ apc["client"] \in {"poll", "exited"}

\* The server's host reads only what is published, and counts it.
ServerRingInv ==
  /\ SHead <= STail /\ STail <= SHead + BufferSize
  /\ SHead = Len(got) /\ expected = SHead
  /\ hpc["server"] = "check" =>
       /\ hchunk.start = SHead /\ SHead <= hchunk.end /\ hchunk.end <= STail
       /\ hchunk.end - SHead <= ToEnd(SHead)

\* There is room for a message in the contiguous slots from tail on.
RoomReady == STail + SMsg <= SHead + BufferSize /\ SMsg <= ToEnd(STail)

\* The server's adapter has at most one receive posted, of the chunk it holds.
RecvInv ==
  /\ apc["server"] \in {"post", "poll", "commit"} =>
       chunk["server"] = Chunk(STail, SMsg) /\ RoomReady
  /\ \/ rq = <<>>
     \/ /\ rq = <<Request(STail, SMsg)>>
        /\ RoomReady
        /\ apc["server"] \in {"poll", "exited"} /\ cq["server"] = <<>>
  /\ \/ cq["server"] = <<>>
     \/ /\ \E st \in Statuses : cq["server"] = <<Completion("RECV", st)>>
        /\ rq = <<>> /\ RoomReady
        /\ apc["server"] \in {"poll", "exited"}

\* A message is copied into a posted receive that is long enough.
MoveInv ==
  /\ moved > 0 => rq # <<>>
  /\ moved # 0 => CMsg <= SMsg

\* A completion in error tells of a message that is too long, or of an end.
FailInv ==
  CMsg <= SMsg =>
    /\ cq["server"] \in {<<>>, <<Completion("RECV", "SUCCESS")>>}
    /\ apc["server"] # "panicked"
    /\ cq["client"] \in {<<>>, <<Completion("SEND", "SUCCESS")>>} \/ ~ up["server"]
    /\ apc["client"] = "panicked" => ~ up["server"]

\* The message of the server's chunk has arrived; so has that of the client's.
Served == apc["server"] = "commit" \/ cq["server"] = <<Completion("RECV", "SUCCESS")>>
Acked  == \/ moved = Delivered \/ apc["client"] = "commit"
          \/ cq["client"] = <<Completion("SEND", "SUCCESS")>>

\* How far the two sides have come with the stream.
Arrived == IF Served THEN STail + SMsg ELSE STail
Left    == IF Acked THEN CHead + CMsg ELSE CHead

\* No side is ahead of the other, while both adapters run.
FlowInv ==
  /\ up["client"] /\ up["server"] =>
       /\ CMsg <= SMsg => Left <= Arrived
       /\ SameMessage => Left = Arrived
  /\ CMsg <= SMsg => Left <= SHead + BufferSize

\* What has arrived is what was sent, the message that is arriving included.
DataInv ==
  SameMessage =>
    /\ Arrived <= CTail
    /\ \A p \in SHead .. Arrived - 1 : SSlots[p % BufferSize] = sent[p + 1]
    /\ \A k \in 0 .. moved - 1 :
         STail + k < CTail /\ SSlots[(STail + k) % BufferSize] = sent[STail + k + 1]
    /\ \A k \in 1 .. Len(got) : got[k] = sent[k]

\* A message that is too short for its chunk leaves slots that were never written
\* in the first one, where the server's host stops; one too long never arrives.
OddInv ==
  /\ CMsg < SMsg =>
       /\ SHead = 0
       /\ STail = 0 \/ SMsg <= STail
       /\ hpc["server"] = "check" => hchunk.end = 0 \/ SMsg <= hchunk.end
       /\ \A p \in Slots : CMsg <= p /\ p < SMsg => SSlots[p] = NoItem
  /\ CMsg > SMsg => CHead = 0 /\ SHead = 0 /\ STail = 0 /\ ~ Served /\ ~ Acked

\* With aligned arguments there is never room for part of a batch, so the stream
\* is the count.
AlignInv ==
  Aligned =>
    /\ CHead % CMsg = 0 /\ CTail % batch = 0
    /\ hpc["client"] = "copy" => room = batch
    /\ \A k \in 1 .. Len(sent) : sent[k] = k - 1
    /\ hpc["client"] = "fill" => next = CTail
    /\ hpc["client"] \in {"write", "copy"} => next = CTail + batch
    /\ hpc["server"] # "mismatch"

(* The inductive invariant.                                                *)
IndInv ==
  /\ TypeOK /\ ProcessInv
  /\ ClientRingInv /\ SendInv
  /\ ServerRingInv /\ RecvInv
  /\ MoveInv /\ FailInv /\ FlowInv /\ DataInv /\ OddInv /\ AlignInv
-----------------------------------------------------------------------------
(* What MessagesArrive rests on, and no fairness can make up for.          *)

\* An adapter polls for a request that it has posted, or one that is completed.
AwaitInv ==
  /\ At("client", "poll") => sq # <<>> \/ cq["client"] # <<>>
  /\ At("server", "poll") => rq # <<>> \/ cq["server"] # <<>>

\* Somebody behind the client's host can go on: the guards of the steps that take a
\* message to the server's host.
MessageMoves ==
  \/ \E s \in Sides : At(s, "post") \/ At(s, "commit") \/ (At(s, "poll") /\ cq[s] # <<>>)
  \/ At("client", "try") /\ Readable(CHead, CTail) >= CMsg
  \/ At("server", "try") /\ Reservable(SHead, STail) >= SMsg
  \/ sq # <<>> /\ (rq # <<>> \/ moved = Delivered)
  \/ SHead < STail

(* Aligned arguments never let the two adapters and the server's host wait *)
(* for each other: while both hosts go on and a whole message that is      *)
(* published has not been read, one of them or the cards have a step to    *)
(* take, whatever the client's host does.                                  *)
NeverStalls ==
  /\ Aligned
  /\ \A s \in Sides : hpc[s] # "last" /\ ~ HostGone(s)
  /\ \E n \in SHead + 1 .. CTail : n % CMsg = 0
  => MessageMoves
==============================================================================
