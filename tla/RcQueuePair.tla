----------------------------- MODULE RcQueuePair -----------------------------
(***************************************************************************)
(* The two ends of a reliable RDMA connection, as far as the adapters use  *)
(* it: the client posts sends from its ring, the server posts receives     *)
(* into its own, and the network cards copy slots from one to the other    *)
(* without the processors.  Nothing of this is in the repository: it is    *)
(* what post_send, post_recv and poll_cq rely on libibverbs for.           *)
(*                                                                         *)
(* A card may read the slots of a posted send at any time until its        *)
(* completion, and write those of a posted receive until its completion.   *)
(* Losses and retransmissions are the transport's and do not show, but the *)
(* acknowledgement comes some time after the delivery.  A send that finds  *)
(* no receive posted waits for one for ever (rnr_retry = 7).               *)
(***************************************************************************)
EXTENDS RingOps, Sequences

CONSTANT NoItem   \* what a slot holds that nothing was ever written to

ASSUME NoItemAssumption == NoItem \notin Nat

VARIABLES
  ring,     \* the registered memory: the rings of the client and the server
  up,       \* whether the process that owns a queue pair is running
  sq, rq,   \* work requests posted by the client, and by the server
  moved,    \* items of the first send copied so far, or Delivered
  cq        \* completion queues

queues == <<sq, rq, moved, cq>>
qpVars == <<ring, up, queues>>

Sides == {"client", "server"}

Delivered == -1

\* RingBufferConst::new()
EmptyRing == [head |-> 0, tail |-> 0, slots |-> [s \in Slots |-> NoItem]]

\* The rings are created after the connection, which leaves nothing behind.
QpInit ==
  /\ ring = [s \in Sides |-> EmptyRing]
  /\ up = [s \in Sides |-> TRUE]
  /\ sq = <<>> /\ rq = <<>> /\ moved = 0
  /\ cq = [s \in Sides |-> <<>>]

\* A scatter/gather list of one entry: len slots from the slot of start on.
Request(start, len) == [at |-> SliceSlot(start, 0), len |-> len]

Completion(opcode, status) == [opcode |-> opcode, status |-> status]

PostSend(start, len) ==
  sq' = Append(sq, Request(start, len)) /\ UNCHANGED <<rq, moved, cq>>

PostRecv(start, len) ==
  rq' = Append(rq, Request(start, len)) /\ UNCHANGED <<sq, moved, cq>>

\* ibv_poll_cq takes all there is: up to 16 completions, and there is never more
\* than one.
PollCq(s) ==
  cq[s] # <<>> /\ cq' = [cq EXCEPT ![s] = <<>>] /\ UNCHANGED <<sq, rq, moved>>
------------------------------------------------------------------------------
(* What the cards do by themselves.                                        *)

Matched == up["client"] /\ up["server"] /\ sq # <<>> /\ rq # <<>> /\ moved # Delivered

\* One item of the message, from the client's ring to the server's.
MoveItem ==
  /\ Matched
  /\ sq[1].len <= rq[1].len
  /\ moved < sq[1].len
  /\ ring' = [ring EXCEPT !["server"].slots[rq[1].at + moved] =
                ring["client"].slots[sq[1].at + moved]]
  /\ moved' = moved + 1
  /\ UNCHANGED <<up, sq, rq, cq>>

\* The whole message has arrived: the receive completes.
Deliver ==
  /\ Matched
  /\ moved = sq[1].len
  /\ cq' = [cq EXCEPT !["server"] = Append(@, Completion("RECV", "SUCCESS"))]
  /\ rq' = Tail(rq)
  /\ moved' = Delivered
  /\ UNCHANGED <<ring, up, sq>>

\* The acknowledgement has arrived: the send completes.
Acknowledge ==
  /\ up["client"] /\ moved = Delivered
  /\ cq' = [cq EXCEPT !["client"] = Append(@, Completion("SEND", "SUCCESS"))]
  /\ sq' = Tail(sq)
  /\ moved' = 0
  /\ UNCHANGED <<ring, up, rq>>

\* A message that is longer than the receive it meets: both complete in error.
TooLong ==
  /\ Matched
  /\ sq[1].len > rq[1].len
  /\ cq' = [client |-> Append(cq["client"], Completion("SEND", "REM_INV_REQ_ERR")),
            server |-> Append(cq["server"], Completion("RECV", "LOC_LEN_ERR"))]
  /\ sq' = Tail(sq) /\ rq' = Tail(rq)
  /\ UNCHANGED <<ring, up, moved>>

\* The peer's queue pair is gone: retry_cnt retries later the send fails.
RetryExceeded ==
  /\ up["client"] /\ ~ up["server"] /\ sq # <<>>
  /\ cq' = [cq EXCEPT !["client"] = Append(@, Completion("SEND", "RETRY_EXC_ERR"))]
  /\ sq' = Tail(sq)
  /\ moved' = 0
  /\ UNCHANGED <<ring, up, rq>>

Cards == MoveItem \/ Deliver \/ Acknowledge \/ TooLong \/ RetryExceeded
==============================================================================
