------------------------------ MODULE RingBench ------------------------------
(***************************************************************************)
(* The two threads of shared/benches/ring_buffer.rs on one RefRingBuffer:  *)
(* the writer reserves a batch of slots at a time and fills them with a    *)
(* running count, the reader takes a batch at a time and asserts that it   *)
(* sees the same count.  Both spin until they have done all iterations.    *)
(***************************************************************************)
EXTENDS RefRingBuffer

CONSTANTS
  Batches,    \* the batch sizes that are benchmarked, for this buffer size
  DataSize    \* DATA_SIZE

ASSUME BenchAssumption ==
  /\ 0 \notin Batches
  /\ DataSize \in Nat
  /\ Sizes = Batches
  /\ Items = 0 .. DataSize - 1

VARIABLES
  batch,            \* batch_size, chosen at the start
  wcount, rcount,   \* count in the writer and in the reader
  witer, riter      \* iterations done

benchVars == <<batch, wcount, rcount, witer, riter>>
allVars   == <<vars, benchVars>>

BenchInit ==
  /\ Init
  /\ batch \in Batches
  /\ wcount = 0 /\ rcount = 0 /\ witer = 0 /\ riter = 0

\* let iteration = DATA_SIZE / batch_size
Iterations == DataSize \div batch

\* if let Some(writer) = sender.try_reserve(batch_size), loading store i of head
WriterTries(i) ==
  /\ witer < Iterations
  /\ TryReserve(batch, i)
  /\ UNCHANGED benchVars

\* val.write(count); count = count.wrapping_add(1)
WriterPuts ==
  /\ WriteSlot(wcount)
  /\ wcount' = wcount + 1
  /\ UNCHANGED <<batch, rcount, witer, riter>>

\* writer.commit(); break
WriterCommits ==
  /\ CommitWrite
  /\ witer' = witer + 1
  /\ UNCHANGED <<batch, wcount, rcount, riter>>

\* if let Some(reader) = receiver.read_exact(batch_size), loading store i of tail
ReaderTries(i) ==
  /\ riter < Iterations
  /\ ReadExact(batch, i)
  /\ UNCHANGED benchVars

\* assert_eq!(val, count); count = count.wrapping_add(1).  Another value is a
\* panic, after which the benchmark does nothing more.
ReaderChecks ==
  /\ ReadSlot
  /\ rbuf'[Len(rbuf')] = rcount
  /\ rcount' = rcount + 1
  /\ UNCHANGED <<batch, wcount, witer, riter>>

\* Mutant of ReaderCommits: the forgotten commit of tests/ring_buffer.rs.
ReaderForgetsCommit ==
  /\ rpc = "chunk" /\ Len(rbuf) = rend - rstart
  /\ DropReadChunk
  /\ riter' = riter + 1
  /\ UNCHANGED <<batch, wcount, rcount, witer>>

\* reader.commit(); break
ReaderCommits ==
  /\ CommitRead
  /\ riter' = riter + 1
  /\ UNCHANGED <<batch, wcount, rcount, witer>>

Done == witer = Iterations /\ riter = Iterations

\* Both threads have returned: the scope joins them, asserts that the ring is
\* empty, and the function ends.
Joined == Done /\ Head0 = Tail0 /\ UNCHANGED allVars

BenchWriter ==
  \/ \E i \in DOMAIN headStores : WriterTries(i)
  \/ WriterPuts
  \/ WriterCommits

BenchReader ==
  \/ \E i \in DOMAIN tailStores : ReaderTries(i)
  \/ ReaderChecks
  \/ ReaderCommits

BenchNext == BenchWriter \/ BenchReader \/ Joined

\* A thread that spins keeps running, and a load that is repeated for ever does
\* not return a stale value for ever.
BenchFairness ==
  /\ WF_allVars(WriterTries(Len(headStores)))
  /\ WF_allVars(WriterPuts \/ WriterCommits)
  /\ WF_allVars(ReaderTries(Len(tailStores)))
  /\ WF_allVars(ReaderChecks \/ ReaderCommits)

BenchSpec == BenchInit /\ [][BenchNext]_allVars /\ BenchFairness
------------------------------------------------------------------------------
(* Both threads finish: no assertion fails, no wake-up is lost in the       *)
(* spinning, and no lap ends in a remainder that neither try_reserve nor    *)
(* read_exact can ever serve.                                               *)
(* It needs a batch that divides the buffer, as every one that the          *)
(* benchmark and the justfile use does.                                     *)
Terminates == BufferSize % batch = 0 => <>Done

(* Without that the writer never gets past the last whole batch before the  *)
(* end of the buffer, because try_reserve only returns contiguous slots:    *)
(* both threads spin for ever with the buffer empty.  The same holds of the *)
(* adapters' message_size, which is a free command-line argument.           *)
StuckAtWrap ==
  BufferSize % batch # 0 => wend <= (BufferSize \div batch) * batch

(* No assertion of the benchmark fails, for any DATA_SIZE: the reader is    *)
(* about to see its own count ("assert_eq!(val, count)"), and the ring is   *)
(* empty when both threads are done.                                        *)
AssertionsHold ==
  /\ rpc = "chunk" /\ Len(rbuf) < rend - rstart => slots[NextReadSlot] = rcount
  /\ Done => Head0 = Tail0

\* A thread has a chunk to work on, or the latest counter of the other gives it
\* one.
WriterMoves == wpc = "chunk" \/ (witer < Iterations /\ Reservable(Head0, Tail0) >= batch)
ReaderMoves == rpc = "chunk" \/ (riter < Iterations /\ Readable(Head0, Tail0) >= batch)

(* What Terminates rests on, and no fairness can make up for: the threads   *)
(* never both spin for something that the other one has to do first, if the *)
(* batch divides the buffer.                                                *)
NeverBothSpin == BufferSize % batch = 0 => Done \/ WriterMoves \/ ReaderMoves
------------------------------------------------------------------------------
(* The inductive invariant behind them, next to IndInv of the ring buffer.  *)

\* The writer works on its witer-th batch, all of it or nothing.
WriterBatch ==
  /\ witer \in Nat /\ witer <= Iterations
  /\ wpc \in {"idle", "chunk"}
  /\ Tail0 = witer * batch
  /\ wcount = Tail0 + Len(wbuf)
  /\ wpc = "idle" => wend = Tail0
  /\ wpc = "chunk" => witer < Iterations /\ wend = Tail0 + batch

\* So does the reader.
ReaderBatch ==
  /\ riter \in Nat /\ riter <= Iterations
  /\ Head0 = riter * batch
  /\ rcount = Head0 + Len(rbuf)
  /\ rpc = "chunk" => riter < Iterations /\ rend = Head0 + batch

\* What is published, or written to be, is the running count.
Counted ==
  /\ \A k \in 1 .. Len(sent) : sent[k] = k - 1
  /\ \A k \in 1 .. Len(wbuf) : wbuf[k] = Tail0 + k - 1

BenchInv ==
  /\ batch \in Batches
  /\ WriterBatch
  /\ ReaderBatch
  /\ Counted
  /\ StuckAtWrap
==============================================================================
