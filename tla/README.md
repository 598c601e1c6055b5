# RDMA-Playground in TLA+

TLA+ models of the concurrent parts of this repository, checked with TLC on
small instances, and proofs for every instance, checked with TLAPS, of both ring
buffers, the benchmark, the pipeline from host to host, the loopback test, the
start of the processes, the setup of the connections and rc-pingpong. The repository moves a stream of integers from one
host to another over RDMA without copying: each side has a *host* process and
an *adapter* process that share a ring buffer, and the adapters post slices of
the ring to the network card. Paths below are relative to
`src/rdma_ring_buffer_rust/` unless they say otherwise.

## The system

    host (client) --ring--> adapter (client) ==RDMA==> adapter (server) --ring--> host (server)
                     IPC socket: metadata, end of stream

| Part | State it keeps | Operations | What is hard | Module |
|---|---|---|---|---|
| Rust ring buffer (`shared/src/ref_ring_buffer*`, `ring_buffer.rs`) | `head`, `tail`, slots | `try_reserve`, `write`, `read_exact`, `read`, `commit` | two threads, no lock, release/acquire only | `RefRingBuffer` |
| Benchmark (`shared/benches/ring_buffer.rs`) | a ring, two threads | a fixed number of batches | ends only if batches divide the ring | `RingBench` |
| C++ ring buffer (`src/rdma_ring_buffer_cpp/ref_ring_buffer.hpp`) | 32-bit unit counters, sizes | `write`, `read`, the available queries, configuration | counters wrap; sizes in bytes and units | `CppRingBuffer` |
| Adapters (`adapter/src/main.rs`) | a chunk of the ring, one work request | read or reserve, post, poll, commit; panic; IPC thread | the card uses the ring behind the process's back | `Adapter`, `RcQueuePair` |
| Hosts (`host/src/main.rs`) | a batch, a running count | fill and write; read and check; time out | partial writes, ends at any time | `Host` |
| The four together | everything above | | two rings, two cards, ends in any order | `Pipeline` |
| IPC and metadata (`shared/src/ipc*`), start and end of adapters and hosts, `just kill` | socket file, listener and its queue, shared memory | create, open, write and read the metadata, map the ring, end of the stream | stale files, two adapters or two hosts in one directory, kills at any time | `Rendezvous` |
| Connection (`shared/src/rdma_controller.rs`) | queue pair state, handshake counter | TCP exchange, `set_qp_rts`, `handshake`, first message | who is ready first; errors that nobody looks at; sides that die and start again | `Connection` |
| Loopback test (`loopback/src`) | barrier, stop flags, both rings | four threads of one process | the sides stop at different times with requests posted; a handshake that failed unnoticed | `Loopback` |
| rc-pingpong (`src/rc-pingpong/rc-pingpong.c`) | counts, `pending`, posted receives | exchange, post, wait by polling or by event, poll | lost wakeups, one buffer for both directions, queue limits, options that differ | `RcPingpong` |
| Memory regions (`shared/src/rdma_controller/memory_region.rs`) | registration | register, drop | dropped while the card uses them | in `Loopback`, `Rendezvous` |
| Work completions, command lines, `communication_manager`, `pingpong.c` | none | conversions | nothing | not modelled |

How they interact: a host and its adapter through the two atomic counters and
the slots of the ring only, plus a Unix socket whose end tells the adapter to
exit; an adapter and its card through posted work requests and polled
completions; two adapters through TCP (once, to connect) and through the
cards; threads of one process through atomics; processes of one directory
through the file `sync`.

What makes each part correct, in one line: the ring buffer is a bounded FIFO
without data races; a chunk belongs to exactly one of host, adapter and card
at any time; a completion ends the wait for the chunk it is about; a ring gets
one host, once it is initialised; the sides connect whoever starts first, and
stream only to the peer that greeted them; whoever stops first takes nobody
down who could still work, and everything that should end ends.

## Modules

Abstract specifications:

* `SpscFifo`: a bounded FIFO stream of items that are published and consumed in
  runs. `RefRingBuffer` and `Pipeline` are shown to implement it.
* `Attachment`: a ring is mapped by one host at most, ever, and only while it is
  initialised. `Rendezvous` is shown to implement it; it is what the ring
  buffer, with its one producer and one consumer, takes for granted.

The program:

* `RingOps`: the index arithmetic of the Rust ring buffer (how much can be
  written, reserved and read; which slot the k-th item of a chunk is).
* `AtomicExtension`: the two counters under release/acquire. A counter is the
  list of stores that the other thread may still observe; a load returns any of
  them and gives up the older ones; an acquiring load learns which slot
  accesses happened before.
* `RefRingBuffer`: the ring buffer, one action per load-and-decide
  (`TryReserve`, `StartWrite`, `ReadExact`, `Read`), per slot access
  (`WriteSlot`, `ReadSlot`) and per publishing store (`CommitWrite`,
  `FinishWrite`, `CommitRead`), and the chunks that are dropped uncommitted.
  `sent` and `got` are history variables: what has been published and what has
  been committed by the reader.
* `RingBench`: the two threads of the benchmark, on top of `RefRingBuffer`'s
  operators. Its assertions are guards: a reader that saw another value than its
  count could not go on.
* `CppRingBuffer`: the C++ class with counters of `Width` bits, memcpys as
  steps of their own, and the configuration calls in every order.
* `RcQueuePair`: what the adapters rely on libibverbs for. It is external: no
  line of it is in the repository.
* `Adapter`, `Host`: the four processes' loops. Counters are sequentially
  consistent here; the refinement of `RefRingBuffer` is what justifies that.
* `Pipeline`: the composition, with its fairness and its properties.
* `Rendezvous`: any number of adapters and hosts that are started in one
  directory: shared memory, the ring in it, `Ipc::create` as the four calls it
  is (exists, remove, bind, listen), the queue of the listener, the metadata,
  the IPC thread, the last write of a host, and kills of any process and the
  removal of the file at any time.
* `Connection`: the two sides from `setup_ib` to the first message, each of which
  may fail at any step and be started again. What a dead process wrote to a
  socket stays, its queue pair does not.
* `Loopback`: the four threads of the loopback test. Messages are the unit, as
  the test gives the same size to batches and messages. What `setup_ib` leaves is
  in `link`: queue pairs that work, or, as its handshake also counts completions in
  error, queue pairs in error, which flush whatever the loops post. It is one
  variable for both sides because their handshakes end alike (`HandshakesEndAlike`,
  proved about `Connection`; the two threads are one process, so neither side is
  started again).
* `RcPingpong`: both processes of rc-pingpong, each with its own `--iters`,
  `--rx-depth` and `--events`, which the program does not compare.

The proofs are in `RingOpsProofs`, `RefRingBufferProofs` (with those of
`RingBench`), `CppRingBufferProofs`, `PipelineProofs`, `LoopbackProofs`,
`RendezvousProofs`, `ConnectionProofs` and `RcPingpongProofs`;
the inductive invariants (`IndInv`) are in the modules they are about, and
checked by their runs. `MC*` are small instances. Log output and timing are left out everywhere.

A definition whose comment starts with "Mutant of" is a plausible mistake in
the definition that follows it; no specification uses it.

## Runs

| Run | Instance | What it shows |
|---|---|---|
| `ring_buffer` | 3 slots, requests of 1 to 3, 5 items | no data race, disjoint and contiguous chunks, no underflow, a FIFO; the inductive invariant of the proofs |
| `ring_bench` | 6 slots, batches of 2 and 4, 14 items | it ends for batches that divide the ring, with every assertion met, and sticks at the end of the ring for others |
| `cpp_ring_buffer` | 4-bit counters, capacities 2 to 4, scales 1 to 3 | bytes in order and disjoint copies across the wrap of the counters; promised room stays; the inductive invariant of the proofs |
| `cpp_default_capacity` | violation | a capacity that is no power of two loses bytes at the wrap |
| `pipeline` | rings of 4, up to 9 items, aligned arguments and differing message sizes | the composition is a FIFO stream; zero-copy slots are stable; what is committed has arrived; nobody fails before the server ends; adapters end with their hosts; messages arrive |
| `pipeline_partial_write` | violation | a batch larger than a message is written partly and then again from its start |
| `rendezvous` | 2 adapters, 2 hosts | a ring gets one initialised host at most; hosts fail with their adapter only; nobody is left behind; a listening adapter and a waiting host meet whatever was left in the directory |
| `connection` | one server and one client, 3 starts of each, any failure | streams only between two starts that greeted each other; the handshake leaves nothing behind; both sides get to stream; only a forsaken handshake waits unawares |
| `connection_done` | violation | the handshake is "done" with failed completions |
| `loopback` | rings of 3 messages, 5 messages | messages in order, nothing committed that did not arrive, adapters panic only after the peer stopped or over a handshake that has failed unnoticed, then before they commit anything, busy adapters stop |
| `loopback_finishes` | violation | an adapter with a drained (or full) ring never sees the stop flag |
| `rc_pingpong` | 2 or 4 iterations, receive depths 1 to 3, with and without events, each side by itself | turns, queue limits, no lost wakeup, no failure before the end |

### Why the bounds are enough

Positions in a ring matter modulo its size and relative to each other, so a
bit less than two laps meets every alignment of both counters; three slots are
the least that tell "wraps", "ends at the end" and "in the middle" apart, and
every request size up to the ring occurs. In `Pipeline` four slots with
messages of one and two slots give up to four messages in flight and two laps.
In `CppRingBuffer` the counters are three or four bits wide, so they wrap
several times a run. In `Rendezvous` two adapters race for the file, and the
second host queues behind the first; for more of either there are the proofs. In `Connection` three
starts of each side let a side meet what is left of one, and of two, earlier
peers. `Loopback`'s rings hold three messages because two are needed to keep a
side busy. In `RcPingpong` four iterations cross the point where receives are
posted again for every depth, and two against four make the sides end apart.

Named bounds: `MaxItems` (MCRefRingBuffer), `MaxData` (Host), `MaxMessages`
(Loopback), `MaxStarts` (Connection), `IterCounts` and `RxDepths` (RcPingpong,
arguments of the program), `Width` and `Tags` (CppRingBuffer), `DataSize`
(RingBench).

### Fairness

Every loop in the programs polls without sleeping, so each thread is weakly
fair; the cards are weakly fair because the transport is reliable. Running out
of retries is fair only in `Connection` and `RcPingpong`, where a queue pair
that never answers makes it certain. `Pipeline` does not assume that the hosts'
time runs out: `MessagesArrive` then says that messages arrive unless a host
ends. `Loopback` and `Rendezvous` do assume it, as the end is their subject. In
`Rendezvous` and `Connection` nobody has to be started or started again, and
failures and kills never are fair anywhere. No action is strongly fair. The
events of rc-pingpong's completion channel wake it up because
`ibv_get_cq_event` returns when there is one.

Deadlock is checked except where a process may really wait for ever for one
that is gone, or has simply ended: `Connection` (accept and connect_retry have
no limit, nor has the handshake), `Rendezvous` (all may be gone, or wait for
one that nobody starts), `Loopback` (barrier after a failed setup; the finding
of `loopback_finishes`) and `RcPingpong` (both sides return; one waits for a
client that was refused, or for messages that its peer does not send).

## Proofs

The proofs assume what the modules' `ASSUME`s say of the constants and no more:
a buffer of at least one slot, sizes that are naturals, sets of arguments that are
positive numbers, `None` and `NoItem` different from the real values. All of
the results hold for every such value.

**Ring buffer** (`RefRingBufferProofs`).

* `Invariance`: `Spec => []IndInv`. The safety properties are not inductive by
  themselves: that a chunk is free rests on how stale the loaded counter may
  be. `IndInv` has a part for each idea. `CountersInv`: the stores each thread
  may still observe are ordered, and the *oldest* of them already bounds the
  other counter (`head <= oldest tail`, `tail <= oldest head + size`), so a
  stale load only ever makes a request smaller. `WriterInv` and `ReaderInv`: a
  chunk starts at the thread's own counter and ends within those bounds.
  `HistoryInv`: the counters count `sent` and `got`. `SlotsInv`: the positions
  in flight hold what was published. `ReadInv`: only known positions were read.
* `TypeCorrect`, `DataRaceFree`, `Exclusive`, `Contiguous`, `Underflow`,
  `Reads`: the properties of the run `ring_buffer`, each from `IndInv`.
* `ImplementsFifo`: `Spec => FifoSpec`; every store to `tail` is a `Publish`,
  every store to `head` a `Consume`, everything else a stutter.

`RingOpsProofs` has the arithmetic they rest on: two positions less than a
buffer apart have different slots, and a chunk that stops at the end of the
buffer is an interval of slots. `%` and `\div` by an unknown divisor are the
reason for these lemmas.

**Benchmark** (the second part of `RefRingBufferProofs`). `UsesTheRing`: every step of the benchmark is
one of the ring, so the ring's invariant comes for free. On top of it,
`BenchInv` says that the stream is the count, which gives `BenchAssertions`
(what the reader sees is its own count, and the ring is empty at the end), and
that both counters are multiples of the batch, which gives
`NeverPastTheLastBatch`: a batch that does not divide the buffer never gets
past the last whole batch of the first lap. `OneCanGoOn` is the other half: if
the batch does divide the buffer, the threads never both spin, since a counter
that is a multiple of the batch leaves a whole batch before the end of the buffer.

**C++ ring buffer** (`CppRingBufferProofs`). `SetupInv`: the two
configuration calls agree on the capacity in bytes in whatever order they come.
`CountersInv`: the difference of the counters, modulo the width, is what was
written and not read, at most the capacity, and what the producer was told is at
most the rest. `WriterInv` and `ReaderInv`: a call holds the counter that is still
stored, and whole units that fit or are there, whatever the other side does
meanwhile. `DataInv`: from `head` on, the buffer holds the bytes in order. The
first four are inductive for every capacity, so `TypeCorrect` and `RoomKept` have
no hypothesis. `DataInv` needs a capacity that is a power of two, as a position
(counter modulo capacity) then goes on across the wrap of the counter; so
`InOrderReads` and `CopiesDisjoint` speak of states whose `capacityInUnit` is one.
That is what `set_capacity_inunit` insists on and what the default value may break;
the run `cpp_default_capacity` shows the bytes lost without it. `DefaultCapacity`
closes the gap from the other side: if `Max_Count` is a power of two, the hypothesis
is met in every reachable state. The constants are bound by one assumption the code
does not check: that a capacity in bytes fits a `uint32_t`.

The arithmetic underneath is that of the casts: differences of byte counts modulo
2^64, truncated to 32 bits, are `U32(tail - head)` units (`Differences`,
`Availables`), storing a byte count back adds whole units (`InUnitsIs`), and `Pos` is
not disturbed by the wrap (`Pos...`), as a power of two divides every larger one
(`PowerDivides`). Powers of two are a recursive function in `CppRingBuffer`: that it
exists (`PowerOf2Exists`, `PowerOf2Fix`) and that exponents add (`PowerOf2Sum`) is
shown by the least counterexample (`LeastNat`), since the induction theorems of the
library are out of the prover's reach.

**Pipeline** (`PipelineProofs`). `Invariance` again comes first. The parts of
`IndInv` are: `ProcessInv` (who runs while whom); `ClientRingInv`, `SendInv`,
`ServerRingInv`, `RecvInv` (each ring, and the at most one request and one
completion of its adapter); `MoveInv` and `FailInv` (a message under way, and
when completions are in error); `FlowInv`, the central one: with `Arrived` and
`Left`, how far the two sides have come with the stream, neither is ahead of
the other while both adapters run, although the two completions of a message
may be polled in either order; `DataInv` (what arrived is what was sent, slot by
slot); `OddInv` (adapters that differ in the size of a message: one too long
never arrives, one too short leaves slots behind at which the server's host
stops); `AlignInv` (positions stay multiples of what is moved at a time, so
there is never room for a part of a batch and the stream is the count). From
it: `NeverMismatch`, `RecvHidden`, `CommitsArrived`, `FailsAfterServer`,
`SendStable` (an action property) and `ImplementsStream`, that the whole is an
`SpscFifo` with the capacity of both rings, whatever the arguments.
`MessagesMove` needs `AwaitInv` besides (an adapter polls for a request that is
posted or completed): with aligned arguments a whole message that is published
and not read always has somebody who takes it on, as no chunk is cut short before
a whole message (`MessageToEnd`) and the server's ring, if its adapter waits for
room, holds something its host can read.

**Loopback** (`LoopbackProofs`). `BarrierInv` counts each thread once;
`LinkInv` says that messages land only over a connection that works;
`ClientInv` and `ServerInv` say what an adapter waits for in each of its states
(nothing, a posted request, one that has landed, its completion) and that only
a failed handshake or the end of the server fails the client; `DataInv` says what
the rings hold. From them `StaysInStep` and `PanicsLate`, for every size of the
rings and any number of messages. `PanicsLate` distinguishes the two outcomes of
the setup: over a connection that works the server's adapter never panics and the
client's only after the server has stopped; over one that does not, an adapter panics at
its first poll unless it is stopped before it, and has committed nothing. `MessagesMove`: while there is a message, room, and neither
adapter has stopped, some step takes it on. `HangsForGood` is the finding of
`loopback_finishes` in general: an adapter without work whose host has ended is
left as it is by every step of everybody, so no scheduling ends the test.

**Start and end of processes** (`RendezvousProofs`). `IndInv` says that an
adapter and a host agree about each other: `SegmentInv` (metadata are good until
the adapter fails), `BacklogInv` (who waits is connected), `PeerInv` (an adapter
has one host, and outlives it by one step), `NameInv` (metadata come from the
adapter that accepted), `RingInv`. From it `FailTogether` and
`ImplementsAttachment`, for any number of adapters and hosts. With `QueuedInv`
(who waits at an adapter that accepts is in its queue) comes `NoneWaitsInVain`:
when no process has a step left, no host waits for an answer, and the adapters
that still run are alone or left behind as described below.

**rc-pingpong** (`RcPingpongProofs`). `Posts` counts the messages that a side has
posted, whether handled, completed or still on their way. `QueueInv`: each kind
of completion waits once at most. `ReceiveInv` and `SendInv` tie the counts of a
side to its posted receives and its pending bits, and to what has landed.
`TurnInv` is the central one: the client's posts are one ahead of its received
messages or level with them, the server's level or one behind. Together they
make a chain (posts of the server <= received by the server <= landed from the
client <= posts of the client <= received by the client + 1 <= landed from the
server + 1 <= posts of the server + 1), from which `TakesTurns` and
`NothingOverruns` follow: two completions wait at most, and every message meets a
receive. (That no more receives are posted than the queue pair holds is
`ReceiveInv`, a part of `IndInv`.) `SetupInv` and `EndInv`, who is connected when and that
a side leaves only with all it wants, give `FailsLate`. All for any `--iters` and
`--rx-depth` of the two sides. These parts are `CountsInv`. `WakeInv` adds the
completion channel: a side with events that is not about to arm the queue has
armed it or has an event waiting, and has one if completions wait when it goes to
sleep. That is `NoWakeupLost`; the order event, request, poll is what makes it
true. `NobodyStuck` follows from the chain above and `ToldInv` (what has been
written over TCP): a side that wants no more messages than its peer never waits
for ever once they are in touch.

**Connection** (`ConnectionProofs`). `WorkInv` counts: of the requests that a
side has posted, each is on a queue of the card, completed or counted, so a
handshake that has counted two leaves none behind, whatever their statuses.
`MetInv` says what that means while the queue pair works: what is not posted any
more has met its match. `PeerInv` ties the two sides: those that can still reach
each other have met the same, so a greeting meets the receive of a greeting
and data that of data (`Meets`), and a side has met nobody but the peer it is
linked with. For that, `TcpInv` says that what was written to a socket speaks of
no later start than there is: a side that starts again has a number that nobody
has heard of. From them `GreetedStream` and `NothingLeft`, for any number of
starts and failures at any step. `NobodyWaits` needs two more: `AskInv` (who has
asked whom over TCP) and `UnusedInv` (the first message is delivered once). Take a
state in which nobody can move. No send waits: its peer is linked with it and has
no receive posted, so it has received the greeting already, and the first message
too if that is what waits (`NothingToSend`). So a handshake waits for a greeting,
which would be there if the peer still ran (`HandshakeRests`); a server that waits
for the first message has lost its client (`DataRests`); and a read that has
nothing to read is that of a client whose server is in such a handshake
(`ReadRests`). `HandshakesEndAlike` says what the loops start from: a queue pair
gives up on a peer that is there only if that is not ready to receive, and so has
met nobody, or has given up itself (`AlikeInv`); but a queue pair that still works
when its handshake has returned has been greeted.

**Progress.** Only model-checked are the liveness properties themselves
(`Terminates`, and those of the runs `pipeline`, `rendezvous`, `connection`,
`loopback` and `rc_pingpong`), as the prover has no support for fairness. What they
rest on and no fairness can make up for is proved for each component: that there
is a step to take while there is something to wait for (`OneCanGoOn`,
`MessagesMove` twice, `NoneWaitsInVain`, `NobodyStuck`, `NobodyWaits`). These
theorems state the guards of the steps instead of `ENABLED`, which the prover does
not have either. On the instances of the runs the guards were compared with
`ENABLED`: in `Rendezvous`, `Connection` and `RcPingpong` they are equivalent to it, in
`Pipeline` they imply it. The predicates themselves are no properties of a run.

## What the models found

Four runs expect a violation; each is a finding:

* `host/src/main.rs:122`: after a partial `Sender::write` the loop writes the
  batch again from its start; the server's host panics with "Data mismatch".
  The justfile's arguments avoid it, `host -b` with other sizes does not.
* `shared/src/rdma_controller.rs:467`: the handshake ignores the status of its
  completions. `connection` shows that no data flows nevertheless, because the
  first poll of the adapter panics. It needs no process to die: the server answers
  (line 231) before its queue pair is ready (line 238), and if it is delayed there,
  the client's greeting runs out of retries. In the loopback test both adapters then
  pass the barrier as if connected and panic, with no stop flag set
  (`PanicsHaveACause`).
* `loopback/src/client.rs:121`: the stop flag is read only while a completion
  is awaited; the test may never end.
* `src/rdma_ring_buffer_cpp/ref_ring_buffer.hpp:252`: the default capacity is not
  checked to be a power of two, which `set_capacity_inunit` insists on.

No line of the repository promises otherwise, but the properties had to be
stated around these:

* If a host is killed before it has read its metadata, the IPC thread panics at
  `adapter/src/main.rs:117` instead of calling `exit(0)`, and the adapter runs on
  without a host (`orphan` in `Rendezvous`).
* A handshake whose peer has taken its greeting and died waits for ever
  (`shared/src/rdma_controller.rs:465`); as its listener is still open, a
  client that is started again connects to it and waits as well
  (`WaitsOnlyWhenForsaken`).
* A host is refused, and panics, when the socket file is stale or is bound and
  not listening yet (`shared/src/ipc.rs:32`); two adapters in one directory
  may panic over the file (`ipc.rs:16`).
* Sides of rc-pingpong with different `--iters`: the one that wants more either
  fails in its last send or waits for ever.

## Not modelled, and why

* `setup_ib` before `connect_dest` is one step of `Connection` that may fail, and
  creating and registering the shared memory one step of `Rendezvous`: nothing
  is shared before.
* Sizes of messages in bytes, keys, gids, LIDs and MTUs: no property tells them
  apart. Packet loss: the transport retransmits.
* Argument parsing, output, `communication_manager` (a trait without an
  implementation), the conversions of `src/rc-pingpong/pingpong.c`: no state.
* The only test of the crate (`shared/tests/ring_buffer.rs`) never commits, so
  nothing ever passes between its threads.
* Callers that break the rules of the ring buffer (a second commit of a chunk,
  `reader_chunk.rs:23`; two chunks of one kind): no caller in the repository
  does.
* The 32-bit product of `ref_ring_buffer.hpp:133`: it overflows for sizes that
  no 4-bit instance has a scaled counterpart of; `CppRingBuffer` assumes that
  it does not.
* rc-pingpong with `--iters 0` or `--rx-depth 0`, which `PingpongAssumption`
  excludes: with the one the client posts a message nobody waits for, with the
  other nothing can be received.
* Device and memory exhaustion in rc-pingpong, and its final exit code: it
  makes 200 queue pairs and destroys one, so destroying the completion queue
  fails at the end of every run.

## Plan

Done: both ring buffers, the benchmark, the pipeline, the loopback test, the
rendezvous, the connection with restarts and rc-pingpong, every one with the
proofs of its safety properties.

Left: `RefRingBuffer` with several chunks per side, as `commit(&mut self)` allows,
to state exactly which callers are safe.
