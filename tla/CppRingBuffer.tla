---------------------------- MODULE CppRingBuffer ----------------------------
(***************************************************************************)
(* The C++ ring buffer (rdma_ring_buffer_cpp/ref_ring_buffer.hpp): one     *)
(* producer thread calls write, one consumer thread calls read.  head and  *)
(* tail are 32-bit counters of units that do wrap; write and read turn     *)
(* them into 64-bit byte counts and back.  Widths are a parameter here:    *)
(* uint32_t has Width bits and uint64_t twice as many.  T is a byte        *)
(* (printBuf requires it).  All accesses to the counters are seq_cst, so   *)
(* each load and store is one step, and so is each memcpy.                 *)
(*                                                                         *)
(* The bytes written are a running count modulo Tags, which is more than   *)
(* the buffer holds: a byte of another place or lap is always another one. *)
(***************************************************************************)
EXTENDS Integers, Sequences

CONSTANTS
  Width,       \* bits of a uint32_t
  MaxCount,    \* the template parameter Max_Count
  Capacities,  \* arguments of set_capacity_inunit
  Scales,      \* arguments of set_bytes_scale
  WriteSizes,  \* arguments of write
  Counts,      \* arguments of read: -1, or a number
  Tags

\* Powers of two, as a recursive function: the proofs expand it, x ^ y they
\* cannot.
PowerOf2[n \in Nat] == IF n = 0 THEN 1 ELSE 2 * PowerOf2[n - 1]

\* How many values a uint32_t and a uint64_t have.
Values32 == PowerOf2[Width]
Values64 == PowerOf2[2 * Width]

ASSUME CppAssumption ==
  /\ Width \in Nat \ {0}
  /\ MaxCount \in Nat \ {0}
  /\ Tags \in Nat
  /\ Capacities \cup Scales \cup WriteSizes \subseteq Nat
  /\ 0 \notin Scales
  /\ Counts \subseteq Int
  /\ \A c \in Capacities \cup {MaxCount}, s \in Scales \cup {1} :
       c * s < Values32 /\ c * s < Tags

VARIABLES
  started,                                     \* configured, threads running
  bytesScale, capacityInUnit, capacityInBytes,
  head, tail, buf,                             \* the shared memory
  wpc, wtail, wsize, wcount, wavail,           \* write: locals, bytes written so far
  rpc, rhead, ravailable, out, rcount

config == <<bytesScale, capacityInUnit, capacityInBytes>>
wvars  == <<wpc, wtail, wsize, wcount, wavail>>
rvars  == <<rpc, rhead, ravailable, out, rcount>>
vars   == <<started, config, head, tail, buf, wvars, rvars>>

U32(x) == x % Values32
U64(x) == x % Values64

Smaller(a, b) == IF a < b THEN a ELSE b

\* get_tail_inbytes, get_head_inbytes; set_tail_inbytes, set_head_inbytes
InBytes(unit) == U64(unit * bytesScale)
InUnits(bytes) == U32(U64(bytes) \div bytesScale)

\* get_writepos_frombytes, get_readpos_frombytes
Pos(bytes) == bytes % capacityInBytes

\* uint32_t available = tail - head, in bytes
ReadAvailable(h, t) == U32(U64(InBytes(t) - InBytes(h)))

\* Mutant of WriteAvailable: the difference is not truncated to 32 bits.
WriteAvailableWide(h, t) ==
  U64(capacityInBytes - (InBytes(t) - InBytes(h)))

\* uint32_t available_space = capacity_inbytes - (tail - head)
WriteAvailable(h, t) == U32(U64(capacityInBytes - U64(InBytes(t) - InBytes(h))))

\* Rounds a size down to whole units.
WholeUnits(n) == n - (n % bytesScale)

IsPowerOf2(x) == \E n \in 0 .. Width : x = PowerOf2[n]

Init ==
  /\ started = FALSE
  /\ bytesScale = 1
  /\ capacityInUnit = MaxCount
  /\ capacityInBytes = MaxCount
  /\ head = 0 /\ tail = 0
  /\ buf = <<>>
  /\ wpc = "idle" /\ wtail = 0 /\ wsize = 0 /\ wcount = 0 /\ wavail = 0
  /\ rpc = "idle" /\ rhead = 0 /\ ravailable = 0
  /\ out = <<>> /\ rcount = 0
------------------------------------------------------------------------------
(* Configuration, before the threads start.                                *)

\* Mutant of SetCapacityInUnit: any capacity is accepted.
SetAnyCapacity(val) ==
  /\ ~ started
  /\ capacityInUnit' = val
  /\ capacityInBytes' = U32(val * bytesScale)
  /\ UNCHANGED <<started, bytesScale, head, tail, buf, wvars, rvars>>

\* set_capacity_inunit: returns -1 and changes nothing unless a power of two.
SetCapacityInUnit(val) ==
  /\ ~ started
  /\ IsPowerOf2(val)
  /\ capacityInUnit' = val
  /\ capacityInBytes' = U32(val * bytesScale)
  /\ UNCHANGED <<started, bytesScale, head, tail, buf, wvars, rvars>>

\* set_bytes_scale
SetBytesScale(val) ==
  /\ ~ started
  /\ bytesScale' = val
  /\ capacityInBytes' = U32(capacityInUnit * val)
  /\ UNCHANGED <<started, capacityInUnit, head, tail, buf, wvars, rvars>>

\* set_buf_addr, set_head_addr, set_tail_addr: zeroed memory of the capacity.
\* Tags stands for what no write has put there.
SetAddresses ==
  /\ ~ started
  /\ started' = TRUE
  /\ buf' = [p \in 0 .. capacityInBytes - 1 |-> Tags]
  /\ UNCHANGED <<config, head, tail, wvars, rvars>>
------------------------------------------------------------------------------
(* write(data, writeSize)                                                  *)

\* The loads of head and tail, and the size that fits, in whole units.
WriteStart(size) ==
  /\ started /\ wpc = "idle"
  /\ wpc' = "copy"
  /\ wtail' = InBytes(tail)
  /\ wsize' = WholeUnits(Smaller(size, WriteAvailable(head, tail)))
  /\ UNCHANGED <<started, config, head, tail, buf, wcount, wavail, rvars>>

WToEnd == Smaller(wsize, capacityInBytes - Pos(wtail))

\* The bytes of data from the from-th on, copied to the buffer from pos on.
Copied(from, pos, len) ==
  [p \in DOMAIN buf |->
     IF p \in pos .. pos + len - 1 THEN (wcount + from + p - pos) % Tags ELSE buf[p]]

\* The first memcpy, or the only one.
WriteCopy ==
  /\ wpc = "copy"
  /\ wpc' = IF WToEnd < wsize THEN "wrap" ELSE "store"
  /\ buf' = Copied(0, Pos(wtail), WToEnd)
  /\ UNCHANGED <<started, config, head, tail, wtail, wsize, wcount, wavail, rvars>>

\* Mutant of WriteWrap: the second memcpy starts from the same data again.
WriteWrapAgain ==
  /\ wpc = "wrap"
  /\ wpc' = "store"
  /\ buf' = Copied(0, 0, wsize - WToEnd)
  /\ UNCHANGED <<started, config, head, tail, wtail, wsize, wcount, wavail, rvars>>

\* The second memcpy, to the start of the buffer.
WriteWrap ==
  /\ wpc = "wrap"
  /\ wpc' = "store"
  /\ buf' = Copied(WToEnd, 0, wsize - WToEnd)
  /\ UNCHANGED <<started, config, head, tail, wtail, wsize, wcount, wavail, rvars>>

\* set_tail_inbytes(tail + writeSize); return writeSize
WriteStore ==
  /\ wpc = "store"
  /\ wpc' = "idle"
  /\ tail' = InUnits(wtail + wsize)
  /\ wcount' = (wcount + wsize) % Tags
  /\ wavail' = 0
  /\ UNCHANGED <<started, config, head, buf, wtail, wsize, rvars>>

\* write_available_inbytes() called by the producer, which remembers the answer.
AskWriteAvailable ==
  /\ started /\ wpc = "idle"
  /\ wavail' = WriteAvailable(head, tail)
  /\ UNCHANGED <<started, config, head, tail, buf, wpc, wtail, wsize, wcount, rvars>>
------------------------------------------------------------------------------
(* read(data, cnt)                                                         *)

\* What read takes of the available bytes when called with cnt.
Trimmed(available, cnt) ==
  WholeUnits(IF cnt > 0 /\ available > cnt THEN cnt ELSE available)

\* The loads of head and tail, and what there is, in whole units; quick return
\* when that is nothing.
ReadStart(cnt) ==
  LET available == ReadAvailable(head, tail)
  IN  /\ started /\ rpc = "idle"
      /\ rpc' = IF Trimmed(available, cnt) = 0 THEN "idle" ELSE "copy"
      /\ rhead' = InBytes(head)
      /\ ravailable' = Trimmed(available, cnt)
      /\ out' = <<>>
      /\ UNCHANGED <<started, config, head, tail, buf, wvars, rcount>>

RToEnd == Smaller(ravailable, capacityInBytes - Pos(rhead))

\* The len bytes of the buffer from pos on.
Bytes(pos, len) == [k \in 1 .. len |-> buf[pos + k - 1]]

\* Mutant of ReadCopy: head is stored before the bytes are copied.
ReadCopyLate ==
  /\ rpc = "copy"
  /\ rpc' = IF RToEnd < ravailable THEN "wrap" ELSE "store"
  /\ head' = InUnits(rhead + ravailable)
  /\ out' = Bytes(Pos(rhead), RToEnd)
  /\ UNCHANGED <<started, config, tail, buf, wvars, rhead, ravailable, rcount>>

\* The first memcpy, or the only one.
ReadCopy ==
  /\ rpc = "copy"
  /\ rpc' = IF RToEnd < ravailable THEN "wrap" ELSE "store"
  /\ out' = Bytes(Pos(rhead), RToEnd)
  /\ UNCHANGED <<started, config, head, tail, buf, wvars, rhead, ravailable, rcount>>

\* The second memcpy, from the start of the buffer.
ReadWrap ==
  /\ rpc = "wrap"
  /\ rpc' = "store"
  /\ out' = out \o Bytes(0, ravailable - RToEnd)
  /\ UNCHANGED <<started, config, head, tail, buf, wvars, rhead, ravailable, rcount>>

\* Mutant of ReadStore: the byte count is stored as if it were units.
ReadStoreBytes ==
  /\ rpc = "store"
  /\ rpc' = "idle"
  /\ head' = U32(rhead + ravailable)
  /\ rcount' = (rcount + ravailable) % Tags
  /\ out' = <<>>
  /\ UNCHANGED <<started, config, tail, buf, wvars, rhead, ravailable>>

\* set_head_inbytes(head + available); return available
ReadStore ==
  /\ rpc = "store"
  /\ rpc' = "idle"
  /\ head' = InUnits(rhead + ravailable)
  /\ rcount' = (rcount + ravailable) % Tags
  /\ out' = <<>>
  /\ UNCHANGED <<started, config, tail, buf, wvars, rhead, ravailable>>
------------------------------------------------------------------------------
Setup ==
  \/ \E val \in Capacities : SetCapacityInUnit(val)
  \/ \E val \in Scales : SetBytesScale(val)
  \/ SetAddresses

Writer ==
  \/ \E size \in WriteSizes : WriteStart(size)
  \/ WriteCopy
  \/ WriteWrap
  \/ WriteStore
  \/ AskWriteAvailable

Reader ==
  \/ \E cnt \in Counts : ReadStart(cnt)
  \/ ReadCopy
  \/ ReadWrap
  \/ ReadStore

Next == Setup \/ Writer \/ Reader

Spec == Init /\ [][Next]_vars
------------------------------------------------------------------------------
(* Type correctness.                                                       *)
TypeOK ==
  /\ started \in BOOLEAN
  /\ bytesScale \in Scales \cup {1}
  /\ capacityInUnit \in Capacities \cup {MaxCount}
  /\ capacityInBytes = capacityInUnit * bytesScale
  /\ head \in 0 .. Values32 - 1 /\ tail \in 0 .. Values32 - 1
  /\ started => buf \in [0 .. capacityInBytes - 1 -> 0 .. Tags]
  /\ wpc \in {"idle", "copy", "wrap", "store"}
  /\ wsize \in 0 .. capacityInBytes
  /\ rpc \in {"idle", "copy", "wrap", "store"}
  /\ ravailable \in 0 .. capacityInBytes
  /\ wcount \in 0 .. Tags - 1 /\ rcount \in 0 .. Tags - 1
  /\ wavail \in 0 .. capacityInBytes

(* What read copies out is what write was given, in order, byte by byte:   *)
(* across the end of the buffer and across the wrap of the 32-bit counters *)
(* ("a mechanism for relaying objects from one single producer thread to   *)
(* one single consumer thread without any locks", ref_ring_buffer.hpp:15). *)
ReadsInOrder ==
  \A k \in 1 .. Len(out) : out[k] = (rcount + k - 1) % Tags

RangeAt(bytes, len) == {Pos(bytes + k) : k \in 0 .. len - 1}

(* The memcpys of a write and of a read that run at the same time touch    *)
(* different bytes: there is no lock, only the order of the stores.        *)
DisjointCopies ==
  wpc \in {"copy", "wrap"} /\ rpc \in {"copy", "wrap"} =>
    RangeAt(wtail, wsize) \cap RangeAt(rhead, ravailable) = {}

(* What write_available_inbytes tells the producer stays true until the    *)
(* producer writes: the consumer can only add to it.                       *)
RoomStays == started => wavail <= WriteAvailable(head, tail)
------------------------------------------------------------------------------
(* The inductive invariant.  Everything up to DataInv holds for every      *)
(* capacity; what the bytes are only for a power of two, whose multiples   *)
(* the wrap of the counters respects.                                      *)

\* The bytes between head and tail, and the bytes a call under way has copied.
Used == U32(tail - head) * bytesScale
WCopied == CASE wpc = "wrap" -> WToEnd [] wpc = "store" -> wsize [] OTHER -> 0
RCopied == CASE rpc = "wrap" -> RToEnd [] rpc = "store" -> ravailable [] OTHER -> 0

\* Until the threads start, nothing has been stored and no call is under way.
SetupInv ==
  /\ capacityInUnit # 0
  /\ IsPowerOf2(MaxCount) => IsPowerOf2(capacityInUnit)
  /\ ~ started => /\ head = 0 /\ tail = 0 /\ wpc = "idle" /\ rpc = "idle"
                  /\ wsize = 0 /\ ravailable = 0 /\ wavail = 0

\* The counters stand for at most the capacity, and for what was written and
\* not yet read.
CountersInv ==
  /\ Used <= capacityInBytes
  /\ wcount = (rcount + Used) % Tags
  /\ wavail <= capacityInBytes - Used

\* write holds the tail that is stored, and whole units that still fit.
WriterInv ==
  wpc # "idle" =>
    /\ wtail = InBytes(tail)
    /\ wsize % bytesScale = 0
    /\ wsize <= capacityInBytes - Used
    /\ wpc = "wrap" => WToEnd < wsize

\* read holds the head that is stored, and whole units that are there.
ReaderInv ==
  /\ rpc # "idle" =>
       /\ rhead = InBytes(head)
       /\ ravailable % bytesScale = 0
       /\ ravailable <= Used
       /\ rpc = "wrap" => RToEnd < ravailable
  /\ out \in Seq(0 .. Tags) /\ Len(out) = RCopied

\* From head on the buffer holds the bytes in order, those of the running write
\* included; what the running read has copied starts with the same ones.
DataInv ==
  /\ started => \A k \in 0 .. Used + WCopied - 1 :
                  buf[Pos(InBytes(head) + k)] = (rcount + k) % Tags
  /\ ReadsInOrder

(* The inductive invariant: the parts above.                               *)
IndInv ==
  /\ TypeOK
  /\ SetupInv
  /\ CountersInv
  /\ WriterInv
  /\ ReaderInv
  /\ IsPowerOf2(capacityInUnit) => DataInv
==============================================================================
