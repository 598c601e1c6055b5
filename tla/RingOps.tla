------------------------------- MODULE RingOps -------------------------------
(***************************************************************************)
(* The index arithmetic of RefRingBuffer, shared by the Sender, the        *)
(* Receiver and the two chunk types.  head and tail are free-running       *)
(* counters; the slot of position i is i % BufferSize.  The counters are   *)
(* 64-bit usize in the code and are taken not to wrap (584 years at one    *)
(* item per nanosecond), so they are natural numbers here.                 *)
(***************************************************************************)
EXTENDS Integers

CONSTANT BufferSize   \* self.ring_buffer.buffer_size(): the number of slots

ASSUME BufferSizeAssumption == BufferSize \in Nat \ {0}

Slots == 0 .. BufferSize - 1

Least(a, b) == IF a <= b THEN a ELSE b

\* Number of slots from the slot of position i to the end of the buffer.
ToEnd(i) == BufferSize - (i % BufferSize)

\* Mutant of Writable: one slot too many.
WritableOneMore(head, tail) == BufferSize - (tail - head) + 1

\* What Sender::write may fill: the chunk may wrap around the end.
Writable(head, tail) == BufferSize - (tail - head)

\* Mutant of Reservable: a chunk that may run over the end of the buffer.
ReservableWrapped(head, tail) == Writable(head, tail)

\* What WriteChunk::try_reserve may hand out: contiguous slots only.
Reservable(head, tail) == Least(Writable(head, tail), ToEnd(tail))

\* Mutant of Readable: the slots up to the end, published or not.
ReadableToEnd(head, tail) == ToEnd(head)

\* What Receiver::read and read_exact may hand out: contiguous slots only.
Readable(head, tail) == Least(tail - head, ToEnd(head))

\* Mutant of SliceSlot: the start is not taken modulo the buffer size.
SliceSlotUnwrapped(start, k) == start + k

\* The k-th slot (from 0) of a chunk slice that starts at position start:
\* the slice begins at start % buffer_size and never wraps.
SliceSlot(start, k) == (start % BufferSize) + k

\* Mutant of CopySlot: the first memcpy is one slot too long.
CopySlotOneLate(start, len, k) ==
  LET first == start % BufferSize
      end   == BufferSize - first
  IN  IF first + len <= BufferSize \/ k < end THEN first + k
      ELSE IF k = end THEN BufferSize - 1 ELSE k - end

\* The k-th slot that Sender::write copies to, when it writes len items from
\* position start: one memcpy when they fit before the end, two otherwise.
CopySlot(start, len, k) ==
  LET first == start % BufferSize
      end   == BufferSize - first
  IN  IF first + len <= BufferSize \/ k < end THEN first + k ELSE k - end
==============================================================================
