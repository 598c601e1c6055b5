--------------------------- MODULE RingOpsProofs ---------------------------
(***************************************************************************)
(* What the index arithmetic of RingOps guarantees, for every BufferSize.  *)
(***************************************************************************)
EXTENDS RingOps, TLAPS

\* Euclidean division, the form in which the other lemmas use % BufferSize.
LEMMA DivMod ==
  ASSUME NEW i \in Nat
  PROVE  /\ i % BufferSize \in Slots
         /\ i \div BufferSize \in Nat
         /\ i = BufferSize * (i \div BufferSize) + (i % BufferSize)
BY BufferSizeAssumption DEF Slots

LEMMA ModUnique ==
  ASSUME NEW q \in Nat, NEW r \in Slots
  PROVE  (BufferSize * q + r) % BufferSize = r
BY BufferSizeAssumption DEF Slots

\* Positions less than BufferSize apart have different slots.
LEMMA ModDistinct ==
  ASSUME NEW i \in Nat, NEW j \in Nat, i < j, j < i + BufferSize
  PROVE  i % BufferSize # j % BufferSize
<1> DEFINE q == j \div BufferSize - i \div BufferSize
<1>1. SUFFICES ASSUME i % BufferSize = j % BufferSize PROVE FALSE
  OBVIOUS
<1>2. q \in Int /\ BufferSize * q = j - i
  BY <1>1, DivMod, BufferSizeAssumption
<1>3. q >= 1 \/ q <= 0
  BY <1>2
<1>4. q >= 1 => BufferSize * q >= BufferSize
  BY <1>2, BufferSizeAssumption
<1>5. q <= 0 => BufferSize * q <= 0
  BY <1>2, BufferSizeAssumption
<1> QED
  BY <1>2, <1>3, <1>4, <1>5, BufferSizeAssumption

\* Before the end of the buffer, slots follow positions one by one.
LEMMA BeforeEnd ==
  ASSUME NEW start \in Nat, NEW k \in Nat, k < ToEnd(start)
  PROVE  (start % BufferSize) + k = (start + k) % BufferSize
<1>1. (start % BufferSize) + k \in Slots
  BY DivMod, BufferSizeAssumption DEF Slots, ToEnd
<1>2. start + k = BufferSize * (start \div BufferSize) + ((start % BufferSize) + k)
  BY DivMod, BufferSizeAssumption DEF Slots
<1> QED
  BY <1>1, <1>2, ModUnique, DivMod

\* From the end of the buffer on, they go on from slot 0.
LEMMA AfterEnd ==
  ASSUME NEW start \in Nat, NEW k \in Nat, ToEnd(start) <= k, k < BufferSize
  PROVE  k - ToEnd(start) = (start + k) % BufferSize
<1>1. k - ToEnd(start) \in Slots
  BY DivMod, BufferSizeAssumption DEF Slots, ToEnd
<1>2. start + k = BufferSize * ((start \div BufferSize) + 1) + (k - ToEnd(start))
  BY DivMod, BufferSizeAssumption DEF Slots, ToEnd
<1>3. (start \div BufferSize) + 1 \in Nat
  BY DivMod
<1> QED
  BY <1>1, <1>2, <1>3, ModUnique

\* A chunk slice holds the slots of its positions, all inside the buffer.
LEMMA SliceSlots ==
  ASSUME NEW start \in Nat, NEW k \in Nat, k < ToEnd(start)
  PROVE  /\ SliceSlot(start, k) = (start + k) % BufferSize
         /\ SliceSlot(start, k) \in Slots
<1>1. start + k \in Nat
  OBVIOUS
<1> QED
  BY <1>1, BeforeEnd, DivMod DEF SliceSlot

\* So does what Sender::write copies to, in one memcpy or in two.
LEMMA CopySlots ==
  ASSUME NEW start \in Nat, NEW len \in Nat, NEW k \in Nat,
         k < len, len <= BufferSize
  PROVE  /\ CopySlot(start, len, k) = (start + k) % BufferSize
         /\ CopySlot(start, len, k) \in Slots
<1>1. start + k \in Nat /\ start % BufferSize \in Slots
  BY DivMod
<1>2. CASE k < ToEnd(start)
  <2>1. CopySlot(start, len, k) = (start % BufferSize) + k
    BY <1>2 DEF CopySlot, ToEnd
  <2> QED
    BY <1>1, <1>2, <2>1, BeforeEnd, DivMod
<1>3. CASE ~ (k < ToEnd(start))
  <2>1. ToEnd(start) <= k /\ k < BufferSize
    BY <1>1, <1>3, BufferSizeAssumption DEF ToEnd, Slots
  <2>2. CopySlot(start, len, k) = k - ToEnd(start)
    BY <1>1, <1>3, BufferSizeAssumption DEF CopySlot, ToEnd, Slots
  <2> QED
    BY <1>1, <2>1, <2>2, AfterEnd, DivMod
<1> QED
  BY <1>2, <1>3
=============================================================================
