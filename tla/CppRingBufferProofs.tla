------------------------ MODULE CppRingBufferProofs ------------------------
(***************************************************************************)
(* Proofs about CppRingBuffer, for every width of the counters, capacity   *)
(* and scale.                                                              *)
(***************************************************************************)
EXTENDS CppRingBuffer, SequenceTheorems, WellFoundedInduction, TLAPS

------------------------------------------------------------------------------
(* Division by a modulus that is no numeral.                               *)

LEMMA DivMod ==
  ASSUME NEW m \in Nat \ {0}, NEW x \in Int
  PROVE  /\ x % m \in 0 .. m - 1
         /\ x \div m \in Int
         /\ x = m * (x \div m) + (x % m)
OBVIOUS

LEMMA ModUnique ==
  ASSUME NEW m \in Nat \ {0}, NEW q \in Int, NEW r \in 0 .. m - 1
  PROVE  /\ (m * q + r) % m = r
         /\ (m * q + r) \div m = q
OBVIOUS

LEMMA ModSmall ==
  ASSUME NEW m \in Nat \ {0}, NEW x \in 0 .. m - 1
  PROVE  x % m = x
OBVIOUS

\* A multiple of the modulus more or less makes no difference.
LEMMA ModShift ==
  ASSUME NEW m \in Nat \ {0}, NEW x \in Int, NEW q \in Int
  PROVE  (x + m * q) % m = x % m
<1>1. x = m * (x \div m) + (x % m) /\ x \div m \in Int /\ x % m \in 0 .. m - 1
  BY DivMod
<1>2. x + m * q = m * ((x \div m) + q) + (x % m) /\ (x \div m) + q \in Int
  BY <1>1
<1> QED
  BY <1>1, <1>2, ModUnique

LEMMA ModAddSub ==
  ASSUME NEW m \in Nat \ {0}, NEW x \in Int, NEW y \in Int
  PROVE  /\ ((x % m) + y) % m = (x + y) % m
         /\ (y - (x % m)) % m = (y - x) % m
<1>0. x % m \in Int
  BY DivMod
<1>1. PICK q \in Int, r \in Int : r = x % m /\ x = r + m * q
  <2>1. PICK q \in Int : x = m * q + (x % m)
    BY DivMod
  <2> QED
    BY <1>0, <2>1
<1>2. ((r + y) + m * q) % m = (r + y) % m
  <2>1. r + y \in Int
    OBVIOUS
  <2> QED
    BY <2>1, ModShift
<1>3. ((y - x) + m * q) % m = (y - x) % m
  <2>1. y - x \in Int
    OBVIOUS
  <2> QED
    BY <2>1, ModShift
<1>4. (r + y) + m * q = x + y /\ (y - x) + m * q = y - r
  BY <1>1
<1> QED
  BY <1>1, <1>2, <1>3, <1>4

LEMMA ModAdd ==
  ASSUME NEW m \in Nat \ {0}, NEW x \in Int, NEW y \in Int
  PROVE  ((x % m) + y) % m = (x + y) % m
BY ModAddSub, Zenon

LEMMA ModSub ==
  ASSUME NEW m \in Nat \ {0}, NEW x \in Int, NEW y \in Int
  PROVE  (y - (x % m)) % m = (y - x) % m
BY ModAddSub, Zenon

\* Numbers less than the modulus apart have different remainders.
LEMMA ModDistinct ==
  ASSUME NEW m \in Nat \ {0}, NEW i \in Int, NEW j \in Int, i < j, j < i + m
  PROVE  i % m # j % m
<1>1. SUFFICES ASSUME i % m = j % m PROVE FALSE
  OBVIOUS
<1>2. PICK qi \in Int : i = m * qi + (i % m)
  BY DivMod
<1>3. PICK qj \in Int : j = m * qj + (j % m)
  BY DivMod
<1>4. PICK q \in Int : q = qj - qi
  BY <1>2, <1>3
<1>5. m * q = m * qj - m * qi
  BY <1>4
<1>6. m * q = j - i
  <2>1. j % m \in Int
    BY DivMod
  <2> QED
    BY <1>1, <1>2, <1>3, <1>5, <2>1
<1>7. q >= 1 \/ q <= 0
  OBVIOUS
<1>8. q >= 1 => m * q >= m
  OBVIOUS
<1>9. q <= 0 => m * q <= 0
  OBVIOUS
<1> QED
  BY <1>6, <1>7, <1>8, <1>9

\* Truncating to a wider word first makes no difference.
LEMMA ModMod ==
  ASSUME NEW m \in Nat \ {0}, NEW n \in Nat \ {0}, NEW x \in Int
  PROVE  (x % (m * n)) % m = x % m
<1>1. PICK w \in Nat \ {0} : w = m * n
  OBVIOUS
<1>2. PICK q \in Int, r \in Int : r = x % w /\ x = r + w * q
  <2>1. x % w \in Int /\ x \div w \in Int /\ x = (x % w) + w * (x \div w)
    BY DivMod
  <2> QED
    BY <2>1
<1>3. n * q \in Int /\ w * q = m * (n * q)
  BY <1>1
<1>4. (r + m * (n * q)) % m = r % m
  BY <1>3, ModShift
<1> QED
  BY <1>1, <1>2, <1>3, <1>4
------------------------------------------------------------------------------
(* Powers of two.  The recursive function is a CHOOSE of a function that   *)
(* satisfies its equation; there is one because its finite beginnings      *)
(* exist and agree.                                                        *)

\* Any set of naturals has a least one.
LEMMA LeastNat ==
  ASSUME NEW S \in SUBSET Nat, NEW n \in S
  PROVE  \E m \in S : \A k \in S : m <= k
<1>1. PICK m \in S : \A k \in S : <<k, m>> \notin OpToRel(<, Nat)
  BY WFMin, NatLessThanWellFounded, Zenon
<1>2. \A k \in S : ~ (k < m)
  BY <1>1, Zenon DEF OpToRel
<1> QED
  BY <1>2

Doubles(f, n) ==
  /\ f \in [0 .. n -> Nat \ {0}]
  /\ f[0] = 1
  /\ \A k \in 1 .. n : f[k] = 2 * f[k - 1]

LEMMA DoublesExists ==
  ASSUME NEW n \in Nat
  PROVE  \E f : Doubles(f, n)
<1> DEFINE S == {m \in Nat : ~ \E f : Doubles(f, m)}
<1>1. SUFFICES ASSUME n \in S PROVE FALSE
  OBVIOUS
<1>2. PICK m \in S : \A k \in S : m <= k
  BY <1>1, LeastNat
<1>3. m # 0
  <2> DEFINE g == [i \in 0 .. 0 |-> 1]
  <2>1. Doubles(g, 0)
    BY DEF Doubles
  <2> QED
    BY <2>1
<1>4. m - 1 \in Nat /\ m - 1 \notin S
  BY <1>2, <1>3
<1>5. PICK f : Doubles(f, m - 1)
  BY <1>4
<1> DEFINE g == [i \in 0 .. m |-> IF i = m THEN 2 * f[m - 1] ELSE f[i]]
<1>6. Doubles(g, m)
  <2>1. f \in [0 .. m - 1 -> Nat \ {0}] /\ f[0] = 1
    BY <1>5 DEF Doubles
  <2>2. \A i \in 0 .. m : g[i] \in Nat \ {0}
    BY <2>1, <1>3, <1>4
  <2>3. g[0] = 1
    BY <2>1, <1>3
  <2>4. ASSUME NEW k \in 1 .. m PROVE g[k] = 2 * g[k - 1]
    <3>1. k # m => f[k] = 2 * f[k - 1]
      BY <1>5, <1>4 DEF Doubles
    <3> QED
      BY <3>1, <1>4
  <2> QED
    BY <2>2, <2>3, <2>4 DEF Doubles
<1> QED
  BY <1>6

LEMMA DoublesUnique ==
  ASSUME NEW n \in Nat, NEW m \in Nat, NEW f, NEW g, Doubles(f, n), Doubles(g, m),
         NEW i \in Nat, i <= n, i <= m
  PROVE  f[i] = g[i]
<1> DEFINE S == {j \in 0 .. i : f[j] # g[j]}
<1>1. SUFFICES ASSUME i \in S PROVE FALSE
  OBVIOUS
<1>2. PICK j \in S : \A k \in S : j <= k
  <2>1. S \in SUBSET Nat
    OBVIOUS
  <2> QED
    BY <1>1, <2>1, LeastNat, Zenon
<1>3. j # 0
  BY <1>2 DEF Doubles
<1>4. j - 1 \in 0 .. i /\ f[j - 1] = g[j - 1]
  BY <1>2, <1>3
<1> QED
  BY <1>2, <1>3, <1>4 DEF Doubles

Step(f) == [n \in Nat |-> IF n = 0 THEN 1 ELSE 2 * f[n - 1]]

LEMMA PowerOf2Exists == \E f : f = Step(f)
<1> DEFINE ap(n) == CHOOSE f : Doubles(f, n)
           g == [n \in Nat |-> ap(n)[n]]
<1>1. \A n \in Nat : Doubles(ap(n), n)
  BY DoublesExists, Zenon
<1>2. ASSUME NEW n \in Nat
      PROVE  g[n] = IF n = 0 THEN 1 ELSE 2 * g[n - 1]
  <2>1. CASE n = 0
    BY <1>1, <2>1 DEF Doubles
  <2>2. CASE n # 0
    <3> HIDE DEF ap
    <3>1. n - 1 \in Nat
      BY <2>2
    <3>2. ap(n)[n] = 2 * ap(n)[n - 1]
      BY <1>1, <2>2 DEF Doubles
    <3>3. ap(n)[n - 1] = ap(n - 1)[n - 1]
      BY <1>1, <3>1, DoublesUnique
    <3> QED
      BY <2>2, <3>1, <3>2, <3>3
  <2> QED
    BY <2>1, <2>2
<1>3. g = Step(g)
  <2> HIDE DEF ap
  <2> DEFINE s == Step(g)
  <2>1. \A n \in Nat : g[n] = s[n]
    BY <1>2 DEF Step
  <2>2. g = [n \in Nat |-> g[n]] /\ s = [n \in Nat |-> s[n]]
    BY DEF Step
  <2> QED
    BY <2>1, <2>2
<1> QED
  BY <1>3

LEMMA PowerOf2Fix == PowerOf2 = Step(PowerOf2)
<1>1. PowerOf2 = CHOOSE f : f = Step(f)
  BY DEF PowerOf2, Step
<1> QED
  BY <1>1, PowerOf2Exists, Zenon

\* The recursion equations, and that powers are positive.
LEMMA PowerOf2Rec ==
  /\ PowerOf2[0] = 1
  /\ \A n \in Nat : PowerOf2[n + 1] = 2 * PowerOf2[n]
<1> DEFINE P == PowerOf2
<1>1. P = Step(P)
  BY PowerOf2Fix, Zenon
<1> HIDE DEF P
<1>2. \A n \in Nat : P[n] = IF n = 0 THEN 1 ELSE 2 * P[n - 1]
  BY <1>1 DEF Step
<1>3. P[0] = 1
  BY <1>2
<1>4. ASSUME NEW n \in Nat PROVE P[n + 1] = 2 * P[n]
  BY <1>2
<1> QED
  BY <1>3, <1>4 DEF P

LEMMA PowerOf2Positive ==
  ASSUME NEW n \in Nat
  PROVE  PowerOf2[n] \in Nat \ {0}
<1> DEFINE P == PowerOf2
<1>0. P[0] = 1 /\ \A k \in Nat : P[k + 1] = 2 * P[k]
  BY PowerOf2Rec, Zenon
<1> HIDE DEF P
<1> DEFINE S == {m \in Nat : P[m] \notin Nat \ {0}}
<1>1. SUFFICES ASSUME n \in S PROVE FALSE
  BY DEF P
<1>2. PICK m \in S : \A k \in S : m <= k
  <2>1. S \in SUBSET Nat
    OBVIOUS
  <2> QED
    BY <1>1, <2>1, LeastNat, Zenon
<1>3. m # 0
  BY <1>0, <1>2
<1>4. m - 1 \in Nat /\ P[m - 1] \in Nat \ {0}
  BY <1>2, <1>3
<1>5. P[m] = 2 * P[m - 1]
  BY <1>0, <1>3, <1>4
<1> QED
  BY <1>2, <1>4, <1>5

LEMMA PowerOf2Sum ==
  ASSUME NEW a \in Nat, NEW b \in Nat
  PROVE  PowerOf2[a + b] = PowerOf2[a] * PowerOf2[b]
<1> DEFINE P == PowerOf2
<1>0. /\ P[0] = 1
      /\ \A k \in Nat : P[k + 1] = 2 * P[k]
      /\ \A k \in Nat : P[k] \in Nat
  BY PowerOf2Rec, PowerOf2Positive
<1> HIDE DEF P
<1> DEFINE S == {m \in Nat : P[a + m] # P[a] * P[m]}
<1>1. SUFFICES ASSUME b \in S PROVE FALSE
  BY DEF P
<1>2. PICK m \in S : \A k \in S : m <= k
  <2>1. S \in SUBSET Nat
    OBVIOUS
  <2> QED
    BY <1>1, <2>1, LeastNat, Zenon
<1>3. m # 0
  BY <1>0, <1>2
<1>4. m - 1 \in Nat /\ P[a + (m - 1)] = P[a] * P[m - 1]
  BY <1>2, <1>3
<1>5. P[m] = 2 * P[m - 1] /\ P[a + m] = 2 * P[a + (m - 1)]
  <2>1. a + (m - 1) \in Nat /\ m = (m - 1) + 1 /\ a + m = (a + (m - 1)) + 1
    BY <1>4
  <2> QED
    BY <1>0, <1>4, <2>1
<1>6. P[a] * P[m] = 2 * (P[a] * P[m - 1])
  BY <1>0, <1>4, <1>5
<1> QED
  BY <1>2, <1>4, <1>5, <1>6
------------------------------------------------------------------------------
(* The two word widths, and the configuration.                             *)

LEMMA Words ==
  /\ Values32 \in Nat \ {0} /\ Values64 \in Nat \ {0}
  /\ Values64 = Values32 * Values32
<1>1. Width \in Nat /\ 2 * Width \in Nat /\ 2 * Width = Width + Width
  BY CppAssumption
<1>2. PowerOf2[Width + Width] = PowerOf2[Width] * PowerOf2[Width]
  BY <1>1, PowerOf2Sum
<1>3. PowerOf2[Width] \in Nat \ {0} /\ PowerOf2[2 * Width] \in Nat \ {0}
  BY <1>1, PowerOf2Positive
<1> QED
  BY <1>1, <1>2, <1>3 DEF Values32, Values64

\* A power of two of at most Width bits divides the number of 32-bit values.
LEMMA PowerDivides ==
  ASSUME NEW x, IsPowerOf2(x)
  PROVE  /\ x \in Nat \ {0}
         /\ \E q \in Nat : Values32 = x * q
<1>1. PICK n \in 0 .. Width : x = PowerOf2[n]
  BY DEF IsPowerOf2
<1>2. n \in Nat /\ Width - n \in Nat /\ Width = n + (Width - n)
  BY <1>1, CppAssumption
<1>3. PowerOf2[n + (Width - n)] = PowerOf2[n] * PowerOf2[Width - n]
  BY <1>2, PowerOf2Sum
<1>4. PowerOf2[n] \in Nat \ {0} /\ PowerOf2[Width - n] \in Nat \ {0}
  BY <1>2, PowerOf2Positive
<1> QED
  BY <1>1, <1>2, <1>3, <1>4 DEF Values32

\* Only the low 32 bits of a 64-bit result count in the end.
LEMMA Truncate ==
  ASSUME NEW x \in Int
  PROVE  /\ U64(x) \in Int
         /\ U32(U64(x)) = x % Values32
<1>1. U64(x) \in Int
  BY Words, DivMod DEF U64
<1>2. (x % (Values32 * Values32)) % Values32 = x % Values32
  BY Words, ModMod
<1> QED
  BY <1>1, <1>2, Words DEF U32, U64

\* A difference that is too large by whole words, and what is left beside it.
LEMMA Differences ==
  ASSUME NEW cap \in 0 .. Values32 - 1, NEW used \in 0 .. cap, NEW z \in Int,
         NEW d \in Int, d = used + Values32 * z
  PROVE  /\ U32(U64(d)) = used
         /\ U32(U64(cap - U64(d))) = cap - used
<1>1. used \in 0 .. Values32 - 1 /\ cap - used \in 0 .. Values32 - 1
  BY Words
<1>2. d % Values32 = used
  BY <1>1, Words, ModShift, ModSmall
<1>3. U64(d) \in Int /\ cap - U64(d) \in Int /\ cap - d \in Int /\ cap \in Int
  BY Truncate
<1>4. U64(cap - U64(d)) = U64(cap - d)
  BY <1>3, Words, ModSub DEF U64
<1>5. (cap - d) % Values32 = cap - used
  <2>1. - z \in Int /\ cap - d = (cap - used) + Values32 * (- z)
    BY Words
  <2>2. ((cap - used) + Values32 * (- z)) % Values32 = (cap - used) % Values32
    <3>1. cap - used \in Int
      OBVIOUS
    <3> QED
      BY <2>1, <3>1, Words, ModShift, Zenon
  <2> QED
    BY <1>1, <2>1, <2>2, Words, ModSmall
<1> QED
  BY <1>2, <1>3, <1>4, <1>5, Truncate

ConfigOK ==
  /\ bytesScale \in Nat \ {0} /\ bytesScale < Values32
  /\ capacityInUnit \in Nat \ {0} /\ capacityInUnit < Values32
  /\ capacityInBytes \in Nat \ {0}
  /\ capacityInBytes = capacityInUnit * bytesScale
  /\ capacityInBytes < Values32 /\ capacityInBytes < Tags
  /\ Tags \in Nat \ {0}

------------------------------------------------------------------------------
(* Units and bytes.                                                        *)

\* The conversion to 64-bit bytes never overflows.
LEMMA InBytesIs ==
  ASSUME ConfigOK, NEW unit \in 0 .. Values32 - 1
  PROVE  InBytes(unit) = unit * bytesScale
<1>1. unit * bytesScale <= (Values32 - 1) * bytesScale
  BY Words DEF ConfigOK
<1>2. (Values32 - 1) * bytesScale < Values32 * Values32
  BY Words DEF ConfigOK
<1>3. unit * bytesScale \in 0 .. Values64 - 1
  BY <1>1, <1>2, Words DEF ConfigOK
<1> QED
  BY <1>3, Words, ModSmall DEF InBytes, U64

\* Between() units lie from h to t, which may have wrapped.
Between(h, t) == U32(t - h)

LEMMA BetweenType ==
  ASSUME NEW h \in 0 .. Values32 - 1, NEW t \in 0 .. Values32 - 1
  PROVE  Between(h, t) \in 0 .. Values32 - 1
BY Words, DivMod DEF Between, U32

\* The differences of byte counts, wrapped and truncated, are what lies between.
LEMMA Availables ==
  ASSUME ConfigOK,
         NEW h \in 0 .. Values32 - 1, NEW t \in 0 .. Values32 - 1,
         Between(h, t) * bytesScale <= capacityInBytes
  PROVE  /\ ReadAvailable(h, t) = Between(h, t) * bytesScale
         /\ WriteAvailable(h, t) = capacityInBytes - Between(h, t) * bytesScale
<1>1. PICK units \in Nat : units = Between(h, t)
  BY BetweenType, Words
<1>2. PICK q \in Int : t - h = Values32 * q + units
  <2>1. t - h \in Int
    BY Words
  <2>2. PICK q \in Int : t - h = Values32 * q + ((t - h) % Values32)
    BY <2>1, Words, DivMod
  <2> QED
    BY <1>1, <2>2 DEF Between, U32
<1>3. PICK used \in 0 .. capacityInBytes : used = units * bytesScale
  BY <1>1 DEF ConfigOK
<1>4. PICK d \in Int : d = InBytes(t) - InBytes(h) /\ d = (t - h) * bytesScale
  BY InBytesIs, Words DEF ConfigOK
<1>5. PICK z \in Int : z = q * bytesScale
  BY DEF ConfigOK
<1>6. d = used + Values32 * z
  <2>1. (Values32 * q + units) * bytesScale = Values32 * (q * bytesScale) + units * bytesScale
    BY Words DEF ConfigOK
  <2>2. d = (Values32 * q + units) * bytesScale
    BY <1>2, <1>4
  <2> QED
    BY <1>3, <1>5, <2>1, <2>2, Words
<1>7. capacityInBytes \in 0 .. Values32 - 1
  BY Words DEF ConfigOK
<1> QED
  BY <1>1, <1>3, <1>4, <1>6, <1>7, Differences DEF ReadAvailable, WriteAvailable

\* A whole number of units that fits, as bytes added to a counter.
LEMMA InUnitsIs ==
  ASSUME ConfigOK, NEW t \in 0 .. Values32 - 1,
         NEW n \in 0 .. capacityInBytes, n % bytesScale = 0
  PROVE  \E units \in Nat :
            /\ n = units * bytesScale
            /\ units <= capacityInUnit
            /\ InUnits(InBytes(t) + n) = (t + units) % Values32
<1>1. PICK units \in Int : n = bytesScale * units
  <2>1. bytesScale \in Nat \ {0} /\ n \in Int
    BY DEF ConfigOK
  <2>2. /\ n = bytesScale * (n \div bytesScale) + (n % bytesScale)
        /\ n \div bytesScale \in Int
    BY <2>1, DivMod, Zenon
  <2>3. PICK q \in Int : n = bytesScale * q + 0
    BY <2>2, Zenon
  <2> QED
    BY <2>1, <2>3
<1>2. units \in Nat
  <2>1. units < 0 => bytesScale * units < 0
    BY DEF ConfigOK
  <2> QED
    BY <1>1, <2>1
<1>3. units <= capacityInUnit
  <2>1. units > capacityInUnit => bytesScale * units > bytesScale * capacityInUnit
    BY <1>2 DEF ConfigOK
  <2>2. bytesScale * capacityInUnit = capacityInBytes
    BY DEF ConfigOK
  <2> QED
    BY <1>1, <1>2, <2>1, <2>2 DEF ConfigOK
<1>4. InBytes(t) + n = bytesScale * (t + units)
  <2>1. InBytes(t) = t * bytesScale
    BY InBytesIs
  <2> QED
    BY <1>1, <2>1, Words DEF ConfigOK
<1>5. InBytes(t) + n \in 0 .. Values64 - 1
  <2>1. InBytes(t) = t * bytesScale
    BY InBytesIs
  <2>2. t * bytesScale <= (Values32 - 1) * (Values32 - 1)
    <3>1. t * bytesScale <= (Values32 - 1) * bytesScale
      BY Words DEF ConfigOK
    <3>2. (Values32 - 1) * bytesScale <= (Values32 - 1) * (Values32 - 1)
      BY Words DEF ConfigOK
    <3>3. t * bytesScale \in Nat /\ (Values32 - 1) * bytesScale \in Nat
      BY Words DEF ConfigOK
    <3> QED
      BY <3>1, <3>2, <3>3, Words
  <2>3. n <= Values32 - 1 /\ n \in Nat
    BY Words DEF ConfigOK
  <2>4. (Values32 - 1) * (Values32 - 1) + (Values32 - 1) < Values32 * Values32
    BY Words
  <2>5. t * bytesScale \in Nat /\ (Values32 - 1) * (Values32 - 1) \in Nat
    BY Words DEF ConfigOK
  <2> QED
    BY <2>1, <2>2, <2>3, <2>4, <2>5, Words
<1>6. U64(InBytes(t) + n) = InBytes(t) + n
  BY <1>5, Words, ModSmall DEF U64
<1>7. (bytesScale * (t + units)) \div bytesScale = t + units
  <2>1. t + units \in Int /\ bytesScale \in Nat \ {0} /\ 0 \in 0 .. bytesScale - 1
    BY <1>2 DEF ConfigOK
  <2>2. (bytesScale * (t + units) + 0) \div bytesScale = t + units
    BY <2>1, ModUnique
  <2> QED
    BY <2>1, <2>2
<1>8. InUnits(InBytes(t) + n) = (t + units) % Values32
  BY <1>4, <1>6, <1>7 DEF InUnits, U32
<1> QED
  BY <1>1, <1>2, <1>3, <1>8 DEF ConfigOK

\* What lies between grows with the tail and shrinks with the head.
LEMMA BetweenMoves ==
  ASSUME NEW h \in 0 .. Values32 - 1, NEW t \in 0 .. Values32 - 1, NEW units \in Nat
  PROVE  /\ Between(h, t) + units < Values32 =>
              Between(h, (t + units) % Values32) = Between(h, t) + units
         /\ units <= Between(h, t) =>
              Between((h + units) % Values32, t) = Between(h, t) - units
<1>0. Values32 \in Nat \ {0} /\ units \in Int /\ - units \in Int /\ t \in Int
  BY Words
<1>1. t - h \in Int /\ t + units \in Int /\ h + units \in Int /\ - h \in Int
  BY Words
<1> DEFINE b == Between(h, t)
<1>2. b \in 0 .. Values32 - 1 /\ b = (t - h) % Values32
  BY BetweenType DEF Between, U32
<1> HIDE DEF b
<1>3. ASSUME b + units < Values32
      PROVE  Between(h, (t + units) % Values32) = b + units
  <2>1. (((t + units) % Values32) + (- h)) % Values32 = ((t + units) + (- h)) % Values32
    BY <1>0, <1>1, ModAdd, Zenon
  <2>2. (((t - h) % Values32) + units) % Values32 = ((t - h) + units) % Values32
    BY <1>0, <1>1, ModAdd, Zenon
  <2>3. (b + units) % Values32 = b + units
    BY <1>2, <1>3, Words, ModSmall
  <2>4. /\ (t + units) % Values32 \in Int
        /\ (t + units) + (- h) = (t - h) + units
    BY <1>1, Words, DivMod
  <2>5. ((t + units) % Values32) + (- h) = ((t + units) % Values32) - h
    BY <1>1, <2>4
  <2> QED
    BY <1>2, <2>1, <2>2, <2>3, <2>4, <2>5 DEF Between, U32
<1>4. ASSUME units <= b
      PROVE  Between((h + units) % Values32, t) = b - units
  <2>1. (t - ((h + units) % Values32)) % Values32 = (t - (h + units)) % Values32
    BY <1>0, <1>1, ModSub, Zenon
  <2>2. (((t - h) % Values32) + (- units)) % Values32 = ((t - h) + (- units)) % Values32
    BY <1>0, <1>1, ModAdd, Zenon
  <2>3. (b - units) % Values32 = b - units
    BY <1>2, <1>4, Words, ModSmall
  <2>4. b + (- units) = b - units /\ (t - h) + (- units) = t - (h + units)
    BY <1>1, <1>2, Words
  <2> QED
    BY <1>2, <2>1, <2>2, <2>3, <2>4 DEF Between, U32
<1> QED
  BY <1>3, <1>4 DEF b

\* head and what lies between give tail back.
LEMMA BetweenReaches ==
  ASSUME NEW h \in 0 .. Values32 - 1, NEW t \in 0 .. Values32 - 1
  PROVE  (h + Between(h, t)) % Values32 = t
<1>1. Values32 \in Nat \ {0} /\ t - h \in Int /\ h \in Int
  BY Words
<1>2. (((t - h) % Values32) + h) % Values32 = ((t - h) + h) % Values32
  BY <1>1, ModAdd, Zenon
<1>3. (t - h) + h = t /\ Between(h, t) + h = h + Between(h, t)
  BY <1>1, BetweenType
<1>4. t % Values32 = t
  BY <1>1, ModSmall
<1> QED
  BY <1>2, <1>3, <1>4 DEF Between, U32
------------------------------------------------------------------------------
(* Positions in the buffer.                                                *)

LEMMA PosType ==
  ASSUME ConfigOK, NEW b \in Int
  PROVE  Pos(b) \in 0 .. capacityInBytes - 1
BY DivMod DEF Pos, ConfigOK

\* Bytes less than the capacity apart have different places.
LEMMA PosDistinct ==
  ASSUME ConfigOK, NEW b \in Int, NEW i \in Int, NEW j \in Int,
         i < j, j < i + capacityInBytes
  PROVE  Pos(b + i) # Pos(b + j)
<1>1. PICK x \in Int, y \in Int : x = b + i /\ y = b + j
  OBVIOUS
<1>2. x < y /\ y < x + capacityInBytes /\ capacityInBytes \in Nat \ {0}
  BY <1>1 DEF ConfigOK
<1> QED
  BY <1>1, <1>2, ModDistinct DEF Pos

\* Up to the end of the buffer, places follow bytes one by one.
LEMMA PosBeforeEnd ==
  ASSUME ConfigOK, NEW b \in Int, NEW k \in Nat, Pos(b) + k < capacityInBytes
  PROVE  Pos(b + k) = Pos(b) + k
<1>1. capacityInBytes \in Nat \ {0} /\ k \in Int
  BY DEF ConfigOK
<1>2. ((b % capacityInBytes) + k) % capacityInBytes = (b + k) % capacityInBytes
  BY <1>1, ModAdd, Zenon
<1>3. Pos(b) + k \in 0 .. capacityInBytes - 1
  BY PosType DEF ConfigOK
<1>4. (Pos(b) + k) % capacityInBytes = Pos(b) + k
  BY <1>1, <1>3, ModSmall
<1> QED
  BY <1>2, <1>4 DEF Pos

\* From the end of the buffer on, they go on from its start.
LEMMA PosAfterEnd ==
  ASSUME ConfigOK, NEW b \in Int, NEW k \in 0 .. capacityInBytes - 1
  PROVE  Pos(b + ((capacityInBytes - Pos(b)) + k)) = k
<1>1. capacityInBytes \in Nat \ {0}
  BY DEF ConfigOK
<1>2. PICK p \in Int : p = Pos(b)
  BY PosType
<1>3. PICK q \in Int : b = capacityInBytes * q + p
  <2>1. /\ b = capacityInBytes * (b \div capacityInBytes) + (b % capacityInBytes)
        /\ b \div capacityInBytes \in Int
    BY <1>1, DivMod, Zenon
  <2> QED
    BY <1>2, <2>1 DEF Pos
<1>4. /\ q + 1 \in Int
      /\ b + ((capacityInBytes - p) + k) = capacityInBytes * (q + 1) + k
  BY <1>1, <1>3
<1>5. (capacityInBytes * (q + 1) + k) % capacityInBytes = k
  BY <1>1, <1>4, ModUnique
<1> QED
  BY <1>2, <1>4, <1>5 DEF Pos

\* A capacity that is a power of two divides the 32-bit range: then the wrap of
\* a counter does not move the places it stands for.
LEMMA PosMoves ==
  ASSUME ConfigOK, IsPowerOf2(capacityInUnit),
         NEW h \in 0 .. Values32 - 1, NEW units \in Nat, NEW k \in Int
  PROVE  Pos(InBytes((h + units) % Values32) + k)
           = Pos(InBytes(h) + (units * bytesScale + k))
<1>1. PICK q \in Nat : Values32 = capacityInUnit * q
  BY PowerDivides
<1>2. PICK n \in 0 .. Values32 - 1 : n = (h + units) % Values32
  BY Words, DivMod
<1>3. PICK e \in Int : h + units = Values32 * e + n
  <2>1. h + units \in Int /\ Values32 \in Nat \ {0}
    BY Words
  <2>2. /\ h + units = Values32 * ((h + units) \div Values32) + ((h + units) % Values32)
        /\ (h + units) \div Values32 \in Int
    BY <2>1, DivMod, Zenon
  <2> QED
    BY <1>2, <2>2
<1>4. InBytes(h) = h * bytesScale /\ InBytes(n) = n * bytesScale
  BY <1>2, InBytesIs
<1>5. PICK z \in Int : z = q * e
  BY <1>1, <1>3
<1>6. PICK a \in Int : a = n * bytesScale + k
  BY <1>2 DEF ConfigOK
<1>7. h * bytesScale + (units * bytesScale + k) = a + capacityInBytes * z
  <2>1. h * bytesScale + (units * bytesScale + k) = (h + units) * bytesScale + k
    BY DEF ConfigOK
  <2>2. (Values32 * e + n) * bytesScale = (Values32 * e) * bytesScale + n * bytesScale
    BY Words DEF ConfigOK
  <2>3. (Values32 * e) * bytesScale = capacityInBytes * z
    <3>1. (Values32 * e) * bytesScale = ((capacityInUnit * q) * e) * bytesScale
      BY <1>1
    <3>2. ((capacityInUnit * q) * e) * bytesScale
             = (capacityInUnit * bytesScale) * (q * e)
      BY DEF ConfigOK
    <3> QED
      BY <1>5, <3>1, <3>2 DEF ConfigOK
  <2>4. (h + units) * bytesScale = (Values32 * e) * bytesScale + n * bytesScale
    BY <1>3, <2>2
  <2>5. (Values32 * e) * bytesScale \in Int /\ n * bytesScale \in Int
    BY Words DEF ConfigOK
  <2> QED
    BY <1>5, <1>6, <2>1, <2>3, <2>4, <2>5 DEF ConfigOK
<1>8. (a + capacityInBytes * z) % capacityInBytes = a % capacityInBytes
  BY ModShift DEF ConfigOK
<1> QED
  BY <1>2, <1>4, <1>6, <1>7, <1>8 DEF Pos

\* The byte k of the tail is the one Used + k of the head.
LEMMA PosFromHead ==
  ASSUME ConfigOK, IsPowerOf2(capacityInUnit),
         NEW h \in 0 .. Values32 - 1, NEW t \in 0 .. Values32 - 1, NEW k \in Int
  PROVE  Pos(InBytes(t) + k) = Pos(InBytes(h) + (Between(h, t) * bytesScale + k))
<1>1. Between(h, t) \in Nat
  BY BetweenType, Words
<1> QED
  BY <1>1, PosMoves, BetweenReaches
------------------------------------------------------------------------------
(* What the inductive invariant says of the configuration and the counters.*)

LEMMA Config ==
  ASSUME TypeOK, SetupInv
  PROVE  ConfigOK
<1>1. /\ bytesScale \in Scales \cup {1} /\ capacityInUnit \in Capacities \cup {MaxCount}
      /\ capacityInBytes = capacityInUnit * bytesScale /\ capacityInUnit # 0
  BY DEF TypeOK, SetupInv
<1>2. /\ bytesScale \in Nat \ {0} /\ capacityInUnit \in Nat \ {0}
      /\ Tags \in Nat
  BY <1>1, CppAssumption
<1>3. capacityInBytes < Values32 /\ capacityInBytes < Tags
  BY <1>1, CppAssumption
<1>4. PICK s \in Nat \ {0}, u \in Nat \ {0} : s = bytesScale /\ u = capacityInUnit
  BY <1>2
<1>5. u * s >= s /\ u * s >= u /\ u * s \in Nat
  OBVIOUS
<1>6. capacityInBytes \in Nat /\ capacityInBytes >= bytesScale /\ capacityInBytes >= capacityInUnit
  BY <1>1, <1>4, <1>5
<1> QED
  BY <1>1, <1>2, <1>3, <1>6, Words DEF ConfigOK

\* Used, in the words of the lemmas above.
CountersOK ==
  /\ ConfigOK
  /\ head \in 0 .. Values32 - 1 /\ tail \in 0 .. Values32 - 1
  /\ Between(head, tail) \in 0 .. Values32 - 1
  /\ Used = Between(head, tail) * bytesScale
  /\ Used \in 0 .. capacityInBytes
  /\ ReadAvailable(head, tail) = Used
  /\ WriteAvailable(head, tail) = capacityInBytes - Used
  /\ InBytes(head) \in Nat /\ InBytes(tail) \in Nat

LEMMA Counters ==
  ASSUME TypeOK, SetupInv, CountersInv
  PROVE  CountersOK
<1>1. ConfigOK
  BY Config
<1>2. head \in 0 .. Values32 - 1 /\ tail \in 0 .. Values32 - 1
  BY DEF TypeOK
<1>3. Used = Between(head, tail) * bytesScale /\ Used <= capacityInBytes
  BY DEF Used, Between, CountersInv
<1>4. Between(head, tail) \in 0 .. Values32 - 1
  BY <1>2, BetweenType
<1>5. Used \in 0 .. capacityInBytes
  BY <1>1, <1>3, <1>4, Words DEF ConfigOK
<1>6. /\ ReadAvailable(head, tail) = Used
      /\ WriteAvailable(head, tail) = capacityInBytes - Used
  BY <1>1, <1>2, <1>3, Availables
<1>7. InBytes(head) \in Nat /\ InBytes(tail) \in Nat
  BY <1>1, <1>2, InBytesIs, Words DEF ConfigOK
<1> QED
  BY <1>1, <1>2, <1>3, <1>4, <1>5, <1>6, <1>7 DEF CountersOK

\* A size rounded down to whole units.
LEMMA WholeUnitsIs ==
  ASSUME ConfigOK, NEW n \in Nat
  PROVE  /\ WholeUnits(n) \in 0 .. n
         /\ WholeUnits(n) % bytesScale = 0
<1>1. PICK s \in Nat \ {0} : s = bytesScale
  BY DEF ConfigOK
<1>2. PICK q \in Int, r \in 0 .. s - 1 : n = s * q + r /\ r = n % s
  <2>1. n \in Int
    OBVIOUS
  <2>2. /\ n % s \in 0 .. s - 1 /\ n \div s \in Int
        /\ n = s * (n \div s) + (n % s)
    BY <2>1, DivMod, Zenon
  <2> QED
    BY <2>2, Zenon
<1>3. n - r = s * q + 0 /\ 0 \in 0 .. s - 1
  BY <1>2
<1>4. (s * q + 0) % s = 0
  BY <1>3, ModUnique
<1>5. q >= 0
  <2>1. q <= -1 => s * q <= - s
    OBVIOUS
  <2> QED
    BY <1>2, <2>1
<1>6. s * q >= 0
  BY <1>5
<1> QED
  <2>1. (n - r) % s = 0
    BY <1>3, <1>4, Zenon
  <2>2. n - r \in 0 .. n
    BY <1>2, <1>3, <1>6
  <2> QED
    BY <1>1, <1>2, <2>1, <2>2 DEF WholeUnits

\* Storing a tail that is n bytes further on.
LEMMA TailStored ==
  ASSUME CountersOK,
         NEW n \in Nat, n <= capacityInBytes - Used, n % bytesScale = 0
  PROVE  /\ InUnits(InBytes(tail) + n) \in 0 .. Values32 - 1
         /\ Between(head, InUnits(InBytes(tail) + n)) * bytesScale = Used + n
<1>1. n \in 0 .. capacityInBytes
  BY DEF CountersOK, ConfigOK
<1>2. PICK units \in Nat : /\ n = units * bytesScale
                           /\ InUnits(InBytes(tail) + n) = (tail + units) % Values32
  BY <1>1, InUnitsIs DEF CountersOK
<1>3. PICK b \in 0 .. Values32 - 1, s \in Nat \ {0} :
         b = Between(head, tail) /\ s = bytesScale
  BY DEF CountersOK, ConfigOK
<1>4. (b + units) * s <= capacityInBytes /\ (b + units) * s = b * s + units * s
  <2>1. (b + units) * s = b * s + units * s
    BY Words
  <2>2. b * s = Used /\ units * s = n
    BY <1>2, <1>3 DEF CountersOK
  <2>3. Used + n <= capacityInBytes
    BY DEF CountersOK, ConfigOK
  <2> QED
    BY <2>1, <2>2, <2>3
<1>5. b + units <= (b + units) * s
  <2>1. b + units \in Nat
    BY Words
  <2> QED
    BY <2>1
<1>6. b + units < Values32
  BY <1>3, <1>4, <1>5, Words DEF CountersOK, ConfigOK
<1>7. Between(head, (tail + units) % Values32) = b + units
  BY <1>3, <1>6, BetweenMoves DEF CountersOK
<1>8. tail + units \in Int
  BY Words DEF CountersOK
<1> QED
  <2>1. (tail + units) % Values32 \in 0 .. Values32 - 1
    BY <1>8, Words, DivMod
  <2> QED
    BY <1>2, <1>3, <1>4, <1>7, <2>1 DEF CountersOK

\* Storing a head that is n bytes further on.
LEMMA HeadStored ==
  ASSUME CountersOK,
         NEW n \in Nat, n <= Used, n % bytesScale = 0
  PROVE  /\ InUnits(InBytes(head) + n) \in 0 .. Values32 - 1
         /\ Between(InUnits(InBytes(head) + n), tail) * bytesScale = Used - n
         /\ IsPowerOf2(capacityInUnit) =>
              \A k \in Int : Pos(InBytes(InUnits(InBytes(head) + n)) + k)
                               = Pos(InBytes(head) + (n + k))
<1>1. n \in 0 .. capacityInBytes
  BY DEF CountersOK, ConfigOK
<1>2. PICK units \in Nat : /\ n = units * bytesScale
                           /\ InUnits(InBytes(head) + n) = (head + units) % Values32
  BY <1>1, InUnitsIs DEF CountersOK
<1>3. PICK b \in 0 .. Values32 - 1, s \in Nat \ {0} :
         b = Between(head, tail) /\ s = bytesScale
  BY DEF CountersOK, ConfigOK
<1>4. units <= b
  <2>1. units > b => units * s > b * s
    BY Words
  <2> QED
    BY <1>2, <1>3, <2>1, Words DEF CountersOK
<1>5. Between((head + units) % Values32, tail) = b - units
  BY <1>3, <1>4, BetweenMoves DEF CountersOK
<1>6. (b - units) * s = b * s - units * s
  BY Words
<1>7. head + units \in Int
  BY Words DEF CountersOK
<1>8. (head + units) % Values32 \in 0 .. Values32 - 1
  BY <1>7, Words, DivMod
<1>9. IsPowerOf2(capacityInUnit) =>
        \A k \in Int : Pos(InBytes((head + units) % Values32) + k)
                         = Pos(InBytes(head) + (units * bytesScale + k))
  BY PosMoves DEF CountersOK
<1> QED
  BY <1>2, <1>3, <1>5, <1>6, <1>8, <1>9 DEF CountersOK
------------------------------------------------------------------------------
(* The invariant holds at the start and through the configuration.         *)

LEMMA NothingBetween == U32(0 - 0) = 0
<1>1. 0 \in 0 .. Values32 - 1 /\ 0 - 0 = 0
  BY Words
<1> QED
  BY <1>1, Words, ModSmall DEF U32

LEMMA InitInv ==
  ASSUME Init
  PROVE  IndInv
<1>1. MaxCount * 1 = MaxCount /\ MaxCount < Values32 /\ MaxCount < Tags
  <2>1. MaxCount * 1 < Values32 /\ MaxCount * 1 < Tags
    BY CppAssumption
  <2>2. MaxCount * 1 = MaxCount
    BY CppAssumption
  <2> QED
    BY <2>1, <2>2
<1>2. Tags \in Nat \ {0} /\ MaxCount \in Nat \ {0}
  BY <1>1, CppAssumption
<1>3. Used = 0
  BY NothingBetween DEF Init, Used
<1>4. TypeOK
  <2>1. /\ 0 \in 0 .. Values32 - 1 /\ 0 \in 0 .. Tags - 1 /\ 0 \in 0 .. MaxCount
    BY <1>2, Words
  <2> QED
    BY <1>1, <2>1 DEF Init, TypeOK
<1>5. SetupInv
  BY <1>2 DEF Init, SetupInv
<1>6. CountersInv
  <2>1. 0 % Tags = 0
    BY <1>2, ModSmall
  <2> QED
    BY <1>2, <1>3, <2>1 DEF Init, CountersInv
<1>7. WriterInv /\ ReaderInv
  BY DEF Init, WriterInv, ReaderInv, RCopied
<1>8. DataInv
  BY DEF Init, DataInv, ReadsInOrder
<1> QED
  BY <1>4, <1>5, <1>6, <1>7, <1>8 DEF IndInv

\* While nothing has been stored, the configuration is all that matters.
LEMMA SetupPreserves ==
  ASSUME IndInv, ~ started, TypeOK', SetupInv', UNCHANGED <<head, tail, wvars, rvars>>
  PROVE  IndInv'
<1>1. /\ head = 0 /\ tail = 0 /\ wpc = "idle" /\ rpc = "idle"
      /\ wsize = 0 /\ ravailable = 0 /\ wavail = 0
  BY DEF IndInv, SetupInv
<1>2. ConfigOK /\ ConfigOK'
  <2>1. ConfigOK
    BY Config DEF IndInv
  <2>2. ConfigOK'
    <3>1. TypeOK' /\ SetupInv' => ConfigOK'
      BY Config, PTL
    <3> QED
      BY <3>1
  <2> QED
    BY <2>1, <2>2
<1>0. Used = 0
  BY <1>1, <1>2, NothingBetween DEF Used, ConfigOK
<1>3. Used' = 0
  <2>1. U32(tail - head)' = U32(0 - 0)
    BY <1>1 DEF U32
  <2> QED
    BY <1>1, <1>2, <2>1, NothingBetween DEF Used, ConfigOK
<1>4. CountersInv'
  <2>1. wcount = (rcount + 0) % Tags /\ wcount' = wcount /\ rcount' = rcount
    BY <1>0 DEF IndInv, CountersInv, wvars, rvars
  <2>2. wavail' = 0 /\ capacityInBytes' \in Nat
    BY <1>1, <1>2 DEF wvars, ConfigOK
  <2>3. wcount' = (rcount' + Used') % Tags
    BY <1>3, <2>1, Zenon
  <2>4. Used' <= capacityInBytes' /\ wavail' <= capacityInBytes' - Used'
    <3>1. PICK c \in Nat : c = capacityInBytes'
      BY <2>2, Zenon
    <3>2. 0 <= c /\ 0 <= c - 0
      OBVIOUS
    <3> QED
      BY <1>3, <2>2, <3>1, <3>2, Zenon
  <2> QED
    BY <2>3, <2>4, Zenon DEF CountersInv
<1>5. WriterInv' /\ ReaderInv'
  BY <1>1 DEF IndInv, WriterInv, ReaderInv, RCopied, wvars, rvars
<1>6. DataInv'
  <2>1. WCopied' = 0
    BY <1>1 DEF WCopied, wvars
  <2>2. Len(out') = 0
    BY <1>1 DEF IndInv, ReaderInv, RCopied, rvars
  <2> QED
    BY <1>3, <2>1, <2>2 DEF DataInv, ReadsInOrder
<1> QED
  BY <1>4, <1>5, <1>6 DEF IndInv

\* set_capacity_inunit, set_bytes_scale and the addresses.
LEMMA SetCapacityPreserves ==
  ASSUME IndInv, NEW val \in Capacities, SetCapacityInUnit(val)
  PROVE  IndInv'
<1>1. val \in Nat \ {0}
  BY PowerDivides DEF SetCapacityInUnit
<1>2. bytesScale \in Scales \cup {1} /\ bytesScale \in Nat \ {0}
  BY CppAssumption DEF IndInv, TypeOK
<1>3. val * bytesScale \in 0 .. Values32 - 1
  BY <1>1, <1>2, CppAssumption, Words
<1>4. capacityInBytes' = val * bytesScale
  BY <1>3, Words, ModSmall DEF SetCapacityInUnit, U32
<1>5. TypeOK'
  BY <1>1, <1>2, <1>3, <1>4 DEF IndInv, TypeOK, SetupInv, SetCapacityInUnit, wvars, rvars
<1>6. SetupInv'
  BY <1>1 DEF IndInv, SetupInv, SetCapacityInUnit, IsPowerOf2, wvars, rvars
<1> QED
  BY <1>5, <1>6, SetupPreserves DEF SetCapacityInUnit

LEMMA SetScalePreserves ==
  ASSUME IndInv, NEW val \in Scales, SetBytesScale(val)
  PROVE  IndInv'
<1>1. val \in Nat \ {0}
  BY CppAssumption
<1>2. capacityInUnit \in Capacities \cup {MaxCount} /\ capacityInUnit \in Nat \ {0}
  BY CppAssumption DEF IndInv, TypeOK, SetupInv
<1>3. capacityInUnit * val \in 0 .. Values32 - 1
  <2>1. capacityInUnit * val < Values32
    BY <1>2, CppAssumption
  <2>2. capacityInUnit * val \in Nat
    BY <1>1, <1>2
  <2> QED
    BY <2>1, <2>2, Words
<1>4. capacityInBytes' = capacityInUnit * val
  BY <1>3, Words, ModSmall DEF SetBytesScale, U32
<1>5. TypeOK'
  BY <1>1, <1>2, <1>3, <1>4 DEF IndInv, TypeOK, SetupInv, SetBytesScale, wvars, rvars
<1>6. SetupInv'
  BY <1>1 DEF IndInv, SetupInv, SetBytesScale, IsPowerOf2, wvars, rvars
<1> QED
  BY <1>5, <1>6, SetupPreserves DEF SetBytesScale

LEMMA SetAddressesPreserves ==
  ASSUME IndInv, SetAddresses
  PROVE  IndInv'
<1>1. TypeOK'
  <2>1. Tags \in Nat
    BY CppAssumption
  <2> QED
    BY <2>1 DEF IndInv, TypeOK, SetAddresses, config, wvars, rvars
<1>2. SetupInv'
  BY DEF IndInv, SetupInv, SetAddresses, IsPowerOf2, config, wvars, rvars
<1> QED
  BY <1>1, <1>2, SetupPreserves DEF SetAddresses
------------------------------------------------------------------------------
(* Steps that store nothing shared: the starts of write and read, and the  *)
(* query.                                                                  *)

LEMMA AskPreserves ==
  ASSUME IndInv, AskWriteAvailable
  PROVE  IndInv'
<1>1. CountersOK
  BY Counters DEF IndInv
<1>2. /\ wavail' = capacityInBytes - Used
      /\ UNCHANGED <<started, config, head, tail, buf, wpc, wtail, wsize, wcount, rvars>>
  BY <1>1 DEF AskWriteAvailable, CountersOK
<1>3. wavail' \in 0 .. capacityInBytes
  BY <1>1, <1>2 DEF CountersOK, ConfigOK
<1>4. Used' = Used /\ InBytes(tail)' = InBytes(tail) /\ InBytes(head)' = InBytes(head)
  BY <1>2 DEF Used, U32, InBytes, U64, config
<1>5. TypeOK'
  BY <1>2, <1>3 DEF IndInv, TypeOK, config, rvars
<1>6. SetupInv'
  BY <1>2 DEF IndInv, SetupInv, AskWriteAvailable, IsPowerOf2, config, rvars
<1>7. CountersInv'
  <2>1. Used <= capacityInBytes /\ wavail' <= capacityInBytes - Used
    BY <1>1, <1>2 DEF CountersOK, ConfigOK
  <2>2. wcount = (rcount + Used) % Tags
    BY DEF IndInv, CountersInv
  <2> QED
    BY <1>2, <1>4, <2>1, <2>2 DEF CountersInv, config, rvars
<1>8. WriterInv'
  BY <1>2, <1>4 DEF IndInv, WriterInv, WToEnd, Pos, config
<1>9. ReaderInv'
  BY <1>2, <1>4 DEF IndInv, ReaderInv, RCopied, RToEnd, Pos, config, rvars
<1>10. (IsPowerOf2(capacityInUnit) => DataInv)'
  BY <1>2, <1>4 DEF IndInv, DataInv, ReadsInOrder, WCopied, WToEnd, Pos, IsPowerOf2, config, rvars
<1> QED
  BY <1>5, <1>6, <1>7, <1>8, <1>9, <1>10 DEF IndInv

LEMMA WriteStartPreserves ==
  ASSUME IndInv, NEW size \in WriteSizes, WriteStart(size)
  PROVE  IndInv'
<1>1. CountersOK
  BY Counters DEF IndInv
<1>2. /\ wpc = "idle" /\ wpc' = "copy" /\ started
      /\ wtail' = InBytes(tail)
      /\ UNCHANGED <<started, config, head, tail, buf, wcount, wavail, rvars>>
  BY DEF WriteStart
<1>3. wsize' \in 0 .. capacityInBytes - Used /\ wsize' % bytesScale = 0
  <2>1. PICK n \in Nat : n = Smaller(size, capacityInBytes - Used) /\ n <= capacityInBytes - Used
    <3>1. size \in Nat
      BY CppAssumption
    <3> QED
      BY <1>1, <3>1 DEF Smaller, CountersOK, ConfigOK
  <2>2. wsize' = WholeUnits(n)
    BY <1>1, <2>1 DEF WriteStart, CountersOK
  <2>3. WholeUnits(n) \in 0 .. n /\ WholeUnits(n) % bytesScale = 0
    BY <1>1, WholeUnitsIs DEF CountersOK
  <2> QED
    BY <1>1, <2>1, <2>2, <2>3 DEF CountersOK, ConfigOK
<1>4. Used' = Used /\ InBytes(tail)' = InBytes(tail) /\ InBytes(head)' = InBytes(head)
  BY <1>2 DEF Used, U32, InBytes, U64, config
<1>5. TypeOK'
  <2>1. wsize' \in 0 .. capacityInBytes
    BY <1>1, <1>3 DEF CountersOK, ConfigOK
  <2> QED
    BY <1>2, <2>1 DEF IndInv, TypeOK, config, rvars
<1>6. SetupInv'
  BY <1>2 DEF IndInv, SetupInv, IsPowerOf2, config, rvars
<1>7. CountersInv'
  BY <1>2, <1>4 DEF IndInv, CountersInv, config, rvars
<1>8. WriterInv'
  BY <1>2, <1>3, <1>4 DEF WriterInv, config
<1>9. ReaderInv'
  BY <1>2, <1>4 DEF IndInv, ReaderInv, RCopied, RToEnd, Pos, config, rvars
<1>10. (IsPowerOf2(capacityInUnit) => DataInv)'
  <2>1. WCopied = 0 /\ WCopied' = 0
    BY <1>2 DEF WCopied
  <2> QED
    BY <1>2, <1>4, <2>1 DEF IndInv, DataInv, ReadsInOrder, Pos, IsPowerOf2, config, rvars
<1> QED
  BY <1>5, <1>6, <1>7, <1>8, <1>9, <1>10 DEF IndInv

LEMMA ReadStartPreserves ==
  ASSUME IndInv, NEW cnt \in Counts, ReadStart(cnt)
  PROVE  IndInv'
<1>1. CountersOK
  BY Counters DEF IndInv
<1>2. /\ rpc = "idle" /\ rpc' \in {"idle", "copy"} /\ started
      /\ rhead' = InBytes(head)
      /\ out' = <<>>
      /\ UNCHANGED <<started, config, head, tail, buf, wvars, rcount>>
  BY DEF ReadStart
<1>3. ravailable' \in 0 .. Used /\ ravailable' % bytesScale = 0
  <2>1. PICK n \in 0 .. Used : ravailable' = WholeUnits(n)
    <3>1. cnt \in Int /\ Used \in Nat
      BY <1>1, CppAssumption DEF CountersOK, ConfigOK
    <3>2. ravailable' = Trimmed(Used, cnt)
      BY <1>1 DEF ReadStart, CountersOK
    <3>3. (IF cnt > 0 /\ Used > cnt THEN cnt ELSE Used) \in 0 .. Used
      BY <3>1
    <3> QED
      BY <3>2, <3>3 DEF Trimmed
  <2>2. n \in Nat /\ n <= Used
    BY <1>1 DEF CountersOK
  <2>3. WholeUnits(n) \in 0 .. n /\ WholeUnits(n) % bytesScale = 0
    BY <1>1, <2>2, WholeUnitsIs DEF CountersOK
  <2> QED
    BY <1>1, <2>1, <2>2, <2>3 DEF CountersOK, ConfigOK
<1>4. Used' = Used /\ InBytes(tail)' = InBytes(tail) /\ InBytes(head)' = InBytes(head)
  BY <1>2 DEF Used, U32, InBytes, U64, config
<1>5. TypeOK'
  <2>1. ravailable' \in 0 .. capacityInBytes
    BY <1>1, <1>3 DEF CountersOK, ConfigOK
  <2> QED
    BY <1>2, <2>1 DEF IndInv, TypeOK, config, wvars
<1>6. SetupInv'
  BY <1>2 DEF IndInv, SetupInv, IsPowerOf2, config, wvars
<1>7. CountersInv'
  BY <1>2, <1>4 DEF IndInv, CountersInv, config, wvars
<1>8. WriterInv'
  BY <1>2, <1>4 DEF IndInv, WriterInv, WToEnd, Pos, config, wvars
<1>9. ReaderInv'
  BY <1>2, <1>3, <1>4 DEF ReaderInv, RCopied, config
<1>10. (IsPowerOf2(capacityInUnit) => DataInv)'
  <2>1. WCopied' = WCopied
    BY <1>2 DEF WCopied, WToEnd, Pos, config, wvars
  <2> QED
    BY <1>2, <1>4, <2>1 DEF IndInv, DataInv, ReadsInOrder, Pos, IsPowerOf2, config
<1> QED
  BY <1>5, <1>6, <1>7, <1>8, <1>9, <1>10 DEF IndInv
------------------------------------------------------------------------------
(* write: the memcpys and the store of tail.                               *)

Places == 0 .. capacityInBytes - 1

LEMMA CopiedType ==
  ASSUME ConfigOK, buf \in [Places -> 0 .. Tags], wcount \in Nat,
         NEW from \in Nat, NEW pos \in Nat, NEW len \in Nat
  PROVE  Copied(from, pos, len) \in [Places -> 0 .. Tags]
<1>1. ASSUME NEW p \in Places, p \in pos .. pos + len - 1
      PROVE  (wcount + from + p - pos) % Tags \in 0 .. Tags
  <2>1. wcount + from + p - pos \in Int
    BY <1>1 DEF Places
  <2>2. (wcount + from + p - pos) % Tags \in 0 .. Tags - 1
    BY <2>1, DivMod DEF ConfigOK
  <2> QED
    BY <2>2 DEF ConfigOK
<1> QED
  BY <1>1 DEF Copied

\* From pos on, the places are those of the bytes from the from-th on of a write.
Follow(from, pos, len) ==
  \A j \in 0 .. len - 1 : pos + j = Pos(InBytes(tail) + (from + j))

\* The places from head on hold n bytes in order, in the buffer b.
InOrder(b, n) ==
  \A k \in 0 .. n - 1 : b[Pos(InBytes(head) + k)] = (rcount + k) % Tags

\* A memcpy to the places that follow those of the bytes already there leaves
\* them alone and adds its own.
LEMMA CopiedExtends ==
  ASSUME CountersOK, IsPowerOf2(capacityInUnit), buf \in [Places -> 0 .. Tags],
         rcount \in Nat, wcount = (rcount + Used) % Tags,
         NEW from \in Nat, NEW pos \in Nat, NEW len \in Nat,
         Used + from + len <= capacityInBytes,
         Follow(from, pos, len),
         InOrder(buf, Used + from)
  PROVE  InOrder(Copied(from, pos, len), Used + from + len)
<1> SUFFICES ASSUME NEW k \in 0 .. (Used + from + len) - 1
             PROVE  Copied(from, pos, len)[Pos(InBytes(head) + k)] = (rcount + k) % Tags
  BY Zenon DEF InOrder
<1> DEFINE place(i) == Pos(InBytes(head) + i)
<1>1. ConfigOK /\ InBytes(head) \in Int /\ Used \in Nat
  BY DEF CountersOK, ConfigOK
<1>2. place(k) \in Places
  <2>1. InBytes(head) + k \in Int
    BY <1>1
  <2> QED
    BY <1>1, <2>1, PosType DEF Places
<1>3. \A j \in 0 .. len - 1 : pos + j = place(Used + (from + j))
  <2>1. ASSUME NEW j \in 0 .. len - 1
        PROVE  Pos(InBytes(tail) + (from + j)) = place(Used + (from + j))
    <3>1. from + j \in Int
      OBVIOUS
    <3> QED
      BY <3>1, PosFromHead DEF CountersOK
  <2> QED
    BY <2>1 DEF Follow
<1>4. CASE k < Used + from
  <2>1. ASSUME NEW j \in 0 .. len - 1 PROVE place(k) # pos + j
    <3>1. /\ k < Used + (from + j) /\ Used + (from + j) < k + capacityInBytes
          /\ k \in Int /\ Used + (from + j) \in Int
      BY <1>1, <1>4 DEF ConfigOK
    <3>2. place(k) # place(Used + (from + j))
      BY <1>1, <3>1, PosDistinct
    <3> QED
      BY <1>3, <3>2
  <2>2. place(k) \notin pos .. pos + len - 1
    <3>1. SUFFICES ASSUME place(k) \in pos .. pos + len - 1 PROVE FALSE
      OBVIOUS
    <3>2. PICK p \in pos .. pos + len - 1 : p = place(k)
      BY <3>1
    <3>3. p - pos \in 0 .. len - 1 /\ p = pos + (p - pos)
      OBVIOUS
    <3> QED
      BY <2>1, <3>2, <3>3
  <2>3. k \in 0 .. (Used + from) - 1
    BY <1>1, <1>4
  <2>4. buf[place(k)] = (rcount + k) % Tags
    BY <2>3, Zenon DEF InOrder
  <2> QED
    BY <1>2, <2>2, <2>4 DEF Copied
<1>5. CASE k >= Used + from
  <2>1. PICK j \in 0 .. len - 1 : k = Used + (from + j)
    <3>1. k - (Used + from) \in 0 .. len - 1 /\ k = Used + (from + (k - (Used + from)))
      BY <1>1, <1>5
    <3> QED
      BY <3>1
  <2>2. place(k) = pos + j /\ pos + j \in pos .. pos + len - 1
    BY <1>3, <2>1
  <2>3. Copied(from, pos, len)[pos + j] = (wcount + from + (pos + j) - pos) % Tags
    BY <1>2, <2>2 DEF Copied
  <2>4. wcount \in Int
    BY <1>1, DivMod DEF ConfigOK
  <2>5. wcount + from + (pos + j) - pos = wcount + (from + j)
    BY <2>4
  <2>6. (((rcount + Used) % Tags) + (from + j)) % Tags = ((rcount + Used) + (from + j)) % Tags
    <3>1. rcount + Used \in Int /\ from + j \in Int /\ Tags \in Nat \ {0}
      BY <1>1 DEF ConfigOK
    <3> QED
      BY <3>1, ModAdd, Zenon
  <2>7. (rcount + Used) + (from + j) = rcount + k
    BY <1>1, <2>1
  <2> QED
    BY <2>2, <2>3, <2>5, <2>6, <2>7
<1> QED
  BY <1>1, <1>4, <1>5

\* What IndInv says of the buffer once the threads run.
LEMMA Running ==
  ASSUME IndInv, started
  PROVE  /\ CountersOK
         /\ buf \in [Places -> 0 .. Tags]
         /\ rcount \in Nat /\ wcount \in Nat /\ wcount = (rcount + Used) % Tags
         /\ wsize \in 0 .. capacityInBytes /\ ravailable \in 0 .. capacityInBytes
<1>1. CountersOK
  BY Counters DEF IndInv
<1> QED
  BY <1>1 DEF IndInv, TypeOK, CountersInv, Places

LEMMA WToEndIs ==
  ASSUME ConfigOK, NEW b \in Int, wtail = b, wsize \in Nat
  PROVE  /\ WToEnd \in 0 .. wsize
         /\ Pos(b) + WToEnd <= capacityInBytes
         /\ WToEnd < wsize => WToEnd = capacityInBytes - Pos(b)
<1>1. Pos(b) \in 0 .. capacityInBytes - 1
  BY PosType
<1> QED
  BY <1>1 DEF WToEnd, Smaller, ConfigOK

\* Either memcpy of write adds bytes to those the buffer holds.
LEMMA MemcpyPreserves ==
  ASSUME IndInv, wpc \in {"copy", "wrap"}, wpc' \in {"wrap", "store"},
         wpc' = "wrap" => WToEnd < wsize,
         UNCHANGED <<started, config, head, tail, wtail, wsize, wcount, wavail, rvars>>,
         NEW pos \in Nat, NEW len \in Nat, WCopied \in Nat,
         WCopied + len <= wsize,
         Follow(WCopied, pos, len),
         buf' = Copied(WCopied, pos, len),
         WCopied' = WCopied + len
  PROVE  IndInv'
<1>1. started
  BY DEF IndInv, SetupInv
<1>2. /\ CountersOK /\ ConfigOK /\ buf \in [Places -> 0 .. Tags]
      /\ rcount \in Nat /\ wcount \in Nat /\ wcount = (rcount + Used) % Tags
      /\ wsize \in Nat /\ wtail = InBytes(tail)
      /\ wsize <= capacityInBytes - Used /\ wsize % bytesScale = 0
  BY <1>1, Running DEF IndInv, WriterInv, CountersOK
<1>3. /\ Used' = Used /\ InBytes(tail)' = InBytes(tail) /\ InBytes(head)' = InBytes(head)
      /\ WToEnd' = WToEnd
  BY DEF Used, U32, InBytes, U64, WToEnd, Pos, config
<1>4. TypeOK'
  <2>1. Copied(WCopied, pos, len) \in [Places -> 0 .. Tags]
    BY <1>2, CopiedType
  <2> QED
    BY <1>1, <2>1 DEF IndInv, TypeOK, Places, config, rvars
<1>5. SetupInv'
  BY <1>1 DEF IndInv, SetupInv, IsPowerOf2, config, rvars
<1>6. CountersInv'
  BY <1>3 DEF IndInv, CountersInv, config, rvars
<1>7. WriterInv'
  BY <1>2, <1>3 DEF WriterInv, config
<1>8. ReaderInv'
  BY <1>3 DEF IndInv, ReaderInv, RCopied, RToEnd, Pos, config, rvars
<1>9. (IsPowerOf2(capacityInUnit) => DataInv)'
  <2>1. SUFFICES ASSUME IsPowerOf2(capacityInUnit) PROVE DataInv'
    BY DEF IsPowerOf2, config
  <2>2. InOrder(buf, Used + WCopied)
    <3>1. Used + WCopied - 1 = (Used + WCopied) - 1
      BY <1>2 DEF CountersOK, ConfigOK
    <3> QED
      BY <1>1, <2>1, <3>1, Zenon DEF IndInv, DataInv, InOrder
  <2>3. Used + WCopied + len <= capacityInBytes /\ Used \in Nat
    BY <1>2 DEF CountersOK, ConfigOK
  <2>4. InOrder(Copied(WCopied, pos, len), Used + WCopied + len)
    BY <1>2, <2>1, <2>2, <2>3, CopiedExtends
  <2>5. Used' + WCopied' - 1 = (Used + WCopied + len) - 1
    BY <1>3, <2>3
  <2>6. ASSUME NEW k \in 0 .. (Used + WCopied + len) - 1
        PROVE  buf'[Pos(InBytes(head) + k)'] = (rcount' + k) % Tags
    <3>1. Copied(WCopied, pos, len)[Pos(InBytes(head) + k)] = (rcount + k) % Tags
      BY <2>4, Zenon DEF InOrder
    <3> QED
      BY <1>3, <3>1 DEF Pos, config, rvars
  <2> QED
    BY <1>1, <2>1, <2>5, <2>6 DEF IndInv, DataInv, ReadsInOrder, rvars
<1> QED
  BY <1>4, <1>5, <1>6, <1>7, <1>8, <1>9 DEF IndInv

\* The first one goes up to the end of the buffer at most.
LEMMA WriteCopyPreserves ==
  ASSUME IndInv, WriteCopy
  PROVE  IndInv'
<1>1. /\ wpc = "copy" /\ started
      /\ wpc' = (IF WToEnd < wsize THEN "wrap" ELSE "store")
      /\ buf' = Copied(0, Pos(wtail), WToEnd)
      /\ UNCHANGED <<started, config, head, tail, wtail, wsize, wcount, wavail, rvars>>
  BY DEF WriteCopy, IndInv, SetupInv
<1>2. /\ ConfigOK /\ wsize \in Nat /\ wtail = InBytes(tail) /\ wtail \in Nat
  BY <1>1, Running DEF IndInv, WriterInv, CountersOK
<1>3. /\ WToEnd \in 0 .. wsize /\ Pos(wtail) + WToEnd <= capacityInBytes
      /\ Pos(wtail) \in Nat /\ WToEnd \in Nat
  <2>1. Pos(wtail) \in 0 .. capacityInBytes - 1
    BY <1>2, PosType
  <2>2. WToEnd \in 0 .. wsize /\ Pos(wtail) + WToEnd <= capacityInBytes
    BY <1>2, WToEndIs
  <2> QED
    BY <1>2, <2>1, <2>2
<1>4. WToEnd' = WToEnd
  BY <1>1 DEF WToEnd, Pos, config
<1>5. WCopied = 0 /\ WCopied + WToEnd = WToEnd
  BY <1>1, <1>3 DEF WCopied
<1>6. WCopied' = WToEnd
  <2>1. WToEnd = wsize \/ WToEnd < wsize
    BY <1>2, <1>3
  <2> QED
    BY <1>1, <1>2, <1>3, <1>4, <2>1 DEF WCopied
<1>7. Follow(0, Pos(wtail), WToEnd)
  <2>1. ASSUME NEW j \in 0 .. WToEnd - 1
        PROVE  Pos(wtail) + j = Pos(InBytes(tail) + (0 + j))
    <3>1. j \in Nat /\ Pos(wtail) + j < capacityInBytes /\ 0 + j = j
      BY <1>2, <1>3 DEF ConfigOK
    <3> QED
      BY <1>2, <3>1, PosBeforeEnd
  <2> QED
    BY <2>1 DEF Follow
<1> QED
  BY <1>1, <1>2, <1>3, <1>5, <1>6, <1>7, MemcpyPreserves

\* The second one goes on from the start of the buffer.
LEMMA WriteWrapPreserves ==
  ASSUME IndInv, WriteWrap
  PROVE  IndInv'
<1>1. /\ wpc = "wrap" /\ wpc' = "store" /\ started
      /\ buf' = Copied(WToEnd, 0, wsize - WToEnd)
      /\ UNCHANGED <<started, config, head, tail, wtail, wsize, wcount, wavail, rvars>>
  BY DEF WriteWrap, IndInv, SetupInv
<1>2. /\ ConfigOK /\ wtail = InBytes(tail) /\ wtail \in Nat
      /\ wsize \in 0 .. capacityInBytes /\ wsize \in Nat /\ WToEnd < wsize
  BY <1>1, Running DEF IndInv, WriterInv, CountersOK
<1>3. /\ WToEnd \in 0 .. wsize /\ WToEnd = capacityInBytes - Pos(wtail)
      /\ wsize - WToEnd \in Nat /\ WToEnd \in Nat
  <2>1. WToEnd \in 0 .. wsize /\ WToEnd = capacityInBytes - Pos(wtail)
    BY <1>2, WToEndIs
  <2> QED
    BY <1>2, <2>1
<1>4. /\ WCopied = WToEnd /\ WCopied' = wsize
      /\ WCopied + (wsize - WToEnd) = wsize
  BY <1>1, <1>2, <1>3 DEF WCopied
<1>5. Follow(WToEnd, 0, wsize - WToEnd)
  <2>1. ASSUME NEW j \in 0 .. (wsize - WToEnd) - 1
        PROVE  0 + j = Pos(InBytes(tail) + (WToEnd + j))
    <3>1. j \in 0 .. capacityInBytes - 1 /\ 0 + j = j
      BY <1>2, <1>3 DEF ConfigOK
    <3>2. Pos(wtail + ((capacityInBytes - Pos(wtail)) + j)) = j
      BY <1>2, <3>1, PosAfterEnd
    <3> QED
      BY <1>2, <1>3, <3>1, <3>2
  <2> QED
    BY <2>1, Zenon DEF Follow
<1>6. wpc \in {"copy", "wrap"} /\ wpc' \in {"wrap", "store"} /\ wpc' # "wrap"
  BY <1>1
<1>7. wsize <= wsize /\ 0 \in Nat
  BY <1>2
<1> QED
  BY <1>1, <1>3, <1>4, <1>5, <1>6, <1>7, MemcpyPreserves

\* The store of tail makes them readable.
LEMMA WriteStorePreserves ==
  ASSUME IndInv, WriteStore
  PROVE  IndInv'
<1>1. /\ wpc = "store" /\ wpc' = "idle" /\ started
      /\ tail' = InUnits(wtail + wsize)
      /\ wcount' = (wcount + wsize) % Tags
      /\ wavail' = 0
      /\ UNCHANGED <<started, config, head, buf, wtail, wsize, rvars>>
  BY DEF WriteStore, IndInv, SetupInv
<1>2. /\ CountersOK /\ ConfigOK
      /\ rcount \in Nat /\ wcount \in Nat /\ wcount = (rcount + Used) % Tags
      /\ wsize \in Nat /\ wtail = InBytes(tail)
      /\ wsize <= capacityInBytes - Used /\ wsize % bytesScale = 0
      /\ Used \in Nat /\ capacityInBytes \in Nat
  BY <1>1, Running DEF IndInv, WriterInv, CountersOK, ConfigOK
<1>3. tail' \in 0 .. Values32 - 1 /\ Between(head, tail') * bytesScale = Used + wsize
  BY <1>1, <1>2, TailStored
<1>4. Used' = Used + wsize /\ InBytes(head)' = InBytes(head)
  BY <1>1, <1>3 DEF Used, Between, U32, InBytes, U64, config
<1>5. TypeOK'
  <2>1. wcount' \in 0 .. Tags - 1
    <3>1. wcount + wsize \in Int
      BY <1>2
    <3> QED
      BY <1>1, <1>2, <3>1, DivMod DEF ConfigOK
  <2>2. wavail' \in 0 .. capacityInBytes
    BY <1>1, <1>2
  <2> QED
    BY <1>1, <1>3, <2>1, <2>2 DEF IndInv, TypeOK, config, rvars
<1>6. SetupInv'
  BY <1>1 DEF IndInv, SetupInv, IsPowerOf2, config, rvars
<1>7. CountersInv'
  <2>1. Used + wsize <= capacityInBytes /\ 0 <= capacityInBytes - (Used + wsize)
    BY <1>2
  <2>2. (((rcount + Used) % Tags) + wsize) % Tags = ((rcount + Used) + wsize) % Tags
    <3>1. rcount + Used \in Int /\ wsize \in Int /\ Tags \in Nat \ {0}
      BY <1>2 DEF ConfigOK
    <3> QED
      BY <3>1, ModAdd, Zenon
  <2>3. (rcount + Used) + wsize = rcount + (Used + wsize)
    BY <1>2
  <2> QED
    BY <1>1, <1>2, <1>4, <2>1, <2>2, <2>3 DEF CountersInv, config, rvars
<1>8. WriterInv'
  BY <1>1 DEF WriterInv
<1>9. ReaderInv'
  <2>1. rpc # "idle" => ravailable <= Used + wsize
    <3>1. ravailable \in 0 .. capacityInBytes
      BY <1>1, Running
    <3> QED
      BY <1>2, <3>1 DEF IndInv, ReaderInv
  <2> QED
    BY <1>1, <1>4, <2>1 DEF IndInv, ReaderInv, RCopied, RToEnd, Pos, config, rvars
<1>10. (IsPowerOf2(capacityInUnit) => DataInv)'
  <2>1. WCopied = wsize /\ WCopied' = 0
    BY <1>1 DEF WCopied
  <2>2. Used' + WCopied' - 1 = Used + WCopied - 1
    BY <1>2, <1>4, <2>1
  <2> QED
    BY <1>1, <1>4, <2>2 DEF IndInv, DataInv, ReadsInOrder, Pos, IsPowerOf2, config, rvars
<1> QED
  BY <1>5, <1>6, <1>7, <1>8, <1>9, <1>10 DEF IndInv
------------------------------------------------------------------------------
(* read: the memcpys and the store of head.                                *)

LEMMA RToEndIs ==
  ASSUME ConfigOK, NEW b \in Int, rhead = b, ravailable \in Nat
  PROVE  /\ RToEnd \in 0 .. ravailable
         /\ Pos(b) + RToEnd <= capacityInBytes
         /\ RToEnd < ravailable => RToEnd = capacityInBytes - Pos(b)
<1>1. Pos(b) \in 0 .. capacityInBytes - 1
  BY PosType
<1> QED
  BY <1>1 DEF RToEnd, Smaller, ConfigOK

LEMMA BytesType ==
  ASSUME ConfigOK, buf \in [Places -> 0 .. Tags], NEW pos \in Nat, NEW len \in Nat,
         pos + len <= capacityInBytes
  PROVE  /\ Bytes(pos, len) \in Seq(0 .. Tags) /\ Len(Bytes(pos, len)) = len
         /\ \A i \in 1 .. len : Bytes(pos, len)[i] = buf[pos + i - 1]
<1>1. \A i \in 1 .. len : buf[pos + i - 1] \in 0 .. Tags
  <2>1. \A i \in 1 .. len : pos + i - 1 \in Places
    BY DEF Places, ConfigOK
  <2> QED
    BY <2>1
<1>2. /\ Bytes(pos, len) \in [1 .. len -> 0 .. Tags]
      /\ \A i \in 1 .. len : Bytes(pos, len)[i] = buf[pos + i - 1]
  BY <1>1 DEF Bytes
<1>3. Bytes(pos, len) \in Seq(0 .. Tags)
  BY <1>2, SeqDef
<1>4. Len(Bytes(pos, len)) = len
  BY <1>2, <1>3, LenProperties
<1> QED
  BY <1>2, <1>3, <1>4, ZenonT(40)

\* Either memcpy of read adds bytes to those it has copied.
LEMMA ReadMemcpyPreserves ==
  ASSUME IndInv, rpc \in {"copy", "wrap"}, rpc' \in {"wrap", "store"},
         rpc' = "wrap" => RToEnd < ravailable,
         UNCHANGED <<started, config, head, tail, buf, wvars, rhead, ravailable, rcount>>,
         out' \in Seq(0 .. Tags), Len(out') = RCopied',
         IsPowerOf2(capacityInUnit) => ReadsInOrder'
  PROVE  IndInv'
<1>1. started
  BY DEF IndInv, SetupInv
<1>2. Used' = Used /\ InBytes(tail)' = InBytes(tail) /\ InBytes(head)' = InBytes(head)
  BY DEF Used, U32, InBytes, U64, config
<1>3. TypeOK'
  BY <1>1 DEF IndInv, TypeOK, config, wvars
<1>4. SetupInv'
  BY <1>1 DEF IndInv, SetupInv, IsPowerOf2, config, wvars
<1>5. CountersInv'
  BY <1>2 DEF IndInv, CountersInv, config, wvars
<1>6. WriterInv'
  BY <1>2 DEF IndInv, WriterInv, WToEnd, Pos, config, wvars
<1>7. ReaderInv'
  <2>1. RToEnd' = RToEnd
    BY DEF RToEnd, Pos, config
  <2> QED
    BY <1>2, <2>1 DEF IndInv, ReaderInv, config
<1>8. (IsPowerOf2(capacityInUnit) => DataInv)'
  <2>1. WCopied' = WCopied
    BY DEF WCopied, WToEnd, Pos, config, wvars
  <2> QED
    BY <1>2, <2>1 DEF IndInv, DataInv, Pos, IsPowerOf2, config
<1> QED
  BY <1>3, <1>4, <1>5, <1>6, <1>7, <1>8 DEF IndInv

\* What the buffer holds from head on, while a read is under way.
LEMMA Readable ==
  ASSUME IndInv, IsPowerOf2(capacityInUnit), rpc # "idle", NEW k \in 0 .. ravailable - 1
  PROVE  buf[Pos(InBytes(head) + k)] = (rcount + k) % Tags
<1>1. started
  BY DEF IndInv, SetupInv
<1>2. /\ CountersOK /\ ConfigOK /\ ravailable \in Nat /\ ravailable <= Used /\ Used \in Nat
      /\ wsize \in Nat
  BY <1>1, Running DEF IndInv, ReaderInv, CountersOK, ConfigOK
<1>3. WCopied \in Nat
  <2>1. wpc # "idle" => WToEnd \in Nat
    <3>1. wpc # "idle" => wtail = InBytes(tail) /\ InBytes(tail) \in Int
      BY <1>2 DEF IndInv, WriterInv, CountersOK
    <3> QED
      BY <1>2, <3>1, WToEndIs
  <2> QED
    BY <1>2, <2>1 DEF WCopied
<1>4. k \in 0 .. Used + WCopied - 1
  BY <1>2, <1>3
<1> QED
  BY <1>1, <1>4 DEF IndInv, DataInv

LEMMA ReadCopyPreserves ==
  ASSUME IndInv, ReadCopy
  PROVE  IndInv'
<1>1. /\ rpc = "copy" /\ started
      /\ rpc' = (IF RToEnd < ravailable THEN "wrap" ELSE "store")
      /\ out' = Bytes(Pos(rhead), RToEnd)
      /\ UNCHANGED <<started, config, head, tail, buf, wvars, rhead, ravailable, rcount>>
  BY DEF ReadCopy, IndInv, SetupInv
<1>2. /\ ConfigOK /\ ravailable \in Nat /\ rhead = InBytes(head) /\ rhead \in Nat
      /\ buf \in [Places -> 0 .. Tags]
  BY <1>1, Running DEF IndInv, ReaderInv, CountersOK
<1>3. /\ RToEnd \in 0 .. ravailable /\ Pos(rhead) + RToEnd <= capacityInBytes
      /\ Pos(rhead) \in Nat /\ RToEnd \in Nat
  <2>1. Pos(rhead) \in 0 .. capacityInBytes - 1
    BY <1>2, PosType
  <2>2. RToEnd \in 0 .. ravailable /\ Pos(rhead) + RToEnd <= capacityInBytes
    BY <1>2, RToEndIs
  <2> QED
    BY <1>2, <2>1, <2>2
<1>4. RCopied' = RToEnd
  <2>1. RToEnd' = RToEnd
    BY <1>1 DEF RToEnd, Pos, config
  <2>2. RToEnd = ravailable \/ RToEnd < ravailable
    BY <1>2, <1>3
  <2> QED
    BY <1>1, <1>2, <1>3, <2>1, <2>2 DEF RCopied
<1>5. /\ out' \in Seq(0 .. Tags) /\ Len(out') = RToEnd
      /\ \A i \in 1 .. RToEnd : out'[i] = buf[Pos(rhead) + i - 1]
  BY <1>1, <1>2, <1>3, BytesType
<1>6. ASSUME IsPowerOf2(capacityInUnit)
      PROVE  ReadsInOrder'
  <2>1. ASSUME NEW i \in 1 .. RToEnd PROVE out'[i] = (rcount + i - 1) % Tags
    <3>1. PICK k \in 0 .. RToEnd - 1 : k = i - 1
      BY <1>3
    <3>2. k \in Nat /\ k \in 0 .. ravailable - 1 /\ Pos(rhead) + k < capacityInBytes
      BY <1>2, <1>3, <3>1 DEF ConfigOK
    <3>3. Pos(rhead + k) = Pos(rhead) + k
      BY <1>2, <3>2, PosBeforeEnd
    <3>4. buf[Pos(rhead + k)] = (rcount + k) % Tags
      BY <1>1, <1>2, <1>6, <3>2, Readable
    <3>5. Pos(rhead) + i - 1 = Pos(rhead) + k /\ rcount + i - 1 = rcount + k
      BY <1>2, <1>3, <3>1
    <3> QED
      BY <1>5, <3>3, <3>4, <3>5
  <2> QED
    BY <1>1, <1>5, <2>1 DEF ReadsInOrder
<1> QED
  BY <1>1, <1>3, <1>4, <1>5, <1>6, ReadMemcpyPreserves

(* The k-th item of the second part of a concatenation.                    *)
LEMMA Appended ==
  ASSUME NEW S, NEW s \in Seq(S), NEW t \in Seq(S), NEW k \in 1 .. Len(t)
  PROVE  (s \o t)[Len(s) + k] = t[k]
<1>1. /\ Len(s \o t) = Len(s) + Len(t) /\ Len(s) \in Nat /\ Len(t) \in Nat
      /\ \A i \in 1 .. Len(s) + Len(t) :
           (s \o t)[i] = IF i <= Len(s) THEN s[i] ELSE t[i - Len(s)]
  BY ConcatProperties, LenProperties
<1>2. Len(s) + k \in 1 .. Len(s) + Len(t) /\ ~ (Len(s) + k <= Len(s))
      /\ (Len(s) + k) - Len(s) = k
  BY <1>1
<1> QED
  BY <1>1, <1>2

LEMMA ReadWrapPreserves ==
  ASSUME IndInv, ReadWrap
  PROVE  IndInv'
<1> DEFINE more == Bytes(0, ravailable - RToEnd)
<1>1. /\ rpc = "wrap" /\ rpc' = "store" /\ started
      /\ out' = out \o more
      /\ UNCHANGED <<started, config, head, tail, buf, wvars, rhead, ravailable, rcount>>
  BY DEF ReadWrap, IndInv, SetupInv
<1>2. /\ ConfigOK /\ rhead = InBytes(head) /\ rhead \in Nat
      /\ ravailable \in 0 .. capacityInBytes /\ ravailable \in Nat
      /\ RToEnd < ravailable /\ buf \in [Places -> 0 .. Tags]
      /\ out \in Seq(0 .. Tags) /\ Len(out) = RToEnd
  BY <1>1, Running DEF IndInv, ReaderInv, CountersOK, RCopied
<1>3. /\ RToEnd = capacityInBytes - Pos(rhead)
      /\ ravailable - RToEnd \in Nat /\ RToEnd \in Nat
      /\ 0 + (ravailable - RToEnd) <= capacityInBytes
  <2>1. RToEnd \in 0 .. ravailable /\ RToEnd = capacityInBytes - Pos(rhead)
    BY <1>2, RToEndIs
  <2> QED
    BY <1>2, <2>1 DEF ConfigOK
<1>4. /\ more \in Seq(0 .. Tags) /\ Len(more) = ravailable - RToEnd
      /\ \A i \in 1 .. ravailable - RToEnd : more[i] = buf[0 + i - 1]
  BY <1>2, <1>3, BytesType
<1> HIDE DEF more
<1>5. RCopied' = ravailable
  BY <1>1 DEF RCopied
<1>6. out' \in Seq(0 .. Tags) /\ Len(out') = ravailable
  <2>1. out \o more \in Seq(0 .. Tags) /\ Len(out \o more) = Len(out) + Len(more)
    BY <1>2, <1>4, ConcatProperties
  <2>2. RToEnd + (ravailable - RToEnd) = ravailable
    BY <1>2, <1>3
  <2> QED
    BY <1>1, <1>2, <1>4, <2>1, <2>2
<1>7. ASSUME IsPowerOf2(capacityInUnit)
      PROVE  ReadsInOrder'
  <2>1. ASSUME NEW i \in 1 .. ravailable PROVE out'[i] = (rcount + i - 1) % Tags
    <3>1. CASE i <= RToEnd
      <4>1. out'[i] = out[i] /\ i \in 1 .. Len(out)
        BY <1>1, <1>2, <1>3, <1>4, <3>1
      <4> QED
        BY <1>7, <4>1 DEF IndInv, DataInv, ReadsInOrder
    <3>2. CASE i > RToEnd
      <4>1. PICK j \in 1 .. ravailable - RToEnd : i = RToEnd + j
        <5>1. i - RToEnd \in 1 .. ravailable - RToEnd /\ i = RToEnd + (i - RToEnd)
          BY <1>2, <1>3, <3>2
        <5> QED
          BY <5>1
      <4>2. out'[i] = more[j]
        <5>1. j \in 1 .. Len(more) /\ i = Len(out) + j
          BY <1>2, <1>4, <4>1
        <5>2. (out \o more)[Len(out) + j] = more[j]
          BY <1>2, <1>4, <5>1, Appended
        <5> QED
          BY <1>1, <5>1, <5>2
      <4>3. PICK k \in 0 .. capacityInBytes - 1 : k = j - 1
        BY <1>2, <1>3 DEF ConfigOK
      <4>4. Pos(rhead + ((capacityInBytes - Pos(rhead)) + k)) = k
        BY <1>2, PosAfterEnd
      <4>5. RToEnd + k \in 0 .. ravailable - 1
        <5>1. /\ RToEnd \in Nat /\ ravailable \in Nat /\ j \in Nat /\ j >= 1
              /\ j <= ravailable - RToEnd
          BY <1>2, <1>3, <4>1
        <5>2. k \in Nat /\ k = j - 1
          BY <4>3, <5>1
        <5> HIDE DEF more
        <5> QED
          BY <5>1, <5>2
      <4>6. buf[Pos(InBytes(head) + (RToEnd + k))] = (rcount + (RToEnd + k)) % Tags
        BY <1>1, <1>7, <4>5, Readable
      <4>7. 0 + j - 1 = k /\ rcount + i - 1 = rcount + (RToEnd + k)
        <5>1. RToEnd \in Nat /\ j \in Nat /\ i - 1 = RToEnd + k
          BY <1>3, <4>1, <4>3
        <5> QED
          BY <4>3, <5>1
      <4> QED
        BY <1>2, <1>3, <1>4, <4>2, <4>4, <4>6, <4>7
    <3> QED
      BY <1>3, <3>1, <3>2
  <2> QED
    BY <1>1, <1>6, <2>1 DEF ReadsInOrder
<1>8. rpc \in {"copy", "wrap"} /\ rpc' \in {"wrap", "store"} /\ rpc' # "wrap"
  BY <1>1
<1> QED
  BY <1>1, <1>5, <1>6, <1>7, <1>8, ReadMemcpyPreserves

\* The store of head gives the places back.
LEMMA ReadStorePreserves ==
  ASSUME IndInv, ReadStore
  PROVE  IndInv'
<1>1. /\ rpc = "store" /\ rpc' = "idle" /\ started
      /\ head' = InUnits(rhead + ravailable)
      /\ rcount' = (rcount + ravailable) % Tags
      /\ out' = <<>>
      /\ UNCHANGED <<started, config, tail, buf, wvars, rhead, ravailable>>
  BY DEF ReadStore, IndInv, SetupInv
<1>2. /\ CountersOK /\ ConfigOK
      /\ rcount \in Nat /\ wcount = (rcount + Used) % Tags
      /\ ravailable \in Nat /\ rhead = InBytes(head)
      /\ ravailable <= Used /\ ravailable % bytesScale = 0
      /\ Used \in Nat /\ Used <= capacityInBytes /\ capacityInBytes \in Nat
      /\ wsize \in Nat
  BY <1>1, Running DEF IndInv, ReaderInv, CountersOK, ConfigOK
<1>3. head' \in 0 .. Values32 - 1 /\ Between(head', tail) * bytesScale = Used - ravailable
  BY <1>1, <1>2, HeadStored
<1>4. Used' = Used - ravailable /\ InBytes(tail)' = InBytes(tail)
  BY <1>1, <1>3 DEF Used, Between, U32, InBytes, U64, config
<1>5. TypeOK'
  <2>1. rcount' \in 0 .. Tags - 1
    <3>1. rcount + ravailable \in Int
      BY <1>2
    <3> QED
      BY <1>1, <1>2, <3>1, DivMod DEF ConfigOK
  <2> QED
    BY <1>1, <1>3, <2>1 DEF IndInv, TypeOK, config, wvars
<1>6. SetupInv'
  BY <1>1 DEF IndInv, SetupInv, IsPowerOf2, config, wvars
<1>7. CountersInv'
  <2>1. wavail <= capacityInBytes - (Used - ravailable)
    <3>1. wavail \in Nat /\ wavail <= capacityInBytes - Used
      BY DEF IndInv, TypeOK, CountersInv
    <3> QED
      BY <1>2, <3>1
  <2>2. (((rcount + ravailable) % Tags) + (Used - ravailable)) % Tags
           = ((rcount + ravailable) + (Used - ravailable)) % Tags
    <3>1. rcount + ravailable \in Int /\ Used - ravailable \in Int /\ Tags \in Nat \ {0}
      BY <1>2 DEF ConfigOK
    <3> QED
      BY <3>1, ModAdd, Zenon
  <2>3. /\ (rcount + ravailable) + (Used - ravailable) = rcount + Used
        /\ Used - ravailable <= capacityInBytes
    BY <1>2
  <2> QED
    BY <1>1, <1>2, <1>4, <2>1, <2>2, <2>3 DEF CountersInv, config, wvars
<1>8. WriterInv'
  <2>1. wpc # "idle" => wsize <= capacityInBytes - (Used - ravailable)
    BY <1>2 DEF IndInv, WriterInv
  <2> QED
    BY <1>1, <1>4, <2>1 DEF IndInv, WriterInv, WToEnd, Pos, config, wvars
<1>9. ReaderInv'
  BY <1>1 DEF ReaderInv, RCopied
<1>10. (IsPowerOf2(capacityInUnit) => DataInv)'
  <2>1. SUFFICES ASSUME IsPowerOf2(capacityInUnit) PROVE DataInv'
    BY <1>1 DEF IsPowerOf2, config
  <2>2. WCopied' = WCopied
    BY <1>1 DEF WCopied, WToEnd, Pos, config, wvars
  <2>3. WCopied \in Nat
    <3>1. wpc # "idle" => WToEnd \in Nat
      <4>1. wpc # "idle" => wtail = InBytes(tail) /\ InBytes(tail) \in Int
        BY <1>2 DEF IndInv, WriterInv, CountersOK
      <4> QED
        BY <1>2, <4>1, WToEndIs
    <3> QED
      BY <1>2, <3>1 DEF WCopied
  <2>4. ASSUME NEW k \in 0 .. (Used - ravailable) + WCopied - 1
        PROVE  buf[Pos(InBytes(head') + k)] = (rcount' + k) % Tags
    <3>1. k \in Int /\ ravailable + k \in 0 .. Used + WCopied - 1
      BY <1>2, <2>3
    <3>2. Pos(InBytes(head') + k) = Pos(InBytes(head) + (ravailable + k))
      BY <1>1, <1>2, <2>1, <3>1, HeadStored
    <3>3. buf[Pos(InBytes(head) + (ravailable + k))] = (rcount + (ravailable + k)) % Tags
      BY <1>1, <2>1, <3>1 DEF IndInv, DataInv
    <3>4. (((rcount + ravailable) % Tags) + k) % Tags = ((rcount + ravailable) + k) % Tags
      <4>1. rcount + ravailable \in Int /\ Tags \in Nat \ {0}
        BY <1>2 DEF ConfigOK
      <4> QED
        BY <3>1, <4>1, ModAdd, Zenon
    <3>5. (rcount + ravailable) + k = rcount + (ravailable + k)
      BY <1>2, <3>1
    <3> QED
      BY <1>1, <3>2, <3>3, <3>4, <3>5
  <2>5. \A k : (Pos(InBytes(head) + k))' = Pos(InBytes(head') + k)
    BY <1>1 DEF Pos, InBytes, U64, config
  <2> QED
    BY <1>1, <1>4, <2>2, <2>4, <2>5 DEF DataInv, ReadsInOrder
<1> QED
  BY <1>5, <1>6, <1>7, <1>8, <1>9, <1>10 DEF IndInv
------------------------------------------------------------------------------
(* The theorems.                                                           *)

(* The inductive invariant holds in every state.                           *)
THEOREM Invariance == Spec => []IndInv
<1>1. Init => IndInv
  BY InitInv
<1>2. IndInv /\ [Next]_vars => IndInv'
  <2>1. SUFFICES ASSUME IndInv, [Next]_vars PROVE IndInv'
    OBVIOUS
  <2>2. CASE UNCHANGED vars
    BY <2>1, <2>2, SMTT(30) DEF vars, config, wvars, rvars, IndInv, TypeOK, SetupInv, CountersInv,
         WriterInv, ReaderInv, DataInv, ReadsInOrder, Used, WCopied, RCopied, WToEnd,
         RToEnd, Pos, InBytes, U32, U64, IsPowerOf2
  <2>3. CASE Setup
    <3>1. ASSUME NEW val \in Capacities, SetCapacityInUnit(val) PROVE IndInv'
      BY <2>1, <3>1, SetCapacityPreserves
    <3>2. ASSUME NEW val \in Scales, SetBytesScale(val) PROVE IndInv'
      BY <2>1, <3>2, SetScalePreserves
    <3>3. CASE SetAddresses
      BY <2>1, <3>3, SetAddressesPreserves
    <3> QED
      BY <2>3, <3>1, <3>2, <3>3 DEF Setup
  <2>4. CASE Writer
    <3>1. ASSUME NEW size \in WriteSizes, WriteStart(size) PROVE IndInv'
      BY <2>1, <3>1, WriteStartPreserves
    <3>2. CASE WriteCopy
      BY <2>1, <3>2, WriteCopyPreserves
    <3>3. CASE WriteWrap
      BY <2>1, <3>3, WriteWrapPreserves
    <3>4. CASE WriteStore
      BY <2>1, <3>4, WriteStorePreserves
    <3>5. CASE AskWriteAvailable
      BY <2>1, <3>5, AskPreserves
    <3> QED
      BY <2>4, <3>1, <3>2, <3>3, <3>4, <3>5 DEF Writer
  <2>5. CASE Reader
    <3>1. ASSUME NEW cnt \in Counts, ReadStart(cnt) PROVE IndInv'
      BY <2>1, <3>1, ReadStartPreserves
    <3>2. CASE ReadCopy
      BY <2>1, <3>2, ReadCopyPreserves
    <3>3. CASE ReadWrap
      BY <2>1, <3>3, ReadWrapPreserves
    <3>4. CASE ReadStore
      BY <2>1, <3>4, ReadStorePreserves
    <3> QED
      BY <2>5, <3>1, <3>2, <3>3, <3>4 DEF Reader
  <2> QED
    BY <2>1, <2>2, <2>3, <2>4, <2>5 DEF Next
<1> QED
  BY <1>1, <1>2, PTL DEF Spec

(* Types: the counters stay 32-bit, and no size exceeds the capacity.      *)
THEOREM TypeCorrect == Spec => []TypeOK
<1>1. IndInv => TypeOK
  BY DEF IndInv
<1> QED
  BY <1>1, Invariance, PTL

(* What write_available_inbytes answered the producer stays true until it  *)
(* writes: for every capacity, wherever the counters wrap.                 *)
THEOREM RoomKept == Spec => []RoomStays
<1>1. IndInv => RoomStays
  BY Counters DEF IndInv, CountersInv, CountersOK, RoomStays
<1> QED
  BY <1>1, Invariance, PTL

(* With a capacity that is a power of two, which is what set_capacity_inunit *)
(* insists on, read hands out the bytes that write was given, in order.    *)
THEOREM InOrderReads == Spec => [](IsPowerOf2(capacityInUnit) => ReadsInOrder)
<1>1. IndInv => (IsPowerOf2(capacityInUnit) => ReadsInOrder)
  BY DEF IndInv, DataInv
<1> QED
  BY <1>1, Invariance, PTL

(* With such a capacity, the memcpys of a write and of a read that run at  *)
(* the same time touch different bytes.                                    *)
THEOREM CopiesDisjoint == Spec => [](IsPowerOf2(capacityInUnit) => DisjointCopies)
<1>1. ASSUME IndInv, IsPowerOf2(capacityInUnit) PROVE DisjointCopies
  <2>1. SUFFICES ASSUME wpc \in {"copy", "wrap"}, rpc \in {"copy", "wrap"},
                        NEW k \in 0 .. wsize - 1, NEW j \in 0 .. ravailable - 1
                 PROVE  Pos(wtail + k) # Pos(rhead + j)
    BY DEF DisjointCopies, RangeAt
  <2>2. started
    BY <1>1, <2>1 DEF IndInv, SetupInv
  <2>3. /\ CountersOK /\ ConfigOK /\ InBytes(head) \in Int /\ InBytes(tail) \in Int
        /\ wtail = InBytes(tail) /\ wsize <= capacityInBytes - Used /\ wsize \in Nat
        /\ rhead = InBytes(head) /\ ravailable <= Used /\ ravailable \in Nat
        /\ Used \in Nat /\ capacityInBytes \in Nat
    <3>1. CountersOK /\ wsize \in Nat /\ ravailable \in Nat
      BY <1>1, <2>2, Running
    <3>2. /\ wtail = InBytes(tail) /\ wsize <= capacityInBytes - Used
          /\ rhead = InBytes(head) /\ ravailable <= Used
      BY <1>1, <2>1 DEF IndInv, WriterInv, ReaderInv
    <3> QED
      BY <3>1, <3>2 DEF CountersOK, ConfigOK
  <2>4. Pos(InBytes(tail) + k) = Pos(InBytes(head) + (Used + k))
    <3>1. k \in Int
      OBVIOUS
    <3> QED
      BY <1>1, <2>3, <3>1, PosFromHead DEF CountersOK
  <2>5. /\ j < Used + k /\ Used + k < j + capacityInBytes
        /\ j \in Int /\ Used + k \in Int
    BY <2>3
  <2>6. Pos(InBytes(head) + j) # Pos(InBytes(head) + (Used + k))
    BY <2>3, <2>5, PosDistinct
  <2> QED
    BY <2>3, <2>4, <2>6
<1> QED
  BY <1>1, Invariance, PTL

(* So a Max_Count that is a power of two is all the buffer asks for: then  *)
(* no call of the configuration can lose a byte or make the memcpys meet.  *)
THEOREM DefaultCapacity ==
  IsPowerOf2(MaxCount) => (Spec => [](ReadsInOrder /\ DisjointCopies))
<1> SUFFICES ASSUME IsPowerOf2(MaxCount)
             PROVE  Spec => [](ReadsInOrder /\ DisjointCopies)
  OBVIOUS
<1>1. IndInv => IsPowerOf2(capacityInUnit)
  BY DEF IndInv, SetupInv
<1> QED
  BY <1>1, Invariance, InOrderReads, CopiesDisjoint, PTL
==============================================================================
