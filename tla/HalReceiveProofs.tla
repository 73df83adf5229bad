-------------------------- MODULE HalReceiveProofs --------------------------
(* Proofs about HalReceive, for any size of the ring and any packets.        *)
EXTENDS HalReceive, SequenceTheorems, WellFoundedInduction, TLAPS

-----------------------------------------------------------------------------
(* Remainders *)

LEMMA Remainder ==
  ASSUME NEW m \in Nat \ {0}, NEW a \in Int
  PROVE  a % m \in 0 .. m - 1 /\ a \div m \in Int /\ a = m * (a \div m) + (a % m)
OBVIOUS

LEMMA RemainderIs ==
  ASSUME NEW m \in Nat \ {0}, NEW q \in Int, NEW r \in 0 .. m - 1
  PROVE  (m * q + r) % m = r
OBVIOUS

LEMMA SmallRemainder ==
  ASSUME NEW m \in Nat \ {0}, NEW r \in 0 .. m - 1
  PROVE  r % m = r
OBVIOUS

LEMMA RemainderStep ==
  ASSUME NEW m \in Nat \ {0}, NEW a \in Int, NEW b \in 0 .. m - 1
  PROVE  (a + b) % m = IF (a % m) + b < m THEN (a % m) + b ELSE (a % m) + b - m
<1> DEFINE q == a \div m
           r == a % m
<1>1. r \in 0 .. m - 1 /\ q \in Int /\ a = m * q + r
  BY Remainder
<1> HIDE DEF q, r
<1>2. CASE r + b < m
  <2>1. a + b = m * q + (r + b) /\ r + b \in 0 .. m - 1
    BY <1>1, <1>2
  <2>2. (m * q + (r + b)) % m = r + b
    BY <1>1, <2>1, RemainderIs
  <2> QED
    BY <1>2, <2>1, <2>2 DEF r
<1>3. CASE ~(r + b < m)
  <2>1. m * (q + 1) = m * q + m
    BY <1>1
  <2>2. a + b = m * (q + 1) + (r + b - m) /\ r + b - m \in 0 .. m - 1 /\ q + 1 \in Int
    BY <1>1, <1>3, <2>1
  <2>3. (m * (q + 1) + (r + b - m)) % m = r + b - m
    BY <2>2, RemainderIs
  <2> QED
    BY <1>3, <2>2, <2>3 DEF r
<1> QED
  BY <1>2, <1>3

LEMMA RemainderOfSum ==
  ASSUME NEW m \in Nat \ {0}, NEW a \in Int, NEW b \in Int
  PROVE  ((a % m) + b) % m = (a + b) % m
<1> DEFINE q == a \div m
           r == a % m
           p == (r + b) \div m
           s == (r + b) % m
<1>1. r \in 0 .. m - 1 /\ q \in Int /\ a = m * q + r
  BY Remainder
<1>2. s \in 0 .. m - 1 /\ p \in Int /\ r + b = m * p + s
  BY <1>1, Remainder, SMTT(40)
<1> HIDE DEF q, r, p, s
<1>3. m * (q + p) = m * q + m * p
  BY <1>1, <1>2
<1>4. a + b = m * (q + p) + s /\ q + p \in Int
  BY <1>1, <1>2, <1>3
<1>5. (m * (q + p) + s) % m = s
  BY <1>2, <1>4, RemainderIs
<1> QED
  BY <1>4, <1>5 DEF s, r

\* Positions wrap at a multiple of the ring's size.
LEMMA RemainderOfRemainder ==
  ASSUME NEW m \in Nat \ {0}, NEW n \in Nat \ {0}, n % m = 0, NEW a \in Int
  PROVE  (a % n) % m = a % m
<1> DEFINE k == n \div m
           q == a \div n
           r == a % n
           p == r \div m
           s == r % m
<1>1. k \in Int /\ n = m * k
  BY Remainder
<1>2. r \in 0 .. n - 1 /\ q \in Int /\ a = n * q + r
  BY Remainder
<1>3. s \in 0 .. m - 1 /\ p \in Int /\ r = m * p + s
  BY <1>2, Remainder
<1> HIDE DEF k, q, r, p, s
<1>4. n * q = m * (k * q) /\ k * q \in Int
  BY <1>1, <1>2
<1>5. m * (k * q + p) = m * (k * q) + m * p
  BY <1>3, <1>4
<1>6. a = m * (k * q + p) + s /\ k * q + p \in Int
  BY <1>2, <1>3, <1>4, <1>5
<1>7. (m * (k * q + p) + s) % m = s
  BY <1>3, <1>6, RemainderIs
<1> QED
  BY <1>6, <1>7 DEF s, r

LEMMA RemainderAgain ==
  ASSUME NEW m \in Nat \ {0}, NEW a \in Int
  PROVE  (a + m) % m = a % m
<1> DEFINE q == a \div m
           r == a % m
<1>1. r \in 0 .. m - 1 /\ q \in Int /\ a = m * q + r
  BY Remainder
<1> HIDE DEF q, r
<1>2. a + m = m * (q + 1) + r /\ q + 1 \in Int
  BY <1>1
<1>3. (m * (q + 1) + r) % m = r
  BY <1>1, <1>2, RemainderIs
<1> QED
  BY <1>2, <1>3 DEF r

LEMMA RemaindersDiffer ==
  ASSUME NEW m \in Nat \ {0}, NEW a \in Int, NEW b \in 0 .. m - 1, NEW c \in 0 .. m - 1,
         (a + b) % m = (a + c) % m
  PROVE  b = c
<1>1. a % m \in 0 .. m - 1
  BY Remainder
<1>2. /\ (a + b) % m = IF (a % m) + b < m THEN (a % m) + b ELSE (a % m) + b - m
      /\ (a + c) % m = IF (a % m) + c < m THEN (a % m) + c ELSE (a % m) + c - m
  BY RemainderStep
<1> DEFINE r == a % m
<1>3. (IF r + b < m THEN r + b ELSE r + b - m) = (IF r + c < m THEN r + c ELSE r + c - m)
  BY <1>2
<1> HIDE DEF r
<1>4. r \in 0 .. m - 1
  BY <1>1 DEF r
<1> QED
  BY <1>3, <1>4

-----------------------------------------------------------------------------
(* Positions and slots *)

USE RingAssumption

Pos == 0 .. PosMod - 1

LEMMA SizeFits == Size <= PosMod
<1> SUFFICES ASSUME PosMod < Size PROVE FALSE
  OBVIOUS
<1>1. PosMod \in 0 .. Size - 1
  OBVIOUS
<1>2. PosMod % Size = PosMod
  BY <1>1, SmallRemainder
<1> QED
  BY <1>2

LEMMA SlotTypes ==
  ASSUME NEW p \in Int
  PROVE  Slot(p) \in 0 .. Size - 1
BY Remainder DEF Slot

LEMMA PosTypes ==
  ASSUME NEW p \in Int, NEW n \in Int
  PROVE  Plus(p, n) \in Pos /\ Minus(p, n) \in Pos
BY Remainder DEF Plus, Minus, Pos

LEMMA PlusZero ==
  ASSUME NEW p \in Pos
  PROVE  Plus(p, 0) = p
BY SmallRemainder DEF Plus, Pos

LEMMA PlusPlus ==
  ASSUME NEW p \in Int, NEW n \in Int, NEW k \in Int
  PROVE  Plus(Plus(p, n), k) = Plus(p, n + k)
<1>1. p + n \in Int /\ p + n + k = p + (n + k)
  OBVIOUS
<1>2. (((p + n) % PosMod) + k) % PosMod = (p + n + k) % PosMod
  BY <1>1, RemainderOfSum, Zenon
<1> QED
  BY <1>1, <1>2, Zenon DEF Plus

LEMMA SlotPlus ==
  ASSUME NEW p \in Int, NEW n \in Int, NEW k \in Int
  PROVE  Slot(Plus(p, n) + k) = Slot(p + n + k)
<1> DEFINE a == (p + n) % PosMod
<1>0. p + n \in Int
  OBVIOUS
<1>1. a \in Int
  BY <1>0, Remainder
<1>2. a % Size = (p + n) % Size
  BY <1>0, RemainderOfRemainder, Zenon
<1> HIDE DEF a
<1>3. (a + k) % Size = ((a % Size) + k) % Size
  BY <1>1, RemainderOfSum, Zenon
<1>4. (((p + n) % Size) + k) % Size = (p + n + k) % Size
  BY <1>0, RemainderOfSum, Zenon
<1> QED
  BY <1>2, <1>3, <1>4, Zenon DEF a, Slot, Plus

LEMMA MinusPlus ==
  ASSUME NEW p \in Int, NEW n \in Int, NEW k \in Int
  PROVE  Minus(Plus(p, n), k) = Plus(p, n - k)
<1>0. p + n \in Int /\ PosMod - k \in Int /\ p + (n - k) \in Int
  OBVIOUS
<1>1. (((p + n) % PosMod) + (PosMod - k)) % PosMod = (p + n + (PosMod - k)) % PosMod
  BY <1>0, RemainderOfSum, Zenon
<1>2. (p + (n - k) + PosMod) % PosMod = (p + (n - k)) % PosMod
  BY <1>0, RemainderAgain, Zenon
<1>3. p + n + (PosMod - k) = p + (n - k) + PosMod
  OBVIOUS
<1>4. (p + n) % PosMod \in Int
  BY Remainder
<1>5. ((p + n) % PosMod) + PosMod - k = ((p + n) % PosMod) + (PosMod - k)
  BY <1>4
<1> QED
  BY <1>1, <1>2, <1>3, <1>5 DEF Minus, Plus

LEMMA Distance ==
  ASSUME NEW p \in Int, NEW n \in 0 .. PosMod - 1
  PROVE  Minus(Plus(p, n), p) = n
<1>1. Minus(Plus(p, n), p) = Plus(p, n - p)
  BY MinusPlus
<1>2. p + (n - p) = n
  OBVIOUS
<1> QED
  BY <1>1, <1>2, SmallRemainder DEF Plus

\* get_data_len does not look where the ring's end is.
LEMMA DataLenIs ==
  ASSUME NEW from \in Int, NEW u \in 0 .. Size - 1
  PROVE  DataLen(from, from + u) = u
<1> DEFINE a == from % Size
           b == (from + u) % Size
<1>1. a \in 0 .. Size - 1 /\ b = IF a + u < Size THEN a + u ELSE a + u - Size
  BY Remainder, RemainderStep
<1> HIDE DEF a, b
<1>2. CASE a + u < Size
  <2>1. b + Size - a = u + Size
    BY <1>1, <1>2
  <2>2. (u + Size) % Size = u % Size
    <3>1. u \in Int
      OBVIOUS
    <3> QED
      BY <3>1, RemainderAgain, Zenon
  <2>3. u % Size = u
    BY SmallRemainder
  <2> QED
    BY <2>1, <2>2, <2>3 DEF a, b, DataLen, Slot
<1>3. CASE ~(a + u < Size)
  <2>1. b + Size - a = u
    BY <1>1, <1>3
  <2>2. u % Size = u
    BY SmallRemainder
  <2> QED
    BY <2>1, <2>2 DEF a, b, DataLen, Slot
<1> QED
  BY <1>2, <1>3

LEMMA DataLenBetween ==
  ASSUME NEW p \in Int, NEW n \in Int, NEW u \in 0 .. Size - 1
  PROVE  DataLen(Plus(p, n), Plus(p, n + u)) = u
<1>1. Slot(Plus(p, n)) = Slot(p + n) /\ Slot(Plus(p, n + u)) = Slot(p + n + u)
  <2>1. /\ Slot(Plus(p, n) + 0) = Slot(p + n + 0)
        /\ Slot(Plus(p, n + u) + 0) = Slot(p + (n + u) + 0)
    BY SlotPlus
  <2>2. /\ Plus(p, n) + 0 = Plus(p, n) /\ p + n + 0 = p + n
        /\ Plus(p, n + u) + 0 = Plus(p, n + u) /\ p + (n + u) + 0 = p + n + u
    BY PosTypes DEF Pos
  <2> QED
    BY <2>1, <2>2
<1>2. DataLen(p + n, p + n + u) = u
  BY DataLenIs
<1> QED
  BY <1>1, <1>2 DEF DataLen

LEMMA SlotsDiffer ==
  ASSUME NEW p \in Int, NEW i \in 0 .. Size - 1, NEW j \in 0 .. Size - 1, i # j
  PROVE  Slot(p + i) # Slot(p + j)
BY RemaindersDiffer DEF Slot

-----------------------------------------------------------------------------
(* The ring as a tape: kept bytes behind the parser, unread ones before it *)

\* From position base on, the ring holds kept and then u.
Ring(mem, base, start, cur, kept, u) ==
  /\ mem \in [0 .. Size - 1 -> Bytes] /\ base \in Pos
  /\ kept \in Seq(Bytes) /\ u \in Seq(Bytes) /\ Len(kept) + Len(u) < Size
  /\ start = Plus(base, Len(kept)) /\ cur = Plus(base, Len(kept) + Len(u))
  /\ \A k \in 1 .. Len(kept) : mem[Slot(base + (k - 1))] = kept[k]
  /\ \A k \in 1 .. Len(u) : mem[Slot(base + (Len(kept) + k - 1))] = u[k]

LEMMA RingParts ==
  ASSUME NEW mem, NEW base, NEW start, NEW cur, NEW kept, NEW u,
         Ring(mem, base, start, cur, kept, u)
  PROVE  /\ mem \in [0 .. Size - 1 -> Bytes] /\ base \in Pos /\ base \in Int
         /\ kept \in Seq(Bytes) /\ u \in Seq(Bytes) /\ Len(kept) + Len(u) < Size
         /\ start = Plus(base, Len(kept)) /\ cur = Plus(base, Len(kept) + Len(u))
         /\ \A k \in 1 .. Len(kept) : mem[Slot(base + (k - 1))] = kept[k]
         /\ \A k \in 1 .. Len(u) : mem[Slot(base + (Len(kept) + k - 1))] = u[k]
BY DEF Ring, Pos

LEMMA RingUnread ==
  ASSUME NEW mem, NEW base, NEW start, NEW cur, NEW kept, NEW u,
         Ring(mem, base, start, cur, kept, u)
  PROVE  DataLen(start, cur) = Len(u) /\ start \in Pos /\ cur \in Pos
<1>1. /\ base \in Int /\ Len(kept) \in Int /\ Len(u) \in 0 .. Size - 1
      /\ Len(kept) + Len(u) \in Int
      /\ start = Plus(base, Len(kept)) /\ cur = Plus(base, Len(kept) + Len(u))
  BY DEF Ring, Pos
<1> QED
  BY <1>1, DataLenBetween, PosTypes

\* What the parser reads next.
LEMMA RingByte ==
  ASSUME NEW mem, NEW base, NEW start, NEW cur, NEW kept, NEW u,
         Ring(mem, base, start, cur, kept, u), u # <<>>
  PROVE  mem[Slot(start)] = Head(u) /\ Head(u) \in Bytes
<1>1. /\ base \in Int /\ Len(kept) \in Int /\ u \in Seq(Bytes) /\ start = Plus(base, Len(kept))
      /\ \A k \in 1 .. Len(u) : mem[Slot(base + (Len(kept) + k - 1))] = u[k]
  BY DEF Ring, Pos
<1>2. 1 \in 1 .. Len(u) /\ u[1] = Head(u) /\ u[1] \in Bytes
  BY <1>1
<1>3. mem[Slot(base + (Len(kept) + 1 - 1))] = u[1]
  BY <1>1, <1>2
<1>4. Slot(start + 0) = Slot(base + Len(kept) + 0)
  BY <1>1, SlotPlus
<1>5. start + 0 = start /\ base + Len(kept) + 0 = base + (Len(kept) + 1 - 1)
  BY <1>1, PosTypes DEF Pos
<1> QED
  BY <1>2, <1>3, <1>4, <1>5

\* It passes a byte and keeps it.
LEMMA RingPass ==
  ASSUME NEW mem, NEW base, NEW start, NEW cur, NEW kept, NEW u,
         Ring(mem, base, start, cur, kept, u), u # <<>>
  PROVE  Ring(mem, base, Plus(start, 1), cur, Append(kept, Head(u)), Tail(u))
<1>1. /\ mem \in [0 .. Size - 1 -> Bytes] /\ base \in Pos /\ base \in Int
      /\ kept \in Seq(Bytes) /\ u \in Seq(Bytes) /\ Len(kept) + Len(u) < Size
      /\ start = Plus(base, Len(kept)) /\ cur = Plus(base, Len(kept) + Len(u))
      /\ \A k \in 1 .. Len(kept) : mem[Slot(base + (k - 1))] = kept[k]
      /\ \A k \in 1 .. Len(u) : mem[Slot(base + (Len(kept) + k - 1))] = u[k]
  BY RingParts
<1> DEFINE a == Append(kept, Head(u))
           t == Tail(u)
<1>2. /\ a \in Seq(Bytes) /\ Len(a) = Len(kept) + 1 /\ a[Len(kept) + 1] = u[1]
      /\ \A k \in 1 .. Len(kept) : a[k] = kept[k]
  BY <1>1
<1>3. /\ t \in Seq(Bytes) /\ Len(t) = Len(u) - 1 /\ Len(u) \in Nat \ {0}
      /\ \A k \in 1 .. Len(t) : t[k] = u[k + 1]
  BY <1>1
<1>4. Len(kept) \in Nat
  BY <1>1
<1> HIDE DEF a, t
<1>5. Len(a) + Len(t) = Len(kept) + Len(u)
  BY <1>2, <1>3, <1>4
<1>6. Plus(start, 1) = Plus(base, Len(a))
  BY <1>1, <1>2, <1>4, PlusPlus
<1>7. ASSUME NEW k \in 1 .. Len(a)
      PROVE  mem[Slot(base + (k - 1))] = a[k]
  <2>1. CASE k \in 1 .. Len(kept)
    BY <1>1, <1>2, <2>1
  <2>2. CASE k = Len(kept) + 1
    <3>1. 1 \in 1 .. Len(u) /\ k - 1 = Len(kept) + 1 - 1
      BY <1>3, <1>4, <2>2
    <3> QED
      BY <1>1, <1>2, <2>2, <3>1
  <2> QED
    BY <1>2, <1>4, <2>1, <2>2
<1>8. ASSUME NEW k \in 1 .. Len(t)
      PROVE  mem[Slot(base + (Len(a) + k - 1))] = t[k]
  <2>1. k + 1 \in 1 .. Len(u) /\ Len(a) + k - 1 = Len(kept) + (k + 1) - 1
    BY <1>2, <1>3, <1>4
  <2> QED
    BY <1>1, <1>3, <2>1, ZenonT(40)
<1>9. Ring(mem, base, Plus(start, 1), cur, a, t)
  BY <1>1, <1>2, <1>3, <1>5, <1>6, <1>7, <1>8 DEF Ring
<1> QED
  BY <1>9 DEF a, t

\* It drops the first m bytes it has kept.
LEMMA RingDrop ==
  ASSUME NEW mem, NEW base, NEW start, NEW cur, NEW kept, NEW u,
         Ring(mem, base, start, cur, kept, u), NEW m \in 0 .. Len(kept)
  PROVE  Ring(mem, Plus(base, m), start, cur, SubSeq(kept, m + 1, Len(kept)), u)
<1>1. /\ mem \in [0 .. Size - 1 -> Bytes] /\ base \in Pos /\ base \in Int
      /\ kept \in Seq(Bytes) /\ u \in Seq(Bytes) /\ Len(kept) + Len(u) < Size
      /\ start = Plus(base, Len(kept)) /\ cur = Plus(base, Len(kept) + Len(u))
      /\ \A k \in 1 .. Len(kept) : mem[Slot(base + (k - 1))] = kept[k]
      /\ \A k \in 1 .. Len(u) : mem[Slot(base + (Len(kept) + k - 1))] = u[k]
  BY DEF Ring, Pos
<1> DEFINE a == SubSeq(kept, m + 1, Len(kept))
<1>2. Len(kept) \in Nat /\ Len(u) \in Nat /\ m \in Nat /\ m <= Len(kept)
  BY <1>1
<1>3. /\ a \in Seq(Bytes) /\ Len(a) = Len(kept) - m
      /\ \A k \in 1 .. Len(a) : a[k] = kept[k + m]
  <2>1. \A k \in m + 1 .. Len(kept) : kept[k] \in Bytes
    BY <1>1, <1>2
  <2> QED
    BY <1>1, <1>2, <2>1, SubSeqProperties
<1> HIDE DEF a
<1>4. Plus(base, m) \in Pos
  BY <1>1, <1>2, PosTypes
<1>5. Plus(Plus(base, m), Len(a)) = start
  <2>1. m + Len(a) = Len(kept) /\ Len(a) \in Int /\ m \in Int
    BY <1>2, <1>3
  <2>2. Plus(Plus(base, m), Len(a)) = Plus(base, m + Len(a))
    BY <1>1, <2>1, PlusPlus
  <2> QED
    BY <1>1, <2>1, <2>2
<1>6. Plus(Plus(base, m), Len(a) + Len(u)) = cur
  <2>1. m + (Len(a) + Len(u)) = Len(kept) + Len(u) /\ Len(a) + Len(u) \in Int
    BY <1>2, <1>3
  <2> QED
    BY <1>1, <1>2, <2>1, PlusPlus, SMTT(40)
<1>7. ASSUME NEW k \in Int
      PROVE  Slot(Plus(base, m) + k) = Slot(base + (m + k))
  <2>1. base + m + k = base + (m + k)
    BY <1>1, <1>2
  <2> QED
    BY <1>1, <1>2, <2>1, SlotPlus
<1>8. ASSUME NEW k \in 1 .. Len(a)
      PROVE  mem[Slot(Plus(base, m) + (k - 1))] = a[k]
  <2>1. k + m \in 1 .. Len(kept) /\ m + (k - 1) = (k + m) - 1 /\ k - 1 \in Int
    BY <1>2, <1>3
  <2>2. Slot(Plus(base, m) + (k - 1)) = Slot(base + ((k + m) - 1))
    BY <1>7, <2>1
  <2>3. mem[Slot(base + ((k + m) - 1))] = kept[k + m]
    BY <1>1, <2>1
  <2> QED
    BY <1>3, <2>2, <2>3
<1>9. ASSUME NEW k \in 1 .. Len(u)
      PROVE  mem[Slot(Plus(base, m) + (Len(a) + k - 1))] = u[k]
  <2>1. m + (Len(a) + k - 1) = Len(kept) + k - 1 /\ Len(a) + k - 1 \in Int
    BY <1>2, <1>3
  <2> QED
    BY <1>1, <1>7, <2>1
<1>10. Len(a) + Len(u) < Size
  BY <1>1, <1>2, <1>3
<1>11. Ring(mem, Plus(base, m), start, cur, a, u)
  BY <1>1, <1>3, <1>4, <1>5, <1>6, <1>8, <1>9, <1>10 DEF Ring
<1> QED
  BY <1>11 DEF a

\* What it copies out.
LEMMA RingCopied ==
  ASSUME NEW mem, NEW base, NEW start, NEW cur, NEW kept, NEW u,
         Ring(mem, base, start, cur, kept, u), NEW n \in 0 .. Len(kept)
  PROVE  Copied(mem, base, Plus(base, n)) = [i \in 1 .. n |-> kept[i]]
<1>1. /\ base \in Int /\ n \in 0 .. Size - 1 /\ n \in 0 .. PosMod - 1 /\ Len(kept) \in Nat
      /\ \A k \in 1 .. Len(kept) : mem[Slot(base + (k - 1))] = kept[k]
  BY SizeFits DEF Ring, Pos
<1>2. (Plus(base, n) + PosMod - base) % PosMod = n
  BY <1>1, Distance DEF Minus
<1>3. \A i \in 1 .. n : base + i - 1 = base + (i - 1) /\ i \in 1 .. Len(kept)
  BY <1>1
<1> QED
  BY <1>1, <1>2, <1>3 DEF Copied

LEMMA SlotOfSlot ==
  ASSUME NEW a \in Int, NEW k \in Int
  PROVE  Slot(Slot(a) + k) = Slot(a + k)
BY RemainderOfSum, Zenon DEF Slot

\* How far a slot is behind a position, also where the slot comes first.
LEMMA SlotBehind ==
  ASSUME NEW p \in Int, NEW n \in Int, NEW k \in Int, n <= k, k < n + Size
  PROVE  DataLen(Plus(p, n), Slot(p + k)) = k - n
<1>1. k - n \in 0 .. Size - 1 /\ p + n \in Int /\ p + k \in Int /\ p + n + (k - n) = p + k
  OBVIOUS
<1>2. DataLen(p + n, p + k) = k - n
  <2>1. DataLen(p + n, p + n + (k - n)) = k - n
    BY <1>1, DataLenIs
  <2> QED
    BY <1>1, <2>1
<1>3. Slot(Plus(p, n)) = Slot(p + n)
  <2>1. Slot(Plus(p, n) + 0) = Slot(p + n + 0)
    BY SlotPlus
  <2>2. Plus(p, n) + 0 = Plus(p, n) /\ p + n + 0 = p + n
    BY <1>1, PosTypes DEF Pos
  <2> QED
    BY <2>1, <2>2
<1>4. Slot(Slot(p + k)) = Slot(p + k)
  <2>1. Slot(p + k) \in 0 .. Size - 1
    BY <1>1, SlotTypes
  <2> HIDE DEF Slot
  <2>2. Slot(p + k) % Size = Slot(p + k)
    BY <2>1, SmallRemainder
  <2> QED
    BY <2>2 DEF Slot
<1> QED
  BY <1>2, <1>3, <1>4 DEF DataLen

\* move_data_backward: the next byte goes, and what follows moves up to it.
Pulled(mem, start, cur) ==
  [i \in 0 .. Size - 1 |->
     IF DataLen(start, i) < DataLen(Plus(start, 1), cur) THEN mem[Slot(i + 1)] ELSE mem[i]]

LEMMA RingPull ==
  ASSUME NEW mem, NEW base, NEW start, NEW cur, NEW kept, NEW u,
         Ring(mem, base, start, cur, kept, u), u # <<>>
  PROVE  Ring(Pulled(mem, start, cur), base, start, Minus(cur, 1), kept, Tail(u))
<1>1. /\ mem \in [0 .. Size - 1 -> Bytes] /\ base \in Pos /\ base \in Int
      /\ kept \in Seq(Bytes) /\ u \in Seq(Bytes) /\ Len(kept) + Len(u) < Size
      /\ start = Plus(base, Len(kept)) /\ cur = Plus(base, Len(kept) + Len(u))
      /\ \A k \in 1 .. Len(kept) : mem[Slot(base + (k - 1))] = kept[k]
      /\ \A k \in 1 .. Len(u) : mem[Slot(base + (Len(kept) + k - 1))] = u[k]
  BY RingParts
<1> DEFINE t == Tail(u)
           new == Pulled(mem, start, cur)
           moved == DataLen(Plus(start, 1), cur)
<1>2. /\ t \in Seq(Bytes) /\ Len(t) = Len(u) - 1 /\ Len(u) \in Nat \ {0} /\ Len(kept) \in Nat
      /\ \A k \in 1 .. Len(t) : t[k] = u[k + 1]
  BY <1>1
<1> HIDE DEF t
<1>3. moved = Len(u) - 1
  <2>1. Plus(start, 1) = Plus(base, Len(kept) + 1)
    BY <1>1, <1>2, PlusPlus
  <2>2. /\ Len(kept) + 1 \in Int /\ Len(u) - 1 \in 0 .. Size - 1
        /\ Len(kept) + 1 + (Len(u) - 1) = Len(kept) + Len(u)
    BY <1>1, <1>2
  <2>3. DataLen(Plus(base, Len(kept) + 1), Plus(base, Len(kept) + 1 + (Len(u) - 1))) = Len(u) - 1
    BY <1>1, <2>2, DataLenBetween
  <2> QED
    BY <1>1, <2>1, <2>2, <2>3
<1>4. /\ new = [i \in 0 .. Size - 1 |->
                  IF DataLen(start, i) < moved THEN mem[Slot(i + 1)] ELSE mem[i]]
  BY DEF Pulled
<1> HIDE DEF new, moved
<1>5. new \in [0 .. Size - 1 -> Bytes]
  <2>1. \A i \in 0 .. Size - 1 : Slot(i + 1) \in 0 .. Size - 1
    BY SlotTypes
  <2>2. \A i \in 0 .. Size - 1 : mem[Slot(i + 1)] \in Bytes /\ mem[i] \in Bytes
    BY <1>1, <2>1
  <2> QED
    BY <1>4, <2>2
<1>6. Minus(cur, 1) = Plus(base, Len(kept) + Len(t))
  <2>1. Len(kept) + Len(u) - 1 = Len(kept) + Len(t) /\ Len(kept) + Len(u) \in Int
    BY <1>2
  <2> QED
    BY <1>1, <2>1, MinusPlus
<1>7. ASSUME NEW k \in 1 .. Len(kept)
      PROVE  new[Slot(base + (k - 1))] = kept[k]
  <2> DEFINE i == Slot(base + (k - 1))
             j == k - 1 + Size
  <2>1. /\ j \in Int /\ Len(kept) <= j /\ j < Len(kept) + Size /\ j - Len(kept) >= Len(u) - 1
        /\ base + j = base + (k - 1) + Size /\ base + (k - 1) \in Int
    BY <1>1, <1>2
  <2>2. i \in 0 .. Size - 1
    BY <2>1, SlotTypes
  <2>3. Slot(base + j) = i
    BY <2>1, RemainderAgain DEF Slot
  <2> HIDE DEF j
  <2>4. DataLen(start, Slot(base + j)) = j - Len(kept)
    <3>1. base \in Int /\ Len(kept) \in Int /\ start = Plus(base, Len(kept))
      BY <1>1, <1>2
    <3> QED
      BY <2>1, <3>1, SlotBehind
  <2> HIDE DEF i, j
  <2>5. ~(DataLen(start, i) < moved)
    BY <1>2, <1>3, <2>1, <2>3, <2>4
  <2>6. new[i] = mem[i]
    BY <1>4, <2>2, <2>5
  <2> QED
    BY <1>1, <2>6 DEF i
<1>8. ASSUME NEW k \in 1 .. Len(t)
      PROVE  new[Slot(base + (Len(kept) + k - 1))] = t[k]
  <2> DEFINE j == Len(kept) + k - 1
             i == Slot(base + j)
  <2>1. /\ j \in Int /\ Len(kept) <= j /\ j < Len(kept) + Size /\ j - Len(kept) = k - 1
        /\ k - 1 < Len(u) - 1 /\ k + 1 \in 1 .. Len(u) /\ base + j \in Int
        /\ base + j + 1 = base + (Len(kept) + (k + 1) - 1)
    BY <1>1, <1>2
  <2>2. i \in 0 .. Size - 1
    BY <2>1, SlotTypes
  <2> HIDE DEF j
  <2>3. DataLen(start, Slot(base + j)) = j - Len(kept)
    <3>1. base \in Int /\ Len(kept) \in Int /\ start = Plus(base, Len(kept))
      BY <1>1, <1>2
    <3> QED
      BY <2>1, <3>1, SlotBehind, ZenonT(40)
  <2>4. Slot(i + 1) = Slot(base + j + 1)
    BY <2>1, SlotOfSlot
  <2> HIDE DEF i, j
  <2>5. DataLen(start, i) < moved
    BY <1>3, <2>1, <2>3 DEF i
  <2>6. new[i] = mem[Slot(i + 1)]
    BY <1>4, <2>2, <2>5
  <2>7. mem[Slot(base + (Len(kept) + (k + 1) - 1))] = u[k + 1]
    BY <1>1, <2>1
  <2>8. new[i] = u[k + 1]
    BY <2>1, <2>4, <2>6, <2>7
  <2> QED
    BY <1>2, <2>8 DEF i, j
<1>9. Len(kept) + Len(t) < Size
  BY <1>1, <1>2
<1>10. Ring(new, base, start, Minus(cur, 1), kept, t)
  BY <1>1, <1>2, <1>5, <1>6, <1>7, <1>8, <1>9 DEF Ring
<1> QED
  BY <1>10 DEF t, new

LEMMA Joined ==
  ASSUME NEW a \in Seq(Bytes), NEW b \in Seq(Bytes)
  PROVE  /\ a \o b \in Seq(Bytes) /\ Len(a \o b) = Len(a) + Len(b)
         /\ \A k \in 1 .. Len(a) : (a \o b)[k] = a[k]
         /\ \A k \in 1 .. Len(b) : (a \o b)[Len(a) + k] = b[k]
OBVIOUS

LEMMA JoinedTwice ==
  ASSUME NEW a \in Seq(Bytes), NEW b \in Seq(Bytes), NEW c \in Seq(Bytes)
  PROVE  (a \o b) \o c = a \o (b \o c)
BY ConcatAssociative

\* GAgent_Local_RecAll: n bytes of the line come behind what is unread.
Filled(mem, cur, line, n) ==
  [i \in 0 .. Size - 1 |->
     IF i \in Slot(cur) .. Slot(cur) + n - 1 THEN line[i - Slot(cur) + 1] ELSE mem[i]]

LEMMA RingFill ==
  ASSUME NEW mem, NEW base, NEW start, NEW cur, NEW kept, NEW u,
         Ring(mem, base, start, cur, kept, u),
         NEW line \in Seq(Bytes), NEW n \in 0 .. Len(line),
         Len(kept) + Len(u) + n < Size, n <= Available(cur, start)
  PROVE  Ring(Filled(mem, cur, line, n), base, start, Plus(cur, n), kept,
              u \o SubSeq(line, 1, n))
<1>1. /\ mem \in [0 .. Size - 1 -> Bytes] /\ base \in Pos /\ base \in Int
      /\ kept \in Seq(Bytes) /\ u \in Seq(Bytes)
      /\ start = Plus(base, Len(kept)) /\ cur = Plus(base, Len(kept) + Len(u))
      /\ \A k \in 1 .. Len(kept) : mem[Slot(base + (k - 1))] = kept[k]
      /\ \A k \in 1 .. Len(u) : mem[Slot(base + (Len(kept) + k - 1))] = u[k]
  BY RingParts
<1> DEFINE s == SubSeq(line, 1, n)
           new == Filled(mem, cur, line, n)
           c == Slot(cur)
           all == Len(kept) + Len(u)
<1>2. Len(kept) \in Nat /\ Len(u) \in Nat /\ Len(line) \in Nat /\ n \in Nat /\ n <= Len(line)
      /\ all \in Int
  BY <1>1
<1>3. s \in Seq(Bytes) /\ Len(s) = n /\ \A k \in 1 .. n : s[k] = line[k]
  <2>1. \A k \in 1 .. n : line[k] \in Bytes
    BY <1>2
  <2> QED
    BY <1>2, <2>1, SubSeqProperties
<1> HIDE DEF s
<1>4. /\ u \o s \in Seq(Bytes) /\ Len(u \o s) = Len(u) + n
      /\ \A k \in 1 .. Len(u) : (u \o s)[k] = u[k]
      /\ \A k \in 1 .. n : (u \o s)[Len(u) + k] = s[k]
  <2>1. /\ u \o s \in Seq(Bytes) /\ Len(u \o s) = Len(u) + Len(s)
        /\ \A k \in 1 .. Len(u) : (u \o s)[k] = u[k]
        /\ \A k \in 1 .. Len(s) : (u \o s)[Len(u) + k] = s[k]
    <3>1. u \in Seq(Bytes) /\ s \in Seq(Bytes)
      BY <1>1, <1>3
    <3> QED
      BY <3>1, Joined, Zenon
  <2>2. Len(s) = n
    BY <1>3
  <2> QED
    BY <2>1, <2>2
<1>5. start \in Int /\ cur \in Int
  BY <1>1, RingUnread DEF Pos
<1>6. c \in 0 .. Size - 1 /\ Slot(start) \in 0 .. Size - 1
  BY <1>5, SlotTypes
<1>7. c + n <= Size
  BY <1>2, <1>6 DEF Available
<1>8. ASSUME NEW k \in Int, 0 <= k, k < n
      PROVE  Slot(base + (all + k)) = c + k
  <2>1. Slot(cur + k) = Slot(base + all + k)
    BY <1>1, <1>2, SlotPlus
  <2>2. Slot(cur + k) = Slot(c + k)
    BY <1>5, SlotOfSlot
  <2>3. c + k \in 0 .. Size - 1
    BY <1>2, <1>6, <1>7, <1>8, SMTT(40)
  <2> HIDE DEF c, all
  <2>4. Slot(c + k) = c + k
    BY <2>3, SmallRemainder DEF Slot
  <2>5. base + all + k = base + (all + k)
    BY <1>1, <1>2
  <2> QED
    BY <2>1, <2>2, <2>4, <2>5
<1>9. new = [i \in 0 .. Size - 1 |-> IF i \in c .. c + n - 1 THEN line[i - c + 1] ELSE mem[i]]
  BY DEF Filled
<1>10. all + n < Size /\ all = Len(kept) + Len(u)
  BY <1>2
<1> HIDE DEF new, c, all
<1>11. new \in [0 .. Size - 1 -> Bytes]
  <2>1. ASSUME NEW i \in c .. c + n - 1 PROVE line[i - c + 1] \in Bytes
    <3>1. i - c + 1 \in 1 .. Len(line)
      BY <1>2, <1>6
    <3> QED
      BY <3>1
  <2>2. \A i \in 0 .. Size - 1 : mem[i] \in Bytes
    BY <1>1
  <2> QED
    BY <1>9, <2>1, <2>2
\* Nothing is written over.
<1>12. ASSUME NEW k \in 0 .. all - 1
       PROVE  new[Slot(base + k)] = mem[Slot(base + k)]
  <2> DEFINE i == Slot(base + k)
  <2>1. i \in 0 .. Size - 1
    <3>1. base + k \in Int
      BY <1>1
    <3> QED
      BY <3>1, SlotTypes
  <2>2. i \notin c .. c + n - 1
    <3> SUFFICES ASSUME i \in c .. c + n - 1 PROVE FALSE
      OBVIOUS
    <3> DEFINE j == i - c
    <3>1. j \in Int /\ 0 <= j /\ j < n /\ i = c + j
      BY <1>2, <1>6, <2>1
    <3> HIDE DEF j, i
    <3>2. Slot(base + (all + j)) = i
      BY <1>8, <3>1
    <3>3. k \in 0 .. Size - 1 /\ all + j \in 0 .. Size - 1 /\ k # all + j
      BY <1>2, <1>10, <3>1
    <3>4. Slot(base + k) # Slot(base + (all + j))
      BY <1>1, <3>3, SlotsDiffer
    <3> QED
      BY <3>2, <3>4 DEF i
  <2> HIDE DEF i
  <2>3. new[i] = mem[i]
    BY <1>9, <2>1, <2>2
  <2> QED
    BY <2>3 DEF i
<1>13. ASSUME NEW k \in 1 .. Len(kept)
       PROVE  new[Slot(base + (k - 1))] = kept[k]
  <2>1. k - 1 \in 0 .. all - 1
    BY <1>2, <1>10
  <2> QED
    BY <1>1, <1>12, <2>1
<1>14. ASSUME NEW k \in 1 .. Len(u \o s)
       PROVE  new[Slot(base + (Len(kept) + k - 1))] = (u \o s)[k]
  <2>1. CASE k \in 1 .. Len(u)
    <3>1. Len(kept) + k - 1 \in 0 .. all - 1
      BY <1>2, <1>10, <2>1
    <3> QED
      BY <1>1, <1>4, <1>12, <2>1, <3>1
  <2>2. CASE k \notin 1 .. Len(u)
    <3> DEFINE j == k - Len(u)
    <3>0. j \in 1 .. n /\ k = Len(u) + j
      BY <1>2, <1>4, <2>2
    <3> HIDE DEF j
    <3>1. /\ Len(kept) + k - 1 = all + (j - 1)
          /\ j - 1 \in Int /\ 0 <= j - 1 /\ j - 1 < n
      BY <1>2, <1>10, <3>0
    <3>2. Slot(base + (Len(kept) + k - 1)) = c + (j - 1)
      BY <1>8, <3>1
    <3> DEFINE i == c + (j - 1)
    <3> HIDE DEF i
    <3>3. i \in 0 .. Size - 1 /\ i \in c .. c + n - 1 /\ i - c + 1 = j
      BY <1>2, <1>6, <1>7, <3>0 DEF i
    <3>4. new[i] = line[j]
      BY <1>9, <3>3
    <3> QED
      BY <1>3, <1>4, <3>0, <3>2, <3>4 DEF i
  <2> QED
    BY <2>1, <2>2
<1>15. Plus(cur, n) = Plus(base, Len(kept) + Len(u \o s))
  <2>1. Plus(Plus(base, all), n) = Plus(base, all + n)
    <3>1. n \in Int
      BY <1>2
    <3> QED
      BY <1>1, <1>2, <3>1, PlusPlus, ZenonT(40)
  <2>2. all + n = Len(kept) + Len(u \o s) /\ cur = Plus(base, all)
    BY <1>1, <1>2, <1>4, <1>10
  <2> QED
    BY <2>1, <2>2
<1>16. Len(kept) + Len(u \o s) < Size
  BY <1>2, <1>4, <1>10
<1>17. Ring(new, base, start, Plus(cur, n), kept, u \o s)
  BY <1>1, <1>4, <1>11, <1>13, <1>14, <1>15, <1>16 DEF Ring
<1> QED
  BY <1>17 DEF new, s

-----------------------------------------------------------------------------
(* The parser in the ring and the parser of Framing *)

LEMMA SameBytes == Line!HDR = HDR /\ Line!ESC = ESC /\ Line!Bytes = Bytes
                   /\ HDR = 255 /\ ESC = 85 /\ HDR \in Bytes /\ ESC \in Bytes
BY DEF Line!HDR, Line!ESC, Line!Bytes, HDR, ESC, Bytes

Statuses == {"SYNCHEAD1", "SYNCHEAD2", "DATALEN1", "DATALEN2", "DATA"}
Syncing == {"SYNCHEAD1", "SYNCHEAD2"}

Records == [mem : [0 .. Size - 1 -> Bytes], start : Pos, cur : Pos, status : Statuses,
            len : Uint16, pkt : Pos, key : BOOLEAN, done : BOOLEAN]

\* A parser that has read a header and no length has read 0xff 0xff; the first
\* byte of the length leaves room for the second.
Sound(p) ==
  /\ p \in Line!Parsers
  /\ p.status \in Syncing => ~p.key /\ p.pkt = <<>>
  /\ p.status = "DATALEN1" => p.pkt = <<HDR, HDR>>
  /\ p.status = "DATALEN2" => p.len <= 65280

\* What the ring keeps for a parser.
KeptFor(p) == CASE p.status = "SYNCHEAD1" -> <<>>
                [] p.status = "SYNCHEAD2" -> <<HDR>>
                [] p.status \notin Syncing /\ p.key -> Append(p.pkt, HDR)
                [] OTHER -> p.pkt

\* r is where p is, with u to be read; the packet starts at base.
At(r, p, u, base) ==
  /\ r \in Records /\ Sound(p)
  /\ r.status = p.status /\ r.key = p.key /\ r.len = p.len
  /\ p.status # "SYNCHEAD1" => r.pkt = base
  /\ Ring(r.mem, base, r.start, r.cur, KeptFor(p), u)

Sim(r, p, u) == \E base \in Pos : At(r, p, u, base)

LEMMA ParserSet ==
  Line!Parsers = [status : Statuses, key : BOOLEAN, len : Uint16, pkt : Seq(Bytes)]
BY DEF Line!Parsers, Line!Bytes, Line!Uint16, Bytes, Uint16, Statuses

LEMMA ParserFields ==
  ASSUME NEW p, Sound(p)
  PROVE  /\ p.status \in Statuses /\ p.key \in BOOLEAN /\ p.len \in Uint16
         /\ p.pkt \in Seq(Bytes)
         /\ p = [status |-> p.status, key |-> p.key, len |-> p.len, pkt |-> p.pkt]
<1>1. p \in [status : Statuses, key : BOOLEAN, len : Uint16, pkt : Seq(Bytes)]
  BY ParserSet DEF Sound
<1> QED
  BY <1>1

LEMMA HeaderBytes == <<HDR, HDR>> \in Seq(Bytes) /\ <<HDR>> \in Seq(Bytes) /\ <<>> \in Seq(Bytes)
BY SameBytes

\* A parser that looks for a header keeps nothing.
LEMMA AtNothing ==
  ASSUME NEW r \in Records, NEW p, NEW u, Sound(p), p.status = "SYNCHEAD1",
         r.status = p.status, r.key = p.key, r.len = p.len,
         NEW base, NEW kept, Ring(r.mem, base, r.start, r.cur, kept, u)
  PROVE  Sim(r, p, u)
<1>1. /\ kept \in Seq(Bytes) /\ Len(kept) \in 0 .. Len(kept) /\ Len(kept) \in Int
      /\ base \in Int
  BY DEF Ring, Pos
<1> DEFINE none == SubSeq(kept, Len(kept) + 1, Len(kept))
           there == Plus(base, Len(kept))
<1>2. Ring(r.mem, there, r.start, r.cur, none, u)
  BY <1>1, RingDrop
<1>3. none = <<>> /\ KeptFor(p) = <<>>
  <2>1. none = <<>>
    BY <1>1
  <2>2. KeptFor(p) = <<>>
    BY DEF KeptFor, Syncing
  <2> QED
    BY <2>1, <2>2
<1>4. there \in Pos
  BY <1>1, PosTypes
<1> HIDE DEF none, there
<1> QED
  BY <1>2, <1>3, <1>4 DEF Sim, At

LEMMA PassedFields ==
  ASSUME NEW s \in Records
  PROVE  /\ Passed(s) \in Records /\ Passed(s).start = Plus(s.start, 1)
         /\ Passed(s).mem = s.mem /\ Passed(s).cur = s.cur /\ Passed(s).status = s.status
         /\ Passed(s).len = s.len /\ Passed(s).pkt = s.pkt /\ Passed(s).key = s.key
         /\ Passed(s).done = s.done
<1>1. Plus(s.start, 1) \in Pos
  <2>1. s.start \in Int
    BY DEF Records, Pos
  <2> QED
    BY <2>1, PosTypes
<1> QED
  BY <1>1 DEF Passed, Records

\* After the byte: the parser keeps all that is behind it, all but m bytes, or,
\* looking for a header, nothing.
LEMMA SimPassed ==
  ASSUME NEW s \in Records, NEW q, Sound(q), s.status = q.status, s.key = q.key, s.len = q.len,
         NEW base, NEW after, NEW t, Ring(s.mem, base, Plus(s.start, 1), s.cur, after, t),
         \/ q.status = "SYNCHEAD1"
         \/ KeptFor(q) = after /\ s.pkt = base
         \/ \E m \in 0 .. Len(after) :
              KeptFor(q) = SubSeq(after, m + 1, Len(after)) /\ s.pkt = Plus(base, m)
  PROVE  Sim(Passed(s), q, t)
<1> DEFINE r == Passed(s)
<1>1. /\ r \in Records /\ r.start = Plus(s.start, 1) /\ r.mem = s.mem /\ r.cur = s.cur
      /\ r.status = q.status /\ r.len = q.len /\ r.pkt = s.pkt /\ r.key = q.key
  BY PassedFields
<1> HIDE DEF r
<1>2. Ring(r.mem, base, r.start, r.cur, after, t)
  BY <1>1
<1>3. CASE q.status = "SYNCHEAD1"
  BY <1>1, <1>2, <1>3, AtNothing DEF r
<1>4. CASE KeptFor(q) = after /\ s.pkt = base
  <2>1. base \in Pos
    BY <1>2, RingParts
  <2> QED
    BY <1>1, <1>2, <1>4, <2>1 DEF Sim, At, r
<1>5. ASSUME NEW m \in 0 .. Len(after),
             KeptFor(q) = SubSeq(after, m + 1, Len(after)), s.pkt = Plus(base, m)
      PROVE  Sim(r, q, t)
  <2>1. Ring(r.mem, Plus(base, m), r.start, r.cur, KeptFor(q), t)
    BY <1>2, <1>5, RingDrop
  <2>2. Plus(base, m) \in Pos
    BY <2>1, RingParts
  <2> QED
    BY <1>1, <1>5, <2>1, <2>2 DEF Sim, At
<1> QED
  BY <1>3, <1>4, <1>5 DEF r

\* Numbers of two bytes.
LEMMA Uint16Is == \A n : n \in Uint16 <=> n \in Int /\ 0 <= n /\ n <= 65535
<1> DEFINE m == 256 * 256 - 1
<1>1. Uint16 = 0 .. m
  BY Zenon DEF Uint16
<1>2. m \in Int
  OBVIOUS
<1>3. m = 65535
  OBVIOUS
<1> HIDE DEF m
<1>4. \A n : n \in 0 .. m <=> n \in Int /\ 0 <= n /\ n <= m
  BY <1>2
<1>5. \A n : n \in Uint16 <=> n \in Int /\ 0 <= n /\ n <= m
  BY <1>1, <1>4
<1> QED
  BY <1>3, <1>5

LEMMA TwoBytes ==
  ASSUME NEW b \in Bytes
  PROVE  /\ 256 * b \in Uint16 /\ 256 * b <= 65280
         /\ \A n \in Uint16 : n <= 65280 => n + b \in Uint16
<1>1. b \in Int /\ 0 <= b /\ b <= 255
  BY DEF Bytes
<1> QED
  BY <1>1, Uint16Is

LEMMA CountDown ==
  ASSUME NEW n \in Uint16
  PROVE  (n + 65535) % 65536 \in Uint16 /\ ((n + 65535) % 65536 = 0 <=> n = 1)
<1>1. n \in Int /\ 0 <= n /\ n <= 65535
  BY Uint16Is
<1>2. (n + 65535) % 65536 = IF n = 0 THEN 65535 ELSE n - 1
  BY <1>1
<1>3. (IF n = 0 THEN 65535 ELSE n - 1) \in Uint16
  BY <1>1, Uint16Is
<1> QED
  BY <1>1, <1>2, <1>3

-----------------------------------------------------------------------------
(* One byte *)

LEMMA StatusNames ==
  /\ "SYNCHEAD1" \in Statuses /\ "SYNCHEAD2" \in Statuses /\ "DATALEN1" \in Statuses
  /\ "DATALEN2" \in Statuses /\ "DATA" \in Statuses
  /\ TRUE \in BOOLEAN /\ FALSE \in BOOLEAN
BY DEF Statuses

LEMMA InPacketIs ==
  ASSUME NEW p, Sound(p)
  PROVE  /\ Line!InPacket(p) <=> p.status \notin Syncing
         /\ Line!InPacket(p) <=> p.status \in {"DATALEN1", "DATALEN2", "DATA"}
<1>1. p.status \in Statuses
  BY ParserFields
<1> QED
  BY <1>1 DEF Line!InPacket, Syncing, Statuses

LEMMA LostIs ==
  ASSUME NEW p, p.len \in Uint16
  PROVE  /\ Sound(Line!Lost(p)) /\ Line!Lost(p).status = "SYNCHEAD1"
         /\ Line!Lost(p).key = FALSE /\ Line!Lost(p).len = p.len
<1>1. /\ Line!Lost(p) \in Line!Parsers /\ Line!Lost(p).status = "SYNCHEAD1"
      /\ Line!Lost(p).key = FALSE /\ Line!Lost(p).len = p.len /\ Line!Lost(p).pkt = <<>>
  <2>1. Line!Lost(p) = Line!Parser("SYNCHEAD1", FALSE, p.len, <<>>)
    BY DEF Line!Lost
  <2> QED
    BY <2>1, ParserSet, HeaderBytes, StatusNames DEF Line!Parser
<1> QED
  BY <1>1 DEF Sound

LEMMA HeadedIs ==
  ASSUME NEW p, p.len \in Uint16
  PROVE  /\ Sound(Line!Headed(p)) /\ Line!Headed(p).status = "DATALEN1"
         /\ Line!Headed(p).key = FALSE /\ Line!Headed(p).len = p.len
         /\ Line!Headed(p).pkt = <<HDR, HDR>> /\ KeptFor(Line!Headed(p)) = <<HDR, HDR>>
<1>1. /\ Line!Headed(p) \in Line!Parsers /\ Line!Headed(p).status = "DATALEN1"
      /\ Line!Headed(p).key = FALSE /\ Line!Headed(p).len = p.len
      /\ Line!Headed(p).pkt = <<HDR, HDR>>
  <2>1. Line!Headed(p) = Line!Parser("DATALEN1", FALSE, p.len, <<HDR, HDR>>)
    BY SameBytes DEF Line!Headed
  <2> QED
    BY <2>1, ParserSet, HeaderBytes, StatusNames DEF Line!Parser
<1> QED
  BY <1>1 DEF Sound, KeptFor, Syncing

\* A byte that belongs to the packet, with the ring already as it should be.
LEMMA Taken ==
  ASSUME NEW s \in Records, NEW p, Sound(p), p.status \notin Syncing,
         s.key = FALSE, s.len = p.len, s.status = p.status, s.done = FALSE,
         NEW base, s.pkt = base, NEW b \in Bytes, NEW t,
         Ring(s.mem, base, Plus(s.start, 1), s.cur, Append(p.pkt, b), t)
  PROVE  /\ Sim(TakeByte(s, b), Line!Take(p, b), t)
         /\ TakeByte(s, b).done <=> p.status = "DATA" /\ p.len = 1
<1> DEFINE q == Append(p.pkt, b)
<1>1. p.status \in {"DATALEN1", "DATALEN2", "DATA"} /\ p.len \in Uint16 /\ q \in Seq(Bytes)
  BY ParserFields DEF Statuses, Syncing
<1> HIDE DEF q
<1>2. CASE p.status = "DATALEN1"
  <2> DEFINE high == 256 * b
             w == [s EXCEPT !.len = high, !.status = "DATALEN2"]
             n == Line!Parser("DATALEN2", FALSE, high, q)
  <2>0. high \in Uint16
    BY TwoBytes
  <2>1. high <= 65280
    BY TwoBytes
  <2>4. TakeByte(s, b) = Passed(w)
    BY <1>2 DEF TakeByte
  <2>5. Line!Take(p, b) = n
    BY <1>2 DEF Line!Take, q
  <2> HIDE DEF high
  <2>2. /\ w \in Records /\ w.mem = s.mem /\ w.start = s.start /\ w.cur = s.cur
        /\ w.status = "DATALEN2" /\ w.len = high /\ w.pkt = base /\ w.key = FALSE
        /\ w.done = FALSE
    BY <2>0 DEF Records, Statuses
  <2>3. /\ n \in Line!Parsers /\ n.status = "DATALEN2" /\ n.key = FALSE /\ n.len = high
        /\ n.pkt = q
    BY <1>1, <2>0, ParserSet, StatusNames DEF Line!Parser
  <2> HIDE DEF w, n
  <2>6. Sound(n) /\ KeptFor(n) = q
    BY <2>1, <2>3 DEF Sound, KeptFor, Syncing
  <2>7. Ring(w.mem, base, Plus(w.start, 1), w.cur, q, t)
    BY <2>2 DEF q
  <2>8. Sim(Passed(w), n, t)
    BY <2>2, <2>3, <2>6, <2>7, SimPassed
  <2>9. Passed(w).done = FALSE
    BY <2>2, PassedFields
  <2> QED
    BY <1>2, <2>4, <2>5, <2>8, <2>9
<1>3. CASE p.status = "DATALEN2" /\ p.len + b = 0
  <2> DEFINE w == [s EXCEPT !.len = s.len + b, !.status = "SYNCHEAD1"]
             n == Line!Lost([p EXCEPT !.len = 0])
  <2>1. s.len + b = 0 /\ 0 \in Uint16
    BY <1>3, Uint16Is
  <2>2. /\ w \in Records /\ w.mem = s.mem /\ w.start = s.start /\ w.cur = s.cur
        /\ w.status = "SYNCHEAD1" /\ w.len = 0 /\ w.pkt = base /\ w.key = FALSE
        /\ w.done = FALSE
    BY <2>1 DEF Records, Statuses
  <2>3. [p EXCEPT !.len = 0].len = 0
    BY ParserFields
  <2>4. Sound(n) /\ n.status = "SYNCHEAD1" /\ n.key = FALSE /\ n.len = 0
    BY <2>1, <2>3, LostIs
  <2>5. TakeByte(s, b) = Passed(w)
    BY <1>3, <2>1 DEF TakeByte
  <2>6. Line!Take(p, b) = n
    BY <1>3 DEF Line!Take
  <2> HIDE DEF w, n
  <2>7. Ring(w.mem, base, Plus(w.start, 1), w.cur, q, t)
    BY <2>2 DEF q
  <2>8. Sim(Passed(w), n, t)
    BY <2>2, <2>4, <2>7, SimPassed
  <2>9. Passed(w).done = FALSE
    BY <2>2, PassedFields
  <2> QED
    BY <1>3, <2>5, <2>6, <2>8, <2>9
<1>4. CASE p.status = "DATALEN2" /\ p.len + b # 0
  <2> DEFINE w == [s EXCEPT !.len = s.len + b, !.status = "DATA"]
             n == Line!Parser("DATA", FALSE, p.len + b, q)
  <2>1. s.len + b # 0 /\ s.len + b = p.len + b /\ p.len + b \in Uint16
    BY <1>1, <1>4, TwoBytes DEF Sound
  <2>2. /\ w \in Records /\ w.mem = s.mem /\ w.start = s.start /\ w.cur = s.cur
        /\ w.status = "DATA" /\ w.len = p.len + b /\ w.pkt = base /\ w.key = FALSE
        /\ w.done = FALSE
    BY <2>1 DEF Records, Statuses
  <2>3. /\ n \in Line!Parsers /\ n.status = "DATA" /\ n.key = FALSE /\ n.len = p.len + b
        /\ n.pkt = q
    BY <1>1, <2>1, ParserSet, StatusNames DEF Line!Parser
  <2>4. TakeByte(s, b) = Passed(w)
    BY <1>4, <2>1 DEF TakeByte
  <2>5. Line!Take(p, b) = n
    BY <1>4 DEF Line!Take, q
  <2> HIDE DEF w, n
  <2>6. Sound(n) /\ KeptFor(n) = q
    BY <2>3 DEF Sound, KeptFor, Syncing
  <2>7. Ring(w.mem, base, Plus(w.start, 1), w.cur, q, t)
    BY <2>2 DEF q
  <2>8. Sim(Passed(w), n, t)
    BY <2>2, <2>3, <2>6, <2>7, SimPassed
  <2>9. Passed(w).done = FALSE
    BY <2>2, PassedFields
  <2> QED
    BY <1>4, <2>4, <2>5, <2>8, <2>9
<1>5. CASE p.status = "DATA"
  <2> DEFINE left == (p.len + 65535) % 65536
             w == [s EXCEPT !.len = left, !.done = left = 0]
             n == Line!Parser("DATA", FALSE, left, q)
  <2>1. left \in Uint16 /\ (left = 0 <=> p.len = 1)
    BY <1>1, CountDown
  <2>2. TakeByte(s, b) = Passed(w)
    BY <1>5 DEF TakeByte
  <2>3. Line!Take(p, b) = n
    BY <1>5 DEF Line!Take, q
  <2> HIDE DEF left
  <2>4. /\ w \in Records /\ w.mem = s.mem /\ w.start = s.start /\ w.cur = s.cur
        /\ w.status = "DATA" /\ w.len = left /\ w.pkt = base /\ w.key = FALSE
        /\ w.done = (left = 0)
    BY <1>5, <2>1 DEF Records, Statuses
  <2>5. /\ n \in Line!Parsers /\ n.status = "DATA" /\ n.key = FALSE /\ n.len = left
        /\ n.pkt = q
    BY <1>1, <2>1, ParserSet, StatusNames DEF Line!Parser
  <2> HIDE DEF w, n
  <2>6. Sound(n) /\ KeptFor(n) = q
    BY <2>5 DEF Sound, KeptFor, Syncing
  <2>7. Ring(w.mem, base, Plus(w.start, 1), w.cur, q, t)
    BY <2>4 DEF q
  <2>8. Sim(Passed(w), n, t)
    BY <2>4, <2>5, <2>6, <2>7, SimPassed
  <2>9. Passed(w).done = (left = 0)
    BY <2>4, PassedFields
  <2> QED
    BY <1>5, <2>1, <2>2, <2>3, <2>8, <2>9
<1> QED
  BY <1>1, <1>2, <1>3, <1>4, <1>5

LEMMA Appended ==
  ASSUME NEW s \in Seq(Bytes), NEW b \in Bytes
  PROVE  /\ Append(s, b) \in Seq(Bytes) /\ Len(Append(s, b)) = Len(s) + 1
         /\ \A i \in 1 .. Len(s) : Append(s, b)[i] = s[i]
         /\ Append(s, b)[Len(s) + 1] = b
OBVIOUS

LEMMA TwoHeads ==
  ASSUME NEW s \in Seq(Bytes), Len(s) = 2, s[1] = HDR, s[2] = HDR
  PROVE  s = <<HDR, HDR>>
<1> DEFINE h == <<HDR, HDR>>
<1>1. h \in Seq(Bytes)
  BY HeaderBytes
<1>2. Len(h) = 2 /\ h[1] = HDR /\ h[2] = HDR
  OBVIOUS
<1> HIDE DEF h
<1>3. \A i \in 1 .. Len(s) : i = 1 \/ i = 2
  OBVIOUS
<1>4. s = h
  BY <1>1, <1>2, <1>3, SeqEqual
<1> QED
  BY <1>4 DEF h

LEMMA KeyKept ==
  ASSUME NEW key \in BOOLEAN, NEW a, NEW b, NEW c
  PROVE  [Line!Parser(a, key, b, c) EXCEPT !.key = key] = Line!Parser(a, key, b, c)
BY DEF Line!Parser

LEMMA AtParts ==
  ASSUME NEW r, NEW p, NEW u, NEW base, At(r, p, u, base), u # <<>>
  PROVE  /\ r \in Records /\ Sound(p) /\ base \in Pos /\ base \in Int /\ u \in Seq(Bytes)
         /\ r.status = p.status /\ r.key = p.key /\ r.len = p.len
         /\ p.status # "SYNCHEAD1" => r.pkt = base
         /\ Ring(r.mem, base, r.start, r.cur, KeptFor(p), u)
         /\ KeptFor(p) \in Seq(Bytes) /\ r.start = Plus(base, Len(KeptFor(p)))
         /\ Byte(r) = Head(u) /\ Head(u) \in Bytes
         /\ Ring(r.mem, base, Plus(r.start, 1), r.cur, Append(KeptFor(p), Head(u)), Tail(u))
<1>1. /\ r \in Records /\ Sound(p) /\ r.status = p.status /\ r.key = p.key /\ r.len = p.len
      /\ p.status # "SYNCHEAD1" => r.pkt = base
      /\ Ring(r.mem, base, r.start, r.cur, KeptFor(p), u)
  BY DEF At
<1>2. /\ base \in Pos /\ base \in Int /\ u \in Seq(Bytes)
      /\ KeptFor(p) \in Seq(Bytes) /\ r.start = Plus(base, Len(KeptFor(p)))
  BY <1>1, RingParts
<1>3. Byte(r) = Head(u) /\ Head(u) \in Bytes
  BY <1>1, RingByte DEF Byte
<1>4. Ring(r.mem, base, Plus(r.start, 1), r.cur, Append(KeptFor(p), Head(u)), Tail(u))
  BY <1>1, RingPass
<1> QED
  BY <1>1, <1>2, <1>3, <1>4

\* Looking for a header.
LEMMA SyncStep ==
  ASSUME NEW r, NEW p, NEW u, NEW base, At(r, p, u, base), u # <<>>, r.done = FALSE,
         p.status \in Syncing
  PROVE  /\ Sim(SyncHead(r), Line!Sync(p, Head(u)), Tail(u))
         /\ SyncHead(r).done = FALSE
<1> DEFINE b == Head(u)
           t == Tail(u)
           after == Append(KeptFor(p), b)
<1>1. /\ r \in Records /\ Sound(p) /\ base \in Pos
      /\ r.status = p.status /\ r.key = p.key /\ r.len = p.len
      /\ p.status # "SYNCHEAD1" => r.pkt = base
      /\ r.start = Plus(base, Len(KeptFor(p))) /\ Byte(r) = b
      /\ Ring(r.mem, base, Plus(r.start, 1), r.cur, after, t)
  BY AtParts
<1>2. p.key = FALSE /\ p.len \in Uint16
  BY <1>1, ParserFields DEF Sound
<1> HIDE DEF b, t
<1>3. CASE p.status = "SYNCHEAD1" /\ b = HDR
  <2> DEFINE w == [r EXCEPT !.status = "SYNCHEAD2", !.pkt = r.start]
             n == Line!Parser("SYNCHEAD2", FALSE, p.len, <<>>)
  <2>1. /\ w \in Records /\ w.mem = r.mem /\ w.start = r.start /\ w.cur = r.cur
        /\ w.status = "SYNCHEAD2" /\ w.len = p.len /\ w.pkt = r.start /\ w.key = FALSE
        /\ w.done = FALSE
    BY <1>1, <1>2 DEF Records, Statuses
  <2>2. /\ n \in Line!Parsers /\ n.status = "SYNCHEAD2" /\ n.key = FALSE /\ n.len = p.len
        /\ n.pkt = <<>>
    BY <1>2, ParserSet, StatusNames, HeaderBytes DEF Line!Parser
  <2>3. SyncHead(r) = Passed(w)
    BY <1>1, <1>3 DEF SyncHead
  <2>4. Line!Sync(p, b) = n
    BY <1>2, <1>3, SameBytes DEF Line!Sync
  <2> HIDE DEF w, n
  <2>5. Sound(n) /\ KeptFor(n) = <<HDR>>
    BY <2>2 DEF Sound, KeptFor, Syncing
  <2>6. KeptFor(p) = <<>>
    BY <1>3 DEF KeptFor
  <2>7. after = <<HDR>>
    BY <1>3, <2>6
  <2>8. w.pkt = base
    <3>1. Len(KeptFor(p)) = 0
      BY <2>6
    <3> QED
      BY <1>1, <2>1, <3>1, PlusZero
  <2> HIDE DEF after
  <2>9. Ring(w.mem, base, Plus(w.start, 1), w.cur, after, t)
    BY <1>1, <2>1
  <2>10. Sim(Passed(w), n, t)
    BY <2>1, <2>2, <2>5, <2>7, <2>8, <2>9, SimPassed
  <2>11. Passed(w).done = FALSE
    BY <2>1, PassedFields
  <2> QED
    BY <2>3, <2>4, <2>10, <2>11 DEF b, t
<1>4. CASE p.status = "SYNCHEAD1" /\ b # HDR
  <2> DEFINE n == Line!Parser("SYNCHEAD1", FALSE, p.len, <<>>)
  <2>1. /\ n \in Line!Parsers /\ n.status = "SYNCHEAD1" /\ n.key = FALSE /\ n.len = p.len
        /\ n.pkt = <<>>
    BY <1>2, ParserSet, StatusNames, HeaderBytes DEF Line!Parser
  <2>2. SyncHead(r) = Passed(r)
    BY <1>1, <1>4 DEF SyncHead
  <2>3. Line!Sync(p, b) = n
    BY <1>2, <1>4, SameBytes DEF Line!Sync
  <2> HIDE DEF n, after
  <2>4. Sound(n)
    BY <2>1 DEF Sound
  <2>5. Sim(Passed(r), n, t)
    BY <1>1, <1>2, <1>4, <2>1, <2>4, SimPassed
  <2>6. Passed(r).done = FALSE
    BY <1>1, PassedFields
  <2> QED
    BY <2>2, <2>3, <2>5, <2>6 DEF b, t
<1>5. CASE p.status = "SYNCHEAD2" /\ b = HDR
  <2> DEFINE w == [r EXCEPT !.status = "DATALEN1"]
             n == Line!Headed(p)
  <2>1. /\ w \in Records /\ w.mem = r.mem /\ w.start = r.start /\ w.cur = r.cur
        /\ w.status = "DATALEN1" /\ w.len = p.len /\ w.pkt = r.pkt /\ w.key = FALSE
        /\ w.done = FALSE
    BY <1>1, <1>2 DEF Records, Statuses
  <2>2. /\ Sound(n) /\ n.status = "DATALEN1" /\ n.key = FALSE /\ n.len = p.len
        /\ KeptFor(n) = <<HDR, HDR>>
    BY <1>2, HeadedIs
  <2>3. SyncHead(r) = Passed(w)
    BY <1>1, <1>5 DEF SyncHead
  <2>4. Line!Sync(p, b) = n
    <3>1. [n EXCEPT !.key = FALSE] = n
      BY KeyKept, Zenon DEF Line!Headed
    <3> HIDE DEF n
    <3>2. Line!Sync(p, b) = [Line!Headed(p) EXCEPT !.key = p.key]
      BY <1>5, SameBytes DEF Line!Sync
    <3> QED
      BY <1>2, <3>1, <3>2 DEF n
  <2> HIDE DEF w, n
  <2>5. after = <<HDR, HDR>>
    <3>1. after = Append(<<HDR>>, HDR)
      BY <1>5 DEF KeptFor
    <3>2. /\ Append(<<HDR>>, HDR) \in Seq(Bytes) /\ Len(Append(<<HDR>>, HDR)) = 2
          /\ Append(<<HDR>>, HDR)[1] = HDR /\ Append(<<HDR>>, HDR)[2] = HDR
      BY SameBytes
    <3> QED
      BY <3>1, <3>2, TwoHeads
  <2> HIDE DEF after
  <2>6. Ring(w.mem, base, Plus(w.start, 1), w.cur, after, t)
    BY <1>1, <2>1
  <2>7. Sim(Passed(w), n, t)
    BY <1>1, <1>5, <2>1, <2>2, <2>5, <2>6, SimPassed
  <2>8. Passed(w).done = FALSE
    BY <2>1, PassedFields
  <2> QED
    BY <2>3, <2>4, <2>7, <2>8 DEF b, t
<1>6. CASE p.status = "SYNCHEAD2" /\ b # HDR
  <2> DEFINE w == [r EXCEPT !.status = "SYNCHEAD1"]
             n == Line!Lost(p)
  <2>1. /\ w \in Records /\ w.mem = r.mem /\ w.start = r.start /\ w.cur = r.cur
        /\ w.status = "SYNCHEAD1" /\ w.len = p.len /\ w.pkt = r.pkt /\ w.key = FALSE
        /\ w.done = FALSE
    BY <1>1, <1>2 DEF Records, Statuses
  <2>2. Sound(n) /\ n.status = "SYNCHEAD1" /\ n.key = FALSE /\ n.len = p.len
    BY <1>2, LostIs
  <2>3. SyncHead(r) = Passed(w)
    BY <1>1, <1>6 DEF SyncHead
  <2>4. Line!Sync(p, b) = n
    <3>1. [n EXCEPT !.key = FALSE] = n
      BY KeyKept, Zenon DEF Line!Lost
    <3> HIDE DEF n
    <3>2. Line!Sync(p, b) = [Line!Lost(p) EXCEPT !.key = p.key]
      BY <1>6, SameBytes DEF Line!Sync
    <3> QED
      BY <1>2, <3>1, <3>2 DEF n
  <2> HIDE DEF w, n, after
  <2>5. Ring(w.mem, base, Plus(w.start, 1), w.cur, after, t)
    BY <1>1, <2>1
  <2>6. Sim(Passed(w), n, t)
    BY <2>1, <2>2, <2>5, SimPassed
  <2>7. Passed(w).done = FALSE
    BY <2>1, PassedFields
  <2> QED
    BY <2>3, <2>4, <2>6, <2>7 DEF b, t
<1> QED
  BY <1>3, <1>4, <1>5, <1>6 DEF Syncing

\* 0xff 0x55: the 0xff is a byte of the packet.
LEMMA UnescapedStep ==
  ASSUME NEW r, NEW p, NEW u, NEW base, At(r, p, u, base), u # <<>>, r.done = FALSE,
         p.status \notin Syncing, p.key = TRUE
  PROVE  /\ Sim(Unescaped(r), Line!Take(p, HDR), Tail(u))
         /\ Unescaped(r).done <=> p.status = "DATA" /\ p.len = 1
<1> DEFINE t == Tail(u)
           q == Append(p.pkt, HDR)
<1>1. /\ r \in Records /\ Sound(p) /\ base \in Pos /\ base \in Int
      /\ r.status = p.status /\ r.key = p.key /\ r.len = p.len
      /\ p.status # "SYNCHEAD1" => r.pkt = base
      /\ r.start = Plus(base, Len(KeptFor(p)))
      /\ Ring(r.mem, base, r.start, r.cur, KeptFor(p), u)
  BY AtParts
<1>2. KeptFor(p) = q
  BY DEF KeptFor, Syncing
<1>3. q \in Seq(Bytes) /\ Len(q) \in Int
  <2>1. p.pkt \in Seq(Bytes)
    BY <1>1, ParserFields
  <2> QED
    BY <2>1, SameBytes
<1> HIDE DEF q, t
<1> DEFINE new == Pulled(r.mem, r.start, r.cur)
           end == Minus(r.cur, 1)
           back == Minus(r.start, 1)
           w == [r EXCEPT !.key = FALSE, !.mem = new, !.cur = end, !.start = back]
<1>4. Unescaped(r) = TakeByte(w, HDR)
  BY Zenon DEF Unescaped, Pulled
<1>5. Ring(new, base, r.start, end, q, t)
  BY <1>1, <1>2, RingPull DEF t
<1>6. new \in [0 .. Size - 1 -> Bytes]
  BY <1>5, RingParts
<1>7. end \in Pos /\ back \in Pos
  <2>1. r.cur \in Int /\ r.start \in Int
    BY <1>1 DEF Records, Pos
  <2> QED
    BY <2>1, PosTypes
<1>8. Plus(back, 1) = r.start
  <2>1. back = Plus(base, Len(q) - 1)
    <3>1. r.start = Plus(base, Len(q))
      BY <1>1, <1>2
    <3>2. Minus(Plus(base, Len(q)), 1) = Plus(base, Len(q) - 1)
      BY <1>1, <1>3, MinusPlus
    <3> QED
      BY <3>1, <3>2
  <2>2. Plus(Plus(base, Len(q) - 1), 1) = Plus(base, Len(q) - 1 + 1)
    <3>1. Len(q) - 1 \in Int /\ 1 \in Int
      BY <1>3
    <3> QED
      BY <1>1, <3>1, PlusPlus
  <2>3. Len(q) - 1 + 1 = Len(q)
    BY <1>3
  <2> QED
    BY <1>1, <1>2, <2>1, <2>2, <2>3
<1> HIDE DEF new, end, back
<1>9. /\ w \in Records /\ w.mem = new /\ w.start = back /\ w.cur = end
      /\ w.status = p.status /\ w.len = p.len /\ w.pkt = r.pkt /\ w.key = FALSE
      /\ w.done = FALSE
  BY <1>1, <1>6, <1>7 DEF Records
<1>10. w.pkt = base
  BY <1>1, <1>9 DEF Syncing
<1> HIDE DEF w
<1>11. Ring(w.mem, base, Plus(w.start, 1), w.cur, Append(p.pkt, HDR), t)
  BY <1>5, <1>8, <1>9 DEF q
<1>12. HDR \in Bytes
  BY SameBytes
<1>13. /\ Sim(TakeByte(w, HDR), Line!Take(p, HDR), t)
       /\ TakeByte(w, HDR).done <=> p.status = "DATA" /\ p.len = 1
  BY <1>1, <1>9, <1>10, <1>11, <1>12, Taken
<1> QED
  BY <1>4, <1>13 DEF t

\* After a 0xff of the packet.
LEMMA HeldStep ==
  ASSUME NEW r, NEW p, NEW u, NEW base, At(r, p, u, base), u # <<>>, r.done = FALSE,
         p.status \notin Syncing, p.key = TRUE
  PROVE  /\ Sim(AfterKey(r), Line!Held(p, Head(u)), Tail(u))
         /\ AfterKey(r).done <=> p.status = "DATA" /\ p.len = 1 /\ Head(u) = ESC
<1> DEFINE b == Head(u)
           t == Tail(u)
           q == Append(p.pkt, HDR)
           after == Append(q, b)
<1>1. /\ r \in Records /\ Sound(p) /\ base \in Pos /\ base \in Int /\ u \in Seq(Bytes)
      /\ r.status = p.status /\ r.key = p.key /\ r.len = p.len
      /\ p.status # "SYNCHEAD1" => r.pkt = base
      /\ r.start = Plus(base, Len(KeptFor(p))) /\ Byte(r) = b /\ b \in Bytes
      /\ Ring(r.mem, base, r.start, r.cur, KeptFor(p), u)
      /\ Ring(r.mem, base, Plus(r.start, 1), r.cur, Append(KeptFor(p), b), t)
  BY AtParts
<1>2. p.len \in Uint16 /\ p.pkt \in Seq(Bytes)
  BY <1>1, ParserFields
<1>3. KeptFor(p) = q
  BY DEF KeptFor, Syncing
<1>4. Ring(r.mem, base, Plus(r.start, 1), r.cur, after, t)
  BY <1>1, <1>3
<1>5. CASE b = ESC
  <2>1. AfterKey(r) = Unescaped(r)
    BY <1>1, <1>5, SameBytes DEF AfterKey
  <2>2. Line!Held(p, b) = Line!Take(p, HDR)
    BY <1>5, SameBytes DEF Line!Held
  <2>3. /\ Sim(Unescaped(r), Line!Take(p, HDR), t)
        /\ Unescaped(r).done <=> p.status = "DATA" /\ p.len = 1
    BY UnescapedStep
  <2> QED
    BY <1>5, <2>1, <2>2, <2>3
<1>6. CASE b = HDR
  <2> DEFINE back == Minus(r.start, 1)
             w == [r EXCEPT !.key = FALSE, !.status = "DATALEN1", !.pkt = back]
             n == Line!Headed(p)
             m == Len(p.pkt)
  <2>1. m \in Nat /\ Len(q) = m + 1 /\ q \in Seq(Bytes)
    BY <1>2, SameBytes
  <2>2. /\ after \in Seq(Bytes) /\ Len(after) = m + 2 /\ after[m + 1] = HDR
        /\ after[m + 2] = HDR
    BY <1>1, <1>2, <1>6, SameBytes
  <2>3. back = Plus(base, m)
    <3>1. r.start = Plus(base, m + 1) /\ m + 1 \in Int /\ m + 1 - 1 = m /\ 1 \in Int
      BY <1>1, <1>3, <2>1
    <3>2. \A k \in Int : Minus(Plus(base, k), 1) = Plus(base, k - 1)
      BY <1>1, MinusPlus
    <3> QED
      BY <3>1, <3>2
  <2>4. AfterKey(r) = Passed(w)
    <3>1. AfterKey(r) = Passed([[r EXCEPT !.key = FALSE] EXCEPT
                                  !.status = "DATALEN1", !.pkt = back])
      BY <1>1, <1>6, SameBytes DEF AfterKey
    <3> QED
      BY <3>1
  <2>5. Line!Held(p, b) = n
    BY <1>6, SameBytes DEF Line!Held
  <2>6. back \in Pos
    BY <1>1, <2>1, <2>3, PosTypes
  <2> HIDE DEF back
  <2>7. /\ w \in Records /\ w.mem = r.mem /\ w.start = r.start /\ w.cur = r.cur
        /\ w.status = "DATALEN1" /\ w.len = p.len /\ w.pkt = back /\ w.key = FALSE
        /\ w.done = FALSE
    BY <1>1, <2>6 DEF Records, Statuses
  <2>8. /\ Sound(n) /\ n.status = "DATALEN1" /\ n.key = FALSE /\ n.len = p.len
        /\ KeptFor(n) = <<HDR, HDR>>
    BY <1>2, HeadedIs
  <2> HIDE DEF w, n, after
  <2>9. SubSeq(after, m + 1, Len(after)) = <<HDR, HDR>> /\ m \in 0 .. Len(after)
    <3> DEFINE s == SubSeq(after, m + 1, Len(after))
    <3>1. \A i \in m + 1 .. Len(after) : after[i] \in Bytes
      BY <2>1, <2>2
    <3>2. s \in Seq(Bytes) /\ Len(s) = 2 /\ s[1] = HDR /\ s[2] = HDR
      BY <2>1, <2>2, <3>1, SubSeqProperties
    <3> HIDE DEF s
    <3>3. s = <<HDR, HDR>>
      BY <3>2, TwoHeads
    <3> QED
      BY <2>1, <2>2, <3>3 DEF s
  <2>10. Ring(w.mem, base, Plus(w.start, 1), w.cur, after, t)
    BY <1>4, <2>7
  <2>11. Sim(Passed(w), n, t)
    <3>1. KeptFor(n) = SubSeq(after, m + 1, Len(after)) /\ w.pkt = Plus(base, m)
      BY <2>3, <2>7, <2>8, <2>9
    <3> QED
      BY <2>7, <2>8, <2>9, <2>10, <3>1, SimPassed
  <2>12. Passed(w).done = FALSE
    BY <2>7, PassedFields
  <2> QED
    BY <1>6, <2>4, <2>5, <2>11, <2>12, SameBytes
<1>7. CASE b \notin {ESC, HDR} /\ p.status = "DATALEN1"
  <2> DEFINE back == Minus(r.start, 2)
             w == [r EXCEPT !.key = FALSE, !.pkt = back]
             n == Line!Headed(p)
             h == <<HDR, HDR>>
  <2>1. q \in Seq(Bytes) /\ Len(q) = 3 /\ q[2] = HDR /\ q[3] = HDR
    <3>1. p.pkt = h
      BY <1>1, <1>7 DEF Sound
    <3>2. h \in Seq(Bytes) /\ Len(h) = 2 /\ h[1] = HDR /\ h[2] = HDR
      BY HeaderBytes
    <3> HIDE DEF h
    <3>3. /\ Append(h, HDR) \in Seq(Bytes) /\ Len(Append(h, HDR)) = 3
          /\ Append(h, HDR)[2] = HDR /\ Append(h, HDR)[3] = HDR
      <4>2. /\ Append(h, HDR) \in Seq(Bytes) /\ Len(Append(h, HDR)) = Len(h) + 1
            /\ \A i \in 1 .. Len(h) : Append(h, HDR)[i] = h[i]
            /\ Append(h, HDR)[Len(h) + 1] = HDR
        BY <3>2, SameBytes, Appended, ZenonT(40)
      <4>3. Len(h) + 1 = 3 /\ 2 \in 1 .. Len(h)
        BY <3>2
      <4> QED
        BY <3>2, <4>2, <4>3
    <3> QED
      BY <3>1, <3>3
  <2>2. back = Plus(base, 1)
    <3>1. r.start = Plus(base, 3)
      BY <1>1, <1>3, <2>1
    <3>2. Minus(Plus(base, 3), 2) = Plus(base, 3 - 2)
      BY <1>1, MinusPlus
    <3> QED
      BY <3>1, <3>2
  <2>3. AfterKey(r) = TakeByte(w, b)
    <3>1. AfterKey(r) = TakeByte([[r EXCEPT !.key = FALSE] EXCEPT !.pkt = back], b)
      BY <1>1, <1>7, SameBytes DEF AfterKey
    <3> QED
      BY <3>1
  <2>4. Line!Held(p, b) = Line!Take(n, b)
    BY <1>7, SameBytes DEF Line!Held
  <2>5. back \in Pos
    BY <1>1, <2>2, PosTypes
  <2> HIDE DEF back
  <2>6. /\ w \in Records /\ w.mem = r.mem /\ w.start = r.start /\ w.cur = r.cur
        /\ w.status = "DATALEN1" /\ w.len = p.len /\ w.pkt = back /\ w.key = FALSE
        /\ w.done = FALSE
    BY <1>1, <1>7, <2>5 DEF Records
  <2>7. /\ Sound(n) /\ n.status = "DATALEN1" /\ n.key = FALSE /\ n.len = p.len
        /\ n.pkt = h
    BY <1>2, HeadedIs
  <2> HIDE DEF w, n
  <2>8. SubSeq(q, 1 + 1, Len(q)) = h
    <3> DEFINE s == SubSeq(q, 1 + 1, Len(q))
    <3>1. \A i \in 2 .. 3 : q[i] \in Bytes
      BY <2>1
    <3>2. s \in Seq(Bytes) /\ Len(s) = 2 /\ s[1] = HDR /\ s[2] = HDR
      BY <2>1, <3>1, SubSeqProperties
    <3> HIDE DEF s
    <3>3. s = h
      BY <3>2, TwoHeads
    <3> QED
      BY <3>3 DEF s
  <2>9. Ring(r.mem, back, r.start, r.cur, h, u)
    <3>1. 1 \in 0 .. Len(q) /\ Ring(r.mem, base, r.start, r.cur, q, u)
      BY <1>1, <1>3, <2>1
    <3>2. Ring(r.mem, Plus(base, 1), r.start, r.cur, SubSeq(q, 1 + 1, Len(q)), u)
      BY <3>1, RingDrop
    <3> QED
      BY <2>2, <2>8, <3>2
  <2> HIDE DEF h, q, after
  <2>10. Ring(r.mem, back, Plus(r.start, 1), r.cur, Append(h, b), t)
    BY <2>9, RingPass
  <2>11. Ring(w.mem, back, Plus(w.start, 1), w.cur, Append(n.pkt, b), t)
    BY <2>6, <2>7, <2>10
  <2>12. n.status \notin Syncing
    BY <2>7 DEF Syncing
  <2> HIDE DEF b, t
  <2>13. /\ Sim(TakeByte(w, b), Line!Take(n, b), t)
         /\ TakeByte(w, b).done <=> n.status = "DATA" /\ n.len = 1
    BY <1>1, <2>6, <2>7, <2>11, <2>12, Taken
  <2> QED
    BY <1>7, <2>3, <2>4, <2>7, <2>13 DEF b, t
<1>8. CASE b \notin {ESC, HDR} /\ p.status # "DATALEN1"
  <2> DEFINE w == [r EXCEPT !.key = FALSE, !.status = "SYNCHEAD1"]
             n == Line!Lost(p)
  <2>1. /\ w \in Records /\ w.mem = r.mem /\ w.start = r.start /\ w.cur = r.cur
        /\ w.status = "SYNCHEAD1" /\ w.len = p.len /\ w.pkt = r.pkt /\ w.key = FALSE
        /\ w.done = FALSE
    BY <1>1 DEF Records, Statuses
  <2>2. Sound(n) /\ n.status = "SYNCHEAD1" /\ n.key = FALSE /\ n.len = p.len
    BY <1>2, LostIs
  <2>3. AfterKey(r) = Passed(w)
    <3>1. AfterKey(r) = Passed([[r EXCEPT !.key = FALSE] EXCEPT !.status = "SYNCHEAD1"])
      BY <1>1, <1>8 DEF AfterKey
    <3> QED
      BY <3>1
  <2>4. Line!Held(p, b) = n
    BY <1>8, SameBytes DEF Line!Held
  <2> HIDE DEF w, n, after
  <2>5. Ring(w.mem, base, Plus(w.start, 1), w.cur, after, t)
    BY <1>4, <2>1
  <2>6. Sim(Passed(w), n, t)
    BY <2>1, <2>2, <2>5, SimPassed
  <2>7. Passed(w).done = FALSE
    BY <2>1, PassedFields
  <2> QED
    BY <1>8, <2>3, <2>4, <2>6, <2>7
<1> QED
  BY <1>5, <1>6, <1>7, <1>8

\* One turn of the loop is one byte of the line, wherever it lies in the ring.
LEMMA OneStep ==
  ASSUME NEW r, NEW p, NEW u, Sim(r, p, u), u # <<>>, r.done = FALSE
  PROVE  /\ Sim(OneByte(r), Line!Step(p, Head(u)), Tail(u))
         /\ OneByte(r).done <=> Line!Completes(p, Head(u))
<1> DEFINE b == Head(u)
           t == Tail(u)
<1>1. PICK base \in Pos : At(r, p, u, base)
  BY DEF Sim
<1>2. /\ r \in Records /\ Sound(p) /\ r.status = p.status /\ r.key = p.key /\ r.len = p.len
      /\ p.status # "SYNCHEAD1" => r.pkt = base
      /\ Byte(r) = b /\ b \in Bytes
      /\ Ring(r.mem, base, Plus(r.start, 1), r.cur, Append(KeptFor(p), b), t)
  BY <1>1, AtParts
<1>3. p.key \in BOOLEAN /\ p.len \in Uint16 /\ p.pkt \in Seq(Bytes)
  BY <1>2, ParserFields
<1>4. Line!InPacket(p) <=> p.status \notin Syncing
  BY <1>2, InPacketIs
<1>5. r.status \in {"SYNCHEAD1", "SYNCHEAD2"} <=> p.status \in Syncing
  BY <1>2 DEF Syncing
<1>6. CASE p.status \in Syncing
  <2>1. OneByte(r) = SyncHead(r)
    BY <1>5, <1>6 DEF OneByte
  <2>2. Line!Step(p, b) = Line!Sync(p, b)
    BY <1>4, <1>6 DEF Line!Step
  <2>3. ~Line!Completes(p, b)
    BY <1>6 DEF Line!Completes, Syncing
  <2>4. Sim(SyncHead(r), Line!Sync(p, b), t) /\ SyncHead(r).done = FALSE
    BY <1>1, <1>6, SyncStep
  <2> QED
    BY <2>1, <2>2, <2>3, <2>4
<1>7. CASE p.status \notin Syncing /\ p.key = TRUE
  <2>1. OneByte(r) = AfterKey(r)
    BY <1>2, <1>5, <1>7 DEF OneByte
  <2>2. Line!Step(p, b) = Line!Held(p, b)
    BY <1>4, <1>7 DEF Line!Step
  <2>3. Line!Completes(p, b) <=> p.status = "DATA" /\ p.len = 1 /\ b = ESC
    BY <1>7, SameBytes DEF Line!Completes
  <2>4. /\ Sim(AfterKey(r), Line!Held(p, b), t)
        /\ AfterKey(r).done <=> p.status = "DATA" /\ p.len = 1 /\ b = ESC
    BY <1>1, <1>7, HeldStep
  <2> QED
    BY <2>1, <2>2, <2>3, <2>4
<1>8. CASE p.status \notin Syncing /\ p.key = FALSE /\ b = HDR
  <2> DEFINE w == [r EXCEPT !.key = TRUE]
             n == [p EXCEPT !.key = TRUE]
  <2>1. OneByte(r) = Passed(w)
    BY <1>2, <1>5, <1>8 DEF OneByte
  <2>2. Line!Step(p, b) = n
    BY <1>4, <1>8, SameBytes DEF Line!Step
  <2>3. ~Line!Completes(p, b)
    BY <1>8, SameBytes DEF Line!Completes
  <2>4. /\ w \in Records /\ w.mem = r.mem /\ w.start = r.start /\ w.cur = r.cur
        /\ w.status = p.status /\ w.len = p.len /\ w.pkt = r.pkt /\ w.key = TRUE
        /\ w.done = FALSE
    BY <1>2 DEF Records
  <2>5. /\ n \in Line!Parsers /\ n.status = p.status /\ n.key = TRUE /\ n.len = p.len
        /\ n.pkt = p.pkt
    <3>1. p \in [status : Statuses, key : BOOLEAN, len : Uint16, pkt : Seq(Bytes)]
      BY <1>2, ParserSet DEF Sound
    <3>2. n \in [status : Statuses, key : BOOLEAN, len : Uint16, pkt : Seq(Bytes)]
      BY <3>1
    <3>3. n.status = p.status /\ n.key = TRUE /\ n.len = p.len /\ n.pkt = p.pkt
      BY <3>1
    <3> QED
      BY <3>2, <3>3, ParserSet
  <2> HIDE DEF w, n
  <2>6. Sound(n)
    BY <1>2, <1>8, <2>5 DEF Sound
  <2>7. KeptFor(n) = Append(KeptFor(p), b)
    <3>1. KeptFor(p) = p.pkt
      BY <1>8 DEF KeptFor, Syncing
    <3>2. KeptFor(n) = Append(n.pkt, HDR)
      BY <1>8, <2>5 DEF KeptFor, Syncing
    <3> QED
      BY <1>8, <2>5, <3>1, <3>2
  <2>8. Ring(w.mem, base, Plus(w.start, 1), w.cur, Append(KeptFor(p), b), t)
    BY <1>2, <2>4
  <2>9. w.pkt = base
    BY <1>2, <1>8, <2>4 DEF Syncing
  <2>10. Sim(Passed(w), n, t)
    BY <2>4, <2>5, <2>6, <2>7, <2>8, <2>9, SimPassed
  <2>11. Passed(w).done = FALSE
    BY <2>4, PassedFields
  <2> QED
    BY <2>1, <2>2, <2>3, <2>10, <2>11
<1>9. CASE p.status \notin Syncing /\ p.key = FALSE /\ b # HDR
  <2>1. OneByte(r) = TakeByte(r, b)
    BY <1>2, <1>5, <1>9 DEF OneByte
  <2>2. Line!Step(p, b) = Line!Take(p, b)
    BY <1>4, <1>9, SameBytes DEF Line!Step
  <2>3. Line!Completes(p, b) <=> p.status = "DATA" /\ p.len = 1
    BY <1>9, SameBytes DEF Line!Completes
  <2>4. KeptFor(p) = p.pkt
    BY <1>9 DEF KeptFor, Syncing
  <2>5. r.pkt = base
    BY <1>2, <1>9 DEF Syncing
  <2>6. Ring(r.mem, base, Plus(r.start, 1), r.cur, Append(p.pkt, b), t)
    BY <1>2, <2>4
  <2>7. /\ Sim(TakeByte(r, b), Line!Take(p, b), t)
        /\ TakeByte(r, b).done <=> p.status = "DATA" /\ p.len = 1
    BY <1>2, <1>9, <2>5, <2>6, Taken
  <2> QED
    BY <2>1, <2>2, <2>3, <2>7
<1> QED
  BY <1>3, <1>6, <1>7, <1>8, <1>9

-----------------------------------------------------------------------------
(* What the ring says about the parser *)

UnreadOf(r) == [i \in 1 .. DataLen(r.start, r.cur) |-> r.mem[Slot(r.start + i - 1)]]
KeptOf(r) == IF r.status = "SYNCHEAD1" THEN 0 ELSE Minus(r.start, r.pkt)
ParserOf(r) ==
  [status |-> r.status, key |-> r.key, len |-> r.len,
   pkt |-> IF r.status \in {"SYNCHEAD1", "SYNCHEAD2"} THEN <<>>
           ELSE Copied(r.mem, r.pkt, Minus(r.start, IF r.key THEN 1 ELSE 0))]

LEMMA UnreadIs ==
  ASSUME NEW r, NEW p, NEW u, Sim(r, p, u)
  PROVE  UnreadOf(r) = u /\ DataLen(r.start, r.cur) = Len(u) /\ u \in Seq(Bytes)
<1>1. PICK base \in Pos : At(r, p, u, base)
  BY DEF Sim
<1> DEFINE kept == KeptFor(p)
<1>2. Ring(r.mem, base, r.start, r.cur, kept, u)
  BY <1>1 DEF At
<1> HIDE DEF kept
<1>3. /\ base \in Int /\ u \in Seq(Bytes) /\ Len(kept) \in Nat /\ r.start = Plus(base, Len(kept))
      /\ \A k \in 1 .. Len(u) : r.mem[Slot(base + (Len(kept) + k - 1))] = u[k]
  BY <1>2, RingParts
<1>4. DataLen(r.start, r.cur) = Len(u) /\ r.start \in Int
  BY <1>2, RingUnread DEF Pos
<1>5. ASSUME NEW k \in 1 .. Len(u)
      PROVE  r.mem[Slot(r.start + k - 1)] = u[k]
  <2>1. /\ r.start + k - 1 = r.start + (k - 1) /\ k - 1 \in Int /\ Len(kept) \in Int
        /\ base + Len(kept) + (k - 1) = base + (Len(kept) + k - 1)
    BY <1>3, <1>4
  <2>2. Slot(Plus(base, Len(kept)) + (k - 1)) = Slot(base + Len(kept) + (k - 1))
    BY <1>3, <2>1, SlotPlus
  <2>3. Slot(r.start + k - 1) = Slot(base + (Len(kept) + k - 1))
    BY <1>3, <2>1, <2>2
  <2> QED
    BY <1>3, <2>3
<1>6. UnreadOf(r) = [k \in 1 .. Len(u) |-> u[k]]
  BY <1>4, <1>5 DEF UnreadOf
<1>7. [k \in 1 .. Len(u) |-> u[k]] = u
  BY <1>3
<1> QED
  BY <1>3, <1>4, <1>6, <1>7

LEMMA KeptIs ==
  ASSUME NEW r, NEW p, NEW u, Sim(r, p, u)
  PROVE  /\ KeptOf(r) = Len(KeptFor(p)) /\ KeptFor(p) \in Seq(Bytes)
         /\ Len(KeptFor(p)) + Len(u) < Size
<1>1. PICK base \in Pos : At(r, p, u, base)
  BY DEF Sim
<1> DEFINE kept == KeptFor(p)
<1>2. /\ Ring(r.mem, base, r.start, r.cur, kept, u) /\ r.status = p.status
      /\ p.status # "SYNCHEAD1" => r.pkt = base
  BY <1>1 DEF At
<1>3. p.status = "SYNCHEAD1" => Len(kept) = 0
  <2>1. p.status = "SYNCHEAD1" => kept = <<>>
    BY DEF KeptFor, Syncing
  <2> QED
    BY <2>1
<1> HIDE DEF kept
<1>4. /\ base \in Int /\ u \in Seq(Bytes) /\ kept \in Seq(Bytes) /\ Len(kept) + Len(u) < Size
      /\ Len(kept) \in Nat /\ r.start = Plus(base, Len(kept))
  BY <1>2, RingParts
<1>5. Len(kept) \in 0 .. PosMod - 1
  BY <1>4, SizeFits
<1>6. Minus(Plus(base, Len(kept)), base) = Len(kept)
  BY <1>4, <1>5, Distance
<1>7. KeptOf(r) = Len(kept)
  BY <1>2, <1>3, <1>4, <1>6 DEF KeptOf
<1> QED
  BY <1>4, <1>7 DEF kept

LEMMA ParserIs ==
  ASSUME NEW r, NEW p, NEW u, Sim(r, p, u)
  PROVE  ParserOf(r) = p /\ r \in Records /\ Sound(p)
         /\ r.status = p.status /\ r.key = p.key /\ r.len = p.len
<1>1. PICK base \in Pos : At(r, p, u, base)
  BY DEF Sim
<1>2. /\ Ring(r.mem, base, r.start, r.cur, KeptFor(p), u)
      /\ r \in Records /\ Sound(p) /\ r.status = p.status /\ r.key = p.key /\ r.len = p.len
      /\ p.status # "SYNCHEAD1" => r.pkt = base
  BY <1>1 DEF At
<1>3. /\ p.key \in BOOLEAN /\ p.pkt \in Seq(Bytes)
      /\ p = [status |-> p.status, key |-> p.key, len |-> p.len, pkt |-> p.pkt]
  BY <1>2, ParserFields
<1>4. CASE p.status \in Syncing
  <2>1. p.pkt = <<>>
    BY <1>2, <1>4 DEF Sound
  <2> QED
    BY <1>2, <1>3, <1>4, <2>1 DEF ParserOf, Syncing
<1>5. CASE p.status \notin Syncing
  <2> DEFINE kept == KeptFor(p)
             held == IF r.key THEN 1 ELSE 0
             n == Len(p.pkt)
  <2>1. /\ Len(kept) = n + held /\ held \in Int /\ n \in Nat /\ held >= 0
        /\ \A i \in 1 .. n : kept[i] = p.pkt[i]
    <3>1. CASE p.key = TRUE
      <4>1. kept = Append(p.pkt, HDR)
        BY <1>5, <3>1 DEF KeptFor, Syncing
      <4>2. HDR \in Bytes
        BY SameBytes
      <4>3. Len(Append(p.pkt, HDR)) = n + 1 /\ \A i \in 1 .. n : Append(p.pkt, HDR)[i] = p.pkt[i]
        BY <1>3, <4>2, Appended
      <4>4. held = 1 /\ n \in Nat
        BY <1>2, <1>3, <3>1
      <4>5. Len(kept) = n + 1 /\ \A i \in 1 .. n : kept[i] = p.pkt[i]
        BY <4>1, <4>3
      <4> HIDE DEF kept, held, n
      <4> QED
        BY <4>4, <4>5
    <3>2. CASE p.key = FALSE
      <4>1. kept = p.pkt
        BY <1>5, <3>2 DEF KeptFor, Syncing
      <4>2. held = 0 /\ n \in Nat
        BY <1>2, <1>3, <3>2
      <4>3. Len(kept) = n /\ \A i \in 1 .. n : kept[i] = p.pkt[i]
        BY <4>1
      <4> HIDE DEF kept, held, n
      <4> QED
        BY <4>2, <4>3
    <3> QED
      BY <1>3, <3>1, <3>2
  <2> HIDE DEF kept, held
  <2>2. /\ base \in Int /\ r.start = Plus(base, Len(kept)) /\ n \in 0 .. Len(kept)
        /\ Ring(r.mem, base, r.start, r.cur, kept, u)
    <3>1. Ring(r.mem, base, r.start, r.cur, kept, u)
      BY <1>2 DEF kept
    <3>2. base \in Int /\ r.start = Plus(base, Len(kept))
      BY <3>1, RingParts
    <3>3. n \in 0 .. Len(kept)
      BY <2>1
    <3> QED
      BY <3>1, <3>2, <3>3
  <2> HIDE DEF n
  <2>3. Minus(r.start, held) = Plus(base, n)
    <3>1. n + held \in Int /\ n + held - held = n
      BY <2>1
    <3>2. \A k \in Int : Minus(Plus(base, k), held) = Plus(base, k - held)
      BY <2>1, <2>2, MinusPlus
    <3> QED
      BY <2>1, <2>2, <3>1, <3>2
  <2>4. Copied(r.mem, base, Plus(base, n)) = [i \in 1 .. n |-> kept[i]]
    BY <2>2, RingCopied
  <2>5. [i \in 1 .. n |-> kept[i]] = p.pkt
    <3>1. [i \in 1 .. n |-> kept[i]] = [i \in 1 .. n |-> p.pkt[i]]
      BY <2>1
    <3>2. [i \in 1 .. n |-> p.pkt[i]] = p.pkt
      BY <1>3 DEF n
    <3> QED
      BY <3>1, <3>2
  <2>6. r.pkt = base
    BY <1>2, <1>5 DEF Syncing
  <2>7. Copied(r.mem, r.pkt, Minus(r.start, held)) = p.pkt
    BY <2>3, <2>4, <2>5, <2>6
  <2>8. ParserOf(r) = [status |-> r.status, key |-> r.key, len |-> r.len, pkt |-> p.pkt]
    BY <1>2, <1>5, <2>7 DEF ParserOf, Syncing, held
  <2>9. ParserOf(r) = [status |-> p.status, key |-> p.key, len |-> p.len, pkt |-> p.pkt]
    BY <1>2, <2>8
  <2> QED
    BY <1>2, <1>3, <2>9
<1> QED
  BY <1>4, <1>5

-----------------------------------------------------------------------------
(* All bytes that can be read, up to the end of a packet *)

LEMMA Least ==
  ASSUME NEW T \in SUBSET Nat, T # {}
  PROVE  \E n \in T : \A m \in T : ~(m < n)
<1>1. PICK n \in T : \A m \in T : ~(<<m, n>> \in OpToRel(<, Nat))
  BY NatLessThanWellFounded, WFMin
<1>2. ASSUME NEW m \in T, m < n
      PROVE  FALSE
  <2>1. <<m, n>> \in OpToRel(<, Nat)
    BY <1>2 DEF OpToRel
  <2> QED
    BY <1>1, <2>1
<1> QED
  BY <1>2

LEMMA Induction ==
  ASSUME NEW S \in SUBSET Nat, 0 \in S, \A n \in S : n + 1 \in S
  PROVE  S = Nat
<1> SUFFICES ASSUME Nat \ S # {} PROVE FALSE
  OBVIOUS
<1>1. PICK n \in Nat \ S : \A m \in Nat \ S : ~(m < n)
  BY Least
<1>2. n # 0 /\ n - 1 \in Nat /\ n - 1 < n
  OBVIOUS
<1>3. n - 1 \in S
  BY <1>1, <1>2
<1>4. (n - 1) + 1 \in S
  BY <1>3
<1> QED
  BY <1>2, <1>4

\* One turn of the loop, which ends at a whole packet.
Turn(r) == IF r.done THEN r ELSE OneByte(r)

\* g is what the first k turns of the loop make of c.
Turns(g, c, k) == g = [i \in 0 .. k |-> IF i = 0 THEN c ELSE Turn(g[i - 1])]

LEMMA TurnsExist ==
  ASSUME NEW c, NEW k \in Nat
  PROVE  \E g : Turns(g, c, k)
<1> DEFINE S == {j \in Nat : \E g : Turns(g, c, j)}
<1>1. 0 \in S
  <2>1. Turns([i \in 0 .. 0 |-> c], c, 0)
    BY DEF Turns
  <2> QED
    BY <2>1
<1>2. ASSUME NEW j \in S
      PROVE  j + 1 \in S
  <2>1. PICK g : Turns(g, c, j)
    OBVIOUS
  <2> DEFINE more == Turn(g[j])
             h == [i \in 0 .. j + 1 |-> IF i <= j THEN g[i] ELSE more]
  <2>2. j \in Nat
    OBVIOUS
  <2> HIDE DEF more
  <2>3. \A i \in 0 .. j : h[i] = g[i]
    BY <2>2
  <2>4. h[j + 1] = more
    BY <2>2
  <2>5. ASSUME NEW i \in 0 .. j + 1
        PROVE  h[i] = IF i = 0 THEN c ELSE Turn(h[i - 1])
    <3>1. CASE i <= j
      <4>1. i \in 0 .. j
        BY <2>2, <3>1
      <4>2. g[i] = IF i = 0 THEN c ELSE Turn(g[i - 1])
        BY <2>1, <4>1 DEF Turns
      <4>3. i # 0 => i - 1 \in 0 .. j
        BY <2>2, <4>1
      <4> HIDE DEF h
      <4> QED
        BY <2>3, <4>1, <4>2, <4>3
    <3>2. CASE i = j + 1
      <4>1. i # 0 /\ i - 1 = j /\ j \in 0 .. j
        BY <2>2, <3>2
      <4> HIDE DEF h
      <4> QED
        BY <2>3, <2>4, <3>2, <4>1 DEF more
    <3> QED
      BY <2>2, <3>1, <3>2
  <2>6. h = [i \in 0 .. j + 1 |-> h[i]]
    OBVIOUS
  <2> HIDE DEF h
  <2>7. Turns(h, c, j + 1)
    BY <2>5, <2>6 DEF Turns
  <2> QED
    BY <2>2, <2>7
<1>3. S = Nat
  <2> HIDE DEF S
  <2>1. S \in SUBSET Nat
    BY DEF S
  <2> QED
    BY <1>1, <1>2, <2>1, Induction
<1> QED
  BY <1>3

\* One byte of Framing's Scan, which ends at a whole packet.
Part(r, i, b) ==
  IF r.whole THEN r
  ELSE [parser |-> Line!Step(r.parser, b), taken |-> i, whole |-> Line!Completes(r.parser, b)]

Fresh(p) == [parser |-> p, taken |-> 0, whole |-> FALSE]

\* h is what Scan makes of the first k bytes of s.
Parts(h, p, s, k) == h = [i \in 0 .. k |-> IF i = 0 THEN Fresh(p) ELSE Part(h[i - 1], i, s[i])]

LEMMA PartsExist ==
  ASSUME NEW p, NEW s, NEW k \in Nat
  PROVE  \E h : Parts(h, p, s, k)
<1> DEFINE S == {j \in Nat : \E h : Parts(h, p, s, j)}
<1>1. 0 \in S
  <2>1. Parts([i \in 0 .. 0 |-> Fresh(p)], p, s, 0)
    BY DEF Parts
  <2> QED
    BY <2>1
<1>2. ASSUME NEW j \in S
      PROVE  j + 1 \in S
  <2>1. PICK g : Parts(g, p, s, j)
    OBVIOUS
  <2> DEFINE more == Part(g[j], j + 1, s[j + 1])
             h == [i \in 0 .. j + 1 |-> IF i <= j THEN g[i] ELSE more]
  <2>2. j \in Nat
    OBVIOUS
  <2> HIDE DEF more
  <2>3. \A i \in 0 .. j : h[i] = g[i]
    BY <2>2
  <2>4. h[j + 1] = more
    BY <2>2
  <2>5. ASSUME NEW i \in 0 .. j + 1
        PROVE  h[i] = IF i = 0 THEN Fresh(p) ELSE Part(h[i - 1], i, s[i])
    <3>1. CASE i <= j
      <4>1. i \in 0 .. j
        BY <2>2, <3>1
      <4>2. g[i] = IF i = 0 THEN Fresh(p) ELSE Part(g[i - 1], i, s[i])
        BY <2>1, <4>1 DEF Parts
      <4>3. i # 0 => i - 1 \in 0 .. j
        BY <2>2, <4>1
      <4> HIDE DEF h
      <4> QED
        BY <2>3, <4>1, <4>2, <4>3
    <3>2. CASE i = j + 1
      <4>1. i # 0 /\ i - 1 = j /\ j \in 0 .. j
        BY <2>2, <3>2
      <4> HIDE DEF h
      <4> QED
        BY <2>3, <2>4, <3>2, <4>1 DEF more
    <3> QED
      BY <2>2, <3>1, <3>2
  <2>6. h = [i \in 0 .. j + 1 |-> h[i]]
    OBVIOUS
  <2> HIDE DEF h
  <2>7. Parts(h, p, s, j + 1)
    BY <2>5, <2>6 DEF Parts
  <2> QED
    BY <2>2, <2>7
<1>3. S = Nat
  <2> HIDE DEF S
  <2>1. S \in SUBSET Nat
    BY DEF S
  <2> QED
    BY <1>1, <1>2, <2>1, Induction
<1> QED
  BY <1>3

LEMMA ScannedIs ==
  ASSUME Unread \in Nat
  PROVE  \E g : Turns(g, Here, Unread) /\ Scanned = g[Unread]
<1> DEFINE g == CHOOSE f : Turns(f, Here, Unread)
<1>1. Scanned = g[Unread]
  BY DEF Scanned, Turns, Turn
<1>2. Turns(g, Here, Unread)
  BY TurnsExist
<1> QED
  BY <1>1, <1>2

LEMMA ScanIs ==
  ASSUME NEW p, NEW s, Len(s) \in Nat
  PROVE  \E h : Parts(h, p, s, Len(s)) /\ Line!Scan(p, s) = h[Len(s)]
<1> DEFINE h == CHOOSE f : Parts(f, p, s, Len(s))
<1>1. Line!Scan(p, s) = h[Len(s)]
  BY DEF Line!Scan, Parts, Part, Fresh
<1>2. Parts(h, p, s, Len(s))
  BY PartsExist
<1> QED
  BY <1>1, <1>2

\* The byte that completes a packet leaves the parser behind its data.
LEMMA Completed ==
  ASSUME NEW p, Sound(p), NEW b, Line!Completes(p, b)
  PROVE  Line!Step(p, b).status = "DATA" /\ Line!Step(p, b).key = FALSE
<1>1. p.status = "DATA" /\ p.key \in BOOLEAN /\ p.len \in Uint16
  BY ParserFields DEF Line!Completes
<1>2. p.key => b = ESC
  BY SameBytes DEF Line!Completes
<1>3. ~p.key => b # HDR
  BY SameBytes DEF Line!Completes
<1>4. Line!InPacket(p)
  BY <1>1 DEF Line!InPacket
<1>5. \A c : Line!Take(p, c).status = "DATA" /\ Line!Take(p, c).key = FALSE
  BY <1>1 DEF Line!Take, Line!Parser
<1>6. CASE p.key = TRUE
  <2>1. Line!Step(p, b) = Line!Held(p, b)
    BY <1>4, <1>6 DEF Line!Step
  <2>2. Line!Held(p, b) = Line!Take(p, HDR)
    BY <1>2, <1>6, SameBytes DEF Line!Held
  <2> QED
    BY <1>5, <2>1, <2>2
<1>7. CASE p.key = FALSE
  <2>1. Line!Step(p, b) = Line!Take(p, b)
    BY <1>3, <1>4, <1>7, SameBytes DEF Line!Step
  <2> QED
    BY <1>5, <2>1
<1> QED
  BY <1>1, <1>6, <1>7

LEMMA FromHere ==
  ASSUME NEW u \in Seq(Bytes), NEW i \in 1 .. Len(u)
  PROVE  /\ SubSeq(u, i, Len(u)) # <<>> /\ Head(SubSeq(u, i, Len(u))) = u[i]
         /\ Tail(SubSeq(u, i, Len(u))) = SubSeq(u, i + 1, Len(u))
<1> DEFINE s == SubSeq(u, i, Len(u))
           t == SubSeq(u, i + 1, Len(u))
<1>1. i \in Nat /\ Len(u) \in Nat /\ \A k \in i .. Len(u) : u[k] \in Bytes
  OBVIOUS
<1>2. /\ s \in Seq(Bytes) /\ Len(s) = Len(u) - i + 1
      /\ \A k \in 1 .. Len(s) : s[k] = u[i + k - 1]
  BY <1>1, SubSeqProperties
<1>3. /\ t \in Seq(Bytes) /\ Len(t) = Len(u) - i
      /\ \A k \in 1 .. Len(t) : t[k] = u[i + k]
  BY <1>1, SubSeqProperties
<1> HIDE DEF s, t
<1>4. s # <<>> /\ Head(s) = s[1] /\ s[1] = u[i]
  BY <1>1, <1>2
<1>5. /\ Tail(s) \in Seq(Bytes) /\ Len(Tail(s)) = Len(s) - 1
      /\ \A k \in 1 .. Len(s) - 1 : Tail(s)[k] = s[k + 1]
  BY <1>2, <1>4
<1>6. \A k \in 1 .. Len(s) - 1 : Tail(s)[k] = t[k]
  <2> SUFFICES ASSUME NEW k \in 1 .. Len(s) - 1 PROVE Tail(s)[k] = t[k]
    OBVIOUS
  <2>1. k + 1 \in 1 .. Len(s) /\ i + (k + 1) - 1 = i + k /\ k \in 1 .. Len(t)
    BY <1>1, <1>2, <1>3
  <2>2. Tail(s)[k] = s[k + 1]
    BY <1>5
  <2>3. s[k + 1] = u[i + (k + 1) - 1]
    BY <1>2, <2>1, Zenon
  <2>4. t[k] = u[i + k]
    BY <1>3, <2>1
  <2> QED
    BY <2>1, <2>2, <2>3, <2>4
<1>7. Tail(s) = t
  BY <1>1, <1>2, <1>3, <1>5, <1>6, SeqEqual
<1> QED
  BY <1>4, <1>7 DEF s, t

\* A byte is kept at most.
LEMMA TakeKeeps ==
  ASSUME NEW p, Sound(p), NEW b \in Bytes
  PROVE  /\ Len(KeptFor(Line!Take(p, b))) \in Nat
         /\ Len(KeptFor(Line!Take(p, b))) <= Len(p.pkt) + 1
<1> DEFINE q == Append(p.pkt, b)
           n == Line!Take(p, b)
<1>1. p.pkt \in Seq(Bytes) /\ Len(p.pkt) \in Nat
  BY ParserFields
<1>2. Len(q) = Len(p.pkt) + 1
  BY <1>1, Appended
<1>3. \/ n.status = "SYNCHEAD1"
      \/ n.status \in {"DATALEN2", "DATA"} /\ n.key = FALSE /\ n.pkt = q
  BY DEF Line!Take, Line!Parser, Line!Lost
<1> HIDE DEF n, q
<1>4. CASE n.status = "SYNCHEAD1"
  <2>1. KeptFor(n) = <<>>
    BY <1>4 DEF KeptFor, Syncing
  <2>2. Len(<<>>) = 0
    OBVIOUS
  <2> QED
    BY <1>1, <2>1, <2>2 DEF n
<1>5. CASE n.status \in {"DATALEN2", "DATA"} /\ n.key = FALSE /\ n.pkt = q
  <2>1. KeptFor(n) = q
    BY <1>5 DEF KeptFor, Syncing
  <2> QED
    BY <1>1, <1>2, <2>1 DEF n
<1> QED
  BY <1>3, <1>4, <1>5

LEMMA StepKeeps ==
  ASSUME NEW p, Sound(p), NEW b \in Bytes
  PROVE  Len(KeptFor(Line!Step(p, b))) <= Len(KeptFor(p)) + 1
<1>1. /\ p.status \in Statuses /\ p.key \in BOOLEAN /\ p.len \in Uint16
      /\ p.pkt \in Seq(Bytes) /\ Len(p.pkt) \in Nat
  BY ParserFields
<1>2. Line!InPacket(p) <=> p.status \notin Syncing
  BY InPacketIs
<1>3. Len(KeptFor(Line!Lost(p))) = 0 /\ Len(KeptFor(Line!Headed(p))) = 2
  <2>1. Line!Lost(p).status = "SYNCHEAD1"
    BY <1>1, LostIs
  <2>2. KeptFor(Line!Lost(p)) = <<>>
    BY <2>1 DEF KeptFor, Syncing
  <2>3. KeptFor(Line!Headed(p)) = <<HDR, HDR>>
    BY <1>1, HeadedIs
  <2>4. Len(KeptFor(Line!Lost(p))) = 0
    BY <2>2
  <2>5. Len(KeptFor(Line!Headed(p))) = 2
    BY <2>3
  <2> QED
    BY <2>4, <2>5
<1>5. HDR \in Bytes
  BY SameBytes
<1>6. CASE p.status = "SYNCHEAD1"
  <2> DEFINE n == Line!Step(p, b)
  <2>1. n.status \in {"SYNCHEAD1", "SYNCHEAD2"}
    BY <1>2, <1>6 DEF Line!Step, Line!Sync, Line!Parser, Syncing
  <2> HIDE DEF n
  <2>2. Len(KeptFor(p)) = 0
    <3>1. KeptFor(p) = <<>>
      BY <1>6 DEF KeptFor, Syncing
    <3> QED
      BY <3>1
  <2>3. n.status = "SYNCHEAD1" => Len(KeptFor(n)) = 0
    <3>1. n.status = "SYNCHEAD1" => KeptFor(n) = <<>>
      BY DEF KeptFor, Syncing
    <3> QED
      BY <3>1
  <2>4. n.status = "SYNCHEAD2" => Len(KeptFor(n)) = 1
    <3>1. n.status = "SYNCHEAD2" => KeptFor(n) = <<HDR>>
      BY DEF KeptFor, Syncing
    <3> QED
      BY <3>1
  <2>5. Len(KeptFor(n)) <= 0 + 1
    <3>1. Len(KeptFor(n)) = 0 \/ Len(KeptFor(n)) = 1
      BY <2>1, <2>3, <2>4, Zenon
    <3>2. \A l : l = 0 \/ l = 1 => l <= 0 + 1
      OBVIOUS
    <3> QED
      BY <3>1, <3>2, Zenon
  <2> QED
    BY <2>2, <2>5 DEF n
<1>7. CASE p.status = "SYNCHEAD2"
  <2>1. p.key = FALSE
    BY <1>7 DEF Sound, Syncing
  <2>2. /\ [Line!Headed(p) EXCEPT !.key = FALSE] = Line!Headed(p)
        /\ [Line!Lost(p) EXCEPT !.key = FALSE] = Line!Lost(p)
    <3>1. FALSE \in BOOLEAN
      OBVIOUS
    <3> QED
      BY <3>1, KeyKept, Zenon DEF Line!Headed, Line!Lost
  <2>3. Line!Step(p, b) = Line!Headed(p) \/ Line!Step(p, b) = Line!Lost(p)
    BY <1>2, <1>7, <2>1, <2>2 DEF Line!Step, Line!Sync, Syncing
  <2>4. Len(KeptFor(p)) = 1
    <3>1. KeptFor(p) = <<HDR>>
      BY <1>7 DEF KeptFor, Syncing
    <3> QED
      BY <3>1
  <2>5. Len(KeptFor(Line!Step(p, b))) = 2 \/ Len(KeptFor(Line!Step(p, b))) = 0
    BY <1>3, <2>3, Zenon
  <2> QED
    BY <2>4, <2>5, SMTT(40)
<1>8. CASE p.status \notin Syncing /\ p.key = TRUE
  <2>1. Line!Step(p, b) = Line!Held(p, b)
    BY <1>2, <1>8 DEF Line!Step
  <2>2. Len(KeptFor(p)) = Len(p.pkt) + 1
    <3>1. KeptFor(p) = Append(p.pkt, HDR)
      BY <1>8 DEF KeptFor, Syncing
    <3> QED
      BY <1>1, <1>5, <3>1, Appended
  <2>3. \/ Line!Held(p, b) = Line!Take(p, HDR)
        \/ Line!Held(p, b) = Line!Headed(p)
        \/ Line!Held(p, b) = Line!Take(Line!Headed(p), b) /\ p.status = "DATALEN1"
        \/ Line!Held(p, b) = Line!Lost(p)
    BY SameBytes DEF Line!Held
  <2>4. /\ Len(KeptFor(Line!Take(p, HDR))) \in Nat
        /\ Len(KeptFor(Line!Take(p, HDR))) <= Len(p.pkt) + 1
    BY <1>5, TakeKeeps
  <2>5. /\ Len(KeptFor(Line!Take(Line!Headed(p), b))) \in Nat
        /\ Len(KeptFor(Line!Take(Line!Headed(p), b))) <= 3
    <3> DEFINE n == Line!Headed(p)
    <3>1. Sound(n) /\ n.pkt = <<HDR, HDR>>
      BY <1>1, HeadedIs
    <3> HIDE DEF n
    <3>2. Len(n.pkt) = 2
      BY <3>1
    <3>3. /\ Len(KeptFor(Line!Take(n, b))) \in Nat
          /\ Len(KeptFor(Line!Take(n, b))) <= Len(n.pkt) + 1
      BY <3>1, TakeKeeps
    <3>4. Len(KeptFor(Line!Take(n, b))) <= 3
      BY <3>2, <3>3
    <3> QED
      BY <3>3, <3>4 DEF n
  <2>6. p.status = "DATALEN1" => Len(p.pkt) = 2
    <3>1. p.status = "DATALEN1" => p.pkt = <<HDR, HDR>>
      BY DEF Sound
    <3> QED
      BY <3>1
  <2>7. Line!Held(p, b) = Line!Take(p, HDR) => Len(KeptFor(Line!Held(p, b))) <= Len(p.pkt) + 2
    BY <1>1, <2>4
  <2>8. Line!Held(p, b) = Line!Headed(p) => Len(KeptFor(Line!Held(p, b))) <= Len(p.pkt) + 2
    <3>1. Line!Held(p, b) = Line!Headed(p) => Len(KeptFor(Line!Held(p, b))) = 2
      BY <1>3, Zenon
    <3>2. 2 <= Len(p.pkt) + 2
      BY <1>1
    <3> QED
      BY <3>1, <3>2, Zenon
  <2>9. Line!Held(p, b) = Line!Lost(p) => Len(KeptFor(Line!Held(p, b))) <= Len(p.pkt) + 2
    <3>1. Line!Held(p, b) = Line!Lost(p) => Len(KeptFor(Line!Held(p, b))) = 0
      BY <1>3, Zenon
    <3>2. 0 <= Len(p.pkt) + 2
      BY <1>1
    <3> QED
      BY <3>1, <3>2, Zenon
  <2>10. Line!Held(p, b) = Line!Take(Line!Headed(p), b) /\ p.status = "DATALEN1"
           => Len(KeptFor(Line!Held(p, b))) <= Len(p.pkt) + 2
    <3>1. p.status = "DATALEN1" => 3 <= Len(p.pkt) + 2
      <4>1. \A l : l = 2 => 3 <= l + 2
        OBVIOUS
      <4> QED
        BY <2>6, <4>1, Zenon
    <3>2. p.status = "DATALEN1" => Len(KeptFor(Line!Take(Line!Headed(p), b))) <= Len(p.pkt) + 2
      BY <1>1, <2>5, <3>1
    <3> QED
      BY <3>2, Zenon
  <2>11. Len(KeptFor(Line!Held(p, b))) <= Len(p.pkt) + 2
    BY <2>3, <2>7, <2>8, <2>9, <2>10
  <2>12. Len(p.pkt) + 2 = Len(p.pkt) + 1 + 1
    BY <1>1
  <2> QED
    BY <2>1, <2>2, <2>11, <2>12
<1>9. CASE p.status \notin Syncing /\ p.key = FALSE /\ b = HDR
  <2> DEFINE n == [p EXCEPT !.key = TRUE]
  <2>1. Line!Step(p, b) = n
    BY <1>2, <1>9, SameBytes DEF Line!Step
  <2>2. n.status = p.status /\ n.key = TRUE /\ n.pkt = p.pkt
    <3>1. p \in [status : Statuses, key : BOOLEAN, len : Uint16, pkt : Seq(Bytes)]
      BY ParserSet DEF Sound
    <3> QED
      BY <3>1
  <2> HIDE DEF n
  <2>3. KeptFor(n) = Append(p.pkt, HDR)
    BY <1>9, <2>2 DEF KeptFor, Syncing
  <2>4. KeptFor(p) = p.pkt
    BY <1>9 DEF KeptFor, Syncing
  <2>5. Len(Append(p.pkt, HDR)) = Len(p.pkt) + 1
    BY <1>1, <1>5, Appended
  <2> QED
    BY <1>1, <2>1, <2>3, <2>4, <2>5
<1>10. CASE p.status \notin Syncing /\ p.key = FALSE /\ b # HDR
  <2>1. Line!Step(p, b) = Line!Take(p, b)
    BY <1>2, <1>10, SameBytes DEF Line!Step
  <2>2. KeptFor(p) = p.pkt
    BY <1>10 DEF KeptFor, Syncing
  <2> QED
    BY <2>1, <2>2, TakeKeeps
<1> QED
  BY <1>1, <1>6, <1>7, <1>8, <1>9, <1>10 DEF Syncing

\* The ring at r is where Framing's Scan is after at most i bytes of u, and
\* keeps no byte more than k and those taken.
Abreast(r, a, u, i, k) ==
  /\ a.taken \in 0 .. i /\ (a.whole = FALSE => a.taken = i)
  /\ r.done = a.whole /\ r.done \in BOOLEAN
  /\ Sim(r, a.parser, SubSeq(u, a.taken + 1, Len(u)))
  /\ a.whole = TRUE => a.parser.status = "DATA" /\ a.parser.key = FALSE
  /\ Len(KeptFor(a.parser)) <= k + a.taken

LEMMA AbreastStep ==
  ASSUME NEW r, NEW a, NEW u \in Seq(Bytes), NEW i \in 1 .. Len(u), NEW k \in Nat,
         Abreast(r, a, u, i - 1, k)
  PROVE  Abreast(Turn(r), Part(a, i, u[i]), u, i, k)
<1>1. /\ a.taken \in 0 .. i - 1 /\ (a.whole = FALSE => a.taken = i - 1)
      /\ r.done = a.whole /\ r.done \in BOOLEAN
      /\ Sim(r, a.parser, SubSeq(u, a.taken + 1, Len(u)))
  BY DEF Abreast
<1>2. CASE r.done = TRUE
  <2>1. Turn(r) = r /\ Part(a, i, u[i]) = a
    BY <1>1, <1>2 DEF Turn, Part
  <2>2. a.taken \in 0 .. i
    BY <1>1
  <2> QED
    BY <1>1, <1>2, <2>1, <2>2 DEF Abreast
<1>3. CASE r.done = FALSE
  <2> DEFINE p == a.parser
             s == SubSeq(u, i, Len(u))
             c == Line!Completes(p, u[i])
             n == [parser |-> Line!Step(p, u[i]), taken |-> i, whole |-> c]
  <2>1. Turn(r) = OneByte(r) /\ Part(a, i, u[i]) = n
    BY <1>1, <1>3 DEF Turn, Part
  <2>2. a.taken = i - 1 /\ i - 1 + 1 = i
    BY <1>1, <1>3
  <2>3. Sim(r, p, s)
    BY <1>1, <2>2
  <2>4. s # <<>> /\ Head(s) = u[i] /\ Tail(s) = SubSeq(u, i + 1, Len(u))
    BY FromHere
  <2> HIDE DEF s
  <2>5. /\ Sim(OneByte(r), Line!Step(p, Head(s)), Tail(s))
        /\ OneByte(r).done <=> Line!Completes(p, Head(s))
    BY <1>3, <2>3, <2>4, OneStep
  <2>6. Sim(OneByte(r), Line!Step(p, u[i]), SubSeq(u, i + 1, Len(u)))
    BY <2>4, <2>5
  <2>7. OneByte(r).done <=> c
    BY <2>4, <2>5
  <2>8. OneByte(r).done \in BOOLEAN
    BY <2>6 DEF Sim, At, Records
  <2>9. c \in BOOLEAN
    BY DEF Line!Completes
  <2>10. Sound(p)
    BY <2>3 DEF Sim, At
  <2>11. c => Line!Step(p, u[i]).status = "DATA" /\ Line!Step(p, u[i]).key = FALSE
    BY <2>10, Completed
  <2> HIDE DEF p, c
  <2>12. OneByte(r).done = c
    BY <2>7, <2>8, <2>9
  <2>13. n.taken = i /\ n.whole = c /\ n.parser = Line!Step(p, u[i])
    OBVIOUS
  <2> HIDE DEF n
  <2>14. n.taken \in 0 .. i
    BY <2>13
  <2>15. Sim(OneByte(r), n.parser, SubSeq(u, n.taken + 1, Len(u)))
    BY <2>6, <2>13
  <2>16. Len(KeptFor(n.parser)) <= k + n.taken
    <3>1. u[i] \in Bytes
      OBVIOUS
    <3>2. Len(KeptFor(n.parser)) <= Len(KeptFor(p)) + 1
      BY <2>10, <2>13, <3>1, StepKeeps
    <3>3. Len(KeptFor(p)) <= k + (i - 1)
      BY <2>2 DEF Abreast, p
    <3>4. Len(KeptFor(p)) \in Nat
      BY <2>3, KeptIs
    <3>5. Len(KeptFor(n.parser)) \in Nat
      BY <2>15, KeptIs
    <3> QED
      BY <2>13, <3>2, <3>3, <3>4, <3>5
  <2>17. Abreast(OneByte(r), n, u, i, k)
    BY <2>8, <2>11, <2>12, <2>13, <2>14, <2>15, <2>16 DEF Abreast
  <2> QED
    BY <2>1, <2>17
<1> QED
  BY <1>1, <1>2, <1>3

LEMMA AbreastAll ==
  ASSUME NEW c, NEW p, NEW u \in Seq(Bytes), Sim(c, p, u), c.done = FALSE,
         NEW g, Turns(g, c, Len(u)), NEW h, Parts(h, p, u, Len(u))
  PROVE  Abreast(g[Len(u)], h[Len(u)], u, Len(u), Len(KeptFor(p)))
<1> DEFINE k0 == Len(KeptFor(p))
           S == {i \in Nat : i \in 0 .. Len(u) => Abreast(g[i], h[i], u, i, k0)}
<1>0. k0 \in Nat
  BY KeptIs
<1> HIDE DEF k0
<1>1. /\ \A i \in 0 .. Len(u) : g[i] = IF i = 0 THEN c ELSE Turn(g[i - 1])
      /\ \A i \in 0 .. Len(u) : h[i] = IF i = 0 THEN Fresh(p) ELSE Part(h[i - 1], i, u[i])
  BY DEF Turns, Parts
<1>2. Len(u) \in Nat
  OBVIOUS
<1>3. 0 \in S
  <2>1. g[0] = c /\ h[0] = Fresh(p)
    BY <1>1, <1>2
  <2>2. Fresh(p).parser = p /\ Fresh(p).taken = 0 /\ Fresh(p).whole = FALSE
    BY DEF Fresh
  <2>3. SubSeq(u, 0 + 1, Len(u)) = u
    <3> DEFINE s == SubSeq(u, 1, Len(u))
    <3>1. \A k \in 1 .. Len(u) : u[k] \in Bytes
      OBVIOUS
    <3>2. s \in Seq(Bytes) /\ Len(s) = Len(u) /\ \A k \in 1 .. Len(s) : s[k] = u[k]
      BY <1>2, <3>1, SubSeqProperties
    <3> HIDE DEF s
    <3>3. s = u
      BY <3>2, SeqEqual
    <3> QED
      BY <3>3 DEF s
  <2>4. 0 \in 0 .. 0 /\ FALSE \in BOOLEAN
    OBVIOUS
  <2>5. Sim(c, Fresh(p).parser, SubSeq(u, Fresh(p).taken + 1, Len(u)))
    BY <2>2, <2>3
  <2>6. Len(KeptFor(Fresh(p).parser)) <= k0 + Fresh(p).taken
    BY <1>0, <2>2 DEF k0
  <2>7. Abreast(c, Fresh(p), u, 0, k0)
    BY <2>2, <2>4, <2>5, <2>6 DEF Abreast
  <2> QED
    BY <2>1, <2>7
<1>4. ASSUME NEW j \in S
      PROVE  j + 1 \in S
  <2>1. SUFFICES ASSUME j + 1 \in 0 .. Len(u) PROVE Abreast(g[j + 1], h[j + 1], u, j + 1, k0)
    OBVIOUS
  <2>2. j \in Nat /\ j \in 0 .. Len(u) /\ j + 1 \in 1 .. Len(u) /\ j + 1 - 1 = j /\ j + 1 # 0
    BY <1>2, <2>1
  <2>3. Abreast(g[j], h[j], u, j + 1 - 1, k0)
    BY <2>2
  <2>4. g[j + 1] = Turn(g[j]) /\ h[j + 1] = Part(h[j], j + 1, u[j + 1])
    BY <1>1, <2>1, <2>2
  <2>5. Abreast(Turn(g[j]), Part(h[j], j + 1, u[j + 1]), u, j + 1, k0)
    <3> DEFINE i == j + 1
    <3>1. i \in 1 .. Len(u) /\ Abreast(g[j], h[j], u, i - 1, k0)
      BY <2>2, <2>3
    <3> HIDE DEF i
    <3>2. Abreast(Turn(g[j]), Part(h[j], i, u[i]), u, i, k0)
      BY <1>0, <3>1, AbreastStep, Zenon
    <3> QED
      BY <3>2 DEF i
  <2> QED
    BY <2>4, <2>5
<1>5. S = Nat
  <2> HIDE DEF S
  <2>1. S \in SUBSET Nat
    BY DEF S
  <2> QED
    BY <1>3, <1>4, <2>1, Induction
<1> QED
  BY <1>2, <1>5 DEF k0

-----------------------------------------------------------------------------
(* What is sent *)

\* g is what Local_DataAdapter makes of the first k bytes of s.
Firsts(g, s, k) == g = [i \in 0 .. k |-> IF i = 0 THEN <<>> ELSE g[i - 1] \o Escaped(s[i])]

LEMMA FirstsExist ==
  ASSUME NEW s, NEW k \in Nat
  PROVE  \E g : Firsts(g, s, k)
<1> DEFINE S == {j \in Nat : \E g : Firsts(g, s, j)}
<1>1. 0 \in S
  <2>1. Firsts([i \in 0 .. 0 |-> <<>>], s, 0)
    BY DEF Firsts
  <2> QED
    BY <2>1
<1>2. ASSUME NEW j \in S
      PROVE  j + 1 \in S
  <2>1. PICK g : Firsts(g, s, j)
    OBVIOUS
  <2> DEFINE more == g[j] \o Escaped(s[j + 1])
             h == [i \in 0 .. j + 1 |-> IF i <= j THEN g[i] ELSE more]
  <2>2. j \in Nat
    OBVIOUS
  <2> HIDE DEF more
  <2>3. \A i \in 0 .. j : h[i] = g[i]
    BY <2>2
  <2>4. h[j + 1] = more
    BY <2>2
  <2>5. ASSUME NEW i \in 0 .. j + 1
        PROVE  h[i] = IF i = 0 THEN <<>> ELSE h[i - 1] \o Escaped(s[i])
    <3>1. CASE i <= j
      <4>1. i \in 0 .. j
        BY <2>2, <3>1
      <4>2. g[i] = IF i = 0 THEN <<>> ELSE g[i - 1] \o Escaped(s[i])
        BY <2>1, <4>1 DEF Firsts
      <4>3. i # 0 => i - 1 \in 0 .. j
        BY <2>2, <4>1
      <4> HIDE DEF h
      <4> QED
        BY <2>3, <4>1, <4>2, <4>3
    <3>2. CASE i = j + 1
      <4>1. i # 0 /\ i - 1 = j /\ j \in 0 .. j
        BY <2>2, <3>2
      <4> HIDE DEF h
      <4> QED
        BY <2>3, <2>4, <3>2, <4>1 DEF more
    <3> QED
      BY <2>2, <3>1, <3>2
  <2>6. h = [i \in 0 .. j + 1 |-> h[i]]
    OBVIOUS
  <2> HIDE DEF h
  <2>7. Firsts(h, s, j + 1)
    BY <2>5, <2>6 DEF Firsts
  <2> QED
    BY <2>2, <2>7
<1>3. S = Nat
  <2> HIDE DEF S
  <2>1. S \in SUBSET Nat
    BY DEF S
  <2> QED
    BY <1>1, <1>2, <2>1, Induction
<1> QED
  BY <1>3

LEMMA AdaptedIs ==
  ASSUME NEW s, Len(s) \in Nat
  PROVE  \E g : /\ Adapted(s) = g[Len(s)] /\ g[0] = <<>>
                /\ \A i \in 1 .. Len(s) : g[i] = g[i - 1] \o Escaped(s[i])
<1> DEFINE g == CHOOSE f : Firsts(f, s, Len(s))
<1>1. Adapted(s) = g[Len(s)]
  BY DEF Adapted, Firsts
<1>2. Firsts(g, s, Len(s))
  BY FirstsExist
<1>3. g[0] = <<>> /\ \A i \in 1 .. Len(s) : g[i] = g[i - 1] \o Escaped(s[i])
  <2> HIDE DEF g
  <2>1. \A i \in 0 .. Len(s) : g[i] = IF i = 0 THEN <<>> ELSE g[i - 1] \o Escaped(s[i])
    BY <1>2 DEF Firsts
  <2>2. 0 \in 0 .. Len(s) /\ \A i \in 1 .. Len(s) : i \in 0 .. Len(s) /\ i # 0
    OBVIOUS
  <2>3. g[0] = <<>>
    BY <2>1, <2>2
  <2> QED
    BY <2>1, <2>2, <2>3
<1> QED
  BY <1>1, <1>3

LEMMA EscapedBytes ==
  ASSUME NEW b \in Bytes
  PROVE  Escaped(b) \in Seq(Bytes)
BY SameBytes DEF Escaped

LEMMA AdaptedBytes ==
  ASSUME NEW s \in Seq(Bytes)
  PROVE  Adapted(s) \in Seq(Bytes)
<1>1. Len(s) \in Nat
  OBVIOUS
<1>2. PICK g : /\ Adapted(s) = g[Len(s)] /\ g[0] = <<>>
               /\ \A i \in 1 .. Len(s) : g[i] = g[i - 1] \o Escaped(s[i])
  BY <1>1, AdaptedIs
<1> DEFINE S == {i \in Nat : i \in 0 .. Len(s) => g[i] \in Seq(Bytes)}
<1>3. 0 \in S
  BY <1>2, HeaderBytes
<1>4. ASSUME NEW j \in S
      PROVE  j + 1 \in S
  <2>1. SUFFICES ASSUME j + 1 \in 0 .. Len(s) PROVE g[j + 1] \in Seq(Bytes)
    OBVIOUS
  <2>2. j \in 0 .. Len(s) /\ j + 1 \in 1 .. Len(s) /\ j + 1 - 1 = j
    BY <1>1, <2>1
  <2>3. g[j] \in Seq(Bytes) /\ s[j + 1] \in Bytes
    BY <2>2
  <2>4. Escaped(s[j + 1]) \in Seq(Bytes)
    BY <2>3, EscapedBytes
  <2>5. g[j + 1] = g[j] \o Escaped(s[j + 1])
    <3> DEFINE i == j + 1
    <3>1. i \in 1 .. Len(s) /\ i - 1 = j
      BY <2>2
    <3> HIDE DEF i, S
    <3>2. \A k \in 1 .. Len(s) : g[k] = g[k - 1] \o Escaped(s[k])
      BY <1>2
    <3>3. g[i] = g[i - 1] \o Escaped(s[i])
      BY <3>1, <3>2
    <3> QED
      BY <3>1, <3>3 DEF i
  <2> QED
    BY <2>3, <2>4, <2>5, Joined
<1>5. S = Nat
  <2> HIDE DEF S
  <2>1. S \in SUBSET Nat
    BY DEF S
  <2> QED
    BY <1>3, <1>4, <2>1, Induction
<1> QED
  BY <1>1, <1>2, <1>5

LEMMA LengthBytes ==
  ASSUME NEW n \in Uint16
  PROVE  n \div 256 \in Bytes /\ n % 256 \in Bytes
<1>1. n \in Int /\ 0 <= n /\ n <= 65535
  BY Uint16Is
<1> QED
  BY <1>1 DEF Bytes

LEMMA OnLineBytes ==
  ASSUME NEW f \in Frames
  PROVE  OnLine(f) \in Seq(Bytes)
<1>1. f \in Seq(Bytes) /\ Len(f) \in Uint16
  BY LineAssumption
<1> DEFINE size == <<Len(f) \div 256, Len(f) % 256>>
<1>2. size \in Seq(Bytes)
  BY <1>1, LengthBytes
<1> HIDE DEF size
<1>3. size \o f \in Seq(Bytes)
  BY <1>1, <1>2
<1>4. Adapted(size \o f) \in Seq(Bytes)
  BY <1>3, AdaptedBytes
<1>5. <<HDR, HDR>> \o Adapted(size \o f) \in Seq(Bytes)
  BY <1>4, HeaderBytes, Joined
<1> QED
  BY <1>5 DEF OnLine, size

-----------------------------------------------------------------------------
(* The invariant: the ring is a tape, with the kept part of a packet and what *)
(* is unread on it, and with the line it holds less than its size             *)

Whole == {Raw(f) : f \in Frames}

Inv ==
  /\ Sim(Here, ParserNow, UnreadOf(Here))
  /\ Kept + Unread + Len(fifo) < Size
  /\ fifo \in Seq(Bytes) /\ filled \in BOOLEAN
  /\ sent \in 0 .. MaxSent /\ due \in Seq(Whole) /\ Len(due) <= sent

LEMMA HereIs ==
  /\ ParserNow = ParserOf(Here) /\ Kept = KeptOf(Here)
  /\ Unread = DataLen(Here.start, Here.cur) /\ Here.done = FALSE
BY DEF ParserNow, ParserOf, Here, Held, Kept, KeptOf, Unread

LEMMA HereIsNext ==
  /\ ParserNow' = ParserOf(Here') /\ Kept' = KeptOf(Here')
  /\ Unread' = DataLen(Here'.start, Here'.cur) /\ UnreadOf(Here)' = UnreadOf(Here')
BY DEF ParserNow, ParserOf, Here, Held, Kept, KeptOf, Unread, UnreadOf

\* The room on the line is what the invariant says.
LEMMA SimRoom ==
  ASSUME NEW r, NEW p, NEW u, Sim(r, p, u)
  PROVE  KeptOf(r) + DataLen(r.start, r.cur) = Len(KeptFor(p)) + Len(u)
BY UnreadIs, KeptIs

LEMMA InvTypes == Inv => TypeOK
<1> SUFFICES ASSUME Inv PROVE TypeOK
  OBVIOUS
<1>1. Here \in Records
  BY ParserIs DEF Inv
<1>2. /\ hal_RxBuffer \in [0 .. Size - 1 -> Bytes] /\ pos_start \in Pos /\ pos_current \in Pos
      /\ status \in Statuses /\ dataLen \in Uint16 /\ packetStart \in Pos
      /\ keyWord \in BOOLEAN
  BY <1>1 DEF Here, Records
<1>3. Len(fifo) < Size
  <2>1. KeptOf(Here) + DataLen(Here.start, Here.cur) \in Nat
    BY SimRoom, KeptIs, UnreadIs DEF Inv
  <2>2. Kept + Unread \in Nat
    BY <2>1, HereIs
  <2> QED
    BY <2>2 DEF Inv
<1>4. filled \in BOOLEAN /\ sent \in 0 .. MaxSent /\ Len(due) <= MaxSent
  BY LineAssumption DEF Inv
<1> QED
  BY <1>2, <1>3, <1>4 DEF TypeOK, Pos, Statuses

-----------------------------------------------------------------------------
(* The line as Framing has it *)

LineWire == UnreadOf(Here) \o fifo

LEMMA LineArrives ==
  ASSUME LineWire \in Seq(Bytes), NEW s \in Seq(Bytes), LineWire' = LineWire \o s,
         ParserNow' = ParserNow, packet' = packet
  PROVE  Line!Arrive
<1>1. Len(LineWire \o s) >= Len(LineWire)
  BY Joined
<1>2. SubSeq(LineWire \o s, 1, Len(LineWire)) = LineWire
  <2> DEFINE w == LineWire
             a == w \o s
             b == SubSeq(a, 1, Len(w))
  <2>1. w \in Seq(Bytes)
    OBVIOUS
  <2> HIDE DEF w
  <2>2. a \in Seq(Bytes) /\ Len(a) >= Len(w) /\ Len(w) \in Nat /\ \A k \in 1 .. Len(w) : a[k] = w[k]
    BY <2>1, Joined
  <2> HIDE DEF a
  <2>3. \A k \in 1 .. Len(w) : a[k] \in Bytes
    BY <2>1, <2>2
  <2>4. b \in Seq(Bytes) /\ Len(b) = Len(w) /\ \A k \in 1 .. Len(b) : b[k] = a[k]
    BY <2>2, <2>3, SubSeqProperties
  <2> HIDE DEF b
  <2>5. b = w
    BY <2>1, <2>2, <2>4, SeqEqual
  <2> QED
    BY <2>5 DEF a, b, w
<1>3. Len(LineWire') >= Len(LineWire) /\ SubSeq(LineWire', 1, Len(LineWire)) = LineWire
  BY <1>1, <1>2
<1> QED
  BY <1>3 DEF Line!Arrive, LineWire, UnreadOf, Here, Unread

\* Something is sent.
LEMMA SendStep ==
  ASSUME Inv, NEW s \in Seq(Bytes), Room(s), fifo' = fifo \o s, sent' = sent + 1,
         due' \in Seq(Whole), Len(due') <= Len(due) + 1,
         UNCHANGED <<ringVars, parserVars, filled, packet>>
  PROVE  Inv' /\ Line!Arrive /\ LineWire' = LineWire \o s /\ ParserNow' = ParserNow
<1>1. /\ Sim(Here, ParserNow, UnreadOf(Here)) /\ fifo \in Seq(Bytes) /\ filled \in BOOLEAN
      /\ sent \in 0 .. MaxSent /\ due \in Seq(Whole) /\ Len(due) <= sent
  BY DEF Inv
<1>2. Here' = Here /\ ParserNow' = ParserNow /\ Kept' = Kept /\ Unread' = Unread
  BY DEF Here, ParserNow, Held, Kept, Unread, ringVars, parserVars
<1>3. UnreadOf(Here') = UnreadOf(Here)
  BY <1>2
<1>4. UnreadOf(Here) \in Seq(Bytes)
  BY <1>1, UnreadIs
<1>5. Kept + Unread \in Nat
  <2>1. KeptOf(Here) + DataLen(Here.start, Here.cur) \in Nat
    BY <1>1, SimRoom, KeptIs, UnreadIs, SMTT(40)
  <2> QED
    BY <2>1, HereIs
<1>6. fifo' \in Seq(Bytes) /\ Len(fifo') = Len(fifo) + Len(s)
  BY <1>1, Joined
<1>7. Kept' + Unread' + Len(fifo') < Size
  <2>1. Kept + Unread + Len(fifo) + Len(s) < Size
    BY DEF Room
  <2> DEFINE k == Kept + Unread
  <2>2. k \in Nat /\ Len(fifo) \in Nat /\ Len(s) \in Nat
    BY <1>1, <1>5
  <2>3. k + Len(fifo) + Len(s) < Size
    BY <2>1
  <2> HIDE DEF k
  <2>4. k + Len(fifo') < Size
    BY <1>6, <2>2, <2>3
  <2> QED
    BY <1>2, <2>4 DEF k
<1>8. sent' \in 0 .. MaxSent /\ Len(due') <= sent'
  <2>1. sent < MaxSent
    BY DEF Room
  <2> QED
    BY <1>1, <2>1, LineAssumption
<1>9. Inv'
  <2>1. Sim(Here', ParserNow', UnreadOf(Here'))
    BY <1>1, <1>2
  <2> QED
    BY <1>1, <1>6, <1>7, <1>8, <2>1, HereIsNext DEF Inv
<1>10. LineWire \in Seq(Bytes)
  BY <1>1, <1>4, Joined DEF LineWire
<1>11. LineWire' = LineWire \o s
  <2>1. LineWire' = UnreadOf(Here) \o (fifo \o s)
    BY <1>3, HereIsNext DEF LineWire
  <2> DEFINE u == UnreadOf(Here)
  <2>2. u \in Seq(Bytes)
    BY <1>4
  <2> HIDE DEF u
  <2>3. u \o (fifo \o s) = (u \o fifo) \o s
    BY <1>1, <2>2, JoinedTwice
  <2> QED
    BY <2>1, <2>3 DEF LineWire, u
<1>12. Line!Arrive
  BY <1>2, <1>10, <1>11, LineArrives
<1> QED
  BY <1>2, <1>9, <1>11, <1>12

\* The driver reads: nothing happens on the line.
LEMMA ReadStep ==
  ASSUME Inv, NEW n \in 1 .. Len(fifo), RecAll(n)
  PROVE  Inv' /\ LineWire' = LineWire /\ ParserNow' = ParserNow /\ packet' = packet
<1> DEFINE p == ParserNow
           u == UnreadOf(Here)
           s == SubSeq(fifo, 1, n)
           rest == SubSeq(fifo, n + 1, Len(fifo))
           kept == KeptFor(p)
<1>1. /\ Sim(Here, p, u) /\ fifo \in Seq(Bytes) /\ filled \in BOOLEAN
      /\ sent \in 0 .. MaxSent /\ due \in Seq(Whole) /\ Len(due) <= sent
      /\ Kept + Unread + Len(fifo) < Size
  BY DEF Inv
<1>2. /\ n <= Available(pos_current, pos_start)
      /\ hal_RxBuffer' = Filled(hal_RxBuffer, pos_current, fifo, n)
      /\ pos_current' = Plus(pos_current, n) /\ fifo' = rest /\ filled' = TRUE
      /\ UNCHANGED <<pos_start, parserVars, packet, sent, due>>
  BY DEF RecAll, Filled
<1> HIDE DEF p, u
<1>3. PICK base \in Pos : At(Here, p, u, base)
  BY <1>1 DEF Sim
<1>4. /\ Here \in Records /\ Sound(p) /\ Here.status = p.status /\ Here.key = p.key
      /\ Here.len = p.len
      /\ p.status # "SYNCHEAD1" => Here.pkt = base
      /\ Ring(Here.mem, base, Here.start, Here.cur, kept, u)
  BY <1>3 DEF At
<1>5. u \in Seq(Bytes) /\ kept \in Seq(Bytes) /\ Len(kept) \in Nat /\ Len(u) \in Nat
      /\ Len(fifo) \in Nat /\ n \in Nat /\ n <= Len(fifo) /\ n # 0
  BY <1>1, <1>4, RingParts
<1> HIDE DEF kept
<1>6. Kept + Unread = Len(kept) + Len(u)
  BY <1>1, SimRoom, HereIs DEF kept
<1>7. Len(kept) + Len(u) + Len(fifo) < Size
  BY <1>1, <1>6
<1>8. Ring(hal_RxBuffer', base, pos_start, Plus(pos_current, n), kept, u \o s)
  <2>1. Ring(hal_RxBuffer, base, pos_start, pos_current, kept, u)
    BY <1>4 DEF Here
  <2>2. n \in 0 .. Len(fifo) /\ Len(kept) + Len(u) + n < Size
    BY <1>5, <1>7
  <2> QED
    BY <1>1, <1>2, <2>1, <2>2, RingFill
<1>9. /\ s \in Seq(Bytes) /\ Len(s) = n /\ rest \in Seq(Bytes) /\ Len(rest) = Len(fifo) - n
      /\ s \o rest = fifo
  <2>1. \A k \in 1 .. Len(fifo) : fifo[k] \in Bytes
    BY <1>1
  <2>2. s \in Seq(Bytes) /\ Len(s) = n /\ \A k \in 1 .. Len(s) : s[k] = fifo[k]
    BY <1>5, <2>1, SubSeqProperties
  <2>3. /\ rest \in Seq(Bytes) /\ Len(rest) = Len(fifo) - n
        /\ \A k \in 1 .. Len(rest) : rest[k] = fifo[n + k]
    BY <1>5, <2>1, SubSeqProperties
  <2> HIDE DEF s, rest
  <2>4. /\ s \o rest \in Seq(Bytes) /\ Len(s \o rest) = Len(fifo)
        /\ \A k \in 1 .. Len(s) : (s \o rest)[k] = s[k]
        /\ \A k \in 1 .. Len(rest) : (s \o rest)[Len(s) + k] = rest[k]
    <3>1. s \in Seq(Bytes) /\ rest \in Seq(Bytes)
      BY <2>2, <2>3
    <3>2. /\ s \o rest \in Seq(Bytes) /\ Len(s \o rest) = Len(s) + Len(rest)
          /\ \A k \in 1 .. Len(s) : (s \o rest)[k] = s[k]
          /\ \A k \in 1 .. Len(rest) : (s \o rest)[Len(s) + k] = rest[k]
      BY <3>1, Joined
    <3>3. Len(s) + Len(rest) = Len(fifo)
      BY <1>5, <2>2, <2>3
    <3> QED
      BY <3>2, <3>3
  <2>5. \A k \in 1 .. Len(fifo) : (s \o rest)[k] = fifo[k]
    <3> SUFFICES ASSUME NEW k \in 1 .. Len(fifo) PROVE (s \o rest)[k] = fifo[k]
      OBVIOUS
    <3>1. CASE k <= n
      <4>1. k \in 1 .. Len(s)
        BY <1>5, <2>2, <3>1
      <4> QED
        BY <2>2, <2>4, <4>1
    <3>2. CASE ~(k <= n)
      <4> DEFINE j == k - n
      <4>1. j \in 1 .. Len(rest) /\ k = n + j
        BY <1>5, <2>3, <3>2
      <4> HIDE DEF j
      <4> QED
        BY <2>2, <2>3, <2>4, <4>1
    <3> QED
      BY <3>1, <3>2
  <2>6. s \o rest = fifo
    BY <1>1, <2>4, <2>5, SeqEqual
  <2> QED
    BY <2>2, <2>3, <2>6
<1> HIDE DEF s, rest
<1>10. u \o s \in Seq(Bytes) /\ Len(u \o s) = Len(u) + n
  BY <1>5, <1>9, Joined
<1>11. /\ Here' \in Records /\ Here'.status = p.status /\ Here'.key = p.key
       /\ Here'.len = p.len /\ Here'.pkt = Here.pkt /\ Here'.mem = hal_RxBuffer'
       /\ Here'.start = pos_start /\ Here'.cur = Plus(pos_current, n)
  <2>1. hal_RxBuffer' \in [0 .. Size - 1 -> Bytes]
    BY <1>8, RingParts
  <2>2. Plus(pos_current, n) \in Pos
    BY <1>8, RingUnread
  <2>3. /\ Here' = [mem |-> hal_RxBuffer', start |-> pos_start, cur |-> Plus(pos_current, n),
                    status |-> status, len |-> dataLen, pkt |-> packetStart, key |-> keyWord,
                    done |-> FALSE]
    BY <1>2 DEF Here, parserVars
  <2> QED
    BY <1>4, <2>1, <2>2, <2>3 DEF Records, Here
<1>12. Sim(Here', p, u \o s)
  <2>1. Ring(Here'.mem, base, Here'.start, Here'.cur, KeptFor(p), u \o s)
    BY <1>8, <1>11 DEF kept
  <2>2. p.status # "SYNCHEAD1" => Here'.pkt = base
    BY <1>4, <1>11
  <2>3. At(Here', p, u \o s, base)
    BY <1>4, <1>11, <2>1, <2>2 DEF At
  <2> QED
    BY <2>3 DEF Sim
<1>13. ParserNow' = p /\ UnreadOf(Here') = u \o s
  BY <1>12, HereIsNext, ParserIs, UnreadIs
<1>14. Kept' + Unread' = Len(kept) + Len(u \o s)
  BY <1>12, SimRoom, HereIsNext DEF kept
<1>15. Kept' + Unread' + Len(fifo') < Size
  <2> DEFINE k == Kept' + Unread'
  <2>1. k = Len(kept) + (Len(u) + n) /\ Len(fifo') = Len(fifo) - n
    BY <1>2, <1>9, <1>10, <1>14
  <2> HIDE DEF k
  <2>2. k + Len(fifo') < Size
    BY <1>5, <1>7, <2>1
  <2> QED
    BY <2>2 DEF k
<1>16. Inv'
  <2>1. Sim(Here', ParserNow', UnreadOf(Here'))
    BY <1>12, <1>13
  <2> QED
    BY <1>1, <1>2, <1>9, <1>15, <2>1, HereIsNext DEF Inv
<1>17. LineWire' = LineWire
  <2>1. LineWire' = (u \o s) \o rest
    BY <1>2, <1>13, HereIsNext DEF LineWire
  <2>2. (u \o s) \o rest = u \o (s \o rest)
    <3>1. u \in Seq(Bytes) /\ s \in Seq(Bytes) /\ rest \in Seq(Bytes)
      BY <1>5, <1>9
    <3> QED
      BY <3>1, JoinedTwice, SMTT(40)
  <2> QED
    BY <1>9, <2>1, <2>2 DEF LineWire, u
<1> QED
  BY <1>2, <1>13, <1>16, <1>17 DEF p

\* A whole packet is copied out, and nothing of it is kept.
LEMMA PacketOut ==
  ASSUME NEW r, NEW p, NEW t, Sim(r, p, t), p.status = "DATA", p.key = FALSE
  PROVE  /\ Copied(r.mem, r.pkt, r.start) = p.pkt
         /\ Sim([r EXCEPT !.pkt = r.start, !.done = FALSE], [p EXCEPT !.pkt = <<>>], t)
         /\ KeptFor([p EXCEPT !.pkt = <<>>]) = <<>>
<1>1. PICK base \in Pos : At(r, p, t, base)
  BY DEF Sim
<1>2. /\ r \in Records /\ Sound(p) /\ r.status = p.status /\ r.key = p.key /\ r.len = p.len
      /\ p.status # "SYNCHEAD1" => r.pkt = base
      /\ Ring(r.mem, base, r.start, r.cur, KeptFor(p), t)
  BY <1>1 DEF At
<1>3. KeptFor(p) = p.pkt /\ r.pkt = base
  BY <1>2 DEF KeptFor, Syncing
<1>4. p.pkt \in Seq(Bytes) /\ Len(p.pkt) \in Nat
  BY <1>2, ParserFields
<1> DEFINE n == Len(p.pkt)
<1>5. /\ Ring(r.mem, base, r.start, r.cur, p.pkt, t) /\ n \in 0 .. Len(p.pkt)
      /\ r.start = Plus(base, n)
  <2>1. Ring(r.mem, base, r.start, r.cur, p.pkt, t)
    BY <1>2, <1>3
  <2>2. r.start = Plus(base, n)
    BY <2>1, RingParts
  <2> QED
    BY <1>4, <2>1, <2>2
<1>6. Copied(r.mem, r.pkt, r.start) = p.pkt
  <2>1. Copied(r.mem, base, Plus(base, n)) = [i \in 1 .. n |-> p.pkt[i]]
    BY <1>5, RingCopied
  <2>2. [i \in 1 .. n |-> p.pkt[i]] = p.pkt
    BY <1>4
  <2> QED
    BY <1>3, <1>5, <2>1, <2>2
<1> DEFINE w == [r EXCEPT !.pkt = r.start, !.done = FALSE]
           q == [p EXCEPT !.pkt = <<>>]
<1>7. /\ w \in Records /\ w.mem = r.mem /\ w.start = r.start /\ w.cur = r.cur
      /\ w.status = r.status /\ w.len = r.len /\ w.key = r.key /\ w.pkt = r.start
  BY <1>2 DEF Records
<1>8. q \in Line!Parsers /\ q.status = p.status /\ q.key = p.key /\ q.len = p.len /\ q.pkt = <<>>
  <2>1. p \in [status : Statuses, key : BOOLEAN, len : Uint16, pkt : Seq(Bytes)]
    BY <1>2, ParserSet DEF Sound
  <2>2. q \in [status : Statuses, key : BOOLEAN, len : Uint16, pkt : Seq(Bytes)]
    BY <2>1, HeaderBytes
  <2>3. q.status = p.status /\ q.key = p.key /\ q.len = p.len /\ q.pkt = <<>>
    BY <2>1
  <2> QED
    BY <2>2, <2>3, ParserSet
<1> HIDE DEF w, q
<1>9. Sound(q) /\ KeptFor(q) = <<>>
  BY <1>8 DEF Sound, KeptFor, Syncing
<1>10. Ring(r.mem, r.start, r.start, r.cur, <<>>, t)
  <2>1. Ring(r.mem, Plus(base, n), r.start, r.cur, SubSeq(p.pkt, n + 1, n), t)
    BY <1>5, RingDrop
  <2>2. SubSeq(p.pkt, n + 1, n) = <<>>
    BY <1>4
  <2> QED
    BY <1>5, <2>1, <2>2
<1>11. r.start \in Pos
  BY <1>10, RingParts
<1>12. Sim(w, q, t)
  BY <1>2, <1>7, <1>8, <1>9, <1>10, <1>11 DEF Sim, At
<1> QED
  BY <1>6, <1>9, <1>12 DEF w, q

LEMMA Suffix ==
  ASSUME NEW s \in Seq(Bytes), NEW n \in 0 .. Len(s)
  PROVE  /\ SubSeq(s, n + 1, Len(s)) \in Seq(Bytes)
         /\ Len(SubSeq(s, n + 1, Len(s))) = Len(s) - n
         /\ \A k \in 1 .. Len(s) - n : SubSeq(s, n + 1, Len(s))[k] = s[n + k]
<1>1. n \in Nat /\ Len(s) \in Nat /\ n <= Len(s)
  OBVIOUS
<1>2. \A k \in n + 1 .. Len(s) : s[k] \in Bytes
  BY <1>1
<1> QED
  BY <1>1, <1>2, SubSeqProperties

LEMMA FrontOfJoined ==
  ASSUME NEW u \in Seq(Bytes), NEW f \in Seq(Bytes), NEW n \in 0 .. Len(u)
  PROVE  /\ SubSeq(u \o f, 1, Len(u)) = u
         /\ SubSeq(u \o f, n + 1, Len(u \o f)) = SubSeq(u, n + 1, Len(u)) \o f
<1> DEFINE w == u \o f
           a == SubSeq(w, 1, Len(u))
           b == SubSeq(w, n + 1, Len(w))
           c == SubSeq(u, n + 1, Len(u))
           d == c \o f
<1>1. /\ w \in Seq(Bytes) /\ Len(w) = Len(u) + Len(f)
      /\ \A k \in 1 .. Len(u) : w[k] = u[k]
      /\ \A k \in 1 .. Len(f) : w[Len(u) + k] = f[k]
  BY Joined
<1>2. Len(u) \in Nat /\ Len(f) \in Nat /\ n \in Nat /\ n <= Len(u)
  OBVIOUS
<1> HIDE DEF w
<1>3. (\A k \in 1 .. Len(w) : w[k] \in Bytes) /\ (\A k \in 1 .. Len(u) : u[k] \in Bytes)
  BY <1>1
<1>4. a = u
  <2>1. a \in Seq(Bytes) /\ Len(a) = Len(u) /\ \A k \in 1 .. Len(a) : a[k] = w[k]
    BY <1>1, <1>2, <1>3, SubSeqProperties
  <2> HIDE DEF a
  <2> QED
    BY <1>1, <2>1, SeqEqual
<1>5. b = d
  <2>1. /\ b \in Seq(Bytes) /\ Len(b) = Len(w) - n
        /\ \A k \in 1 .. Len(b) : b[k] = w[n + k]
    <3>1. n \in 0 .. Len(w)
      BY <1>1, <1>2
    <3>2. /\ b \in Seq(Bytes) /\ Len(b) = Len(w) - n
          /\ \A k \in 1 .. Len(w) - n : b[k] = w[n + k]
      BY <1>1, <3>1, Suffix
    <3> HIDE DEF b
    <3> QED
      BY <3>2
  <2>2. /\ c \in Seq(Bytes) /\ Len(c) = Len(u) - n
        /\ \A k \in 1 .. Len(c) : c[k] = u[n + k]
    <3>1. /\ c \in Seq(Bytes) /\ Len(c) = Len(u) - n
          /\ \A k \in 1 .. Len(u) - n : c[k] = u[n + k]
      BY Suffix
    <3> HIDE DEF c
    <3> QED
      BY <3>1
  <2> HIDE DEF b, c
  <2>3. /\ d \in Seq(Bytes) /\ Len(d) = Len(c) + Len(f)
        /\ \A k \in 1 .. Len(c) : d[k] = c[k]
        /\ \A k \in 1 .. Len(f) : d[Len(c) + k] = f[k]
    BY <2>2, Joined, ZenonT(40)
  <2> HIDE DEF d
  <2>4. ASSUME NEW k \in 1 .. Len(b) PROVE b[k] = d[k]
    <3>1. CASE k <= Len(c)
      <4>1. k \in 1 .. Len(c) /\ n + k \in 1 .. Len(u)
        BY <1>2, <2>2, <3>1
      <4>2. b[k] = w[n + k] /\ w[n + k] = u[n + k]
        BY <1>1, <2>1, <4>1
      <4>3. d[k] = c[k] /\ c[k] = u[n + k]
        BY <2>2, <2>3, <4>1
      <4> QED
        BY <4>2, <4>3
    <3>2. CASE ~(k <= Len(c))
      <4> DEFINE j == k - Len(c)
      <4>1. /\ Len(c) = Len(u) - n /\ Len(b) = Len(u) + Len(f) - n
            /\ k \in Int /\ 1 <= k /\ k <= Len(b)
        BY <1>1, <1>2, <2>1, <2>2
      <4>2. j \in 1 .. Len(f) /\ k = Len(c) + j /\ n + k = Len(u) + j
        BY <1>2, <3>2, <4>1
      <4> HIDE DEF j
      <4>3. b[k] = w[Len(u) + j]
        BY <2>1, <4>2
      <4>4. w[Len(u) + j] = f[j]
        BY <1>1, <4>2
      <4>5. d[k] = f[j]
        BY <2>3, <4>2
      <4> QED
        BY <4>3, <4>4, <4>5
    <3> QED
      BY <3>1, <3>2
  <2>5. Len(b) = Len(d)
    BY <1>1, <1>2, <2>1, <2>2, <2>3
  <2> QED
    BY <2>1, <2>3, <2>4, <2>5, SeqEqual
<1> QED
  BY <1>4, <1>5 DEF a, b, c, d, w

LEMMA ScanAll ==
  ASSUME NEW u, Sim(Here, ParserNow, u)
  PROVE  Abreast(Scanned, Line!Scan(ParserNow, u), u, Len(u), Len(KeptFor(ParserNow)))
<1>1. u \in Seq(Bytes) /\ Len(u) \in Nat /\ Unread = Len(u) /\ Here.done = FALSE
  BY UnreadIs, HereIs
<1>2. PICK g : Turns(g, Here, Len(u)) /\ Scanned = g[Len(u)]
  BY <1>1, ScannedIs
<1>3. PICK h : Parts(h, ParserNow, u, Len(u)) /\ Line!Scan(ParserNow, u) = h[Len(u)]
  BY <1>1, ScanIs
<1>4. Abreast(g[Len(u)], h[Len(u)], u, Len(u), Len(KeptFor(ParserNow)))
  BY <1>1, <1>2, <1>3, AbreastAll
<1> QED
  BY <1>2, <1>3, <1>4

LEMMA LineExtracts ==
  ASSUME NEW n \in 0 .. Len(LineWire), NEW a,
         a = Line!Scan(ParserNow, SubSeq(LineWire, 1, n)),
         LineWire' = SubSeq(LineWire, a.taken + 1, Len(LineWire)),
         packet' = IF a.whole THEN a.parser.pkt ELSE <<>>,
         ParserNow' = IF a.whole THEN [a.parser EXCEPT !.pkt = <<>>] ELSE a.parser
  PROVE  Line!Extract
BY ZenonT(40) DEF Line!Extract, LineWire, UnreadOf, Here, Unread

\* The parser runs: it takes from the line what Framing says.
LEMMA ExtractStep ==
  ASSUME Inv, ExtractOnePacket
  PROVE  Inv' /\ Line!Extract
<1> DEFINE p == ParserNow
           u == UnreadOf(Here)
           r == Scanned
           a == Line!Scan(p, u)
           k0 == Len(KeptFor(p))
           rest == SubSeq(u, a.taken + 1, Len(u))
           q == IF a.whole THEN [a.parser EXCEPT !.pkt = <<>>] ELSE a.parser
<1>1. /\ Sim(Here, p, u) /\ fifo \in Seq(Bytes)
      /\ sent \in 0 .. MaxSent /\ due \in Seq(Whole) /\ Len(due) <= sent
      /\ Kept + Unread + Len(fifo) < Size
  BY DEF Inv
<1>2. Abreast(r, a, u, Len(u), k0)
  BY <1>1, ScanAll
<1>3. /\ hal_RxBuffer' = r.mem /\ pos_start' = r.start /\ pos_current' = r.cur
      /\ status' = r.status /\ dataLen' = r.len /\ keyWord' = r.key
      /\ packet' = IF r.done THEN Copied(r.mem, r.pkt, r.start) ELSE <<>>
      /\ packetStart' = IF r.done THEN r.start ELSE r.pkt
      /\ due' = IF due # <<>> /\ packet' = Head(due) THEN Tail(due) ELSE due
      /\ filled' = FALSE /\ fifo' = fifo /\ sent' = sent
  BY DEF ExtractOnePacket
<1>4. /\ Len(u) \in Nat /\ u \in Seq(Bytes) /\ k0 \in Nat /\ Kept + Unread = k0 + Len(u)
  <2>1. u \in Seq(Bytes)
    BY <1>1, UnreadIs
  <2>2. k0 \in Nat
    BY <1>1, KeptIs
  <2>3. Kept + Unread = k0 + Len(u)
    BY <1>1, SimRoom, HereIs
  <2> QED
    BY <2>1, <2>2, <2>3
<1> HIDE DEF p, u, r, a, k0
<1>5. /\ a.taken \in 0 .. Len(u) /\ r.done = a.whole /\ r.done \in BOOLEAN
      /\ Sim(r, a.parser, rest)
      /\ a.whole = TRUE => a.parser.status = "DATA" /\ a.parser.key = FALSE
      /\ Len(KeptFor(a.parser)) <= k0 + a.taken
  BY <1>2 DEF Abreast
<1>6. r \in Records
  BY <1>5, ParserIs
<1>7. rest \in Seq(Bytes) /\ Len(rest) = Len(u) - a.taken
  BY <1>4, <1>5, Suffix
<1> HIDE DEF rest
<1>8. /\ Sim(Here', q, rest) /\ Len(KeptFor(q)) \in Nat /\ Len(KeptFor(q)) <= k0 + a.taken
      /\ packet' = IF a.whole THEN a.parser.pkt ELSE <<>>
  <2>1. CASE r.done = TRUE
    <3> DEFINE w == [r EXCEPT !.pkt = r.start, !.done = FALSE]
               e == [a.parser EXCEPT !.pkt = <<>>]
    <3>1. a.whole = TRUE /\ a.parser.status = "DATA" /\ a.parser.key = FALSE
      BY <1>5, <2>1
    <3>2. /\ Copied(r.mem, r.pkt, r.start) = a.parser.pkt
          /\ Sim(w, e, rest)
          /\ KeptFor(e) = <<>>
      BY <1>5, <3>1, PacketOut
    <3>3. w = Here'
      <4>1. Here' = [mem |-> r.mem, start |-> r.start, cur |-> r.cur, status |-> r.status,
                     len |-> r.len, pkt |-> r.start, key |-> r.key, done |-> FALSE]
        BY <1>3, <2>1 DEF Here
      <4>2. w = [mem |-> r.mem, start |-> r.start, cur |-> r.cur, status |-> r.status,
                 len |-> r.len, pkt |-> r.start, key |-> r.key, done |-> FALSE]
        <5>1. /\ w \in Records /\ w.mem = r.mem /\ w.start = r.start /\ w.cur = r.cur
              /\ w.status = r.status /\ w.len = r.len /\ w.pkt = r.start
              /\ w.key = r.key /\ w.done = FALSE
          BY <1>6 DEF Records
        <5> HIDE DEF w
        <5> QED
          BY <5>1 DEF Records
      <4> QED
        BY <4>1, <4>2
    <3>4. q = e
      BY <3>1
    <3> HIDE DEF q, e
    <3>5. Len(KeptFor(q)) = 0
      BY <3>2, <3>4
    <3>6. packet' = a.parser.pkt
      BY <1>3, <2>1, <3>2
    <3>7. k0 + a.taken >= 0
      BY <1>4, <1>5
    <3> QED
      BY <3>1, <3>2, <3>3, <3>4, <3>5, <3>6, <3>7
  <2>2. CASE r.done = FALSE
    <3>1. a.whole = FALSE
      BY <1>5, <2>2
    <3>2. r = Here'
      <4>1. Here' = [mem |-> r.mem, start |-> r.start, cur |-> r.cur, status |-> r.status,
                     len |-> r.len, pkt |-> r.pkt, key |-> r.key, done |-> FALSE]
        BY <1>3, <2>2 DEF Here
      <4>2. r = [mem |-> r.mem, start |-> r.start, cur |-> r.cur, status |-> r.status,
                 len |-> r.len, pkt |-> r.pkt, key |-> r.key, done |-> FALSE]
        BY <1>6, <2>2 DEF Records
      <4> QED
        BY <4>1, <4>2
    <3>3. q = a.parser
      BY <3>1
    <3> HIDE DEF q
    <3>4. packet' = <<>>
      BY <1>3, <2>2
    <3>5. Len(KeptFor(a.parser)) \in Nat
      BY <1>5, KeptIs
    <3> QED
      BY <1>5, <3>1, <3>2, <3>3, <3>4, <3>5
  <2> QED
    BY <1>5, <2>1, <2>2
<1> HIDE DEF q
<1>9. ParserNow' = q /\ UnreadOf(Here') = rest
  BY <1>8, HereIsNext, ParserIs, UnreadIs
<1>10. Kept' + Unread' = Len(KeptFor(q)) + Len(rest)
  BY <1>8, SimRoom, HereIsNext
<1>11. Kept' + Unread' + Len(fifo') < Size
  <2> DEFINE all == Kept' + Unread'
             before == Kept + Unread
             l == Len(KeptFor(q))
  <2>1. all = l + Len(rest) /\ l \in Nat /\ l <= k0 + a.taken
    BY <1>8, <1>10
  <2>2. before = k0 + Len(u) /\ before + Len(fifo) < Size
    BY <1>1, <1>4
  <2> HIDE DEF all, before, l
  <2>3. a.taken \in Nat /\ Len(fifo) \in Nat
    BY <1>1, <1>5
  <2>4. all <= before
    <3>1. all <= k0 + a.taken + (Len(u) - a.taken)
      BY <1>4, <1>7, <2>1, <2>3, SMTT(40)
    <3>2. k0 + a.taken + (Len(u) - a.taken) = k0 + Len(u)
      BY <1>4, <2>3
    <3> QED
      BY <2>2, <3>1, <3>2
  <2>5. all \in Int /\ before \in Int
    BY <1>4, <1>7, <2>1, <2>2, <2>3
  <2>6. all + Len(fifo) < Size
    BY <2>2, <2>3, <2>4, <2>5
  <2> QED
    BY <1>3, <2>6 DEF all
<1>12. due' \in Seq(Whole) /\ Len(due') <= sent'
  <2>1. CASE due # <<>> /\ packet' = Head(due)
    <3>1. Tail(due) \in Seq(Whole) /\ Len(Tail(due)) = Len(due) - 1 /\ Len(due) \in Nat
      BY <1>1, <2>1
    <3> QED
      BY <1>1, <1>3, <2>1, <3>1
  <2>2. CASE ~(due # <<>> /\ packet' = Head(due))
    BY <1>1, <1>3, <2>2
  <2> QED
    BY <2>1, <2>2
<1>13. Inv'
  <2>1. Sim(Here', ParserNow', UnreadOf(Here'))
    BY <1>8, <1>9
  <2> QED
    BY <1>1, <1>3, <1>11, <1>12, <2>1, HereIsNext DEF Inv
<1>14. Line!Extract
  <2>1. LineWire = u \o fifo
    BY DEF LineWire, u
  <2>2. LineWire' = rest \o fifo
    BY <1>3, <1>9, HereIsNext DEF LineWire
  <2>3. /\ SubSeq(u \o fifo, 1, Len(u)) = u
        /\ SubSeq(u \o fifo, a.taken + 1, Len(u \o fifo)) = rest \o fifo
    <3>1. \A n \in 0 .. Len(u) :
            /\ SubSeq(u \o fifo, 1, Len(u)) = u
            /\ SubSeq(u \o fifo, n + 1, Len(u \o fifo)) = SubSeq(u, n + 1, Len(u)) \o fifo
      BY <1>1, <1>4, FrontOfJoined, ZenonT(40)
    <3>2. a.taken \in 0 .. Len(u)
      BY <1>5
    <3>3. rest = SubSeq(u, a.taken + 1, Len(u))
      BY DEF rest
    <3> QED
      BY <3>1, <3>2, <3>3, Zenon
  <2>4. Len(u) \in 0 .. Len(LineWire)
    <3>1. Len(u \o fifo) = Len(u) + Len(fifo)
      BY <1>1, <1>4, Joined
    <3>2. Len(fifo) \in Nat
      BY <1>1
    <3> QED
      BY <1>4, <2>1, <3>1, <3>2
  <2>5. a = Line!Scan(ParserNow, SubSeq(LineWire, 1, Len(u)))
    BY <2>1, <2>3 DEF a, p
  <2>6. LineWire' = SubSeq(LineWire, a.taken + 1, Len(LineWire))
    BY <2>1, <2>2, <2>3
  <2>7. ParserNow' = IF a.whole THEN [a.parser EXCEPT !.pkt = <<>>] ELSE a.parser
    BY <1>9 DEF q
  <2> QED
    BY <1>8, <2>4, <2>5, <2>6, <2>7, LineExtracts
<1> QED
  BY <1>13, <1>14

-----------------------------------------------------------------------------
(* Every run *)

LEMMA AtStart == Init => Inv /\ Line!Init
<1> SUFFICES ASSUME Init PROVE Inv /\ Line!Init
  OBVIOUS
<1> DEFINE p == Line!Parser("SYNCHEAD1", FALSE, 0, <<>>)
<1>1. /\ hal_RxBuffer = [i \in 0 .. Size - 1 |-> 0] /\ pos_start = 0 /\ pos_current = 0
      /\ status = "SYNCHEAD1" /\ dataLen = 0 /\ packetStart = 0 /\ keyWord = FALSE
      /\ fifo = <<>> /\ filled = FALSE /\ packet = <<>> /\ sent = 0 /\ due = <<>>
  BY DEF Init
<1>2. 0 \in Uint16 /\ 0 \in Pos /\ 0 \in Bytes
  BY Uint16Is DEF Pos, Bytes
<1>3. hal_RxBuffer \in [0 .. Size - 1 -> Bytes]
  BY <1>1, <1>2
<1>4. /\ Here \in Records /\ Here.status = "SYNCHEAD1" /\ Here.key = FALSE /\ Here.len = 0
      /\ Here.mem = hal_RxBuffer /\ Here.start = 0 /\ Here.cur = 0
  BY <1>1, <1>2, <1>3, StatusNames DEF Here, Records
<1>5. /\ p \in Line!Parsers /\ p.status = "SYNCHEAD1" /\ p.key = FALSE /\ p.len = 0
      /\ p.pkt = <<>>
  BY <1>2, ParserSet, StatusNames, HeaderBytes DEF Line!Parser
<1> HIDE DEF p
<1>6. Sound(p) /\ KeptFor(p) = <<>>
  BY <1>5 DEF Sound, KeptFor, Syncing
<1>7. Ring(hal_RxBuffer, 0, 0, 0, <<>>, <<>>)
  <2>1. Len(<<>>) = 0 /\ 1 .. 0 = {}
    OBVIOUS
  <2>2. Plus(0, 0) = 0
    BY <1>2, PlusZero
  <2>3. Len(<<>>) + Len(<<>>) = 0
    BY <2>1
  <2> QED
    BY <1>2, <1>3, <2>1, <2>2, <2>3, HeaderBytes DEF Ring
<1>8. Sim(Here, p, <<>>)
  <2>1. At(Here, p, <<>>, 0)
    BY <1>4, <1>5, <1>6, <1>7 DEF At
  <2> QED
    BY <1>2, <2>1 DEF Sim
<1>9. ParserNow = p /\ UnreadOf(Here) = <<>> /\ Unread = 0 /\ Kept = 0
  <2>1. Len(<<>>) = 0
    OBVIOUS
  <2> QED
    BY <1>1, <1>8, <2>1, HereIs, ParserIs, UnreadIs DEF Kept
<1>10. Inv
  <2>1. Sim(Here, ParserNow, UnreadOf(Here))
    BY <1>8, <1>9
  <2>2. Len(fifo) = 0 /\ Len(due) = 0
    BY <1>1
  <2>3. due \in Seq(Whole)
    BY <1>1
  <2>4. sent \in 0 .. MaxSent
    BY <1>1, LineAssumption
  <2> QED
    BY <1>1, <1>9, <2>1, <2>2, <2>3, <2>4, HeaderBytes DEF Inv
<1>11. Line!Init
  <2>1. LineWire = <<>>
    BY <1>1, <1>9 DEF LineWire
  <2> QED
    BY <1>1, <1>9, <2>1 DEF Line!Init, LineWire, UnreadOf, Here, Unread, p
<1> QED
  BY <1>10, <1>11

LEMMA EveryStep == Inv /\ [Next]_vars => Inv' /\ [Line!Next]_(Line!vars)
<1> SUFFICES ASSUME Inv, [Next]_vars PROVE Inv' /\ [Line!Next]_(Line!vars)
  OBVIOUS
<1>1. fifo \in Seq(Bytes) /\ due \in Seq(Whole)
  BY DEF Inv
<1>2. ASSUME NEW f \in Frames, McuSend(f)
      PROVE  Inv' /\ Line!Arrive
  <2>1. OnLine(f) \in Seq(Bytes) /\ Raw(f) \in Whole
    BY OnLineBytes DEF Whole
  <2>2. /\ Room(OnLine(f)) /\ fifo' = fifo \o OnLine(f) /\ sent' = sent + 1
        /\ due' = Append(due, Raw(f))
        /\ UNCHANGED <<ringVars, parserVars, filled, packet>>
    BY <1>2 DEF McuSend
  <2>3. due' \in Seq(Whole) /\ Len(due') <= Len(due) + 1
    BY <1>1, <2>1, <2>2
  <2> QED
    BY <2>1, <2>2, <2>3, SendStep
<1>3. ASSUME NEW s \in Noise, McuNoise(s)
      PROVE  Inv' /\ Line!Arrive
  <2>1. s \in Seq(Bytes)
    BY LineAssumption
  <2>2. /\ Room(s) /\ fifo' = fifo \o s /\ sent' = sent + 1 /\ due' = due
        /\ UNCHANGED <<ringVars, parserVars, filled, packet>>
    BY <1>3 DEF McuNoise
  <2>3. due' \in Seq(Whole) /\ Len(due') <= Len(due) + 1
    BY <1>1, <2>2
  <2> QED
    BY <2>1, <2>2, <2>3, SendStep
<1>4. ASSUME NEW n \in 1 .. Len(fifo), RecAll(n)
      PROVE  Inv' /\ UNCHANGED Line!vars
  <2>1. Inv' /\ LineWire' = LineWire /\ ParserNow' = ParserNow /\ packet' = packet
    BY <1>4, ReadStep
  <2> QED
    BY <2>1 DEF Line!vars, LineWire, UnreadOf, Here, Unread
<1>5. CASE ExtractOnePacket
  BY <1>5, ExtractStep DEF Line!Next
<1>6. CASE UNCHANGED vars
  <2>1. /\ Here' = Here /\ ParserNow' = ParserNow /\ Kept' = Kept /\ Unread' = Unread
        /\ fifo' = fifo /\ filled' = filled /\ sent' = sent /\ due' = due /\ packet' = packet
    BY <1>6 DEF vars, ringVars, parserVars, Here, ParserNow, Held, Kept, Unread
  <2>2. UnreadOf(Here') = UnreadOf(Here) /\ LineWire' = LineWire
    BY <2>1, HereIsNext DEF LineWire
  <2>3. Inv'
    BY <2>1, <2>2, HereIsNext DEF Inv
  <2>4. UNCHANGED Line!vars
    BY <2>1, <2>2 DEF Line!vars, LineWire, UnreadOf, Here, Unread
  <2> QED
    BY <2>3, <2>4
<1> QED
  BY <1>2, <1>3, <1>4, <1>5, <1>6 DEF Next, Line!Next

\* The ring and the parser keep their types: no position leaves the ring and
\* the line never holds more than fits, whatever the portions it is read in.
THEOREM RingTypes == Spec => []TypeOK
<1>1. Init => Inv
  BY AtStart
<1>2. Inv /\ [Next]_vars => Inv'
  BY EveryStep
<1>3. Inv => TypeOK
  BY InvTypes
<1> QED
  BY <1>1, <1>2, <1>3, PTL DEF Spec

\* GAgent_Local_RecAll and GAgent_Local_ExtractOnePacket are the framing:
\* neither the portions, nor the wrap of the ring and of the positions, nor
\* what move_data_backward moves makes a difference to the packets given out.
THEOREM RingIsTheLine == Spec => ImplementsFraming
<1>1. Init => Inv /\ Line!Init
  BY AtStart
<1>2. Inv /\ [Next]_vars => Inv' /\ [Line!Next]_(Line!vars)
  BY EveryStep
<1> QED
  BY <1>1, <1>2, PTL DEF Spec, ImplementsFraming, Line!Spec

-----------------------------------------------------------------------------
(* Every packet sent whole comes out: what is on the line, parsed from where  *)
(* the parser is, yields what is due                                          *)

Shapes == [status : Statuses, key : BOOLEAN, len : Int, pkt : Seq(Bytes)]

\* The parser behind a byte, a whole packet given out.
Onward(p, b) ==
  IF Line!Completes(p, b) THEN [Line!Step(p, b) EXCEPT !.pkt = <<>>] ELSE Line!Step(p, b)

\* Going over s the parser is in g[i] behind byte i.
Passes(g, s) ==
  /\ g \in [0 .. Len(s) -> Shapes]
  /\ \A i \in 1 .. Len(s) : g[i] = Onward(g[i - 1], s[i])

\* Byte m[j] completes the packet d[j].
Marks(m, g, s, d) ==
  /\ m \in [1 .. Len(d) -> 1 .. Len(s)]
  /\ \A j \in 1 .. Len(d) : /\ Line!Completes(g[m[j] - 1], s[m[j]])
                            /\ Line!Step(g[m[j] - 1], s[m[j]]).pkt = d[j]
  /\ \A i, j \in 1 .. Len(d) : i < j => m[i] < m[j]

\* Parsing s takes the parser from p to q and gives out the packets of d, in
\* order and perhaps with others between them.
Yields(p, s, q, d) ==
  \E g, m : Passes(g, s) /\ g[0] = p /\ g[Len(s)] = q /\ Marks(m, g, s, d)

LEMMA SoundShape ==
  ASSUME NEW p, Sound(p)
  PROVE  p \in Shapes
<1>1. /\ p.status \in Statuses /\ p.key \in BOOLEAN /\ p.len \in Int /\ p.pkt \in Seq(Bytes)
      /\ p = [status |-> p.status, key |-> p.key, len |-> p.len, pkt |-> p.pkt]
  BY ParserFields, Uint16Is
<1> QED
  BY <1>1 DEF Shapes

LEMMA ShapeFields ==
  ASSUME NEW p \in Shapes
  PROVE  p.status \in Statuses /\ p.key \in BOOLEAN /\ p.len \in Int /\ p.pkt \in Seq(Bytes)
BY DEF Shapes

\* A byte of the packet: the same, whether it was escaped or not.
LEMMA TakeShape ==
  ASSUME NEW p \in Shapes, NEW b \in Bytes
  PROVE  Line!Take(p, b) \in Shapes
<1> DEFINE q == Append(p.pkt, b)
           left == IF p.status = "DATALEN2" THEN p.len + b ELSE (p.len + 65535) % 65536
           n == Line!Take(p, b)
<1>1. p.len \in Int /\ q \in Seq(Bytes) /\ b \in Int
  BY ShapeFields, Appended DEF Bytes
<1>2. left \in Int /\ 256 * b \in Int
  BY <1>1
<1> HIDE DEF q, left
<1>3. \/ n = [status |-> "DATALEN2", key |-> FALSE, len |-> 256 * b, pkt |-> q]
      \/ n = [status |-> "SYNCHEAD1", key |-> FALSE, len |-> [p EXCEPT !.len = 0].len, pkt |-> <<>>]
      \/ n = [status |-> "DATA", key |-> FALSE, len |-> left, pkt |-> q]
  BY DEF Line!Take, Line!Parser, Line!Lost, q, left
<1>4. [p EXCEPT !.len = 0].len = 0
  BY DEF Shapes
<1> HIDE DEF n
<1>5. n \in Shapes
  <2>1. CASE n = [status |-> "DATALEN2", key |-> FALSE, len |-> 256 * b, pkt |-> q]
    BY <1>1, <1>2, <2>1, StatusNames DEF Shapes
  <2>2. CASE n = [status |-> "SYNCHEAD1", key |-> FALSE, len |-> [p EXCEPT !.len = 0].len,
                  pkt |-> <<>>]
    BY <1>4, <2>2, HeaderBytes, StatusNames DEF Shapes
  <2>3. CASE n = [status |-> "DATA", key |-> FALSE, len |-> left, pkt |-> q]
    BY <1>1, <1>2, <2>3, StatusNames DEF Shapes
  <2> QED
    BY <1>3, <2>1, <2>2, <2>3
<1> QED
  BY <1>5 DEF n

LEMMA HeadedShape ==
  ASSUME NEW p \in Shapes, NEW k \in BOOLEAN
  PROVE  /\ Line!Headed(p) \in Shapes /\ Line!Lost(p) \in Shapes
         /\ [Line!Headed(p) EXCEPT !.key = k] \in Shapes
         /\ [Line!Lost(p) EXCEPT !.key = k] \in Shapes
         /\ [Line!Headed(p) EXCEPT !.key = k].status = "DATALEN1"
         /\ [Line!Headed(p) EXCEPT !.key = k].pkt = <<HDR, HDR>>
         /\ Line!Headed(p).status = "DATALEN1" /\ Line!Headed(p).pkt = <<HDR, HDR>>
<1>1. p.len \in Int
  BY ShapeFields
<1>2. /\ Line!Headed(p) = [status |-> "DATALEN1", key |-> FALSE, len |-> p.len, pkt |-> <<HDR, HDR>>]
      /\ Line!Lost(p) = [status |-> "SYNCHEAD1", key |-> FALSE, len |-> p.len, pkt |-> <<>>]
  BY SameBytes DEF Line!Headed, Line!Lost, Line!Parser
<1> DEFINE h == <<HDR, HDR>>
<1>3. h \in Seq(Bytes) /\ <<>> \in Seq(Bytes)
  BY HeaderBytes
<1> HIDE DEF h
<1>4. /\ Line!Headed(p) = [status |-> "DATALEN1", key |-> FALSE, len |-> p.len, pkt |-> h]
      /\ Line!Headed(p) \in Shapes /\ Line!Lost(p) \in Shapes
  BY <1>1, <1>2, <1>3, StatusNames DEF Shapes, h
<1>5. [Line!Headed(p) EXCEPT !.key = k] = [status |-> "DATALEN1", key |-> k, len |-> p.len, pkt |-> h]
  BY <1>4
<1>6. [Line!Lost(p) EXCEPT !.key = k] = [status |-> "SYNCHEAD1", key |-> k, len |-> p.len, pkt |-> <<>>]
  BY <1>2
<1>7. [Line!Headed(p) EXCEPT !.key = k] \in Shapes /\ [Line!Lost(p) EXCEPT !.key = k] \in Shapes
  BY <1>1, <1>3, <1>5, <1>6, StatusNames DEF Shapes
<1> QED
  BY <1>4, <1>5, <1>7 DEF h

LEMMA StepShape ==
  ASSUME NEW p \in Shapes, NEW b \in Bytes
  PROVE  Line!Step(p, b) \in Shapes /\ Onward(p, b) \in Shapes
<1>1. /\ p.status \in Statuses /\ p.key \in BOOLEAN /\ p.len \in Int /\ p.pkt \in Seq(Bytes)
  BY ShapeFields
<1>2. /\ Line!Headed(p) \in Shapes /\ Line!Lost(p) \in Shapes
      /\ [Line!Headed(p) EXCEPT !.key = p.key] \in Shapes
      /\ [Line!Lost(p) EXCEPT !.key = p.key] \in Shapes
  BY <1>1, HeadedShape
<1>3. Line!Take(p, b) \in Shapes /\ Line!Take(p, HDR) \in Shapes
      /\ Line!Take(Line!Headed(p), b) \in Shapes
  BY <1>2, TakeShape, SameBytes
<1>4. Line!Sync(p, b) \in Shapes
  <2>1. CASE p.status = "SYNCHEAD1"
    <3>1. Line!Sync(p, b) = [status |-> IF b = HDR THEN "SYNCHEAD2" ELSE "SYNCHEAD1",
                             key |-> p.key, len |-> p.len, pkt |-> <<>>]
      BY <2>1, SameBytes DEF Line!Sync, Line!Parser
    <3> QED
      BY <1>1, <3>1, StatusNames, HeaderBytes DEF Shapes
  <2>2. CASE p.status # "SYNCHEAD1"
    BY <1>2, <2>2 DEF Line!Sync
  <2> QED
    BY <2>1, <2>2
<1>5. Line!Held(p, b) \in Shapes
  BY <1>2, <1>3, SameBytes DEF Line!Held
<1>6. [p EXCEPT !.key = TRUE] \in Shapes
  BY StatusNames DEF Shapes
<1>7. Line!Step(p, b) \in Shapes
  BY <1>1, <1>3, <1>4, <1>5, <1>6 DEF Line!Step
<1> DEFINE n == Line!Step(p, b)
<1>8. [n EXCEPT !.pkt = <<>>] \in Shapes
  <2> HIDE DEF n
  <2>1. n \in Shapes
    BY <1>7 DEF n
  <2> QED
    BY <2>1, HeaderBytes DEF Shapes
<1> QED
  BY <1>7, <1>8 DEF Onward

\* The parser over one byte.
LEMMA YieldsByte ==
  ASSUME NEW p \in Shapes, NEW b \in Bytes
  PROVE  /\ Yields(p, <<b>>, Onward(p, b), <<>>)
         /\ Line!Completes(p, b) => Yields(p, <<b>>, Onward(p, b), <<Line!Step(p, b).pkt>>)
<1> DEFINE s == <<b>>
           n == Onward(p, b)
           x == Line!Step(p, b).pkt
           g == [i \in 0 .. 1 |-> IF i = 0 THEN p ELSE n]
           m == [j \in 1 .. 1 |-> 1]
           none == [j \in 1 .. 0 |-> 1]
<1>1. n \in Shapes
  BY StepShape
<1>2. Len(s) = 1 /\ s[1] = b
  OBVIOUS
<1>3. g \in [0 .. 1 -> Shapes] /\ g[0] = p /\ g[1] = n
  <2> HIDE DEF n
  <2> QED
    BY <1>1
<1> HIDE DEF s, g
<1>4. Passes(g, s)
  <2>1. ASSUME NEW i \in 1 .. 1
        PROVE  g[i] = Onward(g[i - 1], s[i])
    <3>1. i = 1 /\ i - 1 = 0
      OBVIOUS
    <3> QED
      BY <1>2, <1>3, <3>1
  <2> QED
    BY <1>2, <1>3, <2>1 DEF Passes
<1>5. Marks(none, g, s, <<>>)
  <2>1. Len(<<>>) = 0 /\ 1 .. 0 = {}
    OBVIOUS
  <2> QED
    BY <2>1 DEF Marks
<1>6. Line!Completes(p, b) => Marks(m, g, s, <<x>>)
  <2>1. Len(<<x>>) = 1 /\ <<x>>[1] = x
    OBVIOUS
  <2>2. \A j \in 1 .. 1 : j = 1 /\ m[j] = 1 /\ m[j] - 1 = 0
    OBVIOUS
  <2>3. m \in [1 .. 1 -> 1 .. 1] /\ \A i, j \in 1 .. 1 : ~(i < j)
    OBVIOUS
  <2> HIDE DEF m, x
  <2>4. SUFFICES ASSUME Line!Completes(p, b) PROVE Marks(m, g, s, <<x>>)
    OBVIOUS
  <2> DEFINE d == <<x>>
  <2>5. Len(d) = 1 /\ d[1] = x
    BY <2>1
  <2> HIDE DEF d
  <2>6. ASSUME NEW j \in 1 .. 1
        PROVE  Line!Completes(g[m[j] - 1], s[m[j]]) /\ Line!Step(g[m[j] - 1], s[m[j]]).pkt = d[j]
    BY <1>2, <1>3, <2>2, <2>4, <2>5 DEF x
  <2> QED
    BY <1>2, <2>3, <2>5, <2>6 DEF Marks, d
<1>7. Yields(p, s, n, <<>>)
  BY <1>2, <1>3, <1>4, <1>5 DEF Yields
<1>8. Line!Completes(p, b) => Yields(p, s, n, <<x>>)
  BY <1>2, <1>3, <1>4, <1>6 DEF Yields
<1> QED
  BY <1>7, <1>8 DEF s

LEMMA YieldsNothing ==
  ASSUME NEW p \in Shapes
  PROVE  Yields(p, <<>>, p, <<>>)
<1> DEFINE g == [i \in 0 .. 0 |-> p]
           none == [j \in 1 .. 0 |-> 1]
           s == <<>>
<1>1. Len(s) = 0 /\ 1 .. 0 = {}
  OBVIOUS
<1>2. g \in [0 .. 0 -> Shapes] /\ g[0] = p
  OBVIOUS
<1>3. none \in [1 .. 0 -> 1 .. 0]
  OBVIOUS
<1> HIDE DEF s, g, none
<1>4. Passes(g, s) /\ Marks(none, g, s, s)
  BY <1>1, <1>2, <1>3 DEF Passes, Marks
<1>5. Yields(p, s, p, s)
  BY <1>1, <1>2, <1>4 DEF Yields
<1> QED
  BY <1>5 DEF s

LEMMA YieldsShapes ==
  ASSUME NEW p, NEW s \in Seq(Bytes), NEW q, NEW d, Yields(p, s, q, d)
  PROVE  p \in Shapes /\ q \in Shapes
<1>1. PICK g, m : Passes(g, s) /\ g[0] = p /\ g[Len(s)] = q
  BY DEF Yields
<1>2. 0 \in 0 .. Len(s) /\ Len(s) \in 0 .. Len(s)
  OBVIOUS
<1> QED
  BY <1>1, <1>2 DEF Passes

\* Packets given out.
LEMMA JoinedPackets ==
  ASSUME NEW S, NEW d \in Seq(S), NEW e \in Seq(S)
  PROVE  /\ d \o e \in Seq(S) /\ Len(d \o e) = Len(d) + Len(e)
         /\ Len(d) \in Nat /\ Len(e) \in Nat
         /\ \A j \in 1 .. Len(d) : (d \o e)[j] = d[j]
         /\ \A j \in 1 .. Len(e) : (d \o e)[Len(d) + j] = e[j]
OBVIOUS

\* One stretch of the line after another.
LEMMA YieldsJoined ==
  ASSUME NEW S, NEW p, NEW a \in Seq(Bytes), NEW q, NEW d \in Seq(S), Yields(p, a, q, d),
         NEW b \in Seq(Bytes), NEW r, NEW e \in Seq(S), Yields(q, b, r, e)
  PROVE  Yields(p, a \o b, r, d \o e)
<1>1. PICK g, m : Passes(g, a) /\ g[0] = p /\ g[Len(a)] = q /\ Marks(m, g, a, d)
  BY DEF Yields
<1>2. PICK h, n : Passes(h, b) /\ h[0] = q /\ h[Len(b)] = r /\ Marks(n, h, b, e)
  BY DEF Yields
<1> DEFINE k == Len(a)
           l == Len(b)
           s == a \o b
           x == d \o e
           f == [i \in 0 .. k + l |-> IF i <= k THEN g[i] ELSE h[i - k]]
           o == [j \in 1 .. Len(d) + Len(e) |-> IF j <= Len(d) THEN m[j] ELSE k + n[j - Len(d)]]
<1>3. /\ k \in Nat /\ l \in Nat /\ Len(s) = k + l
      /\ \A i \in 1 .. k : s[i] = a[i]
      /\ \A i \in 1 .. l : s[k + i] = b[i]
  BY Joined
<1>4. /\ Len(d) \in Nat /\ Len(e) \in Nat /\ Len(x) = Len(d) + Len(e)
      /\ \A j \in 1 .. Len(d) : x[j] = d[j]
      /\ \A j \in 1 .. Len(e) : x[Len(d) + j] = e[j]
  BY JoinedPackets
<1>5. /\ g \in [0 .. k -> Shapes] /\ h \in [0 .. l -> Shapes]
      /\ \A i \in 1 .. k : g[i] = Onward(g[i - 1], a[i])
      /\ \A i \in 1 .. l : h[i] = Onward(h[i - 1], b[i])
  BY <1>1, <1>2 DEF Passes
<1>6. /\ m \in [1 .. Len(d) -> 1 .. k] /\ n \in [1 .. Len(e) -> 1 .. l]
      /\ \A i, j \in 1 .. Len(d) : i < j => m[i] < m[j]
      /\ \A i, j \in 1 .. Len(e) : i < j => n[i] < n[j]
  BY <1>1, <1>2 DEF Marks
<1>7. /\ \A j \in 1 .. Len(d) : Line!Completes(g[m[j] - 1], a[m[j]])
      /\ \A j \in 1 .. Len(d) : Line!Step(g[m[j] - 1], a[m[j]]).pkt = d[j]
      /\ \A j \in 1 .. Len(e) : Line!Completes(h[n[j] - 1], b[n[j]])
      /\ \A j \in 1 .. Len(e) : Line!Step(h[n[j] - 1], b[n[j]]).pkt = e[j]
  BY <1>1, <1>2 DEF Marks
<1>0. g[k] = h[0]
  BY <1>1, <1>2
<1> HIDE DEF k, l, s, x
<1>8. /\ f \in [0 .. k + l -> Shapes]
      /\ \A i \in 0 .. k : f[i] = g[i]
      /\ \A i \in 1 .. l : f[k + i] = h[i]
  <2>1. \A i \in 0 .. k : i \in 0 .. k + l /\ i <= k
    BY <1>3
  <2>2. \A i \in 1 .. l : k + i \in 0 .. k + l /\ ~(k + i <= k) /\ (k + i) - k = i
    BY <1>3
  <2>3. ASSUME NEW i \in 0 .. k + l
        PROVE  (IF i <= k THEN g[i] ELSE h[i - k]) \in Shapes
    <3>1. CASE i <= k
      <4>1. i \in 0 .. k
        BY <1>3, <3>1
      <4> QED
        BY <1>5, <3>1, <4>1
    <3>2. CASE ~(i <= k)
      <4>1. i - k \in 0 .. l
        BY <1>3, <3>2
      <4> QED
        BY <1>5, <3>2, <4>1
    <3> QED
      BY <3>1, <3>2
  <2>4. f \in [0 .. k + l -> Shapes]
    BY <2>3
  <2>5. \A i \in 0 .. k : f[i] = g[i]
    BY <2>1
  <2>6. \A i \in 1 .. l : f[k + i] = h[(k + i) - k]
    BY <2>2
  <2> QED
    BY <2>2, <2>4, <2>5, <2>6
<1>9. \A i \in 0 .. l : f[k + i] = h[i]
  <2> HIDE DEF f
  <2>1. k + 0 = k /\ k \in 0 .. k /\ \A i \in 0 .. l : i = 0 \/ i \in 1 .. l
    BY <1>3
  <2> QED
    BY <1>8, <1>0, <2>1
<1>10. /\ o \in [1 .. Len(d) + Len(e) -> 1 .. k + l]
       /\ \A j \in 1 .. Len(d) : o[j] = m[j] /\ m[j] \in 1 .. k
       /\ \A j \in 1 .. Len(e) : o[Len(d) + j] = k + n[j] /\ n[j] \in 1 .. l
  <2> DEFINE c == Len(d)
             v == Len(e)
  <2>1. c \in Nat /\ v \in Nat /\ m \in [1 .. c -> 1 .. k] /\ n \in [1 .. v -> 1 .. l]
    BY <1>4, <1>6
  <2> HIDE DEF c, v
  <2>2. \A j \in 1 .. c : j \in 1 .. c + v /\ j <= c
    BY <2>1
  <2>3. \A j \in 1 .. v : c + j \in 1 .. c + v /\ ~(c + j <= c) /\ (c + j) - c = j
    BY <2>1
  <2>4. ASSUME NEW j \in 1 .. c + v
        PROVE  (IF j <= c THEN m[j] ELSE k + n[j - c]) \in 1 .. k + l
    <3>1. CASE j <= c
      <4>1. m[j] \in 1 .. k
        BY <2>1, <3>1
      <4> QED
        BY <1>3, <3>1, <4>1
    <3>2. CASE ~(j <= c)
      <4>1. j - c \in 1 .. v
        BY <2>1, <3>2
      <4>2. n[j - c] \in 1 .. l
        BY <2>1, <4>1
      <4> QED
        BY <1>3, <3>2, <4>2
    <3> QED
      BY <3>1, <3>2
  <2>5. o = [j \in 1 .. c + v |-> IF j <= c THEN m[j] ELSE k + n[j - c]]
    BY DEF c, v
  <2> HIDE DEF o
  <2>6. o \in [1 .. c + v -> 1 .. k + l]
    BY <2>4, <2>5
  <2>7. \A j \in 1 .. c : o[j] = m[j] /\ m[j] \in 1 .. k
    BY <2>1, <2>2, <2>5
  <2>8. \A j \in 1 .. v : o[c + j] = k + n[(c + j) - c] /\ n[j] \in 1 .. l
    BY <2>1, <2>3, <2>5
  <2> QED
    BY <2>3, <2>6, <2>7, <2>8 DEF c, v
<1> HIDE DEF f, o
<1>11. Passes(f, s)
  <2>1. ASSUME NEW i \in 1 .. k + l
        PROVE  f[i] = Onward(f[i - 1], s[i])
    <3>1. CASE i <= k
      <4>1. i \in 1 .. k /\ i \in 0 .. k /\ i - 1 \in 0 .. k
        BY <1>3, <3>1
      <4>2. f[i] = g[i] /\ f[i - 1] = g[i - 1] /\ s[i] = a[i]
        BY <1>3, <1>8, <4>1
      <4> QED
        BY <1>5, <4>1, <4>2
    <3>2. CASE ~(i <= k)
      <4> DEFINE j == i - k
      <4>1. j \in 1 .. l /\ j - 1 \in 0 .. l /\ i = k + j /\ i - 1 = k + (j - 1)
        BY <1>3, <3>2
      <4> HIDE DEF j
      <4>2. f[k + j] = h[j] /\ f[k + (j - 1)] = h[j - 1] /\ s[k + j] = b[j]
        BY <1>3, <1>8, <1>9, <4>1
      <4>3. h[j] = Onward(h[j - 1], b[j])
        BY <1>5, <4>1
      <4> QED
        BY <4>1, <4>2, <4>3
    <3> QED
      BY <3>1, <3>2
  <2> QED
    BY <1>3, <1>8, <2>1 DEF Passes
<1>12. Marks(o, f, s, x)
  <2>1. ASSUME NEW j \in 1 .. Len(d) + Len(e)
        PROVE  /\ Line!Completes(f[o[j] - 1], s[o[j]])
               /\ Line!Step(f[o[j] - 1], s[o[j]]).pkt = x[j]
    <3>1. CASE j <= Len(d)
      <4>1. j \in 1 .. Len(d) /\ o[j] = m[j] /\ m[j] \in 1 .. k
        BY <1>4, <1>10, <3>1
      <4>2. m[j] - 1 \in 0 .. k
        BY <1>3, <4>1
      <4>3. f[m[j] - 1] = g[m[j] - 1] /\ s[m[j]] = a[m[j]] /\ x[j] = d[j]
        BY <1>3, <1>4, <1>8, <4>1, <4>2
      <4> QED
        BY <1>7, <4>1, <4>3
    <3>2. CASE ~(j <= Len(d))
      <4> DEFINE i == j - Len(d)
      <4>1. i \in 1 .. Len(e) /\ j = Len(d) + i
        BY <1>4, <3>2
      <4> HIDE DEF i
      <4>2. o[j] = k + n[i] /\ n[i] \in 1 .. l
        BY <1>10, <4>1
      <4>3. n[i] - 1 \in 0 .. l /\ k + n[i] - 1 = k + (n[i] - 1)
        BY <1>3, <4>2, SMTT(40)
      <4>4. f[k + (n[i] - 1)] = h[n[i] - 1] /\ s[k + n[i]] = b[n[i]] /\ x[j] = e[i]
        BY <1>3, <1>4, <1>9, <4>1, <4>2, <4>3
      <4>5. f[o[j] - 1] = h[n[i] - 1] /\ s[o[j]] = b[n[i]]
        <5>1. o[j] - 1 = k + (n[i] - 1)
          BY <1>3, <4>2
        <5> QED
          BY <4>2, <4>4, <5>1, Zenon
      <4>6. Line!Completes(h[n[i] - 1], b[n[i]]) /\ Line!Step(h[n[i] - 1], b[n[i]]).pkt = e[i]
        BY <1>7, <4>1
      <4> QED
        BY <4>4, <4>5, <4>6
    <3> QED
      BY <3>1, <3>2
  <2>2. ASSUME NEW i \in 1 .. Len(d) + Len(e), NEW j \in 1 .. Len(d) + Len(e), i < j
        PROVE  o[i] < o[j]
    <3>1. CASE j <= Len(d)
      <4>1. i \in 1 .. Len(d) /\ j \in 1 .. Len(d)
        BY <1>4, <2>2, <3>1
      <4> QED
        BY <1>6, <1>10, <2>2, <4>1
    <3>2. CASE i <= Len(d) /\ ~(j <= Len(d))
      <4>1. i \in 1 .. Len(d) /\ j - Len(d) \in 1 .. Len(e) /\ j = Len(d) + (j - Len(d))
        BY <1>4, <3>2
      <4> DEFINE u == j - Len(d)
      <4>2. u \in 1 .. Len(e) /\ j = Len(d) + u
        BY <4>1
      <4> HIDE DEF u
      <4>3. o[i] = m[i] /\ m[i] \in 1 .. k /\ o[j] = k + n[u] /\ n[u] \in 1 .. l
        BY <1>10, <4>1, <4>2
      <4> QED
        BY <1>3, <4>3, SMTT(40)
    <3>3. CASE ~(i <= Len(d)) /\ ~(j <= Len(d))
      <4> DEFINE u == j - Len(d)
                 v == i - Len(d)
      <4>1. u \in 1 .. Len(e) /\ j = Len(d) + u /\ v \in 1 .. Len(e) /\ i = Len(d) + v /\ v < u
        BY <1>4, <2>2, <3>3
      <4> HIDE DEF u, v
      <4>2. o[i] = k + n[v] /\ o[j] = k + n[u] /\ n[v] \in 1 .. l /\ n[u] \in 1 .. l
        BY <1>10, <4>1
      <4>3. n[v] < n[u]
        BY <1>6, <4>1
      <4> QED
        BY <1>3, <4>2, <4>3
    <3> QED
      BY <1>4, <2>2, <3>1, <3>2, <3>3
  <2> QED
    BY <1>3, <1>4, <1>10, <2>1, <2>2 DEF Marks
<1>13. f[0] = p /\ f[k + l] = r
  <2>1. 0 \in 0 .. k /\ l \in 0 .. l
    BY <1>3
  <2>2. h[l] = r
    BY <1>2 DEF l
  <2> QED
    BY <1>1, <1>8, <1>9, <2>1, <2>2
<1>14. Yields(p, s, r, x)
  BY <1>3, <1>11, <1>12, <1>13 DEF Yields
<1> QED
  BY <1>14 DEF s, x

LEMMA JoinedNothing ==
  ASSUME NEW S, NEW d \in Seq(S)
  PROVE  d \o <<>> = d /\ <<>> \o d = d /\ <<>> \in Seq(S)
<1>1. <<>> \in Seq(S)
  OBVIOUS
<1> QED
  BY <1>1, ConcatEmptySeq

\* Whatever comes, the parser gets over it.
LEMMA YieldsAny ==
  ASSUME NEW p \in Shapes, NEW s \in Seq(Bytes)
  PROVE  \E q : Yields(p, s, q, <<>>)
<1> DEFINE S == {k \in Nat : k \in 0 .. Len(s) => \E q : Yields(p, SubSeq(s, 1, k), q, <<>>)}
<1>1. Len(s) \in Nat /\ \A i \in 1 .. Len(s) : s[i] \in Bytes
  OBVIOUS
<1>2. 0 \in S
  <2>1. SubSeq(s, 1, 0) = <<>>
    OBVIOUS
  <2> QED
    BY <2>1, YieldsNothing
<1>3. ASSUME NEW j \in S
      PROVE  j + 1 \in S
  <2>1. SUFFICES ASSUME j + 1 \in 0 .. Len(s)
                 PROVE  \E q : Yields(p, SubSeq(s, 1, j + 1), q, <<>>)
    OBVIOUS
  <2>2. j \in Nat /\ j \in 0 .. Len(s) /\ j + 1 \in 1 .. Len(s)
    BY <1>1, <2>1
  <2> DEFINE a == SubSeq(s, 1, j)
             c == SubSeq(s, 1, j + 1)
             b == s[j + 1]
             t == a \o <<b>>
  <2>3. PICK q : Yields(p, a, q, <<>>)
    BY <2>2
  <2>4. b \in Bytes /\ <<b>> \in Seq(Bytes) /\ Len(<<b>>) = 1 /\ <<b>>[1] = b
    BY <1>1, <2>2
  <2>5. a \in Seq(Bytes) /\ Len(a) = j /\ \A k \in 1 .. Len(a) : a[k] = s[k]
    BY <1>1, <2>2, SubSeqProperties
  <2>6. c \in Seq(Bytes) /\ Len(c) = j + 1 /\ \A k \in 1 .. Len(c) : c[k] = s[k]
    BY <1>1, <2>2, SubSeqProperties
  <2> DEFINE e == <<b>>
  <2>13. e \in Seq(Bytes) /\ Len(e) = 1 /\ e[1] = b
    BY <2>4
  <2> HIDE DEF a, b, c, e
  <2>7. /\ a \o e \in Seq(Bytes) /\ Len(a \o e) = j + 1
        /\ \A k \in 1 .. j : (a \o e)[k] = a[k]
        /\ (a \o e)[j + 1] = b
    <3>1. /\ a \o e \in Seq(Bytes) /\ Len(a \o e) = Len(a) + Len(e)
          /\ \A k \in 1 .. Len(a) : (a \o e)[k] = a[k]
          /\ \A k \in 1 .. Len(e) : (a \o e)[Len(a) + k] = e[k]
      BY <2>5, <2>13, Joined, Zenon
    <3>2. 1 \in 1 .. Len(e)
      BY <2>13
    <3>3. (a \o e)[Len(a) + 1] = e[1]
      BY <3>1, <3>2
    <3> QED
      BY <2>5, <2>13, <3>1, <3>3
  <2>8. c = a \o e
    <3>1. ASSUME NEW k \in 1 .. Len(c)
          PROVE  c[k] = (a \o e)[k]
      <4>1. CASE k = j + 1
        BY <2>6, <2>7, <4>1 DEF b
      <4>2. CASE k # j + 1
        <5>1. k \in 1 .. j
          BY <2>2, <2>6, <4>2
        <5> QED
          BY <2>5, <2>6, <2>7, <5>1
      <4> QED
        BY <4>1, <4>2
    <3>2. Len(c) = Len(a \o e)
      BY <2>6, <2>7
    <3> QED
      BY <2>6, <2>7, <3>1, <3>2, SeqEqual
  <2>9. q \in Shapes
    BY <2>3, <2>5, YieldsShapes
  <2>10. Yields(q, e, Onward(q, b), <<>>)
    BY <2>4, <2>9, YieldsByte DEF e
  <2>11. Yields(p, a \o e, Onward(q, b), <<>> \o <<>>)
    <3> DEFINE d == <<>>
               r == Onward(q, b)
    <3>1. d \in Seq(Bytes) /\ Yields(p, a, q, d) /\ Yields(q, e, r, d)
      BY <2>3, <2>10, HeaderBytes
    <3> HIDE DEF d, r
    <3>2. Yields(p, a \o e, r, d \o d)
      BY <2>5, <2>13, <3>1, YieldsJoined
    <3> QED
      BY <3>2 DEF d, r
  <2>12. <<>> \o <<>> = <<>>
    BY HeaderBytes, JoinedNothing
  <2> QED
    BY <2>8, <2>11, <2>12 DEF c
<1>4. S = Nat
  <2> HIDE DEF S
  <2>1. S \in SUBSET Nat
    BY DEF S
  <2> QED
    BY <1>2, <1>3, <2>1, Induction
<1>5. SubSeq(s, 1, Len(s)) = s
  <2> DEFINE a == SubSeq(s, 1, Len(s))
  <2>1. a \in Seq(Bytes) /\ Len(a) = Len(s) /\ \A k \in 1 .. Len(a) : a[k] = s[k]
    BY <1>1, SubSeqProperties
  <2> HIDE DEF a
  <2>2. a = s
    BY <2>1, SeqEqual
  <2> QED
    BY <2>2 DEF a
<1>6. \E q : Yields(p, SubSeq(s, 1, Len(s)), q, <<>>)
  BY <1>1, <1>4
<1> QED
  BY <1>5, <1>6

-----------------------------------------------------------------------------
(* A packet as it is sent, from wherever the parser is *)

LEMMA TwoJoined ==
  ASSUME NEW a \in Bytes, NEW b \in Bytes
  PROVE  <<a>> \o <<b>> = <<a, b>>
<1> DEFINE c == <<a>>
           d == <<b>>
           x == c \o d
           y == <<a, b>>
<1>1. /\ c \in Seq(Bytes) /\ Len(c) = 1 /\ c[1] = a
      /\ d \in Seq(Bytes) /\ Len(d) = 1 /\ d[1] = b
      /\ y \in Seq(Bytes) /\ Len(y) = 2 /\ y[1] = a /\ y[2] = b
  OBVIOUS
<1> HIDE DEF c, d, y
<1>2. /\ x \in Seq(Bytes) /\ Len(x) = Len(c) + Len(d)
      /\ \A k \in 1 .. Len(c) : x[k] = c[k]
      /\ \A k \in 1 .. Len(d) : x[Len(c) + k] = d[k]
  BY <1>1, Joined
<1> HIDE DEF x
<1>3. Len(x) = 2 /\ x[1] = c[1] /\ x[1 + 1] = d[1]
  BY <1>1, <1>2
<1>4. \A i \in 1 .. Len(x) : i = 1 \/ i = 2
  BY <1>3
<1>5. x = y
  BY <1>1, <1>2, <1>3, <1>4, SeqEqual
<1> QED
  BY <1>5 DEF c, d, x, y

\* A byte of the packet, escaped where it must be.
LEMMA YieldsEscaped ==
  ASSUME NEW p \in Shapes, Line!InPacket(p), p.key = FALSE, NEW b \in Bytes,
         NEW t, t = Line!Take(p, b)
  PROVE  /\ ~(p.status = "DATA" /\ p.len = 1) => Yields(p, Escaped(b), t, <<>>)
         /\ p.status = "DATA" /\ p.len = 1
            => Yields(p, Escaped(b), [t EXCEPT !.pkt = <<>>], <<t.pkt>>)
<1>1. CASE b # HDR
  <2>1. Escaped(b) = <<b>>
    BY <1>1 DEF Escaped
  <2>2. Line!Step(p, b) = t
    BY <1>1, SameBytes DEF Line!Step
  <2>3. Line!Completes(p, b) <=> p.status = "DATA" /\ p.len = 1
    BY <1>1, SameBytes DEF Line!Completes
  <2>4. /\ Yields(p, <<b>>, Onward(p, b), <<>>)
        /\ Line!Completes(p, b) => Yields(p, <<b>>, Onward(p, b), <<t.pkt>>)
    BY <2>2, YieldsByte
  <2>5. Onward(p, b) = IF Line!Completes(p, b) THEN [t EXCEPT !.pkt = <<>>] ELSE t
    BY <2>2 DEF Onward
  <2> QED
    BY <2>1, <2>3, <2>4, <2>5
<1>2. CASE b = HDR
  <2> DEFINE w == [p EXCEPT !.key = TRUE]
             h == <<HDR>>
             e == <<ESC>>
             n == Onward(w, ESC)
  <2>1. Escaped(b) = <<HDR, ESC>>
    BY <1>2 DEF Escaped
  <2>2. h \o e = <<HDR, ESC>>
    BY SameBytes, TwoJoined
  <2>3. /\ w \in Shapes /\ w.key = TRUE /\ w.status = p.status /\ w.len = p.len
        /\ w.pkt = p.pkt /\ [w EXCEPT !.len = 0].len = 0 /\ [p EXCEPT !.len = 0].len = 0
    BY StatusNames DEF Shapes
  <2>4. Line!Step(p, HDR) = w /\ ~Line!Completes(p, HDR)
    BY SameBytes DEF Line!Step, Line!Completes
  <2>5. Onward(p, HDR) = w
    BY <2>4 DEF Onward
  <2>6. h \in Seq(Bytes) /\ e \in Seq(Bytes) /\ HDR \in Bytes /\ ESC \in Bytes
    BY SameBytes
  <2>7. Yields(p, h, w, <<>>)
    BY <2>5, <2>6, YieldsByte
  <2> HIDE DEF w
  <2>8. Line!Take(w, HDR) = t
    <3>1. Line!Lost([w EXCEPT !.len = 0]) = Line!Lost([p EXCEPT !.len = 0])
      BY <2>3 DEF Line!Lost
    <3> QED
      BY <1>2, <2>3, <3>1 DEF Line!Take
  <2>9. Line!Step(w, ESC) = t
    <3>1. Line!InPacket(w)
      BY <2>3 DEF Line!InPacket
    <3>2. Line!Step(w, ESC) = Line!Held(w, ESC)
      BY <2>3, <3>1 DEF Line!Step
    <3> QED
      BY <2>8, <3>2, SameBytes DEF Line!Held
  <2>10. Line!Completes(w, ESC) <=> p.status = "DATA" /\ p.len = 1
    BY <2>3, SameBytes DEF Line!Completes
  <2>11. n = IF Line!Completes(w, ESC) THEN [t EXCEPT !.pkt = <<>>] ELSE t
    BY <2>9 DEF Onward
  <2>12. /\ Yields(w, e, n, <<>>)
         /\ Line!Completes(w, ESC) => Yields(w, e, n, <<t.pkt>>)
    BY <2>3, <2>6, <2>9, YieldsByte
  <2> DEFINE none == <<>>
             one == <<t.pkt>>
             S == {t.pkt}
  <2>13. none \in Seq(S) /\ one \in Seq(S) /\ none \o none = none /\ none \o one = one
    BY JoinedNothing
  <2>14. Yields(p, h, w, none) /\ Yields(w, e, n, none)
    BY <2>7, <2>12
  <2>15. Line!Completes(w, ESC) => Yields(w, e, n, one)
    BY <2>12
  <2> HIDE DEF h, e, n, none, one, S
  <2>16. Yields(p, h \o e, n, none \o none)
    BY <2>6, <2>13, <2>14, YieldsJoined
  <2>17. Line!Completes(w, ESC) => Yields(p, h \o e, n, none \o one)
    BY <2>6, <2>13, <2>14, <2>15, YieldsJoined
  <2>18. Yields(p, Escaped(b), n, none)
    BY <2>1, <2>2, <2>13, <2>16
  <2>19. Line!Completes(w, ESC) => Yields(p, Escaped(b), n, one)
    BY <2>1, <2>2, <2>13, <2>17
  <2> QED
    BY <2>10, <2>11, <2>18, <2>19 DEF none, one
<1> QED
  BY <1>1, <1>2

LEMMA HeadAgain ==
  ASSUME NEW p \in Shapes, p.status = "DATALEN1", p.pkt = <<HDR, HDR>>
  PROVE  Line!Step(p, HDR).status = "DATALEN1" /\ Line!Step(p, HDR).pkt = <<HDR, HDR>>
<1>1. Line!InPacket(p) /\ p.key \in BOOLEAN
  BY ShapeFields DEF Line!InPacket
<1>2. Line!Headed(p).status = "DATALEN1" /\ Line!Headed(p).pkt = <<HDR, HDR>>
  BY <1>1, HeadedShape
<1>3. CASE p.key = TRUE
  BY <1>1, <1>2, <1>3, SameBytes DEF Line!Step, Line!Held
<1>4. CASE p.key = FALSE
  <2>1. Line!Step(p, HDR) = [p EXCEPT !.key = TRUE]
    BY <1>1, <1>4, SameBytes DEF Line!Step
  <2>2. [p EXCEPT !.key = TRUE].status = p.status /\ [p EXCEPT !.key = TRUE].pkt = p.pkt
    BY DEF Shapes
  <2> QED
    BY <2>1, <2>2
<1> QED
  BY <1>1, <1>3, <1>4

\* Wherever the parser is, two 0xff are a header to it, although it may hold the
\* second one back.
LEMMA YieldsHeader ==
  ASSUME NEW p \in Shapes
  PROVE  \E q \in Shapes : /\ Yields(p, <<HDR, HDR>>, q, <<>>)
                           /\ q.status = "DATALEN1" /\ q.pkt = <<HDR, HDR>>
<1> DEFINE a == Line!Step(p, HDR)
           c == Line!Step(a, HDR)
<1>1. HDR \in Bytes /\ HDR # ESC /\ Line!HDR = HDR /\ Line!ESC = ESC
  BY SameBytes
<1>2. a \in Shapes /\ c \in Shapes
  BY <1>1, StepShape
<1>3. \A q \in Shapes : ~Line!Completes(q, HDR)
  BY <1>1 DEF Line!Completes
<1>4. p.key \in BOOLEAN /\ Line!Headed(p).status = "DATALEN1" /\ Line!Headed(p).pkt = <<HDR, HDR>>
      /\ [Line!Headed(p) EXCEPT !.key = p.key].status = "DATALEN1"
      /\ [Line!Headed(p) EXCEPT !.key = p.key].pkt = <<HDR, HDR>>
  BY ShapeFields, HeadedShape
<1>5. c.status = "DATALEN1" /\ c.pkt = <<HDR, HDR>>
  <2>1. CASE a.status = "DATALEN1" /\ a.pkt = <<HDR, HDR>>
    BY <1>2, <2>1, HeadAgain
  <2>2. CASE p.status = "SYNCHEAD1"
    <3>1. a = Line!Parser("SYNCHEAD2", p.key, p.len, <<>>)
      BY <1>1, <2>2 DEF Line!Step, Line!InPacket, Line!Sync
    <3>2. a.status = "SYNCHEAD2"
      BY <3>1 DEF Line!Parser
    <3> HIDE DEF a
    <3>3. c = [Line!Headed(a) EXCEPT !.key = a.key]
      BY <1>1, <3>2 DEF Line!Step, Line!InPacket, Line!Sync
    <3>4. a.key \in BOOLEAN
      BY <1>2, ShapeFields
    <3> QED
      BY <1>2, <3>3, <3>4, HeadedShape
  <2>3. CASE ~Line!InPacket(p) /\ p.status # "SYNCHEAD1"
    <3>1. a = [Line!Headed(p) EXCEPT !.key = p.key]
      BY <1>1, <2>3 DEF Line!Step, Line!Sync
    <3> QED
      BY <1>4, <2>1, <3>1
  <2>4. CASE Line!InPacket(p) /\ p.key = TRUE
    <3>1. a = Line!Headed(p)
      BY <1>1, <2>4 DEF Line!Step, Line!Held
    <3> QED
      BY <1>4, <2>1, <3>1
  <2>5. CASE Line!InPacket(p) /\ p.key = FALSE
    <3>1. a = [p EXCEPT !.key = TRUE]
      BY <1>1, <2>5 DEF Line!Step
    <3>2. a.key = TRUE /\ a.status = p.status
      BY <3>1 DEF Shapes
    <3>3. Line!InPacket(a)
      BY <2>5, <3>2 DEF Line!InPacket
    <3> HIDE DEF a
    <3>4. c = Line!Headed(a)
      BY <1>1, <3>2, <3>3 DEF Line!Step, Line!Held
    <3>5. TRUE \in BOOLEAN
      OBVIOUS
    <3> QED
      BY <1>2, <3>4, <3>5, HeadedShape
  <2> QED
    BY <1>4, <2>2, <2>3, <2>4, <2>5
<1>6. Onward(p, HDR) = a /\ Onward(a, HDR) = c
  BY <1>2, <1>3 DEF Onward
<1> DEFINE h == <<HDR>>
           none == <<>>
<1>7. h \in Seq(Bytes) /\ none \in Seq(Bytes) /\ none \o none = none
  BY HeaderBytes, JoinedNothing
<1>8. h \o h = <<HDR, HDR>>
  BY <1>1, TwoJoined
<1>9. Yields(p, h, a, none) /\ Yields(a, h, c, none)
  BY <1>1, <1>2, <1>6, YieldsByte
<1> HIDE DEF a, c, h, none
<1>10. Yields(p, h \o h, c, none \o none)
  BY <1>7, <1>9, YieldsJoined
<1>11. Yields(p, <<HDR, HDR>>, c, none)
  BY <1>7, <1>8, <1>10
<1> QED
  BY <1>2, <1>5, <1>11 DEF none

\* s is a header and the first i bytes of t.
Begun(s, t, i) ==
  Len(s) = i + 2 /\ s[1] = HDR /\ s[2] = HDR /\ \A j \in 1 .. i : s[j + 2] = t[j]

LEMMA BegunMore ==
  ASSUME NEW s \in Seq(Bytes), NEW t, NEW i \in Nat, Begun(s, t, i), t[i + 1] \in Bytes
  PROVE  Begun(Append(s, t[i + 1]), t, i + 1)
<1> DEFINE b == t[i + 1]
           x == Append(s, b)
<1>1. b \in Bytes
  OBVIOUS
<1> HIDE DEF b
<1>2. /\ x \in Seq(Bytes) /\ Len(x) = Len(s) + 1
      /\ \A k \in 1 .. Len(s) : x[k] = s[k]
      /\ x[Len(s) + 1] = b
  BY <1>1, Appended
<1>3. /\ Len(s) = i + 2 /\ s[1] = HDR /\ s[2] = HDR
      /\ \A j \in 1 .. i : s[j + 2] = t[j]
  BY DEF Begun
<1> HIDE DEF x
<1>4. Len(x) = (i + 1) + 2 /\ 1 \in 1 .. Len(s) /\ 2 \in 1 .. Len(s) /\ Len(s) + 1 = (i + 1) + 2
  BY <1>2, <1>3
<1>5. x[1] = HDR /\ x[2] = HDR /\ x[(i + 1) + 2] = b
  BY <1>2, <1>3, <1>4
<1>6. ASSUME NEW j \in 1 .. i + 1
      PROVE  x[j + 2] = t[j]
  <2>1. CASE j = i + 1
    BY <1>5, <2>1 DEF b
  <2>2. CASE j # i + 1
    <3>1. j \in 1 .. i /\ j + 2 \in 1 .. Len(s)
      BY <1>3, <2>2
    <3> QED
      BY <1>2, <1>3, <3>1
  <2> QED
    BY <2>1, <2>2
<1> QED
  BY <1>4, <1>5, <1>6 DEF Begun, x, b

\* The bytes behind the header of a packet: its length and its data.
Body(t) == /\ t \in Seq(Bytes) /\ Len(t) = 256 * t[1] + t[2] + 2
           /\ Len(t) - 2 \in Uint16 \ {0}

\* The parser behind the first i of them.
SoFar(w, t, i) ==
  /\ w \in Shapes /\ w.key = FALSE /\ Begun(w.pkt, t, i)
  /\ i = 1 => w.status = "DATALEN2" /\ w.len = 256 * t[1]
  /\ i # 1 => w.status = "DATA" /\ w.len = Len(t) - i

LEMMA BodyLength ==
  ASSUME NEW t, Body(t)
  PROVE  Len(t) \in Int /\ 3 <= Len(t) /\ Len(t) <= 65537 /\ Len(t) = 256 * t[1] + t[2] + 2
<1>1. Len(t) \in Nat /\ Len(t) = 256 * t[1] + t[2] + 2
  BY DEF Body
<1>2. Len(t) - 2 \in Uint16 /\ Len(t) - 2 # 0
  BY DEF Body
<1>3. 0 <= Len(t) - 2 /\ Len(t) - 2 <= 65535
  BY <1>2, Uint16Is
<1> QED
  BY <1>1, <1>2, <1>3

LEMMA BodyBytes ==
  ASSUME NEW t, Body(t), NEW i \in 1 .. Len(t)
  PROVE  t[i] \in Bytes /\ t[i] \in Int
<1>1. t \in Seq(Bytes)
  BY DEF Body
<1>2. t[i] \in Bytes
  BY <1>1
<1>3. \A b \in Bytes : b \in Int
  BY DEF Bytes
<1> QED
  BY <1>2, <1>3, Zenon

\* The high byte of the length is the byte of the packet that must not look like
\* an escape, because the parser may be holding a 0xff back.
LEMMA YieldsFirst ==
  ASSUME NEW p \in Shapes, p.status = "DATALEN1", p.pkt = <<HDR, HDR>>,
         NEW t, Body(t), t[1] \notin {HDR, ESC}
  PROVE  \E w : Yields(p, <<t[1]>>, w, <<>>) /\ SoFar(w, t, 1)
<1> DEFINE b == t[1]
           h == <<HDR, HDR>>
           q == Append(h, b)
           high == 256 * b
           w == Line!Step(p, b)
<1>1. 1 \in 1 .. Len(t)
  BY BodyLength
<1>2. b \in Bytes /\ b \in Int
  BY <1>1, BodyBytes
<1>3. Line!InPacket(p) /\ p.key \in BOOLEAN /\ Line!HDR = HDR /\ Line!ESC = ESC
  BY ShapeFields, SameBytes DEF Line!InPacket
<1>4. Line!Headed(p).status = "DATALEN1" /\ Line!Headed(p).pkt = h
  BY <1>3, HeadedShape
<1>5. w = [status |-> "DATALEN2", key |-> FALSE, len |-> high, pkt |-> q]
  <2>1. CASE p.key = TRUE
    <3>1. w = Line!Take(Line!Headed(p), b)
      BY <1>3, <2>1 DEF Line!Step, Line!Held
    <3> QED
      BY <1>4, <3>1 DEF Line!Take, Line!Parser
  <2>2. CASE p.key = FALSE
    <3>1. w = Line!Take(p, b)
      BY <1>3, <2>2 DEF Line!Step
    <3> QED
      BY <3>1 DEF Line!Take, Line!Parser
  <2> QED
    BY <1>3, <2>1, <2>2
<1>6. ~Line!Completes(p, b)
  BY DEF Line!Completes
<1>7. Onward(p, b) = w
  BY <1>6 DEF Onward
<1>8. w \in Shapes
  BY <1>2, StepShape
<1>9. Yields(p, <<b>>, w, <<>>)
  BY <1>2, <1>7, YieldsByte
<1>10. Begun(q, t, 1)
  <2>1. h \in Seq(Bytes) /\ Len(h) = 2 /\ h[1] = HDR /\ h[2] = HDR
    BY HeaderBytes
  <2> HIDE DEF h
  <2>2. Begun(h, t, 0)
    BY <2>1 DEF Begun
  <2>3. 0 + 1 = 1 /\ 0 \in Nat
    OBVIOUS
  <2>4. Begun(Append(h, t[0 + 1]), t, 0 + 1)
    BY <1>2, <2>1, <2>2, <2>3, BegunMore
  <2> QED
    BY <2>3, <2>4
<1> HIDE DEF w, q, high
<1>11. w.status = "DATALEN2" /\ w.key = FALSE /\ w.len = high /\ w.pkt = q
  BY <1>5
<1>12. SoFar(w, t, 1)
  BY <1>8, <1>10, <1>11 DEF SoFar, high
<1> QED
  BY <1>9, <1>12

LEMMA OneLess ==
  ASSUME NEW n \in Int, 0 < n, n < 65536
  PROVE  (n + 65535) % 65536 = n - 1
OBVIOUS

\* The low byte of the length and the data: the last of them completes the packet.
LEMMA OneMore ==
  ASSUME NEW t, Body(t), NEW i \in 1 .. Len(t) - 1, NEW w, SoFar(w, t, i),
         NEW x, x = Line!Take(w, t[i + 1])
  PROVE  /\ x \in Shapes /\ Begun(x.pkt, t, i + 1) /\ Line!InPacket(w)
         /\ (w.status = "DATA" /\ w.len = 1) <=> i + 1 = Len(t)
         /\ i + 1 # Len(t) => SoFar(x, t, i + 1)
<1> DEFINE n == Len(t)
           b == t[i + 1]
           q == Append(w.pkt, b)
           down == (w.len + 65535) % 65536
           c == t[1]
<1>1. n \in Int /\ 3 <= n /\ n <= 65537 /\ n = 256 * c + t[2] + 2
  BY BodyLength
<1>2. i \in Int /\ 1 <= i /\ i < n /\ i + 1 \in 1 .. n /\ i \in Nat /\ 1 \in 1 .. n /\ 2 \in 1 .. n
  BY <1>1
<1>3. b \in Bytes /\ b \in Int /\ c \in Int /\ t[2] \in Int
  BY <1>2, BodyBytes
<1>4. w \in Shapes /\ w.key = FALSE /\ Begun(w.pkt, t, i)
  BY DEF SoFar
<1>5. /\ i = 1 => w.status = "DATALEN2" /\ w.len = 256 * c
      /\ i # 1 => w.status = "DATA" /\ w.len = n - i
  BY DEF SoFar
<1>6. x \in Shapes
  BY <1>3, <1>4, TakeShape
<1>7. w.pkt \in Seq(Bytes)
  BY <1>4, ShapeFields
<1>8. Begun(q, t, i + 1)
  BY <1>2, <1>3, <1>4, <1>7, BegunMore
<1>9. Line!InPacket(w)
  BY <1>5 DEF Line!InPacket
<1> HIDE DEF n, b, q, c, down
<1>10. (w.status = "DATA" /\ w.len = 1) <=> i + 1 = n
  BY <1>1, <1>2, <1>5
<1>11. x.status = "DATA" /\ x.key = FALSE /\ x.len = n - (i + 1) /\ x.pkt = q
  <2>1. CASE i = 1
    <3>1. b = t[2]
      <4>1. i + 1 = 2
        BY <2>1
      <4> QED
        BY <4>1 DEF b
    <3>2. w.status = "DATALEN2" /\ w.len = 256 * c
      BY <1>5, <2>1
    <3>3. n = 256 * c + b + 2
      BY <1>1, <3>1
    <3>4. w.len + b = n - (i + 1) /\ w.len + b # 0
      BY <1>1, <1>3, <2>1, <3>2, <3>3
    <3>5. x = Line!Parser("DATA", FALSE, w.len + b, q)
      BY <3>2, <3>4 DEF Line!Take, b, q
    <3> QED
      BY <3>4, <3>5 DEF Line!Parser
  <2>2. CASE i # 1
    <3>1. w.status = "DATA" /\ w.len = n - i
      BY <1>5, <2>2
    <3>5. w.len \in Int /\ 0 < w.len /\ w.len < 65536 /\ w.len - 1 = n - (i + 1)
      BY <1>1, <1>2, <2>2, <3>1
    <3>2. x = Line!Parser("DATA", FALSE, down, q)
      BY <3>1 DEF Line!Take, b, q, down
    <3>3. down = w.len - 1
      BY <3>5, OneLess DEF down
    <3>4. down = n - (i + 1)
      BY <3>3, <3>5
    <3> QED
      BY <3>2, <3>4 DEF Line!Parser
  <2> QED
    BY <2>1, <2>2
<1>12. i + 1 # 1
  BY <1>2
<1>13. SoFar(x, t, i + 1)
  BY <1>6, <1>8, <1>11, <1>12 DEF SoFar, n
<1> QED
  BY <1>6, <1>8, <1>9, <1>10, <1>11, <1>13 DEF n, q

\* Parsing c gives out the header and the first i bytes of t.
GivesOut(p, c, t, i) ==
  \E q, x : Yields(p, c, q, <<x>>) /\ Begun(x, t, i) /\ x \in Seq(Bytes)

LEMMA YieldsMore ==
  ASSUME NEW p, NEW a \in Seq(Bytes), NEW w, Yields(p, a, w, <<>>), NEW t, Body(t),
         NEW i \in 1 .. Len(t) - 1, SoFar(w, t, i), NEW c, c = a \o Escaped(t[i + 1])
  PROVE  /\ c \in Seq(Bytes)
         /\ i + 1 # Len(t) => \E x : Yields(p, c, x, <<>>) /\ SoFar(x, t, i + 1)
         /\ i + 1 = Len(t) => GivesOut(p, c, t, i + 1)
<1> DEFINE b == t[i + 1]
           x == Line!Take(w, b)
           e == Escaped(b)
           y == [x EXCEPT !.pkt = <<>>]
           none == <<>>
           one == <<x.pkt>>
           S == {x.pkt}
<1>1. Len(t) \in Int /\ i + 1 \in 1 .. Len(t)
  BY BodyLength
<1>2. b \in Bytes
  BY <1>1, BodyBytes
<1>3. e \in Seq(Bytes)
  BY <1>2, EscapedBytes
<1>4. w \in Shapes /\ w.key = FALSE
  BY DEF SoFar
<1>5. /\ x \in Shapes /\ Begun(x.pkt, t, i + 1) /\ Line!InPacket(w)
      /\ (w.status = "DATA" /\ w.len = 1) <=> i + 1 = Len(t)
      /\ i + 1 # Len(t) => SoFar(x, t, i + 1)
  BY OneMore
<1>6. x.pkt \in Seq(Bytes)
  BY <1>5, ShapeFields
<1>7. none \in Seq(S) /\ one \in Seq(S) /\ none \o none = none /\ none \o one = one
  BY JoinedNothing
<1>8. c = a \o e
  OBVIOUS
<1> HIDE DEF b, x
<1>9. /\ ~(w.status = "DATA" /\ w.len = 1) => Yields(w, e, x, none)
      /\ w.status = "DATA" /\ w.len = 1 => Yields(w, e, y, one)
  BY <1>2, <1>4, <1>5, YieldsEscaped DEF x
<1>10. Yields(p, a, w, none)
  OBVIOUS
<1> HIDE DEF e, y, none, one, S
<1>11. i + 1 # Len(t) => Yields(p, a \o e, x, none \o none)
  BY <1>3, <1>5, <1>7, <1>9, <1>10, YieldsJoined
<1>12. i + 1 = Len(t) => Yields(p, a \o e, y, none \o one)
  BY <1>3, <1>5, <1>7, <1>9, <1>10, YieldsJoined
<1>13. c \in Seq(Bytes)
  BY <1>3, <1>8, Joined
<1>14. i + 1 # Len(t) => Yields(p, c, x, none) /\ SoFar(x, t, i + 1)
  BY <1>5, <1>7, <1>8, <1>11
<1>15. i + 1 = Len(t) => Yields(p, c, y, one)
  BY <1>7, <1>8, <1>12
<1> QED
  BY <1>5, <1>6, <1>13, <1>14, <1>15 DEF none, one, GivesOut

\* The bytes behind the header yield the packet.
LEMMA YieldsBody ==
  ASSUME NEW p \in Shapes, p.status = "DATALEN1", p.pkt = <<HDR, HDR>>,
         NEW t, Body(t), t[1] \notin {HDR, ESC}
  PROVE  /\ Adapted(t) \in Seq(Bytes)
         /\ GivesOut(p, Adapted(t), t, Len(t))
<1>1. Len(t) \in Int /\ 3 <= Len(t) /\ Len(t) \in Nat
  BY BodyLength
<1>2. PICK g : /\ Adapted(t) = g[Len(t)] /\ g[0] = <<>>
               /\ \A i \in 1 .. Len(t) : g[i] = g[i - 1] \o Escaped(t[i])
  BY <1>1, AdaptedIs
<1> DEFINE Good(i) == g[i] \in Seq(Bytes) /\ \E w : Yields(p, g[i], w, <<>>) /\ SoFar(w, t, i)
           S == {k \in Nat : k + 1 \in 1 .. Len(t) - 1 => Good(k + 1)}
<1>3. Good(1)
  <2>1. 1 \in 1 .. Len(t) /\ 1 - 1 = 0
    BY <1>1
  <2>2. g[1] = <<>> \o Escaped(t[1])
    BY <1>2, <2>1
  <2>3. t[1] \in Bytes
    BY <2>1, BodyBytes
  <2>4. Escaped(t[1]) = <<t[1]>> /\ Escaped(t[1]) \in Seq(Bytes)
    BY <2>3, EscapedBytes DEF Escaped
  <2>5. g[1] = <<t[1]>> /\ g[1] \in Seq(Bytes)
    BY <2>2, <2>4, JoinedNothing
  <2> QED
    BY <2>5, YieldsFirst
<1>4. ASSUME NEW i \in 1 .. Len(t) - 1, Good(i)
      PROVE  /\ i + 1 # Len(t) => Good(i + 1)
             /\ i + 1 = Len(t) => g[i + 1] \in Seq(Bytes) /\ GivesOut(p, g[i + 1], t, i + 1)
  <2> DEFINE c == g[i + 1]
  <2>1. i + 1 \in 1 .. Len(t) /\ (i + 1) - 1 = i
    BY <1>1
  <2>2. c = g[i] \o Escaped(t[i + 1])
    <3> DEFINE k == i + 1
    <3>1. k \in 1 .. Len(t) /\ k - 1 = i
      BY <2>1
    <3> HIDE DEF k
    <3>2. g[k] = g[k - 1] \o Escaped(t[k])
      BY <1>2, <3>1
    <3>3. g[k] = g[i] \o Escaped(t[k])
      BY <3>1, <3>2
    <3> QED
      BY <3>3 DEF k
  <2>3. g[i] \in Seq(Bytes)
    BY <1>4
  <2>4. PICK w : Yields(p, g[i], w, <<>>) /\ SoFar(w, t, i)
    BY <1>4
  <2> DEFINE a == g[i]
  <2>6. a \in Seq(Bytes) /\ Yields(p, a, w, <<>>) /\ SoFar(w, t, i) /\ c = a \o Escaped(t[i + 1])
    BY <2>2, <2>3, <2>4
  <2> HIDE DEF a, c
  <2> HIDE DEF Good
  <2>7. c \in Seq(Bytes)
    BY <2>6, YieldsMore
  <2>8. i + 1 # Len(t) => \E x : Yields(p, c, x, <<>>) /\ SoFar(x, t, i + 1)
    BY <2>6, YieldsMore
  <2>9. i + 1 = Len(t) => GivesOut(p, c, t, i + 1)
    BY <2>6, YieldsMore
  <2> QED
    BY <2>7, <2>8, <2>9 DEF c, Good
<1> HIDE DEF Good
<1>5. 0 \in S
  <2>1. 0 + 1 = 1
    OBVIOUS
  <2> QED
    BY <1>3, <2>1
<1>6. ASSUME NEW j \in S
      PROVE  j + 1 \in S
  <2>1. SUFFICES ASSUME (j + 1) + 1 \in 1 .. Len(t) - 1 PROVE Good((j + 1) + 1)
    OBVIOUS
  <2> DEFINE i == j + 1
  <2>2. i \in 1 .. Len(t) - 1 /\ i + 1 # Len(t) /\ j \in Nat
    BY <1>1, <2>1
  <2>3. Good(i)
    BY <2>2
  <2> HIDE DEF i
  <2>4. Good(i + 1)
    BY <1>4, <2>2, <2>3
  <2> QED
    BY <2>4 DEF i
<1>7. S = Nat
  <2> HIDE DEF S
  <2>1. S \in SUBSET Nat
    BY DEF S
  <2> QED
    BY <1>5, <1>6, <2>1, Induction
<1> DEFINE l == Len(t) - 1
<1>8. l \in 1 .. Len(t) - 1 /\ l + 1 = Len(t) /\ l - 1 \in Nat /\ (l - 1) + 1 = l
  BY <1>1
<1> HIDE DEF l
<1>9. Good(l)
  <2>1. l - 1 \in S
    BY <1>7, <1>8
  <2>2. Good((l - 1) + 1)
    BY <1>8, <2>1
  <2> QED
    BY <1>8, <2>2
<1>10. g[l + 1] \in Seq(Bytes) /\ GivesOut(p, g[l + 1], t, l + 1)
  BY <1>4, <1>8, <1>9
<1> QED
  BY <1>2, <1>8, <1>10, Zenon

LEMMA DivSmall ==
  ASSUME NEW n \in Int, 0 <= n, n < 85 * 256
  PROVE  n \div 256 \in Int /\ n \div 256 < 85 /\ n = 256 * (n \div 256) + (n % 256)
<1>1. n \div 256 \in Int /\ n \div 256 < 85
  OBVIOUS
<1>2. n = 256 * (n \div 256) + (n % 256)
  <2>1. 256 \in Nat \ {0}
    OBVIOUS
  <2> QED
    BY <2>1, Remainder
<1> QED
  BY <1>1, <1>2

\* What a packet is made of, on the line and when it is given out.
LEMMA FrameBody ==
  ASSUME NEW f \in Frames, Len(f) < ESC * 256,
         NEW t, t = <<Len(f) \div 256, Len(f) % 256>> \o f
  PROVE  /\ Body(t) /\ t[1] \notin {HDR, ESC}
         /\ \A x \in Seq(Bytes) : Begun(x, t, Len(t)) => x = Raw(f)
<1> DEFINE n == Len(f)
           high == n \div 256
           low == n % 256
           size == <<high, low>>
           head == <<HDR, HDR, high, low>>
           y == head \o f
<1>1. f \in Seq(Bytes) /\ n \in Uint16 /\ n # 0
  BY LineAssumption
<1>2. n \in Int /\ 0 <= n /\ n <= 65535 /\ n < 85 * 256
  BY <1>1, Uint16Is DEF ESC
<1>3. high \in Bytes /\ low \in Bytes /\ HDR \in Bytes
  BY <1>1, LengthBytes, SameBytes
<1>4. high \in Int /\ high < 85 /\ n = 256 * high + low
  BY <1>2, DivSmall
<1>5. high \notin {HDR, ESC}
  BY <1>4 DEF HDR, ESC
<1> HIDE DEF n, high, low
<1>6. size \in Seq(Bytes) /\ Len(size) = 2 /\ size[1] = high /\ size[2] = low
  BY <1>3
<1>7. /\ head \in Seq(Bytes) /\ Len(head) = 4
      /\ head[1] = HDR /\ head[2] = HDR /\ head[3] = high /\ head[4] = low
  BY <1>3
<1>8. t = size \o f /\ Raw(f) = y
  BY DEF n, high, low, Raw
<1> HIDE DEF size, head
<1>9. /\ t \in Seq(Bytes) /\ Len(t) = Len(size) + n
      /\ \A k \in 1 .. Len(size) : t[k] = size[k]
      /\ \A k \in 1 .. n : t[Len(size) + k] = f[k]
  BY <1>1, <1>6, <1>8, Joined DEF n
<1>10. /\ y \in Seq(Bytes) /\ Len(y) = Len(head) + n
       /\ \A k \in 1 .. Len(head) : y[k] = head[k]
       /\ \A k \in 1 .. n : y[Len(head) + k] = f[k]
  BY <1>1, <1>7, Joined DEF n
<1> HIDE DEF y
<1>11. Len(t) = n + 2 /\ t[1] = high /\ t[2] = low /\ \A k \in 1 .. n : t[2 + k] = f[k]
  <2>1. 1 \in 1 .. Len(size) /\ 2 \in 1 .. Len(size)
    BY <1>6
  <2>2. t[1] = high /\ t[2] = low
    BY <1>6, <1>9, <2>1
  <2>3. ASSUME NEW k \in 1 .. n
        PROVE  t[2 + k] = f[k]
    <3>1. t[Len(size) + k] = f[k]
      BY <1>9, ZenonT(40)
    <3>2. Len(size) + k = 2 + k
      BY <1>6
    <3> QED
      BY <3>1, <3>2, ZenonT(40)
  <2>4. Len(t) = n + 2
    BY <1>2, <1>6, <1>9
  <2> QED
    BY <2>2, <2>3, <2>4
<1>12. /\ Len(y) = n + 4 /\ y[1] = HDR /\ y[2] = HDR /\ y[3] = high /\ y[4] = low
       /\ \A k \in 1 .. n : y[4 + k] = f[k]
  <2>1. 1 \in 1 .. Len(head) /\ 2 \in 1 .. Len(head) /\ 3 \in 1 .. Len(head) /\ 4 \in 1 .. Len(head)
    BY <1>7
  <2>2. y[1] = head[1] /\ y[2] = head[2] /\ y[3] = head[3] /\ y[4] = head[4]
    BY <1>10, <2>1
  <2>3. \A k \in 1 .. n : y[4 + k] = f[k]
    BY <1>7, <1>10
  <2>4. Len(y) = n + 4
    BY <1>2, <1>7, <1>10
  <2> QED
    BY <1>7, <2>2, <2>3, <2>4
<1>13. Len(t) = 256 * t[1] + t[2] + 2 /\ Len(t) - 2 = n
  BY <1>2, <1>4, <1>11
<1>14. Body(t)
  BY <1>1, <1>9, <1>13 DEF Body
<1>15. ASSUME NEW x \in Seq(Bytes), Begun(x, t, Len(t))
       PROVE  x = y
  <2>1. /\ Len(x) = n + 4 /\ x[1] = HDR /\ x[2] = HDR
        /\ \A j \in 1 .. n + 2 : x[j + 2] = t[j]
    BY <1>2, <1>11, <1>15 DEF Begun
  <2>2. ASSUME NEW i \in 1 .. Len(x)
        PROVE  x[i] = y[i]
    <3>1. CASE i = 1 \/ i = 2
      BY <1>12, <2>1, <3>1
    <3>2. CASE i = 3 \/ i = 4
      <4>1. 1 \in 1 .. n + 2 /\ 2 \in 1 .. n + 2 /\ 1 + 2 = 3 /\ 2 + 2 = 4
        BY <1>2
      <4>2. x[3] = t[1] /\ x[4] = t[2]
        BY <2>1, <4>1
      <4> QED
        BY <1>11, <1>12, <3>2, <4>2
    <3>3. CASE i > 4
      <4> DEFINE k == i - 4
      <4>1. k \in 1 .. n /\ 2 + k \in 1 .. n + 2 /\ (2 + k) + 2 = i /\ 4 + k = i
        BY <1>2, <2>1, <3>3
      <4> HIDE DEF k
      <4>2. x[(2 + k) + 2] = t[2 + k] /\ t[2 + k] = f[k] /\ y[4 + k] = f[k]
        BY <1>11, <1>12, <2>1, <4>1
      <4>3. x[i] = x[(2 + k) + 2] /\ y[i] = y[4 + k]
        BY <4>1
      <4>4. x[i] = f[k]
        BY <4>2, <4>3, ZenonT(40)
      <4>5. y[i] = f[k]
        BY <4>2, <4>3, ZenonT(40)
      <4> QED
        BY <4>4, <4>5
    <3>4. i = 1 \/ i = 2 \/ i = 3 \/ i = 4 \/ i > 4
      BY <1>2, <2>1
    <3> QED
      BY <3>1, <3>2, <3>3, <3>4
  <2>3. Len(x) = Len(y)
    BY <1>12, <2>1
  <2> QED
    BY <1>10, <2>2, <2>3, SeqEqual
<1> QED
  BY <1>5, <1>8, <1>11, <1>14, <1>15

\* A packet sent whole is given out, wherever the parser was before.
LEMMA FrameYields ==
  ASSUME NEW f \in Frames, Len(f) < ESC * 256, NEW p \in Shapes
  PROVE  \E q : Yields(p, OnLine(f), q, <<Raw(f)>>)
<1> DEFINE t == <<Len(f) \div 256, Len(f) % 256>> \o f
           h == <<HDR, HDR>>
           a == Adapted(t)
           none == <<>>
           one == <<Raw(f)>>
           S == {Raw(f)}
<1>1. OnLine(f) = h \o a
  BY DEF OnLine
<1>2. h \in Seq(Bytes)
  BY HeaderBytes
<1> HIDE DEF t
<1>3. /\ Body(t) /\ t[1] \notin {HDR, ESC}
      /\ \A x \in Seq(Bytes) : Begun(x, t, Len(t)) => x = Raw(f)
  BY FrameBody, ZenonT(40) DEF t
<1>4. PICK q \in Shapes : /\ Yields(p, h, q, none)
                          /\ q.status = "DATALEN1" /\ q.pkt = <<HDR, HDR>>
  BY YieldsHeader
<1>5. a \in Seq(Bytes) /\ GivesOut(q, a, t, Len(t))
  BY <1>3, <1>4, YieldsBody
<1>6. PICK r, x : Yields(q, a, r, <<x>>) /\ Begun(x, t, Len(t)) /\ x \in Seq(Bytes)
  BY <1>5 DEF GivesOut
<1>7. x = Raw(f)
  BY <1>3, <1>6
<1>8. Yields(q, a, r, one)
  BY <1>6, <1>7
<1>9. none \in Seq(S) /\ one \in Seq(S) /\ none \o one = one
  BY JoinedNothing
<1>10. Yields(p, h, q, none)
  BY <1>4
<1> HIDE DEF h, a, none, one, S
<1>11. Yields(p, h \o a, r, none \o one)
  BY <1>2, <1>5, <1>8, <1>9, <1>10, YieldsJoined
<1>12. Yields(p, OnLine(f), r, one)
  BY <1>1, <1>9, <1>11
<1> QED
  BY <1>12 DEF one

\* Escaping makes nothing shorter.
LEMMA AdaptedLonger ==
  ASSUME NEW s \in Seq(Bytes)
  PROVE  Len(Adapted(s)) \in Int /\ Len(Adapted(s)) >= Len(s)
<1>1. Len(s) \in Nat /\ \A i \in 1 .. Len(s) : s[i] \in Bytes
  OBVIOUS
<1>2. PICK g : /\ Adapted(s) = g[Len(s)] /\ g[0] = <<>>
               /\ \A i \in 1 .. Len(s) : g[i] = g[i - 1] \o Escaped(s[i])
  BY <1>1, AdaptedIs
<1> DEFINE Good(i) == g[i] \in Seq(Bytes) /\ Len(g[i]) >= i
           S == {i \in Nat : i \in 0 .. Len(s) => Good(i)}
<1>3. 0 \in S
  <2> DEFINE none == <<>>
  <2>1. none \in Seq(Bytes) /\ Len(none) = 0 /\ g[0] = none
    BY <1>2
  <2> HIDE DEF none
  <2>2. Good(0)
    BY <2>1
  <2> HIDE DEF Good
  <2> QED
    BY <2>2
<1>4. ASSUME NEW j \in S
      PROVE  j + 1 \in S
  <2>1. SUFFICES ASSUME j + 1 \in 0 .. Len(s) PROVE Good(j + 1)
    OBVIOUS
  <2> DEFINE i == j + 1
             a == g[j]
             e == Escaped(s[i])
  <2>2. j \in 0 .. Len(s) /\ i \in 1 .. Len(s) /\ i - 1 = j /\ j \in Nat
    BY <1>1, <2>1
  <2>3. a \in Seq(Bytes) /\ Len(a) >= j
    BY <2>2
  <2> HIDE DEF i, S, Good
  <2>4. g[i] = g[i - 1] \o Escaped(s[i])
    BY <1>2, <2>2
  <2>5. g[i] = a \o e
    BY <2>2, <2>4
  <2>6. e \in Seq(Bytes) /\ Len(e) >= 1
    <3>1. s[i] \in Bytes
      BY <1>1, <2>2
    <3>2. e \in Seq(Bytes)
      BY <3>1, EscapedBytes
    <3> QED
      BY <3>1, <3>2 DEF Escaped
  <2> HIDE DEF a, e
  <2>7. a \o e \in Seq(Bytes) /\ Len(a \o e) = Len(a) + Len(e) /\ Len(a) \in Nat /\ Len(e) \in Nat
    BY <2>3, <2>6, Joined
  <2>8. Len(a \o e) >= i
    BY <2>2, <2>3, <2>6, <2>7 DEF i
  <2>9. Good(i)
    BY <2>5, <2>7, <2>8 DEF Good
  <2> QED
    BY <2>9 DEF i
<1>5. S = Nat
  <2> HIDE DEF S
  <2>1. S \in SUBSET Nat
    BY DEF S
  <2> QED
    BY <1>3, <1>4, <2>1, Induction
<1>6. Good(Len(s))
  BY <1>1, <1>5
<1> QED
  BY <1>1, <1>2, <1>6

LEMMA OnLineLonger ==
  ASSUME NEW f \in Frames
  PROVE  Len(OnLine(f)) \in Int /\ Len(OnLine(f)) > Len(f)
<1> DEFINE size == <<Len(f) \div 256, Len(f) % 256>>
           t == size \o f
           h == <<HDR, HDR>>
           a == Adapted(t)
<1>1. f \in Seq(Bytes) /\ Len(f) \in Uint16 /\ Len(f) \in Nat
  BY LineAssumption
<1>2. size \in Seq(Bytes) /\ Len(size) = 2
  BY <1>1, LengthBytes
<1>3. OnLine(f) = h \o a
  BY DEF OnLine
<1>4. h \in Seq(Bytes) /\ Len(h) = 2
  BY HeaderBytes
<1> HIDE DEF size
<1>5. t \in Seq(Bytes) /\ Len(t) = Len(size) + Len(f)
  BY <1>1, <1>2, Joined
<1> HIDE DEF t, h
<1>6. a \in Seq(Bytes) /\ Len(a) \in Int /\ Len(a) >= Len(t)
  BY <1>5, AdaptedBytes, AdaptedLonger
<1> HIDE DEF a
<1>7. Len(h \o a) = Len(h) + Len(a)
  BY <1>4, <1>6, Joined
<1> QED
  BY <1>1, <1>2, <1>3, <1>4, <1>5, <1>6, <1>7

-----------------------------------------------------------------------------
(* Parsing what has arrived takes a packet off the line *)

\* e is d without its first o packets, and the others are completed behind byte t.
Skips(m, d, o, t, e) ==
  /\ \A j \in 1 .. Len(d) : j > o => m[j] > t
  /\ Len(e) = Len(d) - o /\ \A j \in 1 .. Len(e) : e[j] = d[o + j]

LEMMA LaterYields ==
  ASSUME NEW w \in Seq(Bytes), NEW g, Passes(g, w), NEW d, Len(d) \in Nat,
         NEW m, Marks(m, g, w, d), NEW t \in 0 .. Len(w), NEW o \in 0 .. Len(d),
         NEW e, Skips(m, d, o, t, e)
  PROVE  Yields(g[t], SubSeq(w, t + 1, Len(w)), g[Len(w)], e)
<1> DEFINE l == Len(w)
           v == SubSeq(w, t + 1, l)
           f == [i \in 0 .. l - t |-> g[t + i]]
           n == [j \in 1 .. Len(e) |-> m[o + j] - t]
<1>0. /\ \A j \in 1 .. Len(d) : j > o => m[j] > t
      /\ Len(e) = Len(d) - o /\ \A j \in 1 .. Len(e) : e[j] = d[o + j]
  BY DEF Skips
<1>1. l \in Nat /\ t \in Nat /\ t <= l /\ o \in Nat /\ Len(e) \in Nat
  BY <1>0
<1>2. /\ v \in Seq(Bytes) /\ Len(v) = l - t
      /\ \A k \in 1 .. l - t : v[k] = w[t + k]
  BY Suffix
<1>3. g \in [0 .. l -> Shapes] /\ \A i \in 1 .. l : g[i] = Onward(g[i - 1], w[i])
  BY DEF Passes
<1>4. /\ m \in [1 .. Len(d) -> 1 .. l]
      /\ \A i, j \in 1 .. Len(d) : i < j => m[i] < m[j]
  BY DEF Marks
<1>5. \A j \in 1 .. Len(d) : /\ Line!Completes(g[m[j] - 1], w[m[j]])
                             /\ Line!Step(g[m[j] - 1], w[m[j]]).pkt = d[j]
  BY DEF Marks
<1> HIDE DEF l, v
<1>6. \A i \in 0 .. l - t : t + i \in 0 .. l /\ f[i] = g[t + i]
  BY <1>1
<1>7. f \in [0 .. l - t -> Shapes]
  BY <1>1, <1>3
<1> HIDE DEF f
<1>8. ASSUME NEW i \in 1 .. l - t
      PROVE  f[i] = Onward(f[i - 1], v[i])
  <2> DEFINE k == t + i
  <2>1. k \in 1 .. l /\ i \in 0 .. l - t /\ i - 1 \in 0 .. l - t /\ t + (i - 1) = k - 1
    BY <1>1
  <2>2. f[i] = g[k] /\ f[i - 1] = g[k - 1] /\ v[i] = w[k]
    BY <1>2, <1>6, <2>1
  <2> HIDE DEF k
  <2>3. g[k] = Onward(g[k - 1], w[k])
    BY <1>3, <2>1
  <2> QED
    BY <2>2, <2>3
<1>9. Passes(f, v)
  BY <1>2, <1>7, <1>8 DEF Passes
<1>10. ASSUME NEW j \in 1 .. Len(e)
       PROVE  /\ o + j \in 1 .. Len(d) /\ n[j] = m[o + j] - t
              /\ m[o + j] \in Int /\ n[j] \in 1 .. l - t /\ t + n[j] = m[o + j]
  <2> DEFINE k == o + j
  <2>1. k \in 1 .. Len(d) /\ k > o /\ n[j] = m[k] - t
    BY <1>0, <1>1
  <2> HIDE DEF k, n
  <2>2. m[k] \in 1 .. l /\ m[k] > t
    BY <1>0, <1>4, <2>1
  <2> QED
    BY <1>1, <2>1, <2>2 DEF k
<1>11. n \in [1 .. Len(e) -> 1 .. l - t]
  <2>1. \A j \in 1 .. Len(e) : n[j] \in 1 .. l - t
    BY <1>10
  <2> QED
    BY <2>1
<1> HIDE DEF n
<1>12. ASSUME NEW j \in 1 .. Len(e)
       PROVE  /\ Line!Completes(f[n[j] - 1], v[n[j]])
              /\ Line!Step(f[n[j] - 1], v[n[j]]).pkt = e[j]
  <2> DEFINE k == o + j
             x == m[k]
             i == n[j]
  <2>1. k \in 1 .. Len(d) /\ x \in Int /\ i \in 1 .. l - t /\ t + i = x
    BY <1>10
  <2>2. Line!Completes(g[x - 1], w[x]) /\ Line!Step(g[x - 1], w[x]).pkt = d[k]
    BY <1>5, <2>1
  <2>3. e[j] = d[k]
    BY <1>0
  <2> HIDE DEF k, x, i
  <2>4. i - 1 \in 0 .. l - t /\ t + (i - 1) = x - 1
    BY <1>1, <2>1
  <2>5. f[i - 1] = g[x - 1] /\ v[i] = w[x]
    BY <1>2, <1>6, <2>1, <2>4
  <2>6. Line!Completes(f[i - 1], v[i]) /\ Line!Step(f[i - 1], v[i]).pkt = e[j]
    BY <2>2, <2>3, <2>5
  <2> QED
    BY <2>6 DEF i
<1>13. ASSUME NEW i \in 1 .. Len(e), NEW j \in 1 .. Len(e), i < j
       PROVE  n[i] < n[j]
  <2>1. o + i < o + j
    BY <1>1, <1>13
  <2>2. m[o + i] < m[o + j]
    BY <1>4, <1>10, <2>1
  <2>3. n[i] = m[o + i] - t /\ m[o + i] \in Int /\ n[j] = m[o + j] - t /\ m[o + j] \in Int
    BY <1>10
  <2> QED
    BY <1>1, <2>2, <2>3
<1>14. Marks(n, f, v, e)
  BY <1>2, <1>11, <1>12, <1>13 DEF Marks
<1>15. f[0] = g[t] /\ f[Len(v)] = g[l]
  <2>1. 0 \in 0 .. l - t /\ t + 0 = t /\ l - t \in 0 .. l - t /\ t + (l - t) = l
    BY <1>1
  <2> QED
    BY <1>2, <1>6, <2>1
<1>16. Yields(g[t], v, g[l], e)
  BY <1>9, <1>14, <1>15 DEF Yields
<1> QED
  BY <1>16 DEF v, l

\* How far Scan has come behind i bytes of w: to the first byte that completes a
\* packet, or past all of them.
Reached(x, g, w, i) ==
  /\ x.taken \in 0 .. i /\ x.whole \in BOOLEAN
  /\ \A k \in 1 .. x.taken : Line!Completes(g[k - 1], w[k]) => x.whole /\ k = x.taken
  /\ x.whole => x.taken # 0 /\ x.parser = Line!Step(g[x.taken - 1], w[x.taken])
                /\ Line!Completes(g[x.taken - 1], w[x.taken])
  /\ ~x.whole => x.taken = i /\ x.parser = g[i]

LEMMA ReachedMore ==
  ASSUME NEW w \in Seq(Bytes), NEW g, Passes(g, w), NEW i \in 1 .. Len(w),
         NEW x, Reached(x, g, w, i - 1), NEW y, y = Part(x, i, w[i])
  PROVE  Reached(y, g, w, i)
<1> DEFINE t == x.taken
<1>1. /\ i \in Int /\ i - 1 \in Int /\ t \in 0 .. i - 1 /\ x.whole \in BOOLEAN
      /\ \A k \in 1 .. t : Line!Completes(g[k - 1], w[k]) => x.whole /\ k = t
  BY DEF Reached
<1>2. CASE x.whole = TRUE
  <2>1. y = x
    BY <1>2 DEF Part
  <2>2. x.parser = Line!Step(g[t - 1], w[t]) /\ Line!Completes(g[t - 1], w[t]) /\ t # 0
    BY <1>2 DEF Reached
  <2>3. t \in 0 .. i
    BY <1>1
  <2> QED
    BY <1>1, <1>2, <2>1, <2>2, <2>3 DEF Reached
<1>3. CASE x.whole = FALSE
  <2> DEFINE c == Line!Completes(x.parser, w[i])
             q == Line!Step(x.parser, w[i])
  <2>1. t = i - 1 /\ x.parser = g[i - 1]
    BY <1>3 DEF Reached
  <2>2. y = [parser |-> q, taken |-> i, whole |-> c]
    BY <1>3 DEF Part
  <2>3. c \in BOOLEAN
    BY DEF Line!Completes
  <2>4. g[i] = IF c THEN [q EXCEPT !.pkt = <<>>] ELSE q
    BY <2>1 DEF Passes, Onward
  <2>5. c <=> Line!Completes(g[i - 1], w[i])
    BY <2>1
  <2>6. q = Line!Step(g[i - 1], w[i])
    BY <2>1
  <2> HIDE DEF c, q
  <2>7. y.parser = q /\ y.taken = i /\ y.whole = c
    BY <2>2
  <2>8. ASSUME NEW k \in 1 .. i, Line!Completes(g[k - 1], w[k])
        PROVE  c /\ k = i
    <3>1. CASE k = i
      BY <2>5, <2>8, <3>1
    <3>2. CASE k # i
      <4>1. k \in 1 .. t
        BY <2>1, <3>2
      <4> QED
        BY <1>1, <1>3, <2>8, <4>1
    <3> QED
      BY <3>1, <3>2
  <2>9. i \in 0 .. i /\ i # 0
    OBVIOUS
  <2>10. c => q = Line!Step(g[i - 1], w[i]) /\ Line!Completes(g[i - 1], w[i])
    BY <2>5, <2>6
  <2>11. ~c => q = g[i]
    BY <2>4
  <2> QED
    BY <2>3, <2>7, <2>8, <2>9, <2>10, <2>11 DEF Reached
<1> QED
  BY <1>1, <1>2, <1>3

LEMMA ScanReaches ==
  ASSUME NEW w \in Seq(Bytes), NEW g, Passes(g, w), NEW n \in 0 .. Len(w),
         NEW x, x = Line!Scan(g[0], SubSeq(w, 1, n))
  PROVE  Reached(x, g, w, n)
<1> DEFINE s == SubSeq(w, 1, n)
<1>1. Len(w) \in Nat /\ n \in Nat /\ \A k \in 1 .. Len(w) : w[k] \in Bytes
  OBVIOUS
<1>2. s \in Seq(Bytes) /\ Len(s) = n /\ \A k \in 1 .. n : s[k] = w[k]
  <2>1. 1 \in Int /\ n \in Int /\ \A k \in 1 .. n : w[k] \in Bytes
    BY <1>1
  <2>2. /\ s \in Seq(Bytes) /\ Len(s) = IF 1 <= n THEN n - 1 + 1 ELSE 0
        /\ \A k \in 1 .. n - 1 + 1 : s[k] = w[1 + k - 1]
    BY <2>1, SubSeqProperties
  <2> HIDE DEF s
  <2> QED
    BY <1>1, <2>2
<1> HIDE DEF s
<1>3. PICK h : Parts(h, g[0], s, n) /\ Line!Scan(g[0], s) = h[n]
  BY <1>1, <1>2, ScanIs
<1>4. \A i \in 0 .. n : h[i] = IF i = 0 THEN Fresh(g[0]) ELSE Part(h[i - 1], i, s[i])
  BY <1>3 DEF Parts
<1> DEFINE S == {i \in Nat : i \in 0 .. n => Reached(h[i], g, w, i)}
<1>5. 0 \in S
  <2>1. 0 \in 0 .. n /\ 1 .. 0 = {}
    BY <1>1
  <2>2. h[0] = Fresh(g[0])
    BY <1>4, <2>1
  <2>3. h[0].parser = g[0] /\ h[0].taken = 0 /\ h[0].whole = FALSE
    BY <2>2 DEF Fresh
  <2> DEFINE y == h[0]
  <2>5. y.parser = g[0] /\ y.taken = 0 /\ y.whole = FALSE
    BY <2>3
  <2> HIDE DEF y
  <2>9. 0 \in 0 .. 0
    OBVIOUS
  <2>10. y.taken \in 0 .. 0
    BY <2>5, <2>9
  <2>11. y.whole \in BOOLEAN /\ ~y.whole
    BY <2>5, Zenon
  <2>6. y.taken \in 0 .. 0 /\ y.whole \in BOOLEAN /\ ~y.whole
    BY <2>10, <2>11, Zenon
  <2>7. 1 .. y.taken = {}
    BY <2>1, <2>5
  <2>8. Reached(y, g, w, 0)
    BY <2>5, <2>6, <2>7 DEF Reached
  <2>4. Reached(h[0], g, w, 0)
    BY <2>8 DEF y
  <2> QED
    BY <2>4
<1>6. ASSUME NEW j \in S
      PROVE  j + 1 \in S
  <2>1. SUFFICES ASSUME j + 1 \in 0 .. n PROVE Reached(h[j + 1], g, w, j + 1)
    OBVIOUS
  <2> DEFINE i == j + 1
  <2>2. j \in 0 .. n /\ i \in 1 .. n /\ i - 1 = j /\ i \in 1 .. Len(w) /\ i # 0 /\ i \in 0 .. n
    BY <1>1, <2>1
  <2>3. Reached(h[j], g, w, j)
    BY <2>2
  <2> HIDE DEF i, S
  <2>4. h[i] = Part(h[i - 1], i, s[i])
    BY <1>4, <2>2
  <2>5. h[i] = Part(h[j], i, w[i]) /\ Reached(h[j], g, w, i - 1)
    BY <1>2, <2>2, <2>3, <2>4
  <2>6. Reached(h[i], g, w, i)
    BY <2>2, <2>5, ReachedMore
  <2> QED
    BY <2>6 DEF i
<1>7. S = Nat
  <2> HIDE DEF S
  <2>1. S \in SUBSET Nat
    BY DEF S
  <2> QED
    BY <1>5, <1>6, <2>1, Induction
<1>8. Reached(h[n], g, w, n)
  BY <1>1, <1>7
<1> QED
  BY <1>3, <1>8 DEF s

LEMMA YieldsRest ==
  ASSUME NEW S, NEW w \in Seq(Bytes), NEW p, NEW q, NEW d \in Seq(S), Yields(p, w, q, d),
         NEW n \in 0 .. Len(w), NEW a, a = Line!Scan(p, SubSeq(w, 1, n)),
         NEW r, r = IF a.whole THEN [a.parser EXCEPT !.pkt = <<>>] ELSE a.parser,
         NEW k, k = IF a.whole THEN a.parser.pkt ELSE <<>>,
         NEW e, e = IF d # <<>> /\ k = Head(d) THEN Tail(d) ELSE d
  PROVE  Yields(r, SubSeq(w, a.taken + 1, Len(w)), q, e)
<1> DEFINE t == a.taken
           l == Len(w)
<1>1. PICK g, m : Passes(g, w) /\ g[0] = p /\ g[l] = q /\ Marks(m, g, w, d)
  BY DEF Yields
<1>2. l \in Nat /\ n \in Nat /\ n <= l /\ Len(d) \in Nat
  OBVIOUS
<1>3. Reached(a, g, w, n)
  BY <1>1, ScanReaches
<1>4. /\ t \in 0 .. n /\ a.whole \in BOOLEAN
      /\ \A i \in 1 .. t : Line!Completes(g[i - 1], w[i]) => a.whole /\ i = t
  BY <1>3 DEF Reached
<1>5. t \in 0 .. l
  BY <1>2, <1>4
<1>6. r = g[t] /\ (a.whole => k = Line!Step(g[t - 1], w[t]).pkt)
  <2>1. CASE a.whole = TRUE
    <3> DEFINE y == Line!Step(g[t - 1], w[t])
    <3>1. t # 0 /\ a.parser = y /\ Line!Completes(g[t - 1], w[t])
      BY <1>3, <2>1 DEF Reached
    <3>2. t \in 1 .. l
      BY <1>5, <3>1
    <3>3. g[t] = Onward(g[t - 1], w[t])
      BY <1>1, <3>2 DEF Passes
    <3>4. g[t] = [y EXCEPT !.pkt = <<>>]
      BY <3>1, <3>3 DEF Onward
    <3> HIDE DEF y
    <3>5. r = g[t] /\ k = y.pkt
      BY <2>1, <3>1, <3>4
    <3> QED
      BY <3>5 DEF y
  <2>2. CASE a.whole = FALSE
    <3>1. a.parser = g[t]
      BY <1>3, <2>2 DEF Reached
    <3> QED
      BY <2>2, <3>1
  <2> QED
    BY <1>4, <2>1, <2>2
<1>7. /\ m \in [1 .. Len(d) -> 1 .. l]
      /\ \A i, j \in 1 .. Len(d) : i < j => m[i] < m[j]
  BY <1>1 DEF Marks
<1>8. \A j \in 1 .. Len(d) : /\ Line!Completes(g[m[j] - 1], w[m[j]])
                             /\ Line!Step(g[m[j] - 1], w[m[j]]).pkt = d[j]
  BY <1>1 DEF Marks
<1> HIDE DEF t, l
<1>9. ASSUME NEW j \in 1 .. Len(d)
      PROVE  m[j] \in Int /\ m[j] >= t /\ (m[j] = t => a.whole /\ k = d[j])
  <2> DEFINE i == m[j]
  <2>1. i \in 1 .. l /\ Line!Completes(g[i - 1], w[i]) /\ Line!Step(g[i - 1], w[i]).pkt = d[j]
    BY <1>7, <1>8
  <2> HIDE DEF i
  <2>2. i <= t => a.whole /\ i = t
    <3>1. SUFFICES ASSUME i <= t PROVE a.whole /\ i = t
      OBVIOUS
    <3>2. i \in 1 .. t
      BY <1>5, <2>1, <3>1
    <3> QED
      BY <1>4, <2>1, <3>2
  <2>3. i \in Int /\ t \in Int
    BY <1>2, <1>5, <2>1
  <2>4. i >= t
    BY <2>2, <2>3
  <2>5. i = t => a.whole /\ k = d[j]
    <3>1. SUFFICES ASSUME i = t PROVE a.whole /\ k = d[j]
      OBVIOUS
    <3>2. a.whole
      BY <2>2, <2>3, <3>1
    <3>3. k = Line!Step(g[i - 1], w[i]).pkt
      BY <1>6, <3>1, <3>2
    <3> QED
      BY <2>1, <3>2, <3>3
  <2> QED
    BY <2>3, <2>4, <2>5 DEF i
<1>10. CASE d # <<>> /\ k = Head(d)
  <2>1. e = Tail(d) /\ Len(d) # 0 /\ Len(e) = Len(d) - 1
    BY <1>10
  <2>2. ASSUME NEW j \in 1 .. Len(e)
        PROVE  e[j] = d[1 + j]
    BY <1>10, <2>1
  <2>3. ASSUME NEW j \in 1 .. Len(d), j > 1
        PROVE  m[j] > t
    <3>1. 1 \in 1 .. Len(d) /\ 1 < j
      BY <1>2, <2>3
    <3>2. m[1] < m[j]
      BY <1>7, <3>1
    <3>3. m[1] \in Int /\ m[j] \in Int /\ m[1] >= t
      BY <1>9, <3>1
    <3>4. t \in Int
      BY <1>2, <1>5
    <3> QED
      BY <3>2, <3>3, <3>4
  <2>4. 1 \in 0 .. Len(d)
    BY <1>2, <2>1
  <2> DEFINE v == SubSeq(w, t + 1, Len(w))
  <2> DEFINE o == 1
  <2>7. o \in 0 .. Len(d) /\ Len(e) = Len(d) - o
    BY <2>1, <2>4
  <2>8. \A j \in 1 .. Len(e) : e[j] = d[o + j]
    BY <2>2
  <2>9. \A j \in 1 .. Len(d) : j > o => m[j] > t
    BY <2>3
  <2> HIDE DEF o
  <2>10. t \in 0 .. Len(w)
    BY <1>5 DEF l
  <2>11. o \in 0 .. Len(d) /\ Skips(m, d, o, t, e)
    BY <2>7, <2>8, <2>9 DEF Skips
  <2>5. Yields(g[t], v, g[Len(w)], e)
    BY <1>1, <1>2, <2>10, <2>11, LaterYields, Zenon
  <2> HIDE DEF v
  <2>6. Yields(r, v, q, e)
    BY <1>1, <1>6, <2>5 DEF l
  <2> QED
    BY <2>6 DEF v, t
<1>11. CASE ~(d # <<>> /\ k = Head(d))
  <2>1. e = d /\ Len(e) = Len(d) - 0 /\ 0 \in 0 .. Len(d)
    BY <1>2, <1>11
  <2>2. \A j \in 1 .. Len(e) : e[j] = d[0 + j]
    BY <2>1
  <2>3. ASSUME NEW j \in 1 .. Len(d), j > 0
        PROVE  m[j] > t
    <3>1. 1 \in 1 .. Len(d) /\ d # <<>> /\ Head(d) = d[1]
      BY <1>2
    <3>2. t \in Int /\ m[1] \in Int /\ m[1] >= t /\ m[1] # t
      BY <1>2, <1>5, <1>9, <1>11, <3>1
    <3>3. j # 1 => m[1] < m[j]
      BY <1>7, <3>1, SMTT(40)
    <3>4. m[j] \in Int
      BY <1>9
    <3> QED
      BY <3>2, <3>3, <3>4
  <2> DEFINE v == SubSeq(w, t + 1, Len(w))
  <2> DEFINE o == 0
  <2>7. o \in 0 .. Len(d) /\ Len(e) = Len(d) - o
    BY <2>1
  <2>8. \A j \in 1 .. Len(e) : e[j] = d[o + j]
    BY <2>2
  <2>9. \A j \in 1 .. Len(d) : j > o => m[j] > t
    BY <2>3
  <2> HIDE DEF o
  <2>10. t \in 0 .. Len(w)
    BY <1>5 DEF l
  <2>11. o \in 0 .. Len(d) /\ Skips(m, d, o, t, e)
    BY <2>7, <2>8, <2>9 DEF Skips
  <2>5. Yields(g[t], v, g[Len(w)], e)
    BY <1>1, <1>2, <2>10, <2>11, LaterYields, Zenon
  <2> HIDE DEF v
  <2>6. Yields(r, v, q, e)
    BY <1>1, <1>6, <2>5 DEF l
  <2> QED
    BY <2>6 DEF v, t
<1> QED
  BY <1>10, <1>11

-----------------------------------------------------------------------------
(* The invariant of what is due *)

\* What is on the line yields what is due.
Placed == \E q : Yields(ParserNow, LineWire, q, due)

LEMMA InvLine ==
  ASSUME Inv
  PROVE  /\ ParserNow \in Shapes /\ LineWire \in Seq(Bytes) /\ due \in Seq(Whole)
         /\ Kept + Unread \in Nat /\ fifo \in Seq(Bytes)
<1>1. /\ Sim(Here, ParserNow, UnreadOf(Here)) /\ fifo \in Seq(Bytes) /\ due \in Seq(Whole)
  BY DEF Inv
<1>2. Sound(ParserNow)
  BY <1>1 DEF Sim, At
<1>3. LineWire \in Seq(Bytes)
  <2>1. UnreadOf(Here) \in Seq(Bytes)
    BY <1>1, UnreadIs
  <2> QED
    BY <1>1, <2>1, Joined DEF LineWire
<1>4. Kept + Unread \in Nat
  <2>1. KeptOf(Here) + DataLen(Here.start, Here.cur) \in Nat
    BY <1>1, SimRoom, KeptIs, UnreadIs, SMTT(40)
  <2> QED
    BY <2>1, HereIs
<1> QED
  BY <1>1, <1>2, <1>3, <1>4, SoundShape

\* A packet is sent: it is yielded behind what was due.
LEMMA SendPlaced ==
  ASSUME Inv, Placed, NEW f \in Frames, McuSend(f)
  PROVE  Placed'
<1> DEFINE x == Raw(f)
           s == OnLine(f)
           one == <<x>>
<1>1. /\ Room(s) /\ fifo' = fifo \o s /\ sent' = sent + 1 /\ due' = Append(due, x)
      /\ UNCHANGED <<ringVars, parserVars, filled, packet>>
  BY DEF McuSend
<1>2. /\ ParserNow \in Shapes /\ LineWire \in Seq(Bytes) /\ due \in Seq(Whole)
      /\ Kept + Unread \in Nat /\ fifo \in Seq(Bytes)
  BY InvLine
<1>3. s \in Seq(Bytes) /\ Len(s) \in Int /\ Len(s) > Len(f) /\ Len(f) \in Nat
  BY OnLineBytes, OnLineLonger, LineAssumption
<1>4. x \in Whole /\ one \in Seq(Whole)
  BY DEF Whole
<1>5. due' = due \o one
  <2> HIDE DEF x
  <2> QED
    BY <1>1, <1>2, <1>4, AppendIsConcat
<1>6. Len(f) < ESC * 256
  <2> DEFINE k == Kept + Unread
             n == Len(fifo)
  <2>1. k + n + Len(s) < Size
    BY <1>1 DEF Room
  <2>2. k \in Nat /\ n \in Nat
    BY <1>2
  <2>3. Size \in Nat
    BY RingAssumption
  <2> HIDE DEF k, n, s
  <2>4. Len(s) < Size
    BY <1>3, <2>1, <2>2, <2>3
  <2> QED
    BY <1>3, <2>3, <2>4, SizeAssumption DEF ESC
<1>7. LineWire' = LineWire \o s /\ ParserNow' = ParserNow
  <2>1. due' \in Seq(Whole) /\ Len(due') <= Len(due) + 1
    <3> HIDE DEF one
    <3>1. /\ due \o one \in Seq(Whole) /\ Len(due \o one) = Len(due) + Len(one)
          /\ Len(due) \in Nat /\ Len(one) \in Nat
      BY <1>2, <1>4, JoinedPackets
    <3>2. Len(one) = 1
      BY DEF one
    <3> QED
      BY <1>5, <3>1, <3>2
  <2> QED
    BY <1>1, <1>3, <2>1, SendStep
<1>8. PICK q : Yields(ParserNow, LineWire, q, due)
  BY DEF Placed
<1>9. q \in Shapes
  BY <1>2, <1>8, YieldsShapes
<1>10. PICK r : Yields(q, s, r, one)
  BY <1>6, <1>9, FrameYields
<1> HIDE DEF s, one
<1>11. Yields(ParserNow, LineWire \o s, r, due \o one)
  BY <1>2, <1>3, <1>4, <1>8, <1>10, YieldsJoined
<1>12. Yields(ParserNow', LineWire', r, due')
  BY <1>5, <1>7, <1>11
<1> QED
  BY <1>12 DEF Placed

\* Something else comes over the line.
LEMMA NoisePlaced ==
  ASSUME Inv, Placed, NEW s \in Noise, McuNoise(s)
  PROVE  Placed'
<1>1. /\ Room(s) /\ fifo' = fifo \o s /\ sent' = sent + 1 /\ due' = due
      /\ UNCHANGED <<ringVars, parserVars, filled, packet>>
  BY DEF McuNoise
<1>2. ParserNow \in Shapes /\ LineWire \in Seq(Bytes) /\ due \in Seq(Whole)
  BY InvLine
<1>3. s \in Seq(Bytes)
  BY LineAssumption
<1>4. LineWire' = LineWire \o s /\ ParserNow' = ParserNow
  <2>1. due' \in Seq(Whole) /\ Len(due') <= Len(due) + 1
    BY <1>1, <1>2
  <2> QED
    BY <1>1, <1>3, <2>1, SendStep
<1>5. PICK q : Yields(ParserNow, LineWire, q, due)
  BY DEF Placed
<1>6. q \in Shapes
  BY <1>2, <1>5, YieldsShapes
<1> DEFINE none == <<>>
<1>7. PICK r : Yields(q, s, r, none)
  BY <1>3, <1>6, YieldsAny
<1>8. none \in Seq(Whole) /\ due \o none = due
  BY <1>2, JoinedNothing
<1> HIDE DEF none
<1>9. Yields(ParserNow, LineWire \o s, r, due \o none)
  BY <1>2, <1>3, <1>5, <1>7, <1>8, YieldsJoined
<1>10. Yields(ParserNow', LineWire', r, due')
  BY <1>1, <1>4, <1>8, <1>9
<1> QED
  BY <1>10 DEF Placed

\* The parser runs: what it gives out is due no more.
LEMMA ExtractPlaced ==
  ASSUME Inv, Placed, ExtractOnePacket
  PROVE  Placed'
<1>1. ParserNow \in Shapes /\ LineWire \in Seq(Bytes) /\ due \in Seq(Whole)
  BY InvLine
<1>2. Line!Extract
  BY ExtractStep
<1> DEFINE w == [i \in 1 .. Unread |-> hal_RxBuffer[Slot(pos_start + i - 1)]] \o fifo
<1>3. w = LineWire /\ w' = LineWire'
  BY DEF LineWire, UnreadOf, Here, Unread
<1>4. PICK n \in 0 .. Len(w) :
        LET a == Line!Scan(ParserNow, SubSeq(w, 1, n))
        IN /\ w' = SubSeq(w, a.taken + 1, Len(w))
           /\ packet' = IF a.whole THEN a.parser.pkt ELSE <<>>
           /\ ParserNow' = IF a.whole THEN [a.parser EXCEPT !.pkt = <<>>] ELSE a.parser
  BY <1>2 DEF Line!Extract
<1> HIDE DEF w
<1> DEFINE a == Line!Scan(ParserNow, SubSeq(LineWire, 1, n))
<1>5. due' = IF due # <<>> /\ packet' = Head(due) THEN Tail(due) ELSE due
  BY DEF ExtractOnePacket
<1>6. PICK q : Yields(ParserNow, LineWire, q, due)
  BY DEF Placed
<1>7. /\ packet' = IF a.whole THEN a.parser.pkt ELSE <<>>
      /\ ParserNow' = IF a.whole THEN [a.parser EXCEPT !.pkt = <<>>] ELSE a.parser
      /\ LineWire' = SubSeq(LineWire, a.taken + 1, Len(LineWire))
  BY <1>3, <1>4
<1>8. a = Line!Scan(ParserNow, SubSeq(LineWire, 1, n))
  OBVIOUS
<1> HIDE DEF a
<1>9. Yields(ParserNow', SubSeq(LineWire, a.taken + 1, Len(LineWire)), q, due')
  BY <1>1, <1>3, <1>5, <1>6, <1>7, <1>8, YieldsRest, ZenonT(40)
<1>10. Yields(ParserNow', LineWire', q, due')
  BY <1>7, <1>9
<1> QED
  BY <1>10 DEF Placed

LEMMA StillPlaced == Inv /\ Placed /\ [Next]_vars => Placed'
<1> SUFFICES ASSUME Inv, Placed, [Next]_vars PROVE Placed'
  OBVIOUS
<1>1. ASSUME NEW f \in Frames, McuSend(f)
      PROVE  Placed'
  BY <1>1, SendPlaced
<1>2. ASSUME NEW s \in Noise, McuNoise(s)
      PROVE  Placed'
  BY <1>2, NoisePlaced
<1>3. ASSUME NEW n \in 1 .. Len(fifo), RecAll(n)
      PROVE  Placed'
  <2>1. LineWire' = LineWire /\ ParserNow' = ParserNow
    BY <1>3, ReadStep
  <2>2. due' = due
    BY <1>3 DEF RecAll
  <2> QED
    BY <2>1, <2>2 DEF Placed
<1>4. CASE ExtractOnePacket
  BY <1>4, ExtractPlaced
<1>5. CASE UNCHANGED vars
  <2>1. /\ Here' = Here /\ ParserNow' = ParserNow /\ fifo' = fifo /\ due' = due
    BY <1>5 DEF vars, ringVars, parserVars, Here, ParserNow, Held
  <2>2. LineWire' = LineWire
    BY <2>1, HereIsNext DEF LineWire
  <2> QED
    BY <2>1, <2>2 DEF Placed
<1> QED
  BY <1>1, <1>2, <1>3, <1>4, <1>5 DEF Next

LEMMA PlacedAtStart == Init => Placed
<1> SUFFICES ASSUME Init PROVE Placed
  OBVIOUS
<1>1. Inv /\ Line!Init
  BY AtStart
<1>2. LineWire = <<>>
  BY <1>1 DEF Line!Init, LineWire, UnreadOf, Here, Unread
<1>3. ParserNow \in Shapes /\ due = <<>>
  BY <1>1, InvLine DEF Init
<1>4. Yields(ParserNow, <<>>, ParserNow, <<>>)
  BY <1>3, YieldsNothing
<1> QED
  BY <1>2, <1>3, <1>4 DEF Placed

\* Nothing is yielded by an empty line.
LEMMA NothingDue == Inv /\ Placed => FramesArrive
<1> SUFFICES ASSUME Inv, Placed, fifo = <<>>, Unread = 0
             PROVE  due = <<>>
  BY DEF FramesArrive
<1>1. LineWire \in Seq(Bytes) /\ due \in Seq(Whole)
  BY InvLine
<1>2. Len(LineWire) = 0
  <2> DEFINE u == UnreadOf(Here)
  <2>1. u \in Seq(Bytes) /\ Len(u) = Unread
    BY UnreadIs, HereIs DEF Inv
  <2>2. fifo \in Seq(Bytes) /\ Len(fifo) = 0
    BY InvLine
  <2>3. LineWire = u \o fifo
    BY DEF LineWire
  <2> HIDE DEF u
  <2>4. Len(u \o fifo) = Len(u) + Len(fifo)
    BY <2>1, <2>2, Joined
  <2> QED
    BY <2>1, <2>2, <2>3, <2>4
<1>3. PICK q, g, m : Marks(m, g, LineWire, due)
  BY DEF Placed, Yields
<1>4. m \in [1 .. Len(due) -> 1 .. 0]
  BY <1>2, <1>3 DEF Marks
<1>5. ~(1 \in 1 .. Len(due))
  <2>1. SUFFICES ASSUME 1 \in 1 .. Len(due) PROVE FALSE
    OBVIOUS
  <2>2. m[1] \in 1 .. 0
    BY <1>4, <2>1
  <2> QED
    BY <2>2
<1>6. Len(due) \in Nat
  BY <1>1
<1>7. Len(due) = 0
  BY <1>5, <1>6
<1> QED
  BY <1>1, <1>7, EmptySeq

\* Every packet the MCU sends whole is given out whole and in order by
\* GAgent_Local_ExtractOnePacket, whatever parts of packets and stray bytes came
\* before it, in whatever portions it is read and wherever it lies in the ring.
THEOREM FramesAreReceived == Spec => []FramesArrive
<1>1. Init => Inv /\ Placed
  BY AtStart, PlacedAtStart
<1>2. Inv /\ Placed /\ [Next]_vars => Inv' /\ Placed'
  BY EveryStep, StillPlaced
<1>3. Inv /\ Placed => FramesArrive
  BY NothingDue
<1> QED
  BY <1>1, <1>2, <1>3, PTL DEF Spec
=============================================================================
