------------------------------ MODULE RingProof ------------------------------
(***************************************************************************)
(* The arithmetic of counters that wrap and of the rings of pipe.c, uart.c *)
(* and console.c: the bytes between two counters of U values in a buffer   *)
(* of S bytes, U a multiple of S, are a queue.                             *)
(***************************************************************************)
EXTENDS Integers, Sequences, SequenceTheorems, TLAPS

\* A counter of U values goes round a buffer of S cells without a gap.
Wraps(U, S) == U \in Nat /\ S \in Nat \ {0} /\ U > S /\ U % S = 0

\* A buffer of S cells, each with one of the values Byte.
BufferOf(S, Byte, b) == S \in Nat \ {0} /\ b \in [0 .. S - 1 -> Byte]

\* How far a counter is behind another, the n bytes from counter r on, and the
\* buffer with another byte behind them.
Behind(U, r, w) == (w + U - r) % U
Ring(S, b, r, n) == [k \in 1 .. n |-> b[(r + k - 1) % S]]

StoreAt(U, S, b, r, n, c) == [b EXCEPT ![((r + n) % U) % S] = c]

\* What such bytes are.
IsRing(s, S, Byte, b, r, n) ==
  s \in Seq(Byte) /\ Len(s) = n /\ \A k \in 1 .. n : s[k] = b[(r + k - 1) % S]

\* A sequence with one element more, and one less.
Appends(s, t, c) == s = Append(t, c)
Drops(s, t) == t # <<>> /\ s = Tail(t)

\* A number is made of its quotient and its remainder.
LEMMA DivMod ==
  ASSUME NEW m \in Nat \ {0}, NEW x \in Int
  PROVE  /\ x \div m \in Int
         /\ x % m \in 0 .. m - 1
         /\ x = m * (x \div m) + (x % m)
  BY SMT

\* A number below the modulus is a multiple of it only when it is 0.
LEMMA SmallMultiple ==
  ASSUME NEW m \in Nat \ {0}, NEW k \in Int, -m < m * k, m * k < m
  PROVE  k = 0
<1>1. CASE k >= 1
  BY <1>1, SMT
<1>2. CASE k <= -1
  BY <1>2, SMT
<1> QED
  BY <1>1, <1>2, SMT

\* A remainder is determined by its range and by a multiple of the modulus.
LEMMA ModUnique ==
  ASSUME NEW m \in Nat \ {0}, NEW k \in Int, NEW y \in 0 .. m - 1
  PROVE  (m * k + y) % m = y
<1> DEFINE x == m * k + y
           q == x \div m
           r == x % m
<1>1. x \in Int
  BY SMT
<1>2. q \in Int /\ r \in 0 .. m - 1 /\ x = m * q + r
  BY <1>1, DivMod
<1> HIDE DEF q, r
<1>3. m * (k - q) = r - y
  BY <1>2, SMT
<1>4. k - q = 0
  <2>1. -m < m * (k - q) /\ m * (k - q) < m
    BY <1>2, <1>3, SMT
  <2> QED
    BY <1>2, <2>1, SmallMultiple, SMT
<1>5. r = y
  BY <1>2, <1>3, <1>4, SMT
<1> QED
  BY <1>5 DEF r

\* Multiples of the modulus do not matter.
LEMMA ModPeriod ==
  ASSUME NEW m \in Nat \ {0}, NEW k \in Int, NEW x \in Int
  PROVE  (m * k + x) % m = x % m
<1> DEFINE q == x \div m
           y == x % m
<1>1. q \in Int /\ y \in 0 .. m - 1 /\ x = m * q + y
  BY DivMod
<1> HIDE DEF q, y
<1>2. m * k + x = m * (k + q) + y /\ k + q \in Int
  BY <1>1, SMT
<1>3. (m * (k + q) + y) % m = y
  BY <1>1, <1>2, ModUnique
<1> QED
  BY <1>2, <1>3 DEF y

\* Below twice the modulus a remainder takes one subtraction.
LEMMA ModTwice ==
  ASSUME NEW m \in Nat \ {0}, NEW x \in 0 .. 2 * m - 1
  PROVE  x % m = IF x < m THEN x ELSE x - m
<1>1. CASE x < m
  <2>1. x \in 0 .. m - 1
    BY <1>1
  <2> QED
    BY <1>1, <2>1, SMT
<1>2. CASE ~(x < m)
  <2>1. x - m \in 0 .. m - 1 /\ x = m * 1 + (x - m)
    BY <1>2
  <2>2. (m * 1 + (x - m)) % m = x - m
    BY <2>1, ModUnique
  <2> QED
    BY <1>2, <2>1, <2>2, Zenon
<1> QED
  BY <1>1, <1>2

\* Numbers that are less than the modulus apart have different remainders.
LEMMA ModDistinct ==
  ASSUME NEW m \in Nat \ {0}, NEW x \in Int, NEW y \in Int, x < y, y - x < m
  PROVE  x % m # y % m
<1> DEFINE q == x \div m
           s == y \div m
           a == x % m
           b == y % m
<1>1. q \in Int /\ a \in 0 .. m - 1 /\ x = m * q + a
  BY DivMod
<1>2. s \in Int /\ b \in 0 .. m - 1 /\ y = m * s + b
  BY DivMod
<1> SUFFICES ASSUME a = b PROVE FALSE
  OBVIOUS
<1> HIDE DEF q, s, a, b
<1>3. m * (s - q) = y - x /\ s - q \in Int
  BY <1>1, <1>2, SMT
<1>4. s - q = 0
  <2>1. -m < m * (s - q) /\ m * (s - q) < m
    BY <1>3, SMT
  <2> QED
    BY <1>3, <2>1, SmallMultiple, Zenon
<1> QED
  BY <1>3, <1>4, SMT

-----------------------------------------------------------------------------
(* Counters *)

\* Distances without a remainder.
LEMMA BehindIs ==
  ASSUME NEW U \in Nat \ {0}, NEW r \in 0 .. U - 1, NEW w \in 0 .. U - 1
  PROVE  Behind(U, r, w) = IF w < r THEN w + U - r ELSE w - r
<1>1. w + U - r \in 0 .. 2 * U - 1
  OBVIOUS
<1>2. (w + U - r) % U = IF w + U - r < U THEN w + U - r ELSE (w + U - r) - U
  BY <1>1, ModTwice, Zenon
<1>3. (w + U - r < U <=> w < r) /\ (w + U - r) - U = w - r
  OBVIOUS
<1> QED
  BY <1>2, <1>3, Zenon DEF Behind

\* One more, and a whole buffer more.
LEMMA Advance ==
  ASSUME NEW U \in Nat \ {0}, NEW r \in 0 .. U - 1, NEW n \in 0 .. U - 1
  PROVE  /\ (r + n) % U = IF r + n < U THEN r + n ELSE (r + n) - U
         /\ (r + n) % U \in 0 .. U - 1
<1>1. r + n \in 0 .. 2 * U - 1
  OBVIOUS
<1>2. (r + n) % U = IF r + n < U THEN r + n ELSE (r + n) - U
  BY <1>1, ModTwice
<1> QED
  BY <1>2

\* What a distance d says, and how it changes as either counter goes on.
Apart(U, S, r, w, d) ==
  /\ d \in 0 .. U - 1
  /\ w = (r + d) % U
  /\ d = 0 <=> r = w
  /\ w = (r + S) % U <=> d = S
  /\ (r + 1) % U \in 0 .. U - 1 /\ (w + 1) % U \in 0 .. U - 1
  /\ d < U - 1 => Behind(U, r, (w + 1) % U) = d + 1
  /\ d > 0 => Behind(U, (r + 1) % U, w) = d - 1

\* Distances are like that.
LEMMA Distance ==
  ASSUME NEW U, NEW S, Wraps(U, S),
         NEW r \in 0 .. U - 1, NEW w \in 0 .. U - 1
  PROVE  Apart(U, S, r, w, Behind(U, r, w))
<1>0. U \in Nat \ {0} /\ S \in 0 .. U - 1 /\ 1 \in 0 .. U - 1
  BY DEF Wraps
<1> DEFINE d == Behind(U, r, w)
<1>1. d = IF w < r THEN w + U - r ELSE w - r
  BY <1>0, BehindIs, Zenon
<1>2. /\ (r + 1) % U = IF r + 1 < U THEN r + 1 ELSE (r + 1) - U
      /\ (w + 1) % U = IF w + 1 < U THEN w + 1 ELSE (w + 1) - U
      /\ (r + S) % U = IF r + S < U THEN r + S ELSE (r + S) - U
      /\ (r + 1) % U \in 0 .. U - 1 /\ (w + 1) % U \in 0 .. U - 1
  BY <1>0, Advance, Zenon
<1>3. PICK r1 \in 0 .. U - 1, w1 \in 0 .. U - 1, rs \in Int :
        r1 = (r + 1) % U /\ w1 = (w + 1) % U /\ rs = (r + S) % U
  <2>1. (r + S) % U \in Int
    BY <1>0, Advance
  <2> QED
    BY <1>2, <2>1, Zenon
<1>4. /\ Behind(U, r, w1) = IF w1 < r THEN w1 + U - r ELSE w1 - r
      /\ Behind(U, r1, w) = IF w < r1 THEN w + U - r1 ELSE w - r1
  BY <1>0, BehindIs, Zenon
<1>5. d \in 0 .. U - 1 /\ (d = 0 <=> r = w)
  BY <1>0, <1>1
<1>6. w = (r + d) % U
  <2>1. (r + d) % U = IF r + d < U THEN r + d ELSE (r + d) - U
    BY <1>0, <1>5, Advance, Zenon
  <2> HIDE DEF d
  <2> QED
    BY <1>0, <1>1, <1>5, <2>1
<1> HIDE DEF d
<1>7. w = rs <=> d = S
  <2>1. rs = IF r + S < U THEN r + S ELSE (r + S) - U
    BY <1>2, <1>3, Zenon
  <2> QED
    BY <1>0, <1>1, <2>1
<1>8. d < U - 1 => Behind(U, r, w1) = d + 1
  <2>1. w1 = IF w + 1 < U THEN w + 1 ELSE (w + 1) - U
    BY <1>2, <1>3, Zenon
  <2> QED
    BY <1>0, <1>1, <1>4, <2>1
<1>9. d > 0 => Behind(U, r1, w) = d - 1
  <2>1. r1 = IF r + 1 < U THEN r + 1 ELSE (r + 1) - U
    BY <1>2, <1>3, Zenon
  <2> QED
    BY <1>0, <1>1, <1>4, <2>1
<1> QED
  BY <1>2, <1>3, <1>5, <1>6, <1>7, <1>8, <1>9, Zenon DEF Apart, d

\* A counter that wraps goes on to the same cell.
LEMMA SameCell ==
  ASSUME NEW U, NEW S, Wraps(U, S),
         NEW r \in 0 .. U - 1, NEW n \in 0 .. U - 1
  PROVE  ((r + n) % U) % S = (r + n) % S
<1>0. U \in Nat \ {0} /\ S \in Nat \ {0} /\ U % S = 0
  BY DEF Wraps
<1>1. (r + n) % U = IF r + n < U THEN r + n ELSE (r + n) - U
  BY <1>0, Advance, Zenon
<1> DEFINE q == U \div S
<1>2. q \in Int /\ U = S * q + 0
  BY <1>0, DivMod
<1> HIDE DEF q
<1>3. CASE r + n < U
  BY <1>1, <1>3, Zenon
<1>4. CASE ~(r + n < U)
  <2>1. (r + n) - U \in Int /\ r + n = S * q + ((r + n) - U)
    BY <1>0, <1>2, SMT
  <2>2. (S * q + ((r + n) - U)) % S = ((r + n) - U) % S
    BY <1>0, <1>2, <2>1, ModPeriod, Zenon
  <2> QED
    BY <1>1, <1>4, <2>1, <2>2, Zenon
<1> QED
  BY <1>3, <1>4, Zenon

-----------------------------------------------------------------------------
(* Rings as queues *)

\* The bytes of a ring are a sequence.
LEMMA RingIsSeq ==
  ASSUME NEW S, NEW Byte, NEW b, BufferOf(S, Byte, b), NEW r \in Int, NEW n \in Nat
  PROVE  IsRing(Ring(S, b, r, n), S, Byte, b, r, n)
<1>0. S \in Nat \ {0} /\ b \in [0 .. S - 1 -> Byte]
  BY Zenon DEF BufferOf
<1>1. ASSUME NEW k \in 1 .. n PROVE b[(r + k - 1) % S] \in Byte
  <2>1. r + k - 1 \in Int
    OBVIOUS
  <2>2. (r + k - 1) % S \in 0 .. S - 1
    BY <1>0, <2>1, DivMod
  <2> QED
    BY <1>0, <2>2, Zenon
<1>2. Ring(S, b, r, n) \in [1 .. n -> Byte]
  BY <1>1, Zenon DEF Ring
<1>3. Ring(S, b, r, n) \in Seq(Byte)
  BY <1>2, SeqDef
<1>4. Len(Ring(S, b, r, n)) = n
  BY <1>2, <1>3
<1> QED
  BY <1>3, <1>4, Zenon DEF IsRing, Ring

\* A byte stored behind the last one is appended.
LEMMA RingPut ==
  ASSUME NEW U, NEW S, Wraps(U, S),
         NEW Byte, NEW b, BufferOf(S, Byte, b), NEW c \in Byte,
         NEW r \in 0 .. U - 1, NEW n \in 0 .. S - 1
  PROVE  Appends(Ring(S, StoreAt(U, S, b, r, n, c), r, n + 1), Ring(S, b, r, n), c)
<1> DEFINE cell == ((r + n) % U) % S
           f == StoreAt(U, S, b, r, n, c)
           s == Ring(S, f, r, n + 1)
           t == Append(Ring(S, b, r, n), c)
<1>0. /\ r \in Int /\ n \in Nat /\ n + 1 \in Nat /\ n \in 0 .. U - 1 /\ r + n \in Int
      /\ S \in Nat \ {0}
  BY DEF Wraps
<1>1. cell = (r + n) % S
  BY <1>0, SameCell, Zenon
<1>2. cell \in 0 .. S - 1
  BY <1>0, <1>1, DivMod
<1>3. b \in [0 .. S - 1 -> Byte] /\ BufferOf(S, Byte, f)
  BY Zenon DEF BufferOf, StoreAt
<1> HIDE DEF f
<1>4. /\ s \in Seq(Byte) /\ Len(s) = n + 1
      /\ \A k \in 1 .. n + 1 : s[k] = f[(r + k - 1) % S]
  <2>1. IsRing(s, S, Byte, f, r, n + 1)
    BY <1>0, <1>3, RingIsSeq, Zenon
  <2> QED
    BY <2>1, Zenon DEF IsRing
<1>5. /\ Ring(S, b, r, n) \in Seq(Byte) /\ Len(Ring(S, b, r, n)) = n
      /\ \A k \in 1 .. n : Ring(S, b, r, n)[k] = b[(r + k - 1) % S]
  <2>1. IsRing(Ring(S, b, r, n), S, Byte, b, r, n)
    BY <1>0, RingIsSeq, Zenon
  <2> QED
    BY <2>1, Zenon DEF IsRing
<1>6. /\ t \in Seq(Byte) /\ Len(t) = n + 1
      /\ \A k \in 1 .. n : t[k] = Ring(S, b, r, n)[k]
      /\ t[n + 1] = c
  BY <1>5, AppendProperties
<1> HIDE DEF s, t
<1>7. ASSUME NEW k \in 1 .. n + 1 PROVE s[k] = t[k]
  <2>1. CASE k = n + 1
    <3>1. r + (n + 1) - 1 = r + n
      OBVIOUS
    <3>2. s[k] = f[cell]
      BY <1>1, <1>4, <2>1, <3>1, Zenon
    <3>3. f[cell] = c
      BY <1>2, <1>3, Zenon DEF f, StoreAt
    <3> QED
      BY <1>6, <2>1, <3>2, <3>3, Zenon
  <2>2. CASE k \in 1 .. n
    <3>1. r + k - 1 \in Int /\ r + n \in Int /\ r + k - 1 < r + n /\ (r + n) - (r + k - 1) < S
      BY <1>0, <2>2
    <3>2. (r + k - 1) % S # cell
      BY <1>0, <1>1, <3>1, ModDistinct, Zenon
    <3>3. (r + k - 1) % S \in 0 .. S - 1
      BY <1>0, <3>1, DivMod
    <3>4. f[(r + k - 1) % S] = b[(r + k - 1) % S]
      BY <1>3, <3>2, <3>3, Zenon DEF f, StoreAt
    <3> QED
      BY <1>4, <1>5, <1>6, <2>2, <3>4, Zenon
  <2> QED
    BY <2>1, <2>2
<1>8. s = t
  BY <1>4, <1>6, <1>7, SeqEqual, Zenon
<1> QED
  BY <1>8, Zenon DEF Appends, s, t, f

\* When the first counter goes on, the oldest byte is gone.
LEMMA RingGet ==
  ASSUME NEW U, NEW S, Wraps(U, S),
         NEW Byte, NEW b, BufferOf(S, Byte, b),
         NEW r \in 0 .. U - 1, NEW n \in 1 .. S
  PROVE  Drops(Ring(S, b, (r + 1) % U, n - 1), Ring(S, b, r, n))
<1> DEFINE q == (r + 1) % U
           s == Ring(S, b, q, n - 1)
           t == Ring(S, b, r, n)
<1>0. /\ r \in Int /\ n \in Nat /\ n - 1 \in Nat /\ 1 \in 0 .. U - 1 /\ U \in Nat \ {0}
      /\ S \in Nat \ {0} /\ U > S
  BY DEF Wraps
<1>1. q = (IF r + 1 < U THEN r + 1 ELSE (r + 1) - U) /\ q \in 0 .. U - 1 /\ q \in Int
  <2>1. q = (IF r + 1 < U THEN r + 1 ELSE (r + 1) - U) /\ q \in 0 .. U - 1
    BY <1>0, Advance, Zenon
  <2> QED
    BY <2>1
<1> HIDE DEF q
<1>2. /\ s \in Seq(Byte) /\ Len(s) = n - 1
      /\ \A k \in 1 .. n - 1 : s[k] = b[(q + k - 1) % S]
  <2>1. IsRing(s, S, Byte, b, q, n - 1)
    BY <1>0, <1>1, RingIsSeq, Zenon
  <2> QED
    BY <2>1, Zenon DEF IsRing
<1>3. /\ t \in Seq(Byte) /\ Len(t) = n
      /\ \A k \in 1 .. n : t[k] = b[(r + k - 1) % S]
  <2>1. IsRing(t, S, Byte, b, r, n)
    BY <1>0, RingIsSeq, Zenon
  <2> QED
    BY <2>1, Zenon DEF IsRing
<1> HIDE DEF s, t
<1>4. t # <<>>
  BY <1>3
<1>5. /\ Tail(t) \in Seq(Byte) /\ Len(Tail(t)) = n - 1
      /\ \A k \in 1 .. n - 1 : Tail(t)[k] = t[k + 1]
  BY <1>3, <1>4, HeadTailProperties
<1>6. ASSUME NEW k \in 1 .. n - 1 PROVE s[k] = Tail(t)[k]
  <2>1. k + 1 \in 1 .. n /\ r + (k + 1) - 1 = r + k /\ k \in 0 .. U - 1 /\ k - 1 \in 0 .. U - 1
    BY <1>0
  <2>2. Tail(t)[k] = b[(r + k) % S]
    BY <1>3, <1>5, <2>1, Zenon
  <2>3. ((r + k) % U) % S = (r + k) % S
    BY <2>1, SameCell, Zenon
  <2>4. ((q + (k - 1)) % U) % S = (q + (k - 1)) % S
    BY <1>1, <2>1, SameCell, Zenon
  <2>5. (q + (k - 1)) % U = (r + k) % U
    <3>1. (q + (k - 1)) % U = IF q + (k - 1) < U THEN q + (k - 1) ELSE (q + (k - 1)) - U
      BY <1>0, <1>1, <2>1, Advance, Zenon
    <3>2. (r + k) % U = IF r + k < U THEN r + k ELSE (r + k) - U
      BY <1>0, <2>1, Advance, Zenon
    <3> QED
      BY <1>0, <1>1, <2>1, <3>1, <3>2
  <2>6. q + (k - 1) = q + k - 1
    BY <1>1
  <2> QED
    BY <1>2, <2>2, <2>3, <2>4, <2>5, <2>6, Zenon
<1>7. s = Tail(t)
  BY <1>2, <1>5, <1>6, SeqEqual, Zenon
<1> QED
  BY <1>4, <1>7, Zenon DEF Drops, s, t, q

\* Two counters and a buffer that hold a queue, the queue, and what becomes of
\* both as a byte is put in or taken out.
IsQueue(U, S, Byte, b, r, w) ==
  /\ Wraps(U, S) /\ BufferOf(S, Byte, b)
  /\ r \in 0 .. U - 1 /\ w \in 0 .. U - 1 /\ Behind(U, r, w) <= S

Queue(U, S, b, r, w) == Ring(S, b, r, Behind(U, r, w))

QueuePuts(U, S, Byte, b, r, w, c) ==
  /\ IsQueue(U, S, Byte, [b EXCEPT ![w % S] = c], r, (w + 1) % U)
  /\ Len(Queue(U, S, b, r, w)) < S
  /\ Queue(U, S, [b EXCEPT ![w % S] = c], r, (w + 1) % U) = Append(Queue(U, S, b, r, w), c)

QueueGets(U, S, Byte, b, r, w) ==
  /\ IsQueue(U, S, Byte, b, (r + 1) % U, w)
  /\ Queue(U, S, b, r, w) # <<>>
  /\ Queue(U, S, b, (r + 1) % U, w) = Tail(Queue(U, S, b, r, w))

QueueSize(U, S, Byte, r, w, q) ==
  /\ U \in Nat \ {0} /\ S \in Nat \ {0} /\ U > S
  /\ Behind(U, r, w) \in 0 .. S
  /\ Apart(U, S, r, w, Behind(U, r, w))
  /\ q \in Seq(Byte) /\ Len(q) = Behind(U, r, w)

\* The distance of the counters is the length of the queue.
LEMMA QueueIs ==
  ASSUME NEW U, NEW S, NEW Byte, NEW b, NEW r, NEW w, IsQueue(U, S, Byte, b, r, w)
  PROVE  QueueSize(U, S, Byte, r, w, Queue(U, S, b, r, w))
<1> DEFINE d == Behind(U, r, w)
<1>0. U \in Nat \ {0} /\ S \in Nat \ {0} /\ U > S
  BY DEF IsQueue, Wraps
<1>1. Apart(U, S, r, w, d)
  BY Distance, Zenon DEF IsQueue
<1>2. d \in 0 .. U - 1 /\ d <= S /\ r \in 0 .. U - 1
  BY <1>1, Zenon DEF Apart, IsQueue
<1> HIDE DEF d
<1>3. d \in 0 .. S /\ d \in Nat /\ r \in Int
  BY <1>0, <1>2
<1>4. IsRing(Ring(S, b, r, d), S, Byte, b, r, d)
  BY <1>3, RingIsSeq, Zenon DEF IsQueue
<1> QED
  BY <1>0, <1>1, <1>3, <1>4, Zenon DEF QueueSize, IsRing, Queue, d

\* A buffer that is not full takes a byte.
LEMMA QueuePut ==
  ASSUME NEW U, NEW S, NEW Byte, NEW b, NEW r, NEW w, IsQueue(U, S, Byte, b, r, w),
         w # (r + S) % U, NEW c \in Byte
  PROVE  QueuePuts(U, S, Byte, b, r, w, c)
<1> DEFINE d == Behind(U, r, w)
           f == [b EXCEPT ![w % S] = c]
<1>0. /\ U \in Nat \ {0} /\ S \in Nat \ {0} /\ U > S /\ d \in 0 .. S
      /\ Apart(U, S, r, w, d) /\ Len(Queue(U, S, b, r, w)) = d
  <2>1. QueueSize(U, S, Byte, r, w, Queue(U, S, b, r, w))
    BY QueueIs, Zenon
  <2> QED
    BY <2>1, Zenon DEF QueueSize
<1>1. d # S /\ w = (r + d) % U /\ (w + 1) % U \in 0 .. U - 1
  BY <1>0, Zenon DEF Apart
<1>2. d \in 0 .. S - 1 /\ d < U - 1 /\ d + 1 <= S /\ d < S
  <2> HIDE DEF d
  <2> QED
    BY <1>0, <1>1
<1>3. Behind(U, r, (w + 1) % U) = d + 1
  BY <1>0, <1>2, Zenon DEF Apart
<1>4. f = StoreAt(U, S, b, r, d, c)
  BY <1>1, Zenon DEF StoreAt
<1>5. BufferOf(S, Byte, f)
  BY Zenon DEF IsQueue, BufferOf
<1>6. Appends(Ring(S, StoreAt(U, S, b, r, d, c), r, d + 1), Ring(S, b, r, d), c)
  BY <1>2, RingPut, Zenon DEF IsQueue
<1> HIDE DEF f
<1>7. IsQueue(U, S, Byte, f, r, (w + 1) % U)
  BY <1>1, <1>2, <1>3, <1>5, Zenon DEF IsQueue
<1>8. Queue(U, S, f, r, (w + 1) % U) = Append(Queue(U, S, b, r, w), c)
  BY <1>3, <1>4, <1>6, Zenon DEF Appends, Queue
<1> QED
  BY <1>0, <1>2, <1>7, <1>8, Zenon DEF QueuePuts, f

\* A buffer that is not empty gives one.
LEMMA QueueGet ==
  ASSUME NEW U, NEW S, NEW Byte, NEW b, NEW r, NEW w, IsQueue(U, S, Byte, b, r, w), r # w
  PROVE  QueueGets(U, S, Byte, b, r, w)
<1> DEFINE d == Behind(U, r, w)
<1>0. /\ U \in Nat \ {0} /\ S \in Nat \ {0} /\ U > S /\ d \in 0 .. S
      /\ Apart(U, S, r, w, d)
  <2>1. QueueSize(U, S, Byte, r, w, Queue(U, S, b, r, w))
    BY QueueIs, Zenon
  <2> QED
    BY <2>1, Zenon DEF QueueSize
<1>1. d # 0 /\ (r + 1) % U \in 0 .. U - 1
  BY <1>0, Zenon DEF Apart
<1>2. d \in 1 .. S /\ d > 0 /\ d - 1 <= S
  <2> HIDE DEF d
  <2> QED
    BY <1>0, <1>1
<1>3. Behind(U, (r + 1) % U, w) = d - 1
  BY <1>0, <1>2, Zenon DEF Apart
<1>4. Drops(Ring(S, b, (r + 1) % U, d - 1), Ring(S, b, r, d))
  BY <1>2, RingGet, Zenon DEF IsQueue
<1>5. IsQueue(U, S, Byte, b, (r + 1) % U, w)
  BY <1>1, <1>2, <1>3, Zenon DEF IsQueue
<1> QED
  BY <1>3, <1>4, <1>5, Zenon DEF QueueGets, Drops, Queue

\* Counters that are equal hold no byte.
LEMMA QueueEmpty ==
  ASSUME NEW U, NEW S, NEW Byte, NEW b, Wraps(U, S), BufferOf(S, Byte, b)
  PROVE  IsQueue(U, S, Byte, b, 0, 0) /\ Queue(U, S, b, 0, 0) = <<>>
<1>0. U \in Nat \ {0} /\ 0 \in 0 .. U - 1 /\ S \in Nat \ {0}
  BY DEF Wraps
<1>1. Behind(U, 0, 0) = 0
  <2>1. Apart(U, S, 0, 0, Behind(U, 0, 0))
    BY <1>0, Distance, Zenon
  <2> QED
    BY <2>1, Zenon DEF Apart
<1>2. IsQueue(U, S, Byte, b, 0, 0)
  <2>1. Behind(U, 0, 0) <= S
    BY <1>0, <1>1
  <2> QED
    BY <1>0, <2>1, Zenon DEF IsQueue
<1>3. Queue(U, S, b, 0, 0) \in Seq(Byte) /\ Len(Queue(U, S, b, 0, 0)) = 0
  <2>1. QueueSize(U, S, Byte, 0, 0, Queue(U, S, b, 0, 0))
    BY <1>2, QueueIs, Zenon
  <2> QED
    BY <1>1, <2>1, Zenon DEF QueueSize
<1> HIDE DEF Queue
<1> QED
  BY <1>2, <1>3, EmptySeq
-----------------------------------------------------------------------------
(* Rings with a line that is still edited: complete up to w, typed up to e *)

IsLine(U, S, Byte, b, r, w, e) ==
  /\ Wraps(U, S) /\ BufferOf(S, Byte, b)
  /\ r \in 0 .. U - 1 /\ w \in 0 .. U - 1 /\ e \in 0 .. U - 1
  /\ Behind(U, r, w) + Behind(U, w, e) <= S

\* The distances of such counters.
LineSize(U, S, d, l, all) ==
  /\ U \in Nat \ {0} /\ S \in Nat \ {0} /\ U > S
  /\ d \in 0 .. S /\ l \in 0 .. S /\ all \in 0 .. S /\ all = d + l

\* s is made of t and u; s is t without its last element; s is empty.
Joins(s, t, u) == s = t \o u
Shortens(s, t) == t # <<>> /\ s = SubSeq(t, 1, Len(t) - 1)
Nothing(s) == s = <<>>

\* Distances add up.
LEMMA LineIs ==
  ASSUME NEW U, NEW S, NEW Byte, NEW b, NEW r, NEW w, NEW e, IsLine(U, S, Byte, b, r, w, e)
  PROVE  LineSize(U, S, Behind(U, r, w), Behind(U, w, e), Behind(U, r, e))
<1> DEFINE d == Behind(U, r, w)
           l == Behind(U, w, e)
           all == Behind(U, r, e)
<1>0. /\ U \in Nat \ {0} /\ S \in Nat \ {0} /\ U > S
      /\ r \in 0 .. U - 1 /\ w \in 0 .. U - 1 /\ e \in 0 .. U - 1
  BY DEF IsLine, Wraps
<1>1. /\ d = IF w < r THEN w + U - r ELSE w - r
      /\ l = IF e < w THEN e + U - w ELSE e - w
      /\ all = IF e < r THEN e + U - r ELSE e - r
  BY <1>0, BehindIs, Zenon
<1>2. d + l <= S
  BY Zenon DEF IsLine
<1> HIDE DEF d, l, all
<1>3. LineSize(U, S, d, l, all)
  BY <1>0, <1>1, <1>2 DEF LineSize
<1> QED
  BY <1>3, Zenon DEF d, l, all

\* Both parts, and the whole, are queues.
LEMMA LineQueues ==
  ASSUME NEW U, NEW S, NEW Byte, NEW b, NEW r, NEW w, NEW e, IsLine(U, S, Byte, b, r, w, e)
  PROVE  /\ IsQueue(U, S, Byte, b, r, w) /\ IsQueue(U, S, Byte, b, w, e)
         /\ IsQueue(U, S, Byte, b, r, e)
<1>1. LineSize(U, S, Behind(U, r, w), Behind(U, w, e), Behind(U, r, e))
  BY LineIs, Zenon
<1>2. Behind(U, r, w) <= S /\ Behind(U, w, e) <= S /\ Behind(U, r, e) <= S
  BY <1>1 DEF LineSize
<1> QED
  BY <1>2, Zenon DEF IsLine, IsQueue

\* The elements of a queue.
LEMMA QueueAt ==
  ASSUME NEW U, NEW S, NEW Byte, NEW b, NEW r, NEW w, IsQueue(U, S, Byte, b, r, w)
  PROVE  IsRing(Queue(U, S, b, r, w), S, Byte, b, r, Behind(U, r, w))
<1>1. Behind(U, r, w) \in Nat /\ r \in Int
  <2>1. QueueSize(U, S, Byte, r, w, Queue(U, S, b, r, w))
    BY QueueIs, Zenon
  <2>2. Behind(U, r, w) \in 0 .. S /\ S \in Nat /\ U \in Nat /\ r \in 0 .. U - 1
    BY <2>1, Zenon DEF QueueSize, IsQueue, Wraps
  <2> QED
    BY <2>2
<1> QED
  BY <1>1, RingIsSeq, Zenon DEF IsQueue, Queue

\* A counter l behind another has the same cells after it.
LEMMA CellAfter ==
  ASSUME NEW U, NEW S, Wraps(U, S), NEW r \in 0 .. U - 1, NEW n \in 0 .. U - 1, NEW k \in Int
  PROVE  (((r + n) % U) + k) % S = (r + n + k) % S
<1>0. U \in Nat \ {0} /\ S \in Nat \ {0} /\ U % S = 0
  BY DEF Wraps
<1>1. (r + n) % U = IF r + n < U THEN r + n ELSE (r + n) - U
  BY <1>0, Advance, Zenon
<1> DEFINE q == U \div S
<1>2. q \in Int /\ U = S * q + 0
  BY <1>0, DivMod
<1> HIDE DEF q
<1>3. CASE r + n < U
  BY <1>1, <1>3, Zenon
<1>4. CASE ~(r + n < U)
  <2>1. ((r + n) - U) + k \in Int /\ r + n + k = S * q + (((r + n) - U) + k)
    BY <1>0, <1>2, SMT
  <2>2. (S * q + (((r + n) - U) + k)) % S = (((r + n) - U) + k) % S
    BY <1>0, <1>2, <2>1, ModPeriod, Zenon
  <2> QED
    BY <1>1, <1>4, <2>1, <2>2, Zenon
<1> QED
  BY <1>3, <1>4, Zenon

\* The whole is made of the complete lines and the last one.
LEMMA LineJoins ==
  ASSUME NEW U, NEW S, NEW Byte, NEW b, NEW r, NEW w, NEW e, IsLine(U, S, Byte, b, r, w, e)
  PROVE  Joins(Queue(U, S, b, r, e), Queue(U, S, b, r, w), Queue(U, S, b, w, e))
<1> DEFINE d == Behind(U, r, w)
           l == Behind(U, w, e)
           all == Behind(U, r, e)
           s == Queue(U, S, b, r, e)
           t == Queue(U, S, b, r, w)
           u == Queue(U, S, b, w, e)
<1>0. /\ U \in Nat \ {0} /\ S \in Nat \ {0} /\ U > S
      /\ d \in 0 .. S /\ l \in 0 .. S /\ all \in 0 .. S /\ all = d + l
      /\ r \in 0 .. U - 1 /\ w \in 0 .. U - 1 /\ Wraps(U, S)
  <2>1. LineSize(U, S, d, l, all)
    BY LineIs, Zenon
  <2> QED
    BY <2>1, Zenon DEF LineSize, IsLine
<1>1. IsRing(s, S, Byte, b, r, all) /\ IsRing(t, S, Byte, b, r, d) /\ IsRing(u, S, Byte, b, w, l)
  BY LineQueues, QueueAt, Zenon
<1>2. w = (r + d) % U /\ d \in 0 .. U - 1
  <2>1. Apart(U, S, r, w, d)
    BY <1>0, Distance, Zenon
  <2> QED
    BY <2>1, Zenon DEF Apart
<1> HIDE DEF d, l, all, s, t, u
<1>3. /\ s \in Seq(Byte) /\ Len(s) = all
      /\ t \in Seq(Byte) /\ Len(t) = d
      /\ u \in Seq(Byte) /\ Len(u) = l
  BY <1>1, Zenon DEF IsRing
<1>4. /\ t \o u \in Seq(Byte) /\ Len(t \o u) = all
      /\ \A k \in 1 .. all : (t \o u)[k] = IF k <= d THEN t[k] ELSE u[k - d]
  BY <1>0, <1>3, ConcatProperties
<1>5. ASSUME NEW k \in 1 .. all PROVE s[k] = (t \o u)[k]
  <2>0. s[k] = b[(r + k - 1) % S]
    BY <1>1, Zenon DEF IsRing
  <2>1. CASE k <= d
    <3>1. k \in 1 .. d
      BY <1>0, <2>1
    <3>2. t[k] = b[(r + k - 1) % S]
      BY <1>1, <3>1, Zenon DEF IsRing
    <3> QED
      BY <1>4, <2>0, <2>1, <3>2, Zenon
  <2>2. CASE ~(k <= d)
    <3>1. /\ k - d \in 1 .. l /\ w + (k - d) - 1 = w + (k - d - 1) /\ k - d - 1 \in Int
          /\ r + d + (k - d - 1) = r + k - 1
      BY <1>0, <2>2
    <3>2. u[k - d] = b[(w + (k - d) - 1) % S]
      BY <1>1, <3>1, Zenon DEF IsRing
    <3>3. ASSUME NEW j \in Int PROVE (((r + d) % U) + j) % S = (r + d + j) % S
      <4>1. Wraps(U, S) /\ r \in 0 .. U - 1 /\ d \in 0 .. U - 1
        BY <1>0, <1>2, Zenon
      <4> QED
        BY <4>1, CellAfter, Zenon
    <3> QED
      BY <1>2, <1>4, <2>0, <2>2, <3>1, <3>2, <3>3, Zenon
  <2> QED
    BY <2>1, <2>2, Zenon
<1>6. s = t \o u
  BY <1>3, <1>4, <1>5, SeqEqual, Zenon
<1> QED
  BY <1>6, Zenon DEF Joins, s, t, u

\* What becomes of them as a byte is typed.
LineTypes(U, S, Byte, b, r, w, e, c) ==
  /\ IsLine(U, S, Byte, [b EXCEPT ![e % S] = c], r, w, (e + 1) % U)
  /\ Queue(U, S, [b EXCEPT ![e % S] = c], r, w) = Queue(U, S, b, r, w)
  /\ Queue(U, S, [b EXCEPT ![e % S] = c], w, (e + 1) % U) = Append(Queue(U, S, b, w, e), c)
  /\ Behind(U, r, (e + 1) % U) = Behind(U, r, w) + (Behind(U, w, e) + 1)

\* A byte is typed where there is room.
LEMMA LineType ==
  ASSUME NEW U, NEW S, NEW Byte, NEW b, NEW r, NEW w, NEW e, IsLine(U, S, Byte, b, r, w, e),
         Behind(U, r, e) < S, NEW c \in Byte
  PROVE  LineTypes(U, S, Byte, b, r, w, e, c)
<1> DEFINE d == Behind(U, r, w)
           l == Behind(U, w, e)
           all == Behind(U, r, e)
           f == [b EXCEPT ![e % S] = c]
           g == (e + 1) % U
<1>0. /\ U \in Nat \ {0} /\ S \in Nat \ {0} /\ U > S
      /\ d \in 0 .. S /\ l \in 0 .. S /\ all \in 0 .. S /\ all = d + l /\ all < S
      /\ r \in 0 .. U - 1 /\ w \in 0 .. U - 1 /\ e \in 0 .. U - 1
      /\ Wraps(U, S) /\ BufferOf(S, Byte, b)
  <2>1. LineSize(U, S, d, l, all)
    BY LineIs, Zenon
  <2> QED
    BY <2>1, Zenon DEF LineSize, IsLine
<1>1. Apart(U, S, r, e, all) /\ Apart(U, S, w, e, l)
  BY <1>0, Distance, Zenon
<1>2. /\ e = (r + all) % U /\ all \in 0 .. U - 1 /\ g \in 0 .. U - 1
      /\ e = (w + S) % U <=> l = S
      /\ all < U - 1 => Behind(U, r, g) = all + 1
      /\ l < U - 1 => Behind(U, w, g) = l + 1
  BY <1>1, Zenon DEF Apart
<1>3. BufferOf(S, Byte, f)
  BY <1>0, Zenon DEF BufferOf
<1>4. b \in [0 .. S - 1 -> Byte]
  BY <1>0, Zenon DEF BufferOf
<1> HIDE DEF d, l, all, g
<1>5. /\ Behind(U, r, g) = all + 1 /\ Behind(U, w, g) = l + 1 /\ e # (w + S) % U
      /\ all + 1 = d + (l + 1) /\ d + (l + 1) <= S
  BY <1>0, <1>2
<1>6. IsLine(U, S, Byte, f, r, w, g)
  <2> HIDE DEF f
  <2> QED
    BY <1>0, <1>2, <1>3, <1>5, Zenon DEF IsLine, d
<1>7. Queue(U, S, f, w, g) = Append(Queue(U, S, b, w, e), c)
  <2>1. IsQueue(U, S, Byte, b, w, e)
    BY LineQueues, Zenon
  <2>2. QueuePuts(U, S, Byte, b, w, e, c)
    BY <1>5, <2>1, QueuePut, Zenon
  <2> QED
    BY <2>2, Zenon DEF QueuePuts, g
<1>8. Ring(S, f, r, d) = Ring(S, b, r, d)
  <2>1. e % S = (r + all) % S
    BY <1>0, <1>2, SameCell, Zenon
  <2>2. ASSUME NEW k \in 1 .. d PROVE f[(r + k - 1) % S] = b[(r + k - 1) % S]
    <3>1. /\ r + k - 1 \in Int /\ r + all \in Int
          /\ r + k - 1 < r + all /\ (r + all) - (r + k - 1) < S
      BY <1>0
    <3>2. (r + k - 1) % S # (r + all) % S
      BY <1>0, <3>1, ModDistinct, Zenon
    <3>3. (r + k - 1) % S \in 0 .. S - 1
      BY <1>0, <3>1, DivMod
    <3> QED
      BY <1>4, <2>1, <3>2, <3>3, Zenon
  <2> HIDE DEF f
  <2> QED
    BY <2>2, Zenon DEF Ring
<1> HIDE DEF f
<1>9. Queue(U, S, f, r, w) = Queue(U, S, b, r, w)
  BY <1>8, Zenon DEF Queue, d
<1> QED
  BY <1>5, <1>6, <1>7, <1>9, Zenon DEF LineTypes, f, g, d, l

\* A line that is complete is read with the others, and the next one is empty.
LEMMA LineCommit ==
  ASSUME NEW U, NEW S, NEW Byte, NEW b, NEW r, NEW w, NEW e, IsLine(U, S, Byte, b, r, w, e)
  PROVE  /\ IsLine(U, S, Byte, b, r, e, e) /\ Nothing(Queue(U, S, b, e, e))
         /\ Joins(Queue(U, S, b, r, e), Queue(U, S, b, r, w), Queue(U, S, b, w, e))
<1>0. /\ Wraps(U, S) /\ BufferOf(S, Byte, b) /\ r \in 0 .. U - 1 /\ e \in 0 .. U - 1
      /\ U \in Nat \ {0} /\ S \in Nat \ {0}
  BY DEF IsLine, Wraps
<1>1. Behind(U, e, e) = 0
  <2>1. Apart(U, S, e, e, Behind(U, e, e))
    BY <1>0, Distance, Zenon
  <2> QED
    BY <2>1, Zenon DEF Apart
<1>2. Behind(U, r, e) + 0 <= S
  <2>1. LineSize(U, S, Behind(U, r, w), Behind(U, w, e), Behind(U, r, e))
    BY LineIs, Zenon
  <2> QED
    BY <2>1 DEF LineSize
<1>3. IsLine(U, S, Byte, b, r, e, e)
  BY <1>0, <1>1, <1>2, Zenon DEF IsLine
<1>4. IsRing(Queue(U, S, b, e, e), S, Byte, b, e, 0)
  <2>1. IsRing(Queue(U, S, b, e, e), S, Byte, b, e, Behind(U, e, e))
    BY <1>3, LineQueues, QueueAt, Zenon
  <2> QED
    BY <1>1, <2>1, Zenon
<1>5. Queue(U, S, b, e, e) \in Seq(Byte) /\ Len(Queue(U, S, b, e, e)) = 0
  BY <1>4, Zenon DEF IsRing
<1>6. Nothing(Queue(U, S, b, e, e))
  <2> HIDE DEF Queue
  <2> QED
    BY <1>5, EmptySeq DEF Nothing
<1> QED
  BY <1>3, <1>6, LineJoins, Zenon

\* A sequence without its last element.
ButLasts(Byte, t, m) ==
  /\ SubSeq(t, 1, m) \in Seq(Byte) /\ Len(SubSeq(t, 1, m)) = m
  /\ \A k \in 1 .. m : SubSeq(t, 1, m)[k] = t[k]

\* It is one shorter and has the same elements.
LEMMA ButLast ==
  ASSUME NEW Byte, NEW t \in Seq(Byte), t # <<>>
  PROVE  ButLasts(Byte, t, Len(t) - 1)
<1> DEFINE m == Len(t) - 1
<1>1. m \in Int /\ m >= 0 /\ 1 \in Int /\ \A k \in 1 .. m : t[k] \in Byte
  <2>1. Len(t) \in Nat /\ Len(t) # 0 /\ \A k \in 1 .. Len(t) : t[k] \in Byte
    OBVIOUS
  <2> QED
    BY <2>1
<1> HIDE DEF m
<1>2. /\ SubSeq(t, 1, m) \in Seq(Byte)
      /\ Len(SubSeq(t, 1, m)) = IF 1 <= m THEN m - 1 + 1 ELSE 0
      /\ \A k \in 1 .. m - 1 + 1 : SubSeq(t, 1, m)[k] = t[1 + k - 1]
  BY <1>1, SubSeqProperties
<1>3. Len(SubSeq(t, 1, m)) = m
  BY <1>1, <1>2
<1>4. ASSUME NEW k \in 1 .. m PROVE SubSeq(t, 1, m)[k] = t[k]
  <2>1. k \in 1 .. m - 1 + 1 /\ 1 + k - 1 = k
    BY <1>1
  <2> QED
    BY <1>2, <2>1, Zenon
<1> QED
  BY <1>2, <1>3, <1>4, Zenon DEF ButLasts, m

\* The last byte of a line that is not empty can be taken back.
LEMMA LineErase ==
  ASSUME NEW U, NEW S, NEW Byte, NEW b, NEW r, NEW w, NEW e, IsLine(U, S, Byte, b, r, w, e),
         e # w
  PROVE  /\ IsLine(U, S, Byte, b, r, w, (e + U - 1) % U)
         /\ Shortens(Queue(U, S, b, w, (e + U - 1) % U), Queue(U, S, b, w, e))
<1> DEFINE d == Behind(U, r, w)
           l == Behind(U, w, e)
           g == (e + U - 1) % U
           s == Queue(U, S, b, w, g)
           t == Queue(U, S, b, w, e)
<1>0. /\ U \in Nat \ {0} /\ S \in Nat \ {0} /\ U > S
      /\ d \in 0 .. S /\ l \in 0 .. S /\ d + l <= S
      /\ r \in 0 .. U - 1 /\ w \in 0 .. U - 1 /\ e \in 0 .. U - 1
      /\ Wraps(U, S) /\ BufferOf(S, Byte, b)
  <2>1. LineSize(U, S, d, l, Behind(U, r, e))
    BY LineIs, Zenon
  <2> QED
    BY <2>1, Zenon DEF LineSize, IsLine
<1>1. l = IF e < w THEN e + U - w ELSE e - w
  BY <1>0, BehindIs, Zenon
<1>2. g = (IF e = 0 THEN U - 1 ELSE e - 1) /\ g \in 0 .. U - 1
  <2>1. e + U - 1 \in 0 .. 2 * U - 1
    BY <1>0
  <2>2. g = IF e + U - 1 < U THEN e + U - 1 ELSE (e + U - 1) - U
    BY <1>0, <2>1, ModTwice, Zenon
  <2> HIDE DEF g
  <2> QED
    BY <1>0, <2>2
<1> HIDE DEF g
<1>3. Behind(U, w, g) = IF g < w THEN g + U - w ELSE g - w
  BY <1>0, <1>2, BehindIs, Zenon
<1> HIDE DEF d, l
<1>4. /\ Behind(U, w, g) = l - 1 /\ d + (l - 1) <= S /\ l > 0
      /\ l - 1 \in Nat
  BY <1>0, <1>1, <1>2, <1>3
<1>5. IsLine(U, S, Byte, b, r, w, g)
  BY <1>0, <1>2, <1>4, Zenon DEF IsLine, d
<1>6. IsRing(s, S, Byte, b, w, l - 1) /\ IsRing(t, S, Byte, b, w, l)
  <2>1. IsRing(s, S, Byte, b, w, Behind(U, w, g)) /\ IsRing(t, S, Byte, b, w, l)
    BY <1>5, LineQueues, QueueAt, Zenon DEF l
  <2> QED
    BY <1>4, <2>1, Zenon
<1> HIDE DEF s, t
<1>7. /\ s \in Seq(Byte) /\ Len(s) = l - 1 /\ t \in Seq(Byte) /\ Len(t) = l
      /\ \A k \in 1 .. l - 1 : s[k] = b[(w + k - 1) % S]
      /\ \A k \in 1 .. l : t[k] = b[(w + k - 1) % S]
  BY <1>6, Zenon DEF IsRing
<1>8. t # <<>>
  BY <1>4, <1>7
<1>9. ASSUME NEW k \in 1 .. l - 1 PROVE t[k] \in Byte /\ s[k] = t[k]
  <2>1. k \in 1 .. l
    BY <1>0
  <2> QED
    BY <1>7, <2>1
<1>10. /\ SubSeq(t, 1, l - 1) \in Seq(Byte) /\ Len(SubSeq(t, 1, l - 1)) = l - 1
       /\ \A k \in 1 .. l - 1 : SubSeq(t, 1, l - 1)[k] = t[k]
  <2>1. ButLasts(Byte, t, Len(t) - 1)
    BY <1>7, <1>8, ButLast, Zenon
  <2> QED
    BY <1>7, <2>1, Zenon DEF ButLasts
<1>11. s = SubSeq(t, 1, l - 1)
  BY <1>7, <1>9, <1>10, SeqEqual, Zenon
<1> QED
  BY <1>5, <1>7, <1>8, <1>11, Zenon DEF Shortens, s, t, g

\* A line can be thrown away.
LEMMA LineKill ==
  ASSUME NEW U, NEW S, NEW Byte, NEW b, NEW r, NEW w, NEW e, IsLine(U, S, Byte, b, r, w, e)
  PROVE  /\ (e + U - Behind(U, w, e)) % U = w
         /\ IsLine(U, S, Byte, b, r, w, w) /\ Nothing(Queue(U, S, b, w, w))
<1> DEFINE l == Behind(U, w, e)
<1>0. /\ U \in Nat \ {0} /\ S \in Nat \ {0} /\ U > S
      /\ r \in 0 .. U - 1 /\ w \in 0 .. U - 1 /\ e \in 0 .. U - 1
      /\ Wraps(U, S) /\ BufferOf(S, Byte, b) /\ Behind(U, r, w) <= S
      /\ l \in 0 .. S /\ Behind(U, r, w) \in 0 .. S
  <2>1. LineSize(U, S, Behind(U, r, w), l, Behind(U, r, e))
    BY LineIs, Zenon
  <2>2. IsQueue(U, S, Byte, b, r, w)
    BY LineQueues, Zenon
  <2> QED
    BY <2>1, <2>2, Zenon DEF LineSize, IsLine, IsQueue
<1>1. l = IF e < w THEN e + U - w ELSE e - w
  BY <1>0, BehindIs, Zenon
<1> HIDE DEF l
<1>2. (e + U - l) % U = w
  <2>1. e + U - l \in 0 .. 2 * U - 1
    BY <1>0, <1>1
  <2>2. (e + U - l) % U = IF e + U - l < U THEN e + U - l ELSE (e + U - l) - U
    BY <1>0, <2>1, ModTwice, Zenon
  <2>3. w = IF e + U - l < U THEN e + U - l ELSE (e + U - l) - U
    BY <1>0, <1>1
  <2> QED
    BY <2>2, <2>3, Zenon
<1>3. Behind(U, w, w) = 0
  <2>1. Apart(U, S, w, w, Behind(U, w, w))
    BY <1>0, Distance, Zenon
  <2> QED
    BY <2>1, Zenon DEF Apart
<1>4. IsLine(U, S, Byte, b, r, w, w)
  <2>1. Behind(U, r, w) + 0 <= S
    BY <1>0
  <2> QED
    BY <1>0, <1>3, <2>1, Zenon DEF IsLine
<1> QED
  BY <1>2, <1>4, LineCommit, Zenon DEF l

\* The first byte of the complete lines can be read.
LEMMA LineRead ==
  ASSUME NEW U, NEW S, NEW Byte, NEW b, NEW r, NEW w, NEW e, IsLine(U, S, Byte, b, r, w, e),
         r # w
  PROVE  IsLine(U, S, Byte, b, (r + 1) % U, w, e) /\ QueueGets(U, S, Byte, b, r, w)
<1> DEFINE d == Behind(U, r, w)
           l == Behind(U, w, e)
<1>0. /\ U \in Nat \ {0} /\ S \in Nat \ {0} /\ U > S
      /\ r \in 0 .. U - 1 /\ w \in 0 .. U - 1 /\ e \in 0 .. U - 1
      /\ Wraps(U, S) /\ BufferOf(S, Byte, b) /\ d + l <= S
      /\ d \in 0 .. S /\ l \in 0 .. S
  <2>1. LineSize(U, S, d, l, Behind(U, r, e))
    BY LineIs, Zenon
  <2> QED
    BY <2>1, Zenon DEF LineSize, IsLine
<1>1. (d = 0 <=> r = w) /\ (r + 1) % U \in 0 .. U - 1 /\ (d > 0 => Behind(U, (r + 1) % U, w) = d - 1)
  <2>1. Apart(U, S, r, w, d)
    BY <1>0, Distance, Zenon
  <2> QED
    BY <2>1, Zenon DEF Apart
<1>2. QueueGets(U, S, Byte, b, r, w)
  <2>1. IsQueue(U, S, Byte, b, r, w)
    BY LineQueues, Zenon
  <2> QED
    BY <2>1, QueueGet, Zenon
<1> HIDE DEF d, l
<1>3. Behind(U, (r + 1) % U, w) = d - 1 /\ (d - 1) + l <= S
  BY <1>0, <1>1
<1> QED
  BY <1>0, <1>1, <1>2, <1>3, Zenon DEF IsLine, l

\* The bytes of a line, from the last one back.
At(s, i, x) == i \in 1 .. Len(s) /\ s[i] = x

\* The one j before the last is in the cell j before the last.
LEMMA LineBack ==
  ASSUME NEW U, NEW S, NEW Byte, NEW b, NEW r, NEW w, NEW e, IsLine(U, S, Byte, b, r, w, e),
         NEW j \in 0 .. Behind(U, w, e) - 1
  PROVE  At(Queue(U, S, b, w, e), Behind(U, w, e) - j, b[(e + U - j - 1) % S])
<1> DEFINE l == Behind(U, w, e)
           s == Queue(U, S, b, w, e)
<1>0. /\ U \in Nat \ {0} /\ S \in Nat \ {0} /\ U % S = 0
      /\ w \in 0 .. U - 1 /\ e \in 0 .. U - 1 /\ Wraps(U, S)
  BY DEF IsLine, Wraps
<1>1. IsRing(s, S, Byte, b, w, l)
  BY LineQueues, QueueAt, Zenon
<1>2. l \in 0 .. U - 1 /\ e = (w + l) % U
  <2>1. Apart(U, S, w, e, l)
    BY <1>0, Distance, Zenon
  <2> QED
    BY <2>1, Zenon DEF Apart
<1>3. j \in 0 .. l - 1
  BY Zenon
<1> HIDE DEF l, s
<1> DEFINE q == U \div S
           m == -j - 1
<1>4. q \in Int /\ U = S * q + 0
  BY <1>0, DivMod
<1> HIDE DEF q
<1>5. /\ l - j \in 1 .. l /\ m \in Int /\ w + (l - j) - 1 = w + l + m
      /\ e + m \in Int /\ e + U - j - 1 = S * q + (e + m)
  BY <1>0, <1>2, <1>3, <1>4
<1> HIDE DEF m
<1>6. (S * q + (e + m)) % S = (e + m) % S
  BY <1>0, <1>4, <1>5, ModPeriod, Zenon
<1>7. (((w + l) % U) + m) % S = (w + l + m) % S
  <2>1. Wraps(U, S) /\ w \in 0 .. U - 1 /\ l \in 0 .. U - 1 /\ m \in Int
    BY <1>0, <1>2, <1>5, Zenon
  <2> QED
    BY <2>1, CellAfter, Zenon
<1>8. s[l - j] = b[(w + (l - j) - 1) % S] /\ Len(s) = l
  BY <1>1, <1>5, Zenon DEF IsRing
<1>9. l - j \in 1 .. Len(s) /\ s[l - j] = b[(e + U - j - 1) % S]
  BY <1>2, <1>5, <1>6, <1>7, <1>8, Zenon
<1> QED
  BY <1>9, Zenon DEF At, l, s
=============================================================================
