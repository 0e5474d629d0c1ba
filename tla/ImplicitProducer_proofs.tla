---------------------- MODULE ImplicitProducer_proofs ----------------------
(***************************************************************************)
(* TLAPS proofs about ImplicitProducer, for any number of consumers,       *)
(* blocks, sizes and counts, and counters of any width.                    *)
(*                                                                         *)
(* History variables say what the counters, which wrap around, and the     *)
(* keys of the block index stand for: head, claimed and given count the    *)
(* elements taken, claimed and given back since the beginning; read[c] is  *)
(* given when c read it, place[c] where c's claim, or what it has taken,   *)
(* begins; number[e] is the number of the block that entry e was last      *)
(* assigned to; first[h] the block that place 0 of index h would have.     *)
(* They never restrict a step (HNext).                                     *)
(***************************************************************************)
EXTENDS ImplicitProducer, FiniteSetTheorems, SequenceTheorems, TLAPS

-------------------------------------------------------------------------------
(* Integers: quotients and remainders *)

\* What div and mod of a positive divisor are.
LEMMA Division ==
  ASSUME NEW d \in Nat \ {0}, NEW n \in Int
  PROVE  /\ n \div d \in Int /\ n % d \in 0..(d - 1)
         /\ n = d * (n \div d) + (n % d)
OBVIOUS

\* A quotient and a remainder determine each other.
LEMMA DivisionUnique ==
  ASSUME NEW d \in Nat \ {0}, NEW n \in Int, NEW q \in Int, NEW r \in 0..(d - 1),
         n = d * q + r
  PROVE  n \div d = q /\ n % d = r
<1> DEFINE p == n \div d
           s == n % d
<1>1. p \in Int /\ s \in 0..(d - 1) /\ n = d * p + s
  BY Division
<1> HIDE DEF p, s
<1>2. d * (p - q) = r - s
  BY <1>1
<1>3. ~(p - q >= 1)
  <2> SUFFICES ASSUME p - q >= 1 PROVE FALSE
    OBVIOUS
  <2>1. d * (p - q) >= d
    BY <1>1
  <2> QED BY <1>1, <1>2, <2>1
<1>4. ~(p - q <= -1)
  <2> SUFFICES ASSUME p - q <= -1 PROVE FALSE
    OBVIOUS
  <2>1. d * (p - q) <= -d
    BY <1>1
  <2> QED BY <1>1, <1>2, <2>1
<1>5. p = q
  BY <1>1, <1>3, <1>4
<1> QED BY <1>1, <1>2, <1>5 DEF p, s

\* A remainder does not see multiples of the divisor.
LEMMA ModShift ==
  ASSUME NEW d \in Nat \ {0}, NEW n \in Int, NEW k \in Int
  PROVE  (n + d * k) % d = n % d
<1> DEFINE p == n \div d
           r == n % d
<1>1. p \in Int /\ r \in 0..(d - 1) /\ n = d * p + r
  BY Division
<1> HIDE DEF p, r
<1>2. n + d * k \in Int /\ p + k \in Int /\ n + d * k = d * (p + k) + r
  BY <1>1
<1>3. (n + d * k) % d = r
  BY <1>1, <1>2, DivisionUnique
<1> QED BY <1>3 DEF r

\* Remainders of sums and differences.
LEMMA ModSum ==
  ASSUME NEW d \in Nat \ {0}, NEW a \in Int, NEW b \in Int
  PROVE  /\ ((a % d) + b) % d = (a + b) % d
         /\ (a + (b % d)) % d = (a + b) % d
         /\ (a - (b % d)) % d = (a - b) % d
         /\ ((a % d) - b) % d = (a - b) % d
         /\ ((a % d) - (b % d)) % d = (a - b) % d
<1> DEFINE p == a \div d
           q == b \div d
<1>1. p \in Int /\ q \in Int /\ a % d \in Int /\ b % d \in Int
      /\ a = d * p + (a % d) /\ b = d * q + (b % d)
  BY Division
<1> HIDE DEF p, q
<1>2. (a + b) = ((a % d) + b) + d * p
  BY <1>1
<1>3. (a + b) = (a + (b % d)) + d * q
  BY <1>1
<1>4. (a - (b % d)) = (a - b) + d * q
  BY <1>1
<1>5. (a - b) = ((a % d) - b) + d * p
  BY <1>1
<1>6. ((a % d) - (b % d)) = ((a % d) - b) + d * q
  BY <1>1
<1>7. ((a % d) + b) \in Int /\ (a + (b % d)) \in Int /\ (a - b) \in Int /\ (a % d) - b \in Int /\ a - (b % d) \in Int
  BY <1>1
<1>8. (a + b) % d = ((a % d) + b) % d
  <2>1. (((a % d) + b) + d * p) % d = ((a % d) + b) % d
    BY <1>1, <1>7, ModShift
  <2> QED BY <2>1, <1>2
<1>9. (a + b) % d = (a + (b % d)) % d
  <2>1. ((a + (b % d)) + d * q) % d = (a + (b % d)) % d
    BY <1>1, <1>7, ModShift
  <2> QED BY <2>1, <1>3
<1>10. (a - (b % d)) % d = (a - b) % d
  <2>1. ((a - b) + d * q) % d = (a - b) % d
    BY <1>1, <1>7, ModShift
  <2> QED BY <2>1, <1>4
<1>11. (a - b) % d = ((a % d) - b) % d
  <2>1. (((a % d) - b) + d * p) % d = ((a % d) - b) % d
    BY <1>1, <1>7, ModShift
  <2> QED BY <2>1, <1>5
<1>12. ((a % d) - (b % d)) % d = ((a % d) - b) % d
  <2>1. (((a % d) - b) + d * q) % d = ((a % d) - b) % d
    BY <1>1, <1>7, ModShift
  <2> QED BY <2>1, <1>6
<1> QED BY <1>8, <1>9, <1>10, <1>11, <1>12

\* The remainder of what is at most one divisor away from its range.
LEMMA ModSmall ==
  ASSUME NEW d \in Nat \ {0}, NEW n \in Int
  PROVE  /\ 0 <= n /\ n < d => n % d = n
         /\ -d <= n /\ n < 0 => n % d = n + d
         /\ 0 <= n => n % d <= n
<1>1. 0 <= n /\ n < d => n % d = n
  <2> SUFFICES ASSUME 0 <= n, n < d PROVE n % d = n
    OBVIOUS
  <2>1. n = d * 0 + n /\ n \in 0..(d - 1)
    OBVIOUS
  <2> QED BY <2>1, DivisionUnique
<1>2. -d <= n /\ n < 0 => n % d = n + d
  <2> SUFFICES ASSUME -d <= n, n < 0 PROVE n % d = n + d
    OBVIOUS
  <2>1. n = d * (-1) + (n + d) /\ n + d \in 0..(d - 1)
    OBVIOUS
  <2> QED BY <2>1, DivisionUnique
<1>3. 0 <= n => n % d <= n
  <2> SUFFICES ASSUME 0 <= n, ~(n < d) PROVE n % d <= n
    BY <1>1
  <2> QED BY Division
<1> QED BY <1>1, <1>2, <1>3

-------------------------------------------------------------------------------
(* Blocks of elements *)

\* The number of an index's block, and the first index of a block.
Num(i) == i \div BLOCK_SIZE
From(q) == q * BLOCK_SIZE
\* Half the range of the counters: what circular_less_than can tell apart.
Half == W \div 2

\* What the sizes assumed give: W is twice a multiple of BLOCK_SIZE.
LEMMA SizeFacts ==
  /\ BLOCK_SIZE \in Nat \ {0} /\ BLOCK_SIZE > 1 /\ W \in Nat \ {0} /\ Half \in Nat \ {0}
  /\ W = 2 * Half /\ \E k \in Nat \ {0} : Half = k * BLOCK_SIZE
  /\ Half >= BLOCK_SIZE /\ Half > 1 /\ Start \in Nat
<1>1. BLOCK_SIZE \in Nat \ {0} /\ BLOCK_SIZE > 1 /\ W \in Nat /\ Start \in Nat
  BY SizesFit
<1>2. PICK k \in 1..W : W = k * (2 * BLOCK_SIZE)
  BY SizesFit DEF Multiple
<1>3. k \in Nat \ {0} /\ k * BLOCK_SIZE \in Nat /\ W = 2 * (k * BLOCK_SIZE)
  BY <1>1, <1>2
<1>4. k * BLOCK_SIZE >= BLOCK_SIZE
  BY <1>1, <1>3
<1>5. Half = k * BLOCK_SIZE
  BY <1>1, <1>3 DEF Half
<1> QED BY <1>1, <1>3, <1>4, <1>5

\* Blocks lie one after the other, in the order of their numbers.
LEMMA FromFacts ==
  /\ From(0) = 0
  /\ \A q \in Int : From(q) \in Int /\ From(q + 1) = From(q) + BLOCK_SIZE
                    /\ From(q) = BLOCK_SIZE * q
  /\ \A p, q \in Int : From(p + q) = From(p) + From(q) /\ From(p - q) = From(p) - From(q)
  /\ \A p, q \in Int : (p < q <=> From(p) < From(q)) /\ (p <= q <=> From(p) <= From(q))
                       /\ (p < q => From(p) + BLOCK_SIZE <= From(q))
<1>0. BLOCK_SIZE \in Nat \ {0} /\ BLOCK_SIZE > 1
  BY SizeFacts
<1>1. From(0) = 0
  BY <1>0 DEF From
<1>2. ASSUME NEW q \in Int
      PROVE  From(q) \in Int /\ From(q + 1) = From(q) + BLOCK_SIZE /\ From(q) = BLOCK_SIZE * q
  BY <1>0 DEF From
<1>3. ASSUME NEW p \in Int, NEW q \in Int
      PROVE  From(p + q) = From(p) + From(q) /\ From(p - q) = From(p) - From(q)
  BY <1>0 DEF From
<1>4. ASSUME NEW p \in Int, NEW q \in Int, p < q
      PROVE  From(p) + BLOCK_SIZE <= From(q)
  <2>1. q - p - 1 \in Nat
    BY <1>4
  <2>2. From(q - p - 1) = From(q) - From(p) - From(1) /\ From(1) = BLOCK_SIZE /\ From(q - p - 1) >= 0
    BY <1>0, <2>1, <1>4 DEF From
  <2> QED BY <2>2, <1>2, <1>0
<1>5. ASSUME NEW p \in Int, NEW q \in Int
      PROVE  (p < q <=> From(p) < From(q)) /\ (p <= q <=> From(p) <= From(q))
  <2>1. p < q \/ p = q \/ q < p
    OBVIOUS
  <2>2. CASE p < q
    BY <2>2, <1>4, <1>2, <1>0
  <2>3. CASE q < p
    BY <2>3, <1>4, <1>2, <1>0
  <2>4. CASE p = q
    BY <2>4, <1>2
  <2> QED BY <2>1, <2>2, <2>3, <2>4
<1> QED BY <1>1, <1>2, <1>3, <1>4, <1>5

\* An index is its block's first one and an offset.
LEMMA NumFacts ==
  /\ \A i \in Int : /\ Num(i) \in Int /\ From(Num(i)) <= i /\ i < From(Num(i)) + BLOCK_SIZE
                    /\ i % BLOCK_SIZE \in Offsets /\ i = From(Num(i)) + (i % BLOCK_SIZE)
                    /\ Base(i) = From(Num(i))
  /\ \A q \in Int, o \in Offsets : Num(From(q) + o) = q /\ (From(q) + o) % BLOCK_SIZE = o
                                   /\ Base(From(q) + o) = From(q)
<1>0. BLOCK_SIZE \in Nat \ {0}
  BY SizeFacts
<1>1. ASSUME NEW i \in Int
      PROVE  /\ Num(i) \in Int /\ From(Num(i)) <= i /\ i < From(Num(i)) + BLOCK_SIZE
             /\ i % BLOCK_SIZE \in Offsets /\ i = From(Num(i)) + (i % BLOCK_SIZE)
             /\ Base(i) = From(Num(i))
  <2>1. /\ Num(i) \in Int /\ i % BLOCK_SIZE \in 0..(BLOCK_SIZE - 1)
        /\ i = BLOCK_SIZE * Num(i) + (i % BLOCK_SIZE)
    BY <1>0, Division DEF Num
  <2>2. From(Num(i)) \in Int /\ From(Num(i)) = BLOCK_SIZE * Num(i)
    BY <2>1, FromFacts
  <2> QED BY <2>1, <2>2, <1>0 DEF Offsets, Base
<1>2. ASSUME NEW q \in Int, NEW o \in Offsets
      PROVE  Num(From(q) + o) = q /\ (From(q) + o) % BLOCK_SIZE = o /\ Base(From(q) + o) = From(q)
  <2>1. From(q) \in Int /\ From(q) = BLOCK_SIZE * q /\ o \in 0..(BLOCK_SIZE - 1)
    BY FromFacts DEF Offsets
  <2>2. From(q) + o \in Int /\ From(q) + o = BLOCK_SIZE * q + o
    BY <2>1, <1>0
  <2>3. (From(q) + o) \div BLOCK_SIZE = q /\ (From(q) + o) % BLOCK_SIZE = o
    BY <2>1, <2>2, <1>0, DivisionUnique
  <2> QED BY <2>1, <2>2, <2>3, <1>0 DEF Num, Base
<1> QED BY <1>1, <1>2

\* Where an index is among the blocks.
LEMMA NumIs ==
  ASSUME NEW i \in Int, NEW q \in Int
  PROVE  /\ Num(i) = q <=> From(q) <= i /\ i < From(q + 1)
         /\ Num(i) <= q <=> i < From(q + 1)
         /\ Num(i) >= q <=> From(q) <= i
         /\ Num(i) < q <=> i < From(q)
<1> DEFINE n == Num(i)
<1>2. n \in Int /\ From(n) <= i /\ i < From(n) + BLOCK_SIZE
  BY NumFacts
<1> HIDE DEF n
<1>a. q + 1 \in Int /\ From(n) \in Int /\ From(q) \in Int /\ BLOCK_SIZE \in Nat \ {0}
  BY <1>2, FromFacts, SizeFacts
<1>b. From(q + 1) \in Int
  BY <1>a, FromFacts
<1>1. n \in Int /\ From(n) \in Int /\ From(q) \in Int /\ From(q + 1) \in Int
      /\ n + 1 \in Int /\ q + 1 \in Int /\ BLOCK_SIZE \in Nat \ {0}
  BY <1>2, <1>a, <1>b
<1>3. From(q + 1) = From(q) + BLOCK_SIZE
  BY FromFacts
<1>4. n < q => From(n) + BLOCK_SIZE <= From(q)
  BY <1>1, FromFacts
<1>5. q < n => From(q) + BLOCK_SIZE <= From(n)
  BY <1>1, FromFacts
<1>6. n = q => From(n) = From(q)
  OBVIOUS
<1>7. /\ n = q <=> From(q) <= i /\ i < From(q + 1)
      /\ n <= q <=> i < From(q + 1)
      /\ n >= q <=> From(q) <= i
      /\ n < q <=> i < From(q)
  BY <1>1, <1>2, <1>3, <1>4, <1>5, <1>6
<1> QED BY <1>7 DEF n

-------------------------------------------------------------------------------
(* Counters that wrap around *)

\* Arithmetic on wrapped counters is that on the counts, wrapped.
LEMMA Wrapped ==
  ASSUME NEW x \in Int, NEW y \in Int
  PROVE  /\ x % W \in Indexes
         /\ Minus(x % W, y % W) = (x - y) % W /\ Plus(x % W, y % W) = (x + y) % W
         /\ Minus(x % W, y) = (x - y) % W /\ Plus(x % W, y) = (x + y) % W
         /\ Minus(x, y % W) = (x - y) % W
         /\ Minus(x, y) \in Indexes /\ Plus(x, y) \in Indexes
<1>1. W \in Nat \ {0}
  BY SizeFacts
<1>2. x - y \in Int /\ x + y \in Int
  OBVIOUS
<1>3. x % W \in 0..(W - 1) /\ (x - y) % W \in 0..(W - 1) /\ (x + y) % W \in 0..(W - 1) /\ y % W \in 0..(W - 1)
  BY <1>1, <1>2, Division
<1>4. /\ ((x % W) - (y % W)) % W = (x - y) % W
      /\ ((x % W) - y) % W = (x - y) % W /\ ((x % W) + y) % W = (x + y) % W
      /\ (x - (y % W)) % W = (x - y) % W
  BY <1>1, ModSum
<1>5. ((x % W) + (y % W)) % W = ((x % W) + y) % W
  <2> DEFINE r == x % W
  <2>1. r \in Int
    BY <1>1, <1>3
  <2> HIDE DEF r
  <2>2. (r + (y % W)) % W = (r + y) % W
    BY <1>1, <2>1, ModSum
  <2> QED BY <2>2 DEF r
<1> QED BY <1>3, <1>4, <1>5 DEF Minus, Plus, Indexes

\* Wrapping a counter keeps its offset, since W is a multiple of BLOCK_SIZE.
LEMMA WrappedBase ==
  ASSUME NEW x \in Int
  PROVE  (x % W) % BLOCK_SIZE = x % BLOCK_SIZE /\ Base(x % W) = From(Num(x)) % W
<1> DEFINE t == x \div W
           r == x % W
           o == x % BLOCK_SIZE
           q == Num(x)
<1>1. t \in Int /\ r \in 0..(W - 1) /\ x = W * t + r /\ W \in Nat \ {0}
  BY SizeFacts, Division
<1>2. BLOCK_SIZE \in Nat \ {0} /\ o \in 0..(BLOCK_SIZE - 1) /\ x = From(q) + o
      /\ q \in Int /\ From(q) \in Int
  BY SizeFacts, NumFacts, FromFacts DEF Offsets
<1>3. PICK k \in Nat \ {0} : Half = k * BLOCK_SIZE /\ W = 2 * Half
  BY SizeFacts
<1> DEFINE m == (2 * k) * t
<1>4. m \in Int /\ x = r + BLOCK_SIZE * m
  <2>1. W * t = BLOCK_SIZE * m
    BY <1>1, <1>2, <1>3
  <2> HIDE DEF t, r, m
  <2> QED BY <2>1, <1>1 DEF m
<1>5. (r + BLOCK_SIZE * m) % BLOCK_SIZE = r % BLOCK_SIZE
  <2>1. r \in Int /\ m \in Int /\ BLOCK_SIZE \in Nat \ {0}
    BY <1>1, <1>2, <1>4
  <2> HIDE DEF m, r
  <2> QED BY <2>1, ModShift
<1>6. r % BLOCK_SIZE = o
  BY <1>4, <1>5
<1> HIDE DEF t, r, o, q, m
<1>7. Base(r) = r - o
  BY <1>6 DEF Base
<1>8. r >= o
  BY <1>6, <1>1, <1>2, ModSmall
<1>9. From(q) = W * t + (r - o) /\ r - o \in 0..(W - 1)
  <2>1. W * t \in Int
    BY <1>1
  <2> QED BY <2>1, <1>1, <1>2, <1>8
<1>10. From(q) % W = r - o
  BY <1>9, <1>1, <1>2, DivisionUnique
<1> QED BY <1>6, <1>7, <1>10 DEF r, o, q

\* The distance between the blocks of two indexes that are less than half the
\* range apart.
LEMMA Between ==
  ASSUME NEW x \in Int, NEW y \in Int,
         -Half <= From(Num(y) - Num(x)), From(Num(y) - Num(x)) < Half
  PROVE  BlocksBetween(x % W, y % W) = Num(y) - Num(x)
<1> DEFINE p == Num(x)
           q == Num(y)
           d == From(q - p)
<1>1. p \in Int /\ q \in Int
  BY NumFacts
<1>2. Base(x % W) = From(p) % W /\ Base(y % W) = From(q) % W
  BY WrappedBase
<1>3. -Half <= d /\ d < Half
  OBVIOUS
<1>s. W \in Nat \ {0} /\ Half \in Nat /\ W = 2 * Half /\ BLOCK_SIZE \in Nat \ {0}
  BY SizeFacts
<1> HIDE DEF p, q
<1>4. From(p) \in Int /\ From(q) \in Int /\ d \in Int /\ d = From(q) - From(p) /\ q - p \in Int /\ d = BLOCK_SIZE * (q - p) + 0
  <2>1. q - p \in Int
    BY <1>1
  <2>2. From(p) \in Int /\ From(q) \in Int /\ d \in Int /\ d = BLOCK_SIZE * (q - p)
    BY <1>1, <2>1, FromFacts
  <2>3. d = From(q) - From(p)
    BY <1>1, FromFacts
  <2> HIDE DEF d
  <2>4. d + 0 = d
    BY <2>2
  <2> QED BY <2>1, <2>2, <2>3, <2>4
<1> HIDE DEF d
<1>5. Minus(Base(y % W), Base(x % W)) = d % W
  BY <1>2, <1>4, Wrapped
<1>6. Signed(d % W) = d
  <2>1. CASE d >= 0
    <3>0. d \in Int /\ 0 <= d /\ d < W
      BY <2>1, <1>s, <1>3, <1>4
    <3>1. d % W = d
      BY <3>0, <1>s, ModSmall
    <3> QED BY <3>1, <1>s, <1>3, <1>4 DEF Signed, Half
  <2>2. CASE d < 0
    <3>1. d % W = d + W
      BY <2>2, <1>s, <1>3, <1>4, ModSmall, SMTT(40)
    <3> QED BY <3>1, <2>2, <1>s, <1>3, <1>4 DEF Signed, Half
  <2> QED BY <2>1, <2>2, <1>4
<1>7. d \div BLOCK_SIZE = q - p
  <2>1. 0 \in 0..(BLOCK_SIZE - 1)
    BY <1>s
  <2> QED BY <2>1, <1>4, <1>s, DivisionUnique
<1>8. BlocksBetween(x % W, y % W) = q - p
  BY <1>5, <1>6, <1>7 DEF BlocksBetween
<1> QED BY <1>8 DEF p, q

\* circular_less_than of wrapped counters that are near enough to compare.
LEMMA CircularLess ==
  ASSUME NEW x \in Int, NEW y \in Int, -Half <= y - x, y - x < W
  PROVE  circular_less_than(x % W, y % W) <=> 0 < y - x /\ y - x < Half
<1> DEFINE d == x - y
<1>1. Minus(x % W, y % W) = d % W
  BY Wrapped
<1>s. W \in Nat \ {0} /\ Half \in Nat \ {0} /\ W = 2 * Half
  BY SizeFacts
<1>2. d \in Int /\ d <= Half /\ -W < d
  BY <1>s
<1>3. circular_less_than(x % W, y % W) <=> d % W > Half
  BY <1>1 DEF circular_less_than, Half
<1>4. CASE d >= 0
  <2>1. d % W = d
    BY <1>4, <1>s, <1>2, ModSmall
  <2> QED BY <2>1, <1>3, <1>4, <1>s
<1>5. CASE d < 0
  <2>1. d % W = d + W
    BY <1>5, <1>s, <1>2, ModSmall
  <2> QED BY <2>1, <1>3, <1>5, <1>s
<1> QED BY <1>2, <1>4, <1>5

\* What is taken to be there, from the true distance.
LEMMA CoveredIs ==
  ASSUME NEW t \in Int, NEW o \in Int, NEW v \in Int
  PROVE  /\ Covered(t % W, o % W, v % W) \in 0..(Half - 1)
         /\ 0 <= t - (o - v) /\ t - (o - v) < Half => Covered(t % W, o % W, v % W) = t - (o - v)
         /\ -Half <= t - (o - v) /\ t - (o - v) <= 0 => Covered(t % W, o % W, v % W) = 0
<1> DEFINE d == t - (o - v)
           n == d % W
<1>s. W \in Nat \ {0} /\ Half \in Nat \ {0} /\ W = 2 * Half
  BY SizeFacts
<1>d. d \in Int
  OBVIOUS
<1>1. Minus(t % W, (o % W) - (v % W)) = n
  <2>1. o % W \in Int /\ v % W \in Int
    BY <1>s, Division
  <2>2. PICK y \in Int : y = (o % W) - (v % W)
    BY <2>1
  <2>3. PICK z \in Int : z = o - v
    OBVIOUS
  <2>4. ((o % W) - (v % W)) % W = (o - v) % W
    BY <1>s, ModSum
  <2>5. Minus(t % W, y) = (t - y) % W
    BY Wrapped
  <2>6. (t - (y % W)) % W = (t - y) % W
    BY <1>s, ModSum
  <2>7. (t - (z % W)) % W = (t - z) % W
    BY <1>s, ModSum
  <2> QED BY <2>2, <2>3, <2>4, <2>5, <2>6, <2>7
<1>2. n \in 0..(W - 1)
  BY <1>s, <1>d, Division
<1>3. (0 - n) % W = IF n = 0 THEN 0 ELSE W - n
  <2>1. 0 - n \in Int /\ -W <= 0 - n
    BY <1>2, <1>s
  <2>2. CASE n = 0
    BY <2>2, <2>1, <1>s, ModSmall
  <2>3. CASE n # 0
    BY <2>3, <2>1, <1>2, <1>s, ModSmall
  <2> QED BY <2>2, <2>3
<1>4. circular_less_than(0, n) <=> 0 < n /\ n < Half
  BY <1>2, <1>3, <1>s DEF circular_less_than, Minus, Half
<1>5. Covered(t % W, o % W, v % W) = IF 0 < n /\ n < Half THEN n ELSE 0
  BY <1>1, <1>4 DEF Covered
<1> HIDE DEF n
<1>6. Covered(t % W, o % W, v % W) \in 0..(Half - 1)
  BY <1>2, <1>5, <1>s
<1>7. 0 <= d /\ d < Half => n = d
  BY <1>s, <1>d, ModSmall DEF n
<1>8. -Half <= d /\ d < 0 => n >= Half
  BY <1>s, <1>d, ModSmall DEF n
<1> HIDE DEF d
<1>9. /\ 0 <= d /\ d < Half => Covered(t % W, o % W, v % W) = d
      /\ -Half <= d /\ d <= 0 => Covered(t % W, o % W, v % W) = 0
  BY <1>d, <1>2, <1>5, <1>7, <1>8, <1>s
<1> QED BY <1>6, <1>9 DEF d

-------------------------------------------------------------------------------
(* Sums over the calls; the histories *)

\* The sum of a function's values, as the size of a set.
Cells(f) == UNION {{x} \X (1..f[x]) : x \in DOMAIN f}
Total(f) == Cardinality(Cells(f))

VARIABLES head, claimed, given, read, place, number, first
hist == <<head, claimed, given, read, place, number, first>>

\* The sums are those of finite sets.
LEMMA TotalType ==
  ASSUME NEW S, IsFiniteSet(S), NEW f \in [S -> Nat]
  PROVE  IsFiniteSet(Cells(f)) /\ Total(f) \in Nat
<1> DEFINE R == {{x} \X (1..f[x]) : x \in S}
<1>1. IsFiniteSet(R)
  <2> DEFINE g == [x \in S |-> {x} \X (1..f[x])]
  <2>1. g \in Surjection(S, R)
    BY DEF Surjection
  <2> HIDE DEF g, R
  <2> QED BY <2>1, FS_Surjection
<1>2. ASSUME NEW x \in S PROVE IsFiniteSet({x} \X (1..f[x]))
  <2>1. IsFiniteSet({x})
    BY FS_Singleton
  <2>2. IsFiniteSet(1..f[x])
    <3>1. 1 \in Int /\ f[x] \in Int
      OBVIOUS
    <3> QED BY <3>1, FS_Interval
  <2> QED BY <2>1, <2>2, FS_Product
<1>3. \A s \in R : IsFiniteSet(s)
  BY <1>2
<1>4. Cells(f) = UNION R
  BY DEF Cells
<1> HIDE DEF R
<1>5. IsFiniteSet(Cells(f))
  BY <1>1, <1>3, <1>4, FS_UNION
<1> QED BY <1>5, FS_CardinalityType DEF Total

\* One value changes, and the sum by as much.
LEMMA TotalChange ==
  ASSUME NEW S, IsFiniteSet(S), NEW f \in [S -> Nat], NEW x \in S, NEW n \in Nat,
         NEW g, g = [f EXCEPT ![x] = n]
  PROVE  Total(g) = Total(f) - f[x] + n
<1> DEFINE A == {x} \X (1..f[x])
           B == {x} \X (1..n)
           R == Cells(f) \ A
<1>0. IsFiniteSet(Cells(f))
  BY TotalType
<1>1. A \subseteq Cells(f)
  BY DEF Cells
<1>2. Cells(g) = R \cup B
  <2>1. DOMAIN g = S /\ DOMAIN f = S /\ g[x] = n /\ \A y \in S : y # x => g[y] = f[y]
    OBVIOUS
  <2>2. ASSUME NEW e \in Cells(g) PROVE e \in R \cup B
    <3>1. PICK y \in S : e \in {y} \X (1..g[y])
      BY <2>1, <2>2 DEF Cells
    <3>2. CASE y = x
      BY <3>1, <3>2, <2>1
    <3>3. CASE y # x
      BY <3>1, <3>3, <2>1 DEF Cells
    <3> QED BY <3>2, <3>3
  <2>3. ASSUME NEW e \in R PROVE e \in Cells(g)
    <3>1. PICK y \in S : e \in {y} \X (1..f[y])
      BY <2>1, <2>3 DEF Cells
    <3>2. y # x
      BY <3>1, <2>3
    <3> QED BY <3>1, <3>2, <2>1 DEF Cells
  <2>4. B \subseteq Cells(g)
    BY <2>1 DEF Cells
  <2> QED BY <2>2, <2>3, <2>4
<1>3. R \cap B = {}
  <2> SUFFICES ASSUME NEW e \in R, e \in B PROVE FALSE
    OBVIOUS
  <2>1. PICK y \in S : e \in {y} \X (1..f[y])
    BY DEF Cells
  <2> QED BY <2>1
<1>4. \A m \in Nat : IsFiniteSet({x} \X (1..m)) /\ Cardinality({x} \X (1..m)) = m
  <2> SUFFICES ASSUME NEW m \in Nat
               PROVE IsFiniteSet({x} \X (1..m)) /\ Cardinality({x} \X (1..m)) = m
    OBVIOUS
  <2>1. IsFiniteSet(1..m) /\ Cardinality(1..m) = IF 1 > m THEN 0 ELSE m - 1 + 1
    <3>1. 1 \in Int /\ m \in Int
      OBVIOUS
    <3> QED BY <3>1, FS_Interval
  <2>2. IsFiniteSet({x}) /\ Cardinality({x}) = 1
    BY FS_Singleton
  <2>3. /\ IsFiniteSet({x} \X (1..m))
        /\ Cardinality({x} \X (1..m)) = Cardinality({x}) * Cardinality(1..m)
    BY <2>1, <2>2, FS_Product
  <2> QED BY <2>1, <2>2, <2>3
<1>5. /\ IsFiniteSet(A) /\ Cardinality(A) = f[x]
      /\ IsFiniteSet(B) /\ Cardinality(B) = n
  BY <1>4
<1>6. IsFiniteSet(R) /\ Cardinality(R) = Cardinality(Cells(f)) - f[x]
  <2>1. Cells(f) \cap A = A
    BY <1>1
  <2> HIDE DEF A
  <2>2. IsFiniteSet(R) /\ Cardinality(R) = Cardinality(Cells(f)) - Cardinality(Cells(f) \cap A)
    BY <1>0, FS_Difference
  <2> QED BY <2>1, <2>2, <1>5
<1>7. Cardinality(Cells(f)) \in Nat /\ Cardinality(R) \in Nat
  BY <1>0, <1>6, FS_CardinalityType
<1> HIDE DEF A, B, R
<1>8. /\ IsFiniteSet(R \cup B)
      /\ Cardinality(R \cup B) = Cardinality(R) + Cardinality(B) - Cardinality(R \cap B)
  BY <1>5, <1>6, FS_Union
<1>9. Cardinality(R \cap B) = 0
  BY <1>3, FS_EmptySet
<1>10. Total(g) = Cardinality(R \cup B) /\ Total(f) = Cardinality(Cells(f))
  BY <1>2 DEF Total
<1>11. f[x] \in Nat
  OBVIOUS
<1>12. Total(g) = Total(f) - f[x] + n
  BY <1>5, <1>6, <1>7, <1>8, <1>9, <1>10, <1>11
<1> QED BY <1>12

\* The sum of zeros.
LEMMA TotalZero ==
  ASSUME NEW S, NEW f, f = [x \in S |-> 0]
  PROVE  Total(f) = 0
<1>1. Cells(f) = {}
  <2> SUFFICES ASSUME NEW e \in Cells(f) PROVE FALSE
    OBVIOUS
  <2>1. PICK x \in S : e \in {x} \X (1..0)
    BY DEF Cells
  <2> QED BY <2>1
<1> QED BY <1>1, FS_EmptySet DEF Total

\* One value after another, the sum is no larger.
LEMMA TotalSub ==
  ASSUME NEW S, IsFiniteSet(S), NEW f \in [S -> Nat], NEW g \in [S -> Nat],
         \A x \in S : f[x] <= g[x]
  PROVE  Total(f) <= Total(g)
<1>1. Cells(f) \subseteq Cells(g)
  <2> SUFFICES ASSUME NEW e \in Cells(f) PROVE e \in Cells(g)
    OBVIOUS
  <2>1. PICK x \in S : e \in {x} \X (1..f[x])
    BY DEF Cells
  <2>2. f[x] \in Nat /\ g[x] \in Nat /\ f[x] <= g[x]
    OBVIOUS
  <2>3. e \in {x} \X (1..g[x])
    BY <2>1, <2>2
  <2> QED BY <2>3 DEF Cells
<1>2. IsFiniteSet(Cells(g))
  BY TotalType
<1> QED BY <1>1, <1>2, FS_Subset DEF Total

\* All but one are zero.
LEMMA TotalOne ==
  ASSUME NEW S, IsFiniteSet(S), NEW f \in [S -> Nat], NEW x \in S,
         \A y \in S : y # x => f[y] = 0
  PROVE  Total(f) = f[x]
<1> DEFINE z == [y \in S |-> 0]
<1>1. z \in [S -> Nat] /\ z[x] = 0 /\ f = [z EXCEPT ![x] = f[x]] /\ f[x] \in Nat
  OBVIOUS
<1>2. Total(z) = 0
  BY TotalZero
<1> HIDE DEF z
<1>3. Total(f) = Total(z) - z[x] + f[x]
  BY <1>1, TotalChange
<1> QED BY <1>1, <1>2, <1>3

-------------------------------------------------------------------------------
(* The histories and the types *)

\* The true tail index, the number of the block of the last element, and of the
\* last block that the index has an entry for.
End == Start + sent
TailNumber == Num(End - 1)
Newest == TailNumber + Len(producer.chain) - producer.undone
            + (IF Producing("requisition") THEN 1 ELSE 0)
\* The size of index h.
Size(h) == Capacity(headers[h])

\* A producer at rest; its entries hold the numbers of their last users.
HistInit ==
  /\ head = Start /\ claimed = Start /\ given = 0
  /\ read = [c \in Consumers |-> 0] /\ place = [c \in Consumers |-> 0]
  /\ number = [e \in Entries |-> IF \E q \in LastUser(e) : TRUE
                                   THEN CHOOSE q \in LastUser(e) : TRUE ELSE -1]
  /\ first = <<0>>

\* The histories move with the counters, with no wrapping.
HistNext ==
  /\ head' = head + Minus(headIndex', headIndex)
  /\ claimed' = claimed + Minus(dequeueOptimisticCount', dequeueOptimisticCount)
  /\ given' = given + Minus(dequeueOvercommit', dequeueOvercommit)
  /\ read' = [c \in Consumers |-> IF At(c, "overcommit") THEN given ELSE read[c]]
  /\ place' = [c \in Consumers |->
       CASE At(c, "claim") -> claimed
         [] At(c, "take") -> head
         [] At(c, "fetch") -> place[c] + call[c].n - call'[c].n
         [] OTHER -> place[c]]
  /\ number' = IF Producing("insert") /\ producer'.pc = "advance"
                 THEN [number EXCEPT ![NextEntry(headers[current])] = Newest + 1]
                 ELSE number
  /\ first' = IF Len(headers') > current
                THEN Append(first, Newest - Size(current) + 1) ELSE first

\* The specification with the histories.
HInit == Init /\ HistInit
HNext == Next /\ HistNext
HSpec == HInit /\ [][HNext]_<<vars, hist>>

\* The types, without the bounds that need the claims.
Values == 1..MaxItems \cup {Null}
Header == UNION {[tail : 0..(s - 1), index : [0..(s - 1) -> Entries]] : s \in 1..MaxIndexSize}
CallSet == [pc : Places, max : Sizes \cup {0, 1}, tail : Indexes, over : Indexes,
            n : 0..W, at : Indexes, header : Nat, pos : Nat,
            block : Blocks \cup {Null}, k : 0..W, alone : BOOLEAN, due : Indexes]
ProducerPlaces == {"idle", "insert", "advance", "requisition", "room", "publish", "undo"}

CounterTypes == {tailIndex, headIndex, dequeueOptimisticCount, dequeueOvercommit} \subseteq Indexes
StoreTypes == /\ tailBlock \in Blocks \cup {Null} /\ free \subseteq Blocks
              /\ elems \in [Blocks -> [Offsets -> Values]] /\ sent \in 0..MaxItems
CallTypes ==
  /\ call \in [Consumers -> CallSet] /\ out \in [Consumers -> Seq(Values)]
  /\ \A c \in Consumers :
       /\ call[c].pc \in {"front", "key", "fetch", "empty", "clear", "free"} => call[c].header \in 1..current
       /\ call[c].pc \in {"key", "fetch", "empty", "clear", "free"} => call[c].pos \in 0..(Size(call[c].header) - 1)
       /\ call[c].pc \in {"empty", "clear", "free"} => call[c].block \in Blocks
IndexTypes ==
  /\ key \in [Entries -> Indexes] /\ value \in [Entries -> Blocks \cup {Null}]
  /\ headers \in Seq(Header) /\ current >= 1
  /\ emptied \in [Blocks -> Nat]
ProducerTypes ==
  /\ producer \in [pc : ProducerPlaces, count : Nat, chain : Seq(Blocks), undone : Nat]
  /\ producer.undone <= Len(producer.chain) /\ sent + producer.count <= MaxItems
  /\ Producing("idle") => producer = NoEnqueue
  /\ ~Producing("idle") => producer.count \in Counts
  /\ producer.undone > 0 => Producing("undo")
HistTypes ==
  /\ head \in Nat /\ claimed \in Nat /\ given \in Nat
  /\ read \in [Consumers -> Nat] /\ place \in [Consumers -> Nat]
  /\ number \in [Entries -> Int] /\ first \in Seq(Int)
Types == CounterTypes /\ StoreTypes /\ CallTypes /\ IndexTypes /\ ProducerTypes /\ HistTypes

\* The parts of an index.
LEMMA HeaderFacts ==
  ASSUME NEW h \in Header
  PROVE  /\ Capacity(h) \in 1..MaxIndexSize /\ Capacity(h) \in Nat \ {0}
         /\ h.tail \in 0..(Capacity(h) - 1) /\ h.index \in [0..(Capacity(h) - 1) -> Entries]
         /\ h = [tail |-> h.tail, index |-> h.index]
         /\ MaxIndexSize \in Nat
<1>0. MaxIndexSize \in Nat
  BY IndexSizesFit
<1>1. PICK s \in 1..MaxIndexSize : h \in [tail : 0..(s - 1), index : [0..(s - 1) -> Entries]]
  BY DEF Header
<1>2. DOMAIN h.index = 0..(s - 1)
  BY <1>1
<1>3. Cardinality(0..(s - 1)) = s
  <2>1. 0 \in Int /\ s - 1 \in Int /\ s \in Nat \ {0}
    BY <1>0
  <2>2. Cardinality(0..(s - 1)) = IF 0 > s - 1 THEN 0 ELSE (s - 1) - 0 + 1
    BY <2>1, FS_Interval
  <2> QED BY <2>1, <2>2
<1>4. Capacity(h) = s
  BY <1>2, <1>3 DEF Capacity
<1> QED BY <1>0, <1>1, <1>4

\* What makes an index of s places.
LEMMA HeaderIs ==
  ASSUME NEW s \in Nat \ {0}, s <= MaxIndexSize, NEW h, h.index \in [0..(s - 1) -> Entries], h.tail \in 0..(s - 1),
         h = [tail |-> h.tail, index |-> h.index]
  PROVE  h \in Header /\ Capacity(h) = s
<1>0. MaxIndexSize \in Nat
  BY IndexSizesFit
<1>1. s \in 1..MaxIndexSize
  BY <1>0
<1>2. h \in [tail : 0..(s - 1), index : [0..(s - 1) -> Entries]]
  OBVIOUS
<1>3. Cardinality(0..(s - 1)) = s
  <2>1. 0 \in Int /\ s - 1 \in Int /\ s \in Nat \ {0}
    BY <1>0
  <2>2. Cardinality(0..(s - 1)) = IF 0 > s - 1 THEN 0 ELSE (s - 1) - 0 + 1
    BY <2>1, FS_Interval
  <2> QED BY <2>1, <2>2
<1> QED BY <1>1, <1>2, <1>3 DEF Capacity, Header

\* The current index, and any other.
LEMMA HeadersFacts ==
  ASSUME IndexTypes, NEW h \in 1..current
  PROVE  /\ current \in Nat /\ headers[h] \in Header /\ Size(h) \in 1..MaxIndexSize /\ Size(h) \in Nat \ {0}
         /\ headers[h].tail \in 0..(Size(h) - 1) /\ headers[h].index \in [0..(Size(h) - 1) -> Entries]
         /\ MaxIndexSize \in Nat
<1>1. current \in Nat /\ headers[h] \in Header
  BY ElementOfSeq, LenProperties DEF IndexTypes, current
<1> QED BY <1>1, HeaderFacts DEF Size

\* The producer of a new queue, or of one that was used, has the types.
LEMMA InitTypes == HInit => Types
<1> SUFFICES ASSUME HInit PROVE Types
  OBVIOUS
<1> USE DEF HInit
<1>s. W \in Nat \ {0} /\ BLOCK_SIZE \in Nat \ {0} /\ Start \in Nat /\ W > 1
  BY SizeFacts
<1>1. CounterTypes
  <2>1. Start % W \in Indexes
    BY <1>s, Division DEF Indexes
  <2>2. 0 \in Indexes
    BY <1>s DEF Indexes
  <2> QED BY <2>1, <2>2 DEF Init, InitBase, CounterTypes
<1>2. StoreTypes
  <2>1. MaxItems \in Nat
    BY SizesFit
  <2> QED BY <2>1 DEF Init, InitBase, StoreTypes, Values
<1>3. CallTypes
  <2>1. NoCall \in CallSet
    BY <1>s DEF NoCall, CallSet, Places, Indexes
  <2>2. <<>> \in Seq(Values)
    BY EmptySeq
  <2>3. \A c \in Consumers : call[c].pc = "idle"
    BY DEF Init, InitBase, NoCall
  <2> QED BY <2>1, <2>2, <2>3 DEF Init, InitBase, CallTypes
<1>l. ASSUME NEW e \in Entries, \E q \in LastUser(e) : TRUE
      PROVE  (CHOOSE q \in LastUser(e) : TRUE) \in Nat
  <2>1. LastUser(e) \subseteq Nat
    BY DEF LastUser
  <2> QED BY <1>l, <2>1
<1>4. IndexTypes
  <2>0. InitialIndexSize \in Nat \ {0} /\ InitialIndexSize <= MaxIndexSize /\ MaxIndexSize \in Nat
    <3>1. PICK k \in 1..MaxIndexSize : MaxIndexSize = k * InitialIndexSize
      BY IndexSizesFit DEF Multiple
    <3>2. InitialIndexSize \in Nat \ {0} /\ k \in Nat \ {0}
      BY IndexSizesFit
    <3>3. k * InitialIndexSize >= InitialIndexSize
      BY <3>2
    <3> QED BY <3>1, <3>2, <3>3, IndexSizesFit
  <2>1. key \in [Entries -> Indexes]
    <3>1. ASSUME NEW n \in Nat PROVE (n * BLOCK_SIZE) % W \in Indexes
      BY <1>s, Division DEF Indexes
    <3>2. INVALID_BLOCK_BASE \in Indexes
      BY <1>s DEF Indexes, INVALID_BLOCK_BASE
    <3> QED BY <1>l, <3>1, <3>2 DEF Init
  <2>2. value \in [Entries -> Blocks \cup {Null}] /\ emptied \in [Blocks -> Nat]
    BY DEF Init
  <2>3. headers \in Seq(Header) /\ current = 1
    <3> DEFINE h == [tail |-> (Start \div BLOCK_SIZE - 1) % InitialIndexSize,
                     index |-> [i \in 0..(InitialIndexSize - 1) |-> i]]
    <3>1. h.tail \in 0..(InitialIndexSize - 1)
      <4>1. Start \div BLOCK_SIZE - 1 \in Int
        BY <1>s, Division
      <4> QED BY <4>1, <2>0, Division
    <3>2. h.index \in [0..(InitialIndexSize - 1) -> Entries]
      BY <2>0 DEF Entries
    <3>3. h = [tail |-> h.tail, index |-> h.index]
      OBVIOUS
    <3>4. headers = <<h>>
      BY DEF Init
    <3> HIDE DEF h
    <3>5. h \in Header
      BY <3>1, <3>2, <3>3, <2>0, HeaderIs
    <3> QED BY <3>4, <3>5 DEF current
  <2> QED BY <2>1, <2>2, <2>3 DEF IndexTypes
<1>5. ProducerTypes
  <2>1. <<>> \in Seq(Blocks) /\ Len(<<>>) = 0
    BY EmptySeq
  <2>2. MaxItems \in Nat
    BY SizesFit
  <2> QED BY <2>1, <2>2 DEF Init, InitBase, ProducerTypes, NoEnqueue, ProducerPlaces, Producing
<1>6. HistTypes
  BY <1>s, <1>l DEF HistInit, HistTypes
<1> QED BY <1>1, <1>2, <1>3, <1>4, <1>5, <1>6 DEF Types

-------------------------------------------------------------------------------
(* The types are kept *)

\* The private work of a claim.
Private(c) == \/ \E m \in Sizes \cup {1} : Begin(c, m)
              \/ ReadOvercommit(c) \/ Look(c) \/ Settle(c)
\* A consumer's step on its own call and the counters.
Idling == UNCHANGED <<blockIndex, emptied, producer>>

\* The disjuncts of Next.
LEMMA Actions ==
  ASSUME Next
  PROVE  \/ \E count \in Counts : BeginEnqueue(count)
         \/ CheckRoom \/ InsertBlockIndexEntry \/ AdvanceIndexTail \/ NewBlockIndex
         \/ RequisitionBlock \/ FailBlock \/ UndoBlock \/ FreeChain \/ AppendToTail \/ Publish
         \/ \E c \in Consumers :
              \/ \E m \in Sizes \cup {1} : Begin(c, m) /\ Idling
              \/ (ReadOvercommit(c) /\ Idling) \/ (Look(c) /\ Idling) \/ (Claim(c) /\ Idling)
              \/ (Settle(c) /\ Idling) \/ (GiveBack(c) /\ Idling) \/ (Take(c) /\ Idling)
              \/ LoadHeader(c) \/ LoadTail(c) \/ LoadKey(c) \/ Fetch(c)
              \/ SetManyEmpty(c) \/ ClearEntry(c) \/ FreeBlock(c)
<1>1. CASE Produce
  BY <1>1 DEF Produce, enqueue, enqueue_bulk
<1>2. ASSUME NEW c \in Consumers, Consume(c)
      PROVE  \/ \E m \in Sizes \cup {1} : Begin(c, m) /\ Idling
             \/ (ReadOvercommit(c) /\ Idling) \/ (Look(c) /\ Idling) \/ (Claim(c) /\ Idling)
             \/ (Settle(c) /\ Idling) \/ (GiveBack(c) /\ Idling) \/ (Take(c) /\ Idling)
             \/ LoadHeader(c) \/ LoadTail(c) \/ LoadKey(c) \/ Fetch(c)
             \/ SetManyEmpty(c) \/ ClearEntry(c) \/ FreeBlock(c)
  BY <1>2 DEF Consume, dequeue_bulk, ClaimElements, Idling
<1> QED BY <1>1, <1>2 DEF Next

\* A step keeps the counters in their range.
LEMMA CounterTypesStep ==
  ASSUME Types, Next
  PROVE  CounterTypes'
<1>0. \A x, y \in Int : Plus(x, y) \in Indexes
  BY Wrapped
<1>1. {tailIndex, headIndex, dequeueOptimisticCount, dequeueOvercommit} \subseteq Indexes
  BY DEF Types, CounterTypes
<1>a. ASSUME NEW c \in Consumers PROVE call[c].n \in Int /\ call[c].k \in Int
  <2>1. call[c] \in CallSet /\ W \in Nat
    BY SizeFacts DEF Types, CallTypes
  <2> QED BY <2>1 DEF CallSet
<1>b. Indexes \subseteq Int
  BY SizeFacts DEF Indexes
<1> USE <1>0, <1>1 DEF CounterTypes
<1>2. CASE AppendToTail \/ Publish
  <2>1. PICK count \in Int : \E chain : Construct(count, chain)
    <3>1. Counts \subseteq Int /\ producer.count \in Int
      BY SizesFit DEF Types, ProducerTypes
    <3> QED BY <1>2, <3>1 DEF AppendToTail, Publish
  <2>2. PICK chain : Construct(count, chain)
    BY <2>1
  <2>3. tailIndex' = Plus(tailIndex, count) /\ UNCHANGED <<headIndex, dequeueOptimisticCount, dequeueOvercommit>>
    BY <2>2 DEF Construct
  <2>4. tailIndex \in Int /\ count \in Int
    BY <1>b, <2>1
  <2> QED BY <2>3, <2>4
<1>3. CASE UNCHANGED counters
  BY <1>3 DEF counters
<1>4. ASSUME NEW c \in Consumers, Claim(c) \/ GiveBack(c) \/ Take(c) PROVE CounterTypes'
  <2>1. CASE Claim(c)
    BY <2>1, <1>a, <1>b DEF Claim
  <2>2. CASE GiveBack(c)
    BY <2>2, <1>a, <1>b DEF GiveBack
  <2>3. CASE Take(c)
    BY <2>3, <1>a, <1>b, ZenonT(30) DEF Take
  <2> QED BY <1>4, <2>1, <2>2, <2>3
<1>5. ASSUME \E count \in Counts : BeginEnqueue(count) PROVE UNCHANGED counters
  BY <1>5 DEF BeginEnqueue, base
<1>6. CheckRoom \/ InsertBlockIndexEntry \/ AdvanceIndexTail \/ NewBlockIndex \/ FailBlock \/ UndoBlock
      => UNCHANGED counters
  BY DEF CheckRoom, InsertBlockIndexEntry, AdvanceIndexTail, NewBlockIndex, FailBlock, UndoBlock, base
<1>7. RequisitionBlock \/ FreeChain => UNCHANGED counters
  BY DEF RequisitionBlock, FreeChain
<1>8. ASSUME NEW c \in Consumers
      PROVE  /\ (\E m \in Sizes \cup {1} : Begin(c, m)) \/ ReadOvercommit(c) \/ Look(c) \/ Settle(c)
                  => UNCHANGED counters
             /\ LoadHeader(c) \/ LoadTail(c) \/ LoadKey(c) \/ Fetch(c) => UNCHANGED counters
             /\ SetManyEmpty(c) \/ ClearEntry(c) \/ FreeBlock(c) => UNCHANGED counters
  BY ZenonT(30) DEF Begin, ReadOvercommit, Look, Settle, LoadHeader, LoadTail, LoadKey, Fetch, MoveOut,
         SetManyEmpty, ClearEntry, FreeBlock
<1> QED BY Actions, <1>2, <1>3, <1>4, <1>5, <1>6, <1>7, <1>8

\* The elements of an enqueue are not more than the model allows.
LEMMA ConstructTypes ==
  ASSUME Types, NEW count \in Nat, sent + count <= MaxItems, NEW chain \in Seq(Blocks),
         Construct(count, chain)
  PROVE  StoreTypes' /\ sent' = sent + count
<1>0. MaxItems \in Nat /\ sent \in Nat /\ elems \in [Blocks -> [Offsets -> Values]]
      /\ tailBlock \in Blocks \cup {Null} /\ free \subseteq Blocks
  BY SizesFit DEF Types, StoreTypes
<1>1. sent' = sent + count /\ free' = free
  BY DEF Construct
<1>2. tailBlock' \in Blocks \cup {Null}
  <2>1. ASSUME chain # <<>> PROVE chain[Len(chain)] \in Blocks
    <3>1. Len(chain) \in 1..Len(chain)
      BY <2>1, LenProperties, EmptySeq
    <3> QED BY <3>1, ElementOfSeq
  <2> QED BY <1>0, <2>1 DEF Construct
<1>3. elems' \in [Blocks -> [Offsets -> Values]]
  <2> DEFINE Target(j) == LET n == BlocksBetween(Minus(tailIndex, 1), Plus(tailIndex, j))
                          IN <<IF n = 0 THEN tailBlock ELSE chain[n], Plus(tailIndex, j) % BLOCK_SIZE>>
  <2>1. elems' = [b \in Blocks |-> [o \in Offsets |->
                    IF \E j \in 0..(count - 1) : Target(j) = <<b, o>>
                      THEN sent + 1 + (CHOOSE j \in 0..(count - 1) : Target(j) = <<b, o>>)
                      ELSE elems[b][o]]]
    BY DEF Construct
  <2> HIDE DEF Target
  <2>2. ASSUME NEW b \in Blocks, NEW o \in Offsets, \E j \in 0..(count - 1) : Target(j) = <<b, o>>
        PROVE  sent + 1 + (CHOOSE j \in 0..(count - 1) : Target(j) = <<b, o>>) \in Values
    <3>1. (CHOOSE j \in 0..(count - 1) : Target(j) = <<b, o>>) \in 0..(count - 1)
      BY <2>2
    <3> QED BY <3>1, <1>0 DEF Values
  <2> QED BY <2>1, <2>2, <1>0
<1> QED BY <1>0, <1>1, <1>2, <1>3 DEF StoreTypes

\* A step keeps the types of the blocks and of what they hold.
LEMMA StoreTypesStep ==
  ASSUME Types, Next
  PROVE  StoreTypes'
<1> USE DEF StoreTypes
<1>1. CASE AppendToTail
  <2>1. PICK count \in Counts : sent + count <= MaxItems /\ Construct(count, <<>>)
    BY <1>1 DEF AppendToTail
  <2>2. count \in Nat /\ <<>> \in Seq(Blocks)
    BY SizesFit, EmptySeq
  <2> QED BY <2>1, <2>2, ConstructTypes
<1>2. CASE Publish
  <2>1. producer.count \in Nat /\ producer.chain \in Seq(Blocks) /\ sent + producer.count <= MaxItems
    BY DEF Types, ProducerTypes
  <2> QED BY <1>2, <2>1, ConstructTypes DEF Publish
<1>3. CASE UNCHANGED stored
  BY <1>3 DEF Types, stored
<1>5. ASSUME \E count \in Counts : BeginEnqueue(count) PROVE UNCHANGED stored
  BY <1>5 DEF BeginEnqueue, base
<1>6. CheckRoom \/ InsertBlockIndexEntry \/ AdvanceIndexTail \/ NewBlockIndex \/ FailBlock \/ UndoBlock
      => UNCHANGED stored
  BY DEF CheckRoom, InsertBlockIndexEntry, AdvanceIndexTail, NewBlockIndex, FailBlock, UndoBlock, base
<1>7. CASE RequisitionBlock
  BY <1>7 DEF RequisitionBlock, EnterBlock, Types
<1>8. CASE FreeChain
  <2>1. {producer.chain[j] : j \in DOMAIN producer.chain} \subseteq Blocks
    <3>1. producer.chain \in Seq(Blocks)
      BY ZenonT(30) DEF Types, ProducerTypes
    <3> QED BY <3>1, LenProperties, ElementOfSeq
  <2> QED BY <1>8, <2>1 DEF FreeChain, Types
<1>9. ASSUME NEW c \in Consumers
      PROVE  /\ (\E m \in Sizes \cup {1} : Begin(c, m)) \/ ReadOvercommit(c) \/ Look(c) \/ Settle(c)
                  => UNCHANGED stored
             /\ Claim(c) \/ GiveBack(c) \/ Take(c) => UNCHANGED stored
             /\ LoadHeader(c) \/ LoadTail(c) \/ LoadKey(c) => UNCHANGED stored
             /\ SetManyEmpty(c) \/ ClearEntry(c) => UNCHANGED stored
  BY ZenonT(30) DEF Begin, ReadOvercommit, Look, Claim, Settle, GiveBack, Take, LoadHeader, LoadTail, LoadKey,
         SetManyEmpty, ClearEntry
<1>10. ASSUME NEW c \in Consumers, Fetch(c) PROVE StoreTypes'
  <2>1. value[EntryOf(c)] \in Blocks /\ MoveOut(c, value[EntryOf(c)])
    BY <1>10 DEF Fetch
  <2>2. Null \in Values
    BY DEF Values
  <2> QED BY <2>1, <2>2 DEF MoveOut, Types
<1>11. ASSUME NEW c \in Consumers, FreeBlock(c) PROVE StoreTypes'
  <2>1. call[c].block \in Blocks
    BY <1>11 DEF FreeBlock, At, Types, CallTypes
  <2> QED BY <1>11, <2>1 DEF FreeBlock, Types
<1> QED BY Actions, <1>1, <1>2, <1>3, <1>5, <1>6, <1>7, <1>8, <1>9, <1>10, <1>11

\* An index gets no other entries, only a tail.
Kept == \A h \in 1..current :
          h \in 1..current' /\ Size(h)' = Size(h) /\ headers'[h].index = headers[h].index

\* The base of the next block is an index.
LEMMA NewBaseType == ASSUME Types PROVE NewBase \in Indexes
<1>1. producer.chain \in Seq(Blocks)
  BY DEF Types, ProducerTypes
<1>2. Len(producer.chain) \in Nat /\ BLOCK_SIZE \in Nat \ {0}
  BY <1>1, LenProperties, SizeFacts
<1>3. tailIndex \in Int
  <2>1. tailIndex \in Indexes
    BY DEF Types, CounterTypes
  <2> QED BY <2>1, SizeFacts DEF Indexes
<1>4. Minus(tailIndex, 1) \in Int
  <2>1. Minus(tailIndex, 1) \in Indexes
    BY <1>3, Wrapped
  <2> QED BY <2>1, SizeFacts DEF Indexes
<1>5. Base(Minus(tailIndex, 1)) \in Int
  <2> DEFINE i == Minus(tailIndex, 1)
  <2> HIDE DEF i
  <2>1. i \in Int
    BY <1>4 DEF i
  <2>2. i % BLOCK_SIZE \in Int
    BY <2>1, <1>2, Division
  <2>3. Base(i) \in Int
    BY <2>1, <2>2 DEF Base
  <2> QED BY <2>3 DEF i
<1>6. BLOCK_SIZE * (Len(producer.chain) + 1) \in Int
  BY <1>2
<1> QED BY <1>5, <1>6, Wrapped DEF NewBase

\* Only the tail of one index is changed.
LEMMA TailStored ==
  ASSUME IndexTypes, NEW t \in 0..(Size(current) - 1),
         headers' = [headers EXCEPT ![current].tail = t]
  PROVE  headers' \in Seq(Header) /\ current' = current /\ Kept /\ headers'[current].tail = t
         /\ \A h \in 1..current : h # current => headers'[h] = headers[h]
<1>0. current \in Nat \ {0} /\ current \in 1..current
  <2>1. Len(headers) \in Nat
    BY LenProperties DEF IndexTypes
  <2> QED BY <2>1 DEF IndexTypes, current
<1>1. /\ headers[current] \in Header /\ Size(current) \in Nat \ {0} /\ Size(current) <= MaxIndexSize
      /\ headers[current].index \in [0..(Size(current) - 1) -> Entries]
      /\ headers[current] = [tail |-> headers[current].tail, index |-> headers[current].index]
      /\ Capacity(headers[current]) = Size(current)
  BY <1>0, HeadersFacts, HeaderFacts DEF Size
<1> DEFINE g == [headers[current] EXCEPT !.tail = t]
<1>2. g.index = headers[current].index /\ g.tail = t /\ g = [tail |-> g.tail, index |-> g.index]
  BY <1>1
<1>3. headers' = [headers EXCEPT ![current] = g]
  OBVIOUS
<1> HIDE DEF g
<1>4. g \in Header /\ Capacity(g) = Size(current)
  BY <1>1, <1>2, HeaderIs
<1>5. headers \in Seq(Header) /\ Len(headers) \in Nat /\ DOMAIN headers = 1..Len(headers)
  BY LenProperties DEF IndexTypes
<1>6. headers' \in Seq(Header) /\ Len(headers') = Len(headers)
  BY <1>0, <1>3, <1>4, <1>5, ExceptSeq DEF current
<1>7. current' = current
  BY <1>6 DEF current
<1>8. \A h \in 1..current : headers'[h] = IF h = current THEN g ELSE headers[h]
  BY <1>3, <1>5 DEF current
<1>9. Kept
  <2> SUFFICES ASSUME NEW h \in 1..current
               PROVE  h \in 1..current' /\ Size(h)' = Size(h) /\ headers'[h].index = headers[h].index
    BY DEF Kept
  <2>1. CASE h = current
    BY <2>1, <1>1, <1>2, <1>4, <1>7, <1>8 DEF Size
  <2>2. CASE h # current
    BY <2>2, <1>7, <1>8 DEF Size
  <2> QED BY <2>1, <2>2
<1> QED BY <1>0, <1>2, <1>6, <1>7, <1>8, <1>9

\* What a larger index consists of.
LEMMA IndexAdded ==
  ASSUME IndexTypes, AllocateIndex(headers[current])
  PROVE  /\ headers' \in Seq(Header) /\ current' = current + 1 /\ Kept
         /\ Capacity(headers'[current + 1]) = 2 * Size(current)
         /\ \A h \in 1..current : headers'[h] = headers[h]
         /\ headers'[current + 1] = [tail |-> Size(current) - 1, index |-> Rotated(headers[current])]
         /\ Rotated(headers[current]) \in [0..(2 * Size(current) - 1) -> Entries]
<1>0. current \in Nat \ {0} /\ current \in 1..current
  <2>1. Len(headers) \in Nat
    BY LenProperties DEF IndexTypes
  <2> QED BY <2>1 DEF IndexTypes, current
<1> DEFINE h == headers[current]
           s == Capacity(h)
           g == [tail |-> s - 1, index |-> Rotated(h)]
<1>1. /\ h \in Header /\ s \in Nat \ {0} /\ s <= MaxIndexSize /\ MaxIndexSize \in Nat
      /\ h.index \in [0..(s - 1) -> Entries] /\ h.tail \in 0..(s - 1) /\ Size(current) = s
  BY <1>0, HeadersFacts, HeaderFacts DEF Size
<1>2. 2 * s <= MaxIndexSize /\ headers' = Append(headers, g)
  BY DEF AllocateIndex
<1>3. Rotated(h) \in [0..(2 * s - 1) -> Entries]
  <2>1. ASSUME NEW i \in 0..(2 * s - 1), i < s PROVE h.index[(h.tail + 1 + i) % s] \in Entries
    <3>1. h.tail + 1 + i \in Int
      BY <1>1
    <3>2. (h.tail + 1 + i) % s \in 0..(s - 1)
      BY <1>1, <3>1, Division
    <3> QED BY <3>2, <1>1
  <2>2. \A i \in 0..(2 * s - 1) : i \in Entries
    BY <1>1, <1>2 DEF Entries
  <2> QED BY <2>1, <2>2 DEF Rotated
<1>4. g.tail \in 0..(2 * s - 1) /\ g.index = Rotated(h) /\ g = [tail |-> g.tail, index |-> g.index]
  BY <1>1
<1>5. 2 * s \in Nat \ {0}
  BY <1>1
<1>6. g \in Header /\ Capacity(g) = 2 * s
  BY <1>2, <1>3, <1>4, <1>5, HeaderIs
<1> HIDE DEF g, h, s
<1>7. headers \in Seq(Header) /\ Len(headers) \in Nat
  BY LenProperties DEF IndexTypes
<1>8. headers' \in Seq(Header) /\ Len(headers') = Len(headers) + 1 /\ headers'[Len(headers) + 1] = g
      /\ \A i \in 1..Len(headers) : headers'[i] = headers[i]
  BY <1>2, <1>6, <1>7, AppendProperties
<1>9. current' = current + 1 /\ \A i \in 1..current : i \in 1..current' /\ headers'[i] = headers[i]
  BY <1>7, <1>8 DEF current
<1>10. Kept
  BY <1>9 DEF Kept, Size
<1>11. headers'[current + 1] = g
  BY <1>8 DEF current
<1>12. Capacity(headers'[current + 1]) = 2 * s
  BY <1>6, <1>11
<1> QED BY <1>1, <1>3, <1>8, <1>9, <1>10, <1>11, <1>12 DEF g, h, s

\* A step keeps the types of the index, and the entries of its headers.
LEMMA IndexTypesStep ==
  ASSUME Types, Next
  PROVE  IndexTypes' /\ Kept
<1> USE DEF IndexTypes
<1>0. IndexTypes /\ current \in Nat \ {0} /\ current \in 1..current
  <2>1. Len(headers) \in Nat
    BY LenProperties DEF Types
  <2> QED BY <2>1 DEF Types, current
<1> DEFINE h == headers[current]
<1>1. Size(current) \in Nat \ {0} /\ h.tail \in 0..(Size(current) - 1) /\ Capacity(h) = Size(current)
      /\ h.index \in [0..(Size(current) - 1) -> Entries]
  BY <1>0, HeadersFacts DEF Size
<1>2. NextTail(h) \in 0..(Size(current) - 1) /\ (h.tail - 1) % Capacity(h) \in 0..(Size(current) - 1)
  <2>1. h.tail + 1 \in Int /\ h.tail - 1 \in Int
    BY <1>1
  <2> QED BY <1>1, <2>1, Division DEF NextTail
<1> HIDE DEF h
<1>3. ASSUME UNCHANGED headers PROVE Kept
  <2>1. current' = current
    BY <1>3 DEF current
  <2> QED BY <1>3, <2>1 DEF Kept, Size
<1>4. UNCHANGED blockIndex => UNCHANGED <<key, value, headers>>
  BY DEF blockIndex
<1>5. ASSUME UNCHANGED <<key, value, headers, emptied>> PROVE IndexTypes' /\ Kept
  BY <1>5, <1>3, <1>0 DEF current
<1>6. ASSUME NEW count \in Counts, BeginEnqueue(count) PROVE UNCHANGED <<key, value, headers, emptied>>
  BY <1>6 DEF BeginEnqueue, blockIndex
<1>7. CheckRoom \/ FreeChain \/ AppendToTail \/ Publish => UNCHANGED <<key, value, headers, emptied>>
  BY DEF CheckRoom, FreeChain, AppendToTail, Publish, blockIndex
<1>8. CASE InsertBlockIndexEntry
  <2>1. key' \in [Entries -> Indexes]
    BY <1>8, <1>0, NewBaseType DEF InsertBlockIndexEntry
  <2> QED BY <2>1, <1>8, <1>3, <1>0 DEF InsertBlockIndexEntry, current
<1>9. CASE AdvanceIndexTail
  <2>1. headers' = [headers EXCEPT ![current].tail = NextTail(h)] /\ UNCHANGED <<emptied, key, value>>
    BY <1>9 DEF AdvanceIndexTail, h
  <2>2. headers' \in Seq(Header) /\ current' = current /\ Kept
    BY <1>0, <1>2, <2>1, TailStored
  <2> QED BY <2>1, <2>2, <1>0
<1>10. CASE NewBlockIndex
  <2>1. CASE AllocateIndex(h)
    <3>1. headers' \in Seq(Header) /\ current' = current + 1 /\ Kept
      BY <2>1, <1>0, IndexAdded DEF h
    <3> QED BY <3>1, <1>0, <1>10 DEF NewBlockIndex
  <2>2. CASE UNCHANGED headers
    BY <2>2, <1>10, <1>5 DEF NewBlockIndex
  <2> QED BY <2>1, <2>2, <1>10 DEF NewBlockIndex, h
<1>11. CASE RequisitionBlock
  <2>1. PICK b \in free : EnterBlock(b) /\ emptied' = [emptied EXCEPT ![b] = 0] /\ UNCHANGED <<key, headers>>
    BY <1>11 DEF RequisitionBlock
  <2>2. b \in Blocks
    BY DEF Types, StoreTypes
  <2>3. value' = [value EXCEPT ![TailEntry(headers[current])] = b]
    BY <2>1 DEF EnterBlock
  <2>4. value' \in [Entries -> Blocks \cup {Null}] /\ emptied' \in [Blocks -> Nat]
    BY <1>0, <2>1, <2>2, <2>3
  <2> QED BY <2>1, <2>4, <1>3, <1>0 DEF current
<1>12. ASSUME RewindBlockIndexTail, UNCHANGED <<emptied, key>>,
              \E e : value' = [value EXCEPT ![e] = Null]
       PROVE  IndexTypes' /\ Kept
  <2>1. headers' = [headers EXCEPT ![current].tail = (h.tail - 1) % Capacity(h)]
    BY <1>12, <1>0 DEF RewindBlockIndexTail, h
  <2>2. headers' \in Seq(Header) /\ current' = current /\ Kept
    BY <1>0, <1>2, <2>1, TailStored
  <2>3. value' \in [Entries -> Blocks \cup {Null}]
    BY <1>12, <1>0
  <2> QED BY <1>12, <2>2, <2>3, <1>0
<1>13. CASE FailBlock \/ UndoBlock
  BY <1>13, <1>12 DEF FailBlock, UndoBlock
<1>14. ASSUME NEW c \in Consumers
       PROVE  /\ LoadHeader(c) \/ LoadTail(c) \/ LoadKey(c) \/ Fetch(c) => UNCHANGED <<key, value, headers, emptied>>
              /\ Idling \/ FreeBlock(c) => UNCHANGED <<key, value, headers, emptied>>
  BY DEF LoadHeader, LoadTail, LoadKey, Fetch, FreeBlock, Idling, blockIndex
<1>15. ASSUME NEW c \in Consumers, SetManyEmpty(c) PROVE IndexTypes' /\ Kept
  <2>1. emptied' = [emptied EXCEPT ![call[c].block] = @ + call[c].k] /\ UNCHANGED <<key, value, headers>>
    BY <1>15 DEF SetManyEmpty, blockIndex
  <2>2. call[c].k \in Nat
    <3>1. call[c] \in CallSet /\ W \in Nat
      BY SizeFacts DEF Types, CallTypes
    <3> QED BY <3>1 DEF CallSet
  <2>3. call[c].block \in Blocks
    BY <1>15 DEF SetManyEmpty, At, Types, CallTypes
  <2>4. emptied' \in [Blocks -> Nat]
    BY <1>0, <2>1, <2>2, <2>3
  <2> QED BY <2>1, <2>4, <1>3, <1>0 DEF current
<1>16. ASSUME NEW c \in Consumers, ClearEntry(c) PROVE IndexTypes' /\ Kept
  <2>1. value' = [value EXCEPT ![EntryOf(c)] = Null] /\ UNCHANGED <<key, headers, emptied>>
    BY <1>16 DEF ClearEntry
  <2>2. value' \in [Entries -> Blocks \cup {Null}]
    BY <1>0, <2>1
  <2> QED BY <2>1, <2>2, <1>3, <1>0 DEF current
<1> QED BY Actions, <1>5, <1>6, <1>7, <1>8, <1>9, <1>10, <1>11, <1>13, <1>14, <1>15, <1>16

\* What the places of a call say of it.
PlacesOK(r, sizes) ==
  /\ r.pc \in {"front", "key", "fetch", "empty", "clear", "free"} => r.header \in 1..Len(sizes)
  /\ r.pc \in {"key", "fetch", "empty", "clear", "free"} => r.pos \in 0..(Capacity(sizes[r.header]) - 1)
  /\ r.pc \in {"empty", "clear", "free"} => r.block \in Blocks

\* The types of the calls, by the places they are at.
LEMMA CallTypesIs ==
  CallTypes <=> /\ call \in [Consumers -> CallSet] /\ out \in [Consumers -> Seq(Values)]
                /\ \A c \in Consumers : PlacesOK(call[c], headers)
BY DEF CallTypes, PlacesOK, current, Size

\* The same, after a step.
LEMMA CallTypesAfter ==
  ASSUME call' \in [Consumers -> CallSet], out' \in [Consumers -> Seq(Values)],
         \A c \in Consumers : PlacesOK(call'[c], headers')
  PROVE  CallTypes'
BY DEF CallTypes, PlacesOK, current, Size

\* A call that does nothing stays inside its index.
LEMMA CallFrame ==
  ASSUME Types, Kept, NEW c \in Consumers
  PROVE  PlacesOK(call[c], headers')
<1>1. PlacesOK(call[c], headers)
  BY CallTypesIs DEF Types
<1>2. call[c].header \in 1..current =>
        call[c].header \in 1..Len(headers') /\ Capacity(headers'[call[c].header]) = Capacity(headers[call[c].header])
  BY DEF Kept, Size, current
<1> QED BY <1>1, <1>2 DEF PlacesOK, current

\* One call changes, to a record of the type.
LEMMA CallChange ==
  ASSUME Types, Kept, NEW c \in Consumers, NEW r \in CallSet, PlacesOK(r, headers'),
         call' = [call EXCEPT ![c] = r], out' \in [Consumers -> Seq(Values)]
  PROVE  CallTypes'
<1>1. call' \in [Consumers -> CallSet]
  BY DEF Types, CallTypes
<1>2. \A d \in Consumers : PlacesOK(call'[d], headers')
  <2> SUFFICES ASSUME NEW d \in Consumers PROVE PlacesOK(call'[d], headers')
    OBVIOUS
  <2>1. call'[d] = IF d = c THEN r ELSE call[d]
    BY DEF Types, CallTypes
  <2> QED BY <2>1, CallFrame
<1> QED BY <1>1, <1>2, CallTypesAfter

\* A number of blocks is an integer.
LEMMA BlocksBetweenType == \A i, j \in Int : BlocksBetween(i, j) \in Int
<1> SUFFICES ASSUME NEW i \in Int, NEW j \in Int PROVE BlocksBetween(i, j) \in Int
  OBVIOUS
<1>1. W \in Nat \ {0} /\ BLOCK_SIZE \in Nat \ {0}
  BY SizeFacts
<1>2. i % BLOCK_SIZE \in Int /\ j % BLOCK_SIZE \in Int
  BY <1>1, Division
<1>3. Base(j) \in Int /\ Base(i) \in Int
  BY <1>2 DEF Base
<1> DEFINE x == Minus(Base(j), Base(i))
<1>4. x \in Int
  <2>1. x \in Indexes
    BY <1>3, Wrapped
  <2> QED BY <2>1, <1>1 DEF Indexes
<1> HIDE DEF x
<1>5. Signed(x) \in Int
  BY <1>4, <1>1 DEF Signed
<1>6. Signed(x) \div BLOCK_SIZE \in Int
  BY <1>5, <1>1, Division
<1> QED BY <1>6 DEF BlocksBetween, x

\* A step keeps the types of the calls.
LEMMA CallTypesStep ==
  ASSUME Types, Next
  PROVE  CallTypes'
<1>0. Kept /\ IndexTypes' /\ IndexTypes
  BY IndexTypesStep DEF Types
<1>1. /\ call \in [Consumers -> CallSet] /\ out \in [Consumers -> Seq(Values)]
      /\ tailIndex \in Indexes /\ headIndex \in Indexes /\ dequeueOptimisticCount \in Indexes
      /\ dequeueOvercommit \in Indexes /\ current \in Nat /\ current \in 1..current
  <2>1. Len(headers) \in Nat /\ current >= 1
    BY LenProperties, <1>0 DEF IndexTypes
  <2> QED BY <2>1 DEF Types, CallTypes, CounterTypes, current
<1>c. /\ dequeueOptimisticCount \in Indexes /\ dequeueOvercommit \in Indexes
      /\ tailIndex \in Indexes /\ headIndex \in Indexes /\ current \in Nat /\ current \in 1..current
  BY <1>1
<1>s. W \in Nat \ {0} /\ BLOCK_SIZE \in Nat \ {0} /\ BLOCK_SIZE <= W /\ Sizes \subseteq Nat /\ W > 1
  BY SizeFacts, SizesFit
<1>i. Indexes = 0..(W - 1)
  BY DEF Indexes
<1>z. 0 \in Indexes /\ 0 \in 0..W /\ Indexes \subseteq Int
  BY <1>s, <1>i
<1>w. \A x, y \in Int : Plus(x, y) \in Indexes /\ Minus(x, y) \in Indexes
  BY Wrapped
<1>n. NoCall \in CallSet /\ PlacesOK(NoCall, headers')
  BY <1>s DEF NoCall, CallSet, Places, Indexes, PlacesOK
<1>2. ASSUME UNCHANGED <<call, out>> PROVE CallTypes'
  BY <1>2, <1>0, <1>1, CallFrame, CallTypesAfter
<1>3. ASSUME NEW count \in Counts, BeginEnqueue(count) PROVE UNCHANGED <<call, out>>
  BY <1>3 DEF BeginEnqueue, base
<1>4. CheckRoom \/ InsertBlockIndexEntry \/ AdvanceIndexTail \/ NewBlockIndex \/ FailBlock \/ UndoBlock
      => UNCHANGED <<call, out>>
  BY DEF CheckRoom, InsertBlockIndexEntry, AdvanceIndexTail, NewBlockIndex, FailBlock, UndoBlock, base
<1>5. RequisitionBlock \/ FreeChain \/ AppendToTail \/ Publish => UNCHANGED <<call, out>>
  BY DEF RequisitionBlock, FreeChain, AppendToTail, Publish, Construct
<1>6. ASSUME NEW c \in Consumers
      PROVE  /\ call[c] \in CallSet /\ call[c].n \in 0..W /\ call[c].k \in 0..W /\ call[c].at \in Int
             /\ call[c].max \in Nat /\ call[c].tail \in Int /\ call[c].over \in Int
             /\ call[c].pos \in Nat /\ PlacesOK(call[c], headers)
  <2>1. call[c] \in CallSet
    BY <1>1
  <2>2. PlacesOK(call[c], headers)
    BY CallTypesIs DEF Types
  <2>3. call[c].at \in Indexes /\ call[c].tail \in Indexes /\ call[c].over \in Indexes /\ call[c].max \in Sizes \cup {0, 1}
        /\ call[c].n \in 0..W /\ call[c].k \in 0..W /\ call[c].pos \in Nat
    BY <2>1 DEF CallSet
  <2>4. call[c].max \in Nat
    <3>1. Sizes \cup {0, 1} \subseteq Nat
      BY <1>s
    <3> QED BY <2>3, <3>1
  <2> QED BY <2>1, <2>2, <2>3, <2>4, <1>z
<1>7. ASSUME NEW c \in Consumers, NEW m \in Sizes \cup {1}, Begin(c, m) PROVE CallTypes'
  <2> DEFINE alone == \A d \in Consumers \ {c} : At(d, "idle")
             due == IF alone THEN Lesser(m, Minus(tailIndex, headIndex)) ELSE 0
             r == [NoCall EXCEPT !.pc = "overcommit", !.max = m, !.tail = tailIndex,
                                 !.alone = alone, !.due = due]
  <2>1. call' = [d \in Consumers |-> IF d = c THEN r ELSE [call[d] EXCEPT !.alone = FALSE, !.due = 0]]
        /\ out' = out
    BY <1>7, ZenonT(30) DEF Begin
  <2>2. due \in Indexes
    <3>0. tailIndex \in Int /\ headIndex \in Int /\ m \in Nat
      BY <1>1, <1>z, <1>s
    <3>1. Minus(tailIndex, headIndex) \in 0..(W - 1) /\ m \in Nat
      BY <3>0, <1>w, <1>i
    <3> QED BY <3>1, <1>i, <1>s DEF Lesser
  <2>3. r \in CallSet
    <3>1. alone \in BOOLEAN
      OBVIOUS
    <3> HIDE DEF alone, due
    <3> QED BY <2>2, <3>1, <1>1, <1>z DEF CallSet, NoCall, Places
  <2>4. PlacesOK(r, headers')
    BY DEF PlacesOK, NoCall
  <2> HIDE DEF r
  <2>5. ASSUME NEW d \in Consumers
        PROVE  [call[d] EXCEPT !.alone = FALSE, !.due = 0] \in CallSet
               /\ PlacesOK([call[d] EXCEPT !.alone = FALSE, !.due = 0], headers')
    <3>1. call[d] \in CallSet /\ PlacesOK(call[d], headers')
      BY <1>1, <1>0, CallFrame
    <3>2. [call[d] EXCEPT !.alone = FALSE, !.due = 0] \in CallSet
      BY <3>1, <1>z DEF CallSet
    <3>3. PlacesOK([call[d] EXCEPT !.alone = FALSE, !.due = 0], headers')
      BY <3>1 DEF CallSet, PlacesOK
    <3> QED BY <3>2, <3>3
  <2>6. call' \in [Consumers -> CallSet] /\ \A d \in Consumers : PlacesOK(call'[d], headers')
    BY <2>1, <2>3, <2>4, <2>5, ZenonT(30)
  <2> QED BY <2>1, <2>6, <1>1, CallTypesAfter, ZenonT(30)
<1>8. ASSUME NEW c \in Consumers, NEW r \in CallSet, PlacesOK(r, headers'),
             call' = [call EXCEPT ![c] = r], out' \in [Consumers -> Seq(Values)]
      PROVE  CallTypes'
  BY <1>8, <1>0, CallChange
<1>9. ASSUME NEW c \in Consumers, ReadOvercommit(c) PROVE CallTypes'
  <2> DEFINE r == [call[c] EXCEPT !.over = dequeueOvercommit, !.pc = "look"]
  <2>q. call[c] \in CallSet /\ PlacesOK(call[c], headers)
    BY <1>6
  <2>1. call' = [call EXCEPT ![c] = r] /\ out' = out
    BY <1>9, <1>1, <1>6 DEF ReadOvercommit, CallSet
  <2>2. r \in CallSet /\ PlacesOK(r, headers')
    BY <1>c, <2>q DEF CallSet, Places, PlacesOK
  <2> QED BY <2>1, <2>2, <1>1, <1>8
<1>10. ASSUME NEW c \in Consumers, Look(c) PROVE CallTypes'
  <2> DEFINE n == Covered(call[c].tail, dequeueOptimisticCount, call[c].over)
             r == [call[c] EXCEPT !.n = Lesser(n, call[c].max), !.pc = "claim", !.max = 0, !.tail = 0]
  <2>q. call[c] \in CallSet /\ PlacesOK(call[c], headers)
    BY <1>6
  <2>1. call' = [call EXCEPT ![c] = IF n = 0 THEN NoCall ELSE r] /\ out' = out
    BY <1>10, <1>1 DEF Look
  <2>2. n \in 0..W
    <3>1. dequeueOptimisticCount - call[c].over \in Int
      BY <1>1, <1>6, <1>i, <1>s
    <3>2. Minus(call[c].tail, dequeueOptimisticCount - call[c].over) \in 0..(W - 1)
      BY <3>1, <1>6, <1>w, <1>i
    <3> QED BY <3>2, <1>s DEF Covered
  <2>3. Lesser(n, call[c].max) \in 0..W
    <3> HIDE DEF n
    <3> QED BY <2>2, <1>6, <1>s DEF Lesser
  <2>4. r \in CallSet /\ PlacesOK(r, headers')
    <3> HIDE DEF n
    <3> QED BY <2>3, <2>q, <1>z DEF CallSet, Places, PlacesOK
  <2> QED BY <2>1, <2>4, <1>1, <1>8, <1>n
<1>11. ASSUME NEW c \in Consumers, Claim(c) PROVE CallTypes'
  <2> DEFINE r == [call[c] EXCEPT !.at = dequeueOptimisticCount, !.pc = "settle"]
  <2>q. call[c] \in CallSet /\ PlacesOK(call[c], headers)
    BY <1>6
  <2>1. call' = [call EXCEPT ![c] = r] /\ out' = out
    BY <1>11, <1>1 DEF Claim
  <2>2. r \in CallSet /\ PlacesOK(r, headers')
    BY <1>c, <2>q DEF CallSet, Places, PlacesOK
  <2> QED BY <2>1, <2>2, <1>1, <1>8
<1>12. ASSUME NEW c \in Consumers, Settle(c) PROVE CallTypes'
  <2> DEFINE n == Granted(c)
             pl == IF n < call[c].n THEN "giveback" ELSE "take"
             r == [call[c] EXCEPT !.n = n, !.k = call[c].n - n, !.at = 0, !.over = 0, !.pc = pl]
  <2>q. call[c] \in CallSet /\ PlacesOK(call[c], headers)
    BY <1>6
  <2>1. call' = [call EXCEPT ![c] = r] /\ out' = out
    BY <1>12, <1>1 DEF Settle
  <2>2. n \in 0..call[c].n
    <3> DEFINE v == Covered(tailIndex, call[c].at, call[c].over)
    <3>1. call[c].at - call[c].over \in Int
      BY <1>6
    <3>2. Minus(tailIndex, call[c].at - call[c].over) \in 0..(W - 1)
      BY <3>1, <1>1, <1>w, <1>i, <1>z
    <3>3. v \in Nat
      BY <3>2, <1>s DEF Covered
    <3> HIDE DEF v
    <3>4. n = Lesser(call[c].n, v)
      BY DEF Granted, v
    <3> HIDE DEF n
    <3> QED BY <3>3, <3>4, <1>6, <1>s DEF Lesser
  <2>3. n \in 0..W /\ call[c].n - n \in 0..W
    <3> HIDE DEF n
    <3> QED BY <2>2, <1>6, <1>s
  <2>4. r \in CallSet /\ PlacesOK(r, headers')
    <3>1. pl \in {"giveback", "take"}
      OBVIOUS
    <3> HIDE DEF n, pl
    <3> QED BY <2>3, <3>1, <2>q, <1>z DEF CallSet, Places, PlacesOK
  <2> QED BY <2>1, <2>4, <1>1, <1>8
<1>13. ASSUME NEW c \in Consumers, GiveBack(c) PROVE CallTypes'
  <2> DEFINE r == [call[c] EXCEPT !.k = 0, !.pc = "take"]
  <2>q. call[c] \in CallSet /\ PlacesOK(call[c], headers)
    BY <1>6
  <2>1. call' = [call EXCEPT ![c] = IF call[c].n = 0 THEN NoCall ELSE r] /\ out' = out
    BY <1>13, <1>1 DEF GiveBack
  <2>2. r \in CallSet /\ PlacesOK(r, headers')
    <3>1. r \in CallSet
      BY <1>c, <2>q, <1>z DEF CallSet, Places
    <3>2. r.pc = "take"
      BY <1>1 DEF CallSet
    <3> HIDE DEF r
    <3> QED BY <3>1, <3>2 DEF PlacesOK
  <2> QED BY <2>1, <2>2, <1>1, <1>8, <1>n
<1>14. ASSUME NEW c \in Consumers, Take(c) PROVE CallTypes'
  <2> DEFINE r == [call[c] EXCEPT !.at = headIndex, !.pc = "header", !.alone = FALSE, !.due = 0]
  <2>q. call[c] \in CallSet /\ PlacesOK(call[c], headers)
    BY <1>6
  <2>1. call' = [call EXCEPT ![c] = r] /\ out' = out
    BY <1>14, <1>1 DEF Take
  <2>2. r \in CallSet /\ PlacesOK(r, headers')
    <3>1. r \in CallSet
      BY <1>c, <2>q, <1>z DEF CallSet, Places
    <3>2. r.pc = "header"
      BY <1>1 DEF CallSet
    <3> HIDE DEF r
    <3> QED BY <3>1, <3>2 DEF PlacesOK
  <2> QED BY <2>1, <2>2, <1>1, <1>8
<1>15. ASSUME NEW c \in Consumers, LoadHeader(c) PROVE CallTypes'
  <2> DEFINE r == [call[c] EXCEPT !.header = current, !.pc = "front"]
  <2>q. call[c] \in CallSet /\ PlacesOK(call[c], headers)
    BY <1>6
  <2>1. call' = [call EXCEPT ![c] = r] /\ out' = out /\ headers' = headers
    BY <1>15, <1>1 DEF LoadHeader, blockIndex
  <2>2. r \in CallSet /\ PlacesOK(r, headers')
    BY <1>c, <2>q, <2>1 DEF CallSet, Places, PlacesOK, current
  <2> QED BY <2>1, <2>2, <1>1, <1>8
<1>16. ASSUME NEW c \in Consumers, LoadTail(c) PROVE CallTypes'
  <2> DEFINE t == headers[call[c].header].tail
             r == [call[c] EXCEPT !.pos = t, !.pc = "key"]
  <2>q. call[c] \in CallSet /\ PlacesOK(call[c], headers)
    BY <1>6
  <2>1. call' = [call EXCEPT ![c] = r] /\ out' = out /\ headers' = headers /\ call[c].pc = "front"
    BY <1>16, <1>1 DEF LoadTail, blockIndex, At
  <2>2. call[c].header \in 1..current
    BY <2>1, <1>6 DEF PlacesOK, current
  <2>3. t \in 0..(Size(call[c].header) - 1) /\ t \in Nat
    BY <2>2, <1>0, HeadersFacts
  <2>4. r \in CallSet /\ PlacesOK(r, headers')
    <3> HIDE DEF t
    <3> QED BY <2>1, <2>2, <2>3, <2>q DEF CallSet, Places, PlacesOK, current, Size
  <2> QED BY <2>1, <2>4, <1>1, <1>8
<1>17. ASSUME NEW c \in Consumers, LoadKey(c) PROVE CallTypes'
  <2> DEFINE h == headers[call[c].header]
             t == PlaceOf(h, call[c].pos, call[c].at)
             r == [call[c] EXCEPT !.pos = t, !.pc = "fetch"]
  <2>q. call[c] \in CallSet /\ PlacesOK(call[c], headers)
    BY <1>6
  <2>1. call' = [call EXCEPT ![c] = r] /\ out' = out /\ headers' = headers /\ call[c].pc = "key"
    BY <1>17, <1>1 DEF LoadKey, blockIndex, At
  <2>2. call[c].header \in 1..current /\ call[c].pos \in 0..(Size(call[c].header) - 1)
    BY <2>1, <1>6 DEF PlacesOK, current, Size
  <2>3. Capacity(h) \in Nat \ {0} /\ Capacity(h) = Size(call[c].header)
        /\ h.index \in [0..(Capacity(h) - 1) -> Entries]
    BY <2>2, <1>0, HeadersFacts DEF Size
  <2>4. key[h.index[call[c].pos]] \in Int
    <3>1. h.index[call[c].pos] \in Entries
      BY <2>2, <2>3
    <3>2. key[h.index[call[c].pos]] \in Indexes
      BY <3>1, <1>0 DEF IndexTypes
    <3> QED BY <3>2, <1>i, <1>s
  <2>5. t \in 0..(Capacity(h) - 1)
    <3> DEFINE x == call[c].pos + BlocksBetween(key[h.index[call[c].pos]], call[c].at)
    <3>0. BlocksBetween(key[h.index[call[c].pos]], call[c].at) \in Int
      BY <2>4, <1>6, BlocksBetweenType
    <3>1. x \in Int
      BY <3>0, <1>6
    <3>2. t = x % Capacity(h)
      BY DEF PlaceOf
    <3> HIDE DEF x, t, h
    <3> QED BY <3>1, <3>2, <2>3, Division
  <2>6. r \in CallSet /\ PlacesOK(r, headers')
    <3>1. t \in Nat
      BY <2>3, <2>5
    <3> HIDE DEF t
    <3> QED BY <2>1, <2>2, <2>5, <3>1, <2>q DEF CallSet, Places, PlacesOK, current, h
  <2> QED BY <2>1, <2>6, <1>1, <1>8
<1>18. ASSUME NEW c \in Consumers, Fetch(c) PROVE CallTypes'
  <2> DEFINE b == value[EntryOf(c)]
             from == call[c].at % BLOCK_SIZE
             k == Lesser(call[c].n, BLOCK_SIZE - from)
             r == [call[c] EXCEPT !.block = b, !.k = k, !.n = @ - k, !.at = Plus(@, k), !.pc = "empty"]
  <2>q. call[c] \in CallSet /\ PlacesOK(call[c], headers)
    BY <1>6
  <2>1. /\ call' = [call EXCEPT ![c] = r] /\ headers' = headers /\ call[c].pc = "fetch" /\ b \in Blocks
        /\ out' = [out EXCEPT ![c] = @ \o [j \in 1..k |-> elems[b][from + j - 1]]]
    BY <1>18, <1>1 DEF Fetch, MoveOut, blockIndex, At
  <2>2. from \in 0..(BLOCK_SIZE - 1)
    BY <1>6, <1>s, Division
  <2> HIDE DEF from
  <2>3. k \in 0..call[c].n /\ k \in 0..(BLOCK_SIZE - from)
    BY <2>2, <1>6, <1>s DEF Lesser
  <2> HIDE DEF k, b
  <2>4. k \in 0..W /\ call[c].n - k \in 0..W /\ k \in Nat /\ Plus(call[c].at, k) \in Indexes
    BY <2>3, <2>2, <1>6, <1>s, <1>w
  <2>5. r \in CallSet /\ PlacesOK(r, headers')
    BY <2>1, <2>4, <2>q DEF CallSet, Places, PlacesOK
  <2>6. out' \in [Consumers -> Seq(Values)]
    <3> DEFINE f == [j \in 1..k |-> elems[b][from + j - 1]]
    <3>1. ASSUME NEW j \in 1..k PROVE elems[b][from + j - 1] \in Values
      <4>1. from + j - 1 \in Offsets
        BY <2>2, <2>3, <1>s DEF Offsets
      <4> QED BY <4>1, <2>1 DEF Types, StoreTypes
    <3>2. f \in Seq(Values)
      BY <3>1, <2>4, IsASeq
    <3> HIDE DEF f
    <3>3. out[c] \o f \in Seq(Values)
      BY <3>2, <1>1, ConcatProperties
    <3> QED BY <2>1, <3>3, <1>1 DEF f
  <2> QED BY <2>1, <2>5, <2>6, <1>1, <1>8
<1>19. ASSUME NEW c \in Consumers, OnToNext(c), UNCHANGED headers, call[c].pc \in {"empty", "free"}
       PROVE  CallTypes'
  <2> DEFINE h == headers[call[c].header]
             t == (call[c].pos + 1) % Capacity(h)
             r == [call[c] EXCEPT !.pos = t, !.block = Null, !.k = 0, !.pc = "fetch"]
  <2>q. call[c] \in CallSet /\ PlacesOK(call[c], headers)
    BY <1>6
  <2>1. call[c].header \in 1..current /\ call[c].pos \in Nat
    BY <1>19, <1>6 DEF PlacesOK, current
  <2>2. Capacity(h) \in Nat \ {0}
    BY <2>1, <1>0, HeadersFacts DEF Size
  <2>3. t \in 0..(Capacity(h) - 1)
    <3>1. call[c].pos + 1 \in Int
      BY <2>1
    <3> QED BY <3>1, <2>2, Division
  <2>4. CASE call[c].n = 0
    <3>1. call' = [call EXCEPT ![c] = NoCall] /\ out' = [out EXCEPT ![c] = <<>>]
      BY <1>19, <2>4 DEF OnToNext, NextBlock
    <3>2. out' \in [Consumers -> Seq(Values)]
      BY <3>1, <1>1, EmptySeq
    <3> QED BY <3>1, <3>2, <1>n, <1>8
  <2>5. CASE call[c].n # 0
    <3>1. call' = [call EXCEPT ![c] = r] /\ out' = out
      BY <1>19, <1>1, <2>5 DEF OnToNext, NextBlock
    <3>2. r \in CallSet /\ PlacesOK(r, headers')
      <4>1. t \in Nat
        BY <2>2, <2>3
      <4> HIDE DEF t
      <4> QED BY <2>1, <2>3, <4>1, <2>q, <1>19, <1>z DEF CallSet, Places, PlacesOK, h, current
    <3> QED BY <3>1, <3>2, <1>1, <1>8
  <2> QED BY <2>4, <2>5
<1>20. ASSUME NEW c \in Consumers, SetManyEmpty(c) PROVE CallTypes'
  <2>q. call[c] \in CallSet /\ PlacesOK(call[c], headers)
    BY <1>6
  <2>1. headers' = headers /\ call[c].pc = "empty"
    BY <1>20 DEF SetManyEmpty, blockIndex, At
  <2>2. CASE OnToNext(c)
    BY <2>1, <2>2, <1>19
  <2>3. CASE call' = [call EXCEPT ![c].pc = "clear"] /\ UNCHANGED out
    <3> DEFINE r == [call[c] EXCEPT !.pc = "clear"]
    <3>1. r \in CallSet /\ PlacesOK(r, headers')
      BY <2>1, <2>q DEF CallSet, Places, PlacesOK
    <3>2. call' = [call EXCEPT ![c] = r]
      BY <2>3, <1>1
    <3> QED BY <2>3, <3>1, <3>2, <1>1, <1>8
  <2> QED BY <1>20, <2>2, <2>3 DEF SetManyEmpty
<1>21. ASSUME NEW c \in Consumers, ClearEntry(c) PROVE CallTypes'
  <2> DEFINE r == [call[c] EXCEPT !.pc = "free"]
  <2>q. call[c] \in CallSet /\ PlacesOK(call[c], headers)
    BY <1>6
  <2>1. call' = [call EXCEPT ![c] = r] /\ out' = out /\ headers' = headers /\ call[c].pc = "clear"
    BY <1>21, <1>1 DEF ClearEntry, At
  <2>2. r \in CallSet /\ PlacesOK(r, headers')
    BY <2>1, <2>q DEF CallSet, Places, PlacesOK
  <2> QED BY <2>1, <2>2, <1>1, <1>8
<1>22. ASSUME NEW c \in Consumers, FreeBlock(c) PROVE CallTypes'
  BY <1>22, <1>19 DEF FreeBlock, blockIndex, At
<1> QED BY Actions, <1>2, <1>3, <1>4, <1>5, <1>7, <1>9, <1>10, <1>11, <1>12, <1>13, <1>14, <1>15,
           <1>16, <1>17, <1>18, <1>20, <1>21, <1>22

\* A step keeps the type of the enqueue under way.
LEMMA ProducerTypesStep ==
  ASSUME Types, Next
  PROVE  ProducerTypes'
<1> USE DEF ProducerTypes, Producing
<1>0. /\ ProducerTypes /\ sent \in Nat /\ MaxItems \in Nat /\ Counts \subseteq Nat
      /\ sent <= MaxItems
  BY SizesFit DEF Types, StoreTypes
<1>1. /\ producer \in [pc : ProducerPlaces, count : Nat, chain : Seq(Blocks), undone : Nat]
      /\ Len(producer.chain) \in Nat
  BY <1>0, LenProperties
<1>2. <<>> \in Seq(Blocks) /\ Len(<<>>) = 0
  BY EmptySeq
<1>3. sent' = sent /\ producer' = NoEnqueue => ProducerTypes'
  BY <1>0, <1>2 DEF NoEnqueue, ProducerPlaces
<1>4. ASSUME UNCHANGED <<producer, sent>> PROVE ProducerTypes'
  BY <1>4, <1>0
<1>5. ASSUME NEW count \in Counts, BeginEnqueue(count) PROVE ProducerTypes'
  <2>1. producer' = [NoEnqueue EXCEPT !.pc = "insert", !.count = count] /\ sent' = sent /\ sent + count <= MaxItems
    BY <1>5 DEF BeginEnqueue, base, stored
  <2>2. count \in Nat
    BY <1>0
  <2>3. producer' = [pc |-> "insert", count |-> count, chain |-> <<>>, undone |-> 0]
    BY <2>1 DEF NoEnqueue
  <2>4. producer' \in [pc : ProducerPlaces, count : Nat, chain : Seq(Blocks), undone : Nat]
    BY <2>2, <2>3, <1>2 DEF ProducerPlaces
  <2>5. producer'.pc = "insert" /\ producer'.count = count /\ producer'.undone = 0 /\ Len(producer'.chain) = 0
    BY <2>3, <1>2
  <2> QED BY <2>1, <2>2, <2>4, <2>5, <1>0
<1>6. ASSUME NEW p \in ProducerPlaces \ {"idle"}, p = "undo" \/ ~Producing("undo"),
             ~Producing("idle"), GoTo(p), sent' = sent
      PROVE  ProducerTypes'
  <2>1. producer' = [producer EXCEPT !.pc = p]
    BY <1>6 DEF GoTo
  <2> QED BY <2>1, <1>6, <1>0, <1>1
<1>7. CASE CheckRoom
  <2>1. \E p \in {"undo", "insert"} : GoTo(p)
    BY <1>7 DEF CheckRoom
  <2> QED BY <2>1, <1>7, <1>6 DEF CheckRoom, ProducerPlaces, base, stored
<1>8. CASE InsertBlockIndexEntry
  BY <1>8, <1>6 DEF InsertBlockIndexEntry, ProducerPlaces, base, stored
<1>9. CASE AdvanceIndexTail
  BY <1>9, <1>6 DEF AdvanceIndexTail, ProducerPlaces, base, stored
<1>10. CASE NewBlockIndex
  BY <1>10, <1>4, <1>6 DEF NewBlockIndex, ProducerPlaces, base, stored
<1>11. CASE RequisitionBlock
  <2>1. PICK b \in Blocks : EnterBlock(b) /\ Producing("requisition") /\ sent' = sent
    BY <1>11 DEF RequisitionBlock, Types, StoreTypes
  <2>2. PICK p \in {"room", "publish"} : producer' = [producer EXCEPT !.chain = Append(producer.chain, b), !.pc = p]
    BY <2>1, <1>1 DEF EnterBlock
  <2>3. Append(producer.chain, b) \in Seq(Blocks) /\ Len(Append(producer.chain, b)) = Len(producer.chain) + 1
    BY <1>1, AppendProperties
  <2>4. producer.undone = 0
    BY <1>0, <1>1, <2>1
  <2>5. /\ producer' \in [pc : ProducerPlaces, count : Nat, chain : Seq(Blocks), undone : Nat]
        /\ producer'.undone = 0 /\ producer'.count = producer.count /\ producer'.pc \in {"room", "publish"}
        /\ Len(producer'.chain) = Len(producer.chain) + 1
    BY <2>2, <2>3, <2>4, <1>1 DEF ProducerPlaces
  <2> QED BY <2>1, <2>5, <1>0, <1>1
<1>12. CASE FailBlock
  BY <1>12, <1>6 DEF FailBlock, ProducerPlaces, base, stored
<1>13. CASE UndoBlock
  <2>1. Producing("undo") /\ producer.undone < Len(producer.chain)
        /\ producer' = [producer EXCEPT !.undone = producer.undone + 1] /\ sent' = sent
    BY <1>13, <1>1 DEF UndoBlock, base, stored
  <2> QED BY <2>1, <1>0, <1>1 DEF ProducerPlaces
<1>14. CASE FreeChain
  BY <1>14, <1>3 DEF FreeChain
<1>15. CASE AppendToTail
  <2>1. PICK count \in Counts : sent + count <= MaxItems /\ Construct(count, <<>>)
    BY <1>15 DEF AppendToTail
  <2>2. sent' = sent + count
    BY <2>1 DEF Construct
  <2>3. producer' = producer /\ producer = NoEnqueue
    BY <1>15, <1>0 DEF AppendToTail
  <2>4. producer.count = 0
    BY <2>3 DEF NoEnqueue
  <2> QED BY <2>1, <2>2, <2>3, <2>4, <1>0
<1>16. CASE Publish
  <2>1. sent' = sent + producer.count /\ producer' = NoEnqueue
    BY <1>16, ZenonT(30) DEF Publish, Construct
  <2> QED BY <2>1, <1>0, <1>2, SMTT(40) DEF NoEnqueue, ProducerPlaces
<1>17. ASSUME NEW c \in Consumers
       PROVE  /\ (\E m \in Sizes \cup {1} : Begin(c, m)) \/ ReadOvercommit(c) \/ Look(c) \/ Settle(c)
                   => UNCHANGED sent
              /\ Claim(c) \/ GiveBack(c) \/ Take(c) => UNCHANGED sent
              /\ Idling => UNCHANGED producer
              /\ LoadHeader(c) \/ LoadTail(c) \/ LoadKey(c) \/ Fetch(c) => UNCHANGED <<producer, sent>>
              /\ SetManyEmpty(c) \/ ClearEntry(c) \/ FreeBlock(c) => UNCHANGED <<producer, sent>>
  BY ZenonT(30) DEF Begin, ReadOvercommit, Look, Claim, Settle, GiveBack, Take, LoadHeader, LoadTail, LoadKey,
         Fetch, MoveOut, SetManyEmpty, ClearEntry, FreeBlock, stored, Idling
<1> QED BY Actions, <1>4, <1>5, <1>7, <1>8, <1>9, <1>10, <1>11, <1>12, <1>13, <1>14, <1>15, <1>16, <1>17

\* What another's step leaves of a call: all but whether it is alone.
Same(d) == /\ call'[d].pc = call[d].pc /\ call'[d].max = call[d].max /\ call'[d].tail = call[d].tail
           /\ call'[d].over = call[d].over /\ call'[d].n = call[d].n /\ call'[d].at = call[d].at
           /\ call'[d].header = call[d].header /\ call'[d].pos = call[d].pos
           /\ call'[d].block = call[d].block /\ call'[d].k = call[d].k /\ out'[d] = out[d]
           /\ (call'[d].alone => call[d].alone /\ call'[d].due = call[d].due)

\* An enqueue does nothing to the calls.
LEMMA ProducerSteps ==
  ASSUME Types, Produce
  PROVE  UNCHANGED <<call, out>>
<1>3. ASSUME NEW count \in Counts, BeginEnqueue(count) PROVE UNCHANGED <<call, out>>
  BY <1>3 DEF BeginEnqueue, base
<1>4. CheckRoom \/ InsertBlockIndexEntry \/ AdvanceIndexTail \/ NewBlockIndex \/ FailBlock \/ UndoBlock
      => UNCHANGED <<call, out>>
  BY DEF CheckRoom, InsertBlockIndexEntry, AdvanceIndexTail, NewBlockIndex, FailBlock, UndoBlock, base
<1>5. RequisitionBlock \/ FreeChain \/ AppendToTail \/ Publish => UNCHANGED <<call, out>>
  BY DEF RequisitionBlock, FreeChain, AppendToTail, Publish, Construct
<1> QED BY <1>3, <1>4, <1>5 DEF Produce, enqueue, enqueue_bulk

\* A consumer's step leaves another's call alone, but ends its being alone.
LEMMA OthersSame ==
  ASSUME Types, NEW c \in Consumers, Consume(c), NEW d \in Consumers, d # c
  PROVE  Same(d)
<1>0. call \in [Consumers -> CallSet] /\ out \in [Consumers -> Seq(Values)] /\ call[d] \in CallSet
  BY DEF Types, CallTypes
<1>1. ASSUME call'[d] = call[d], out'[d] = out[d] PROVE Same(d)
  BY <1>1 DEF Same
<1>2. ASSUME NEW m \in Sizes \cup {1}, Begin(c, m) PROVE Same(d)
  <2>1. call'[d] = [call[d] EXCEPT !.alone = FALSE, !.due = 0] /\ out' = out
    BY <1>2, ZenonT(30) DEF Begin
  <2> QED BY <2>1, <1>0 DEF Same, CallSet
<1>3. ReadOvercommit(c) \/ Look(c) \/ Claim(c) \/ Settle(c) \/ GiveBack(c) \/ Take(c)
        => call'[d] = call[d] /\ out'[d] = out[d]
  BY <1>0 DEF ReadOvercommit, Look, Claim, Settle, GiveBack, Take
<1>4. LoadHeader(c) \/ LoadTail(c) \/ LoadKey(c) \/ ClearEntry(c) => call'[d] = call[d] /\ out'[d] = out[d]
  BY <1>0, ZenonT(30) DEF LoadHeader, LoadTail, LoadKey, ClearEntry
<1>5. Fetch(c) => call'[d] = call[d] /\ out'[d] = out[d]
  BY <1>0 DEF Fetch, MoveOut
<1>6. OnToNext(c) => call'[d] = call[d] /\ out'[d] = out[d]
  BY <1>0 DEF OnToNext, NextBlock
<1>7. SetManyEmpty(c) \/ FreeBlock(c) => call'[d] = call[d] /\ out'[d] = out[d]
  BY <1>0, <1>6 DEF SetManyEmpty, FreeBlock
<1> QED BY <1>1, <1>2, <1>3, <1>4, <1>5, <1>7 DEF Consume, dequeue_bulk, ClaimElements

\* A step keeps the types of the histories.
LEMMA HistTypesStep ==
  ASSUME Types, Next, HistNext
  PROVE  HistTypes'
<1>0. HistTypes /\ Indexes \subseteq Nat
  BY SizeFacts DEF Types, Indexes
<1>1. ASSUME NEW x \in Indexes, NEW y \in Indexes PROVE Minus(x, y) \in Nat
  <2>1. x \in Int /\ y \in Int
    BY <1>0
  <2>2. Minus(x, y) \in Indexes
    BY <2>1, Wrapped
  <2> QED BY <2>2, <1>0
<1>2. CounterTypes /\ CounterTypes'
  BY CounterTypesStep DEF Types
<1>3. head' \in Nat /\ claimed' \in Nat /\ given' \in Nat
  <2>1. headIndex \in Indexes /\ dequeueOptimisticCount \in Indexes /\ dequeueOvercommit \in Indexes
    BY <1>2 DEF CounterTypes
  <2>2. headIndex' \in Indexes /\ dequeueOptimisticCount' \in Indexes /\ dequeueOvercommit' \in Indexes
    BY <1>2 DEF CounterTypes
  <2>3. Minus(headIndex', headIndex) \in Nat /\ Minus(dequeueOptimisticCount', dequeueOptimisticCount) \in Nat
        /\ Minus(dequeueOvercommit', dequeueOvercommit) \in Nat
    BY <2>1, <2>2, <1>1
  <2>4. head \in Nat /\ claimed \in Nat /\ given \in Nat
    BY <1>0 DEF HistTypes
  <2>5. /\ head' = head + Minus(headIndex', headIndex)
        /\ claimed' = claimed + Minus(dequeueOptimisticCount', dequeueOptimisticCount)
        /\ given' = given + Minus(dequeueOvercommit', dequeueOvercommit)
    BY DEF HistNext
  <2> QED BY <2>3, <2>4, <2>5
<1>4. read' \in [Consumers -> Nat]
  BY <1>0 DEF HistNext, HistTypes
<1>5. ASSUME NEW c \in Consumers, At(c, "fetch")
      PROVE  place[c] + call[c].n - call'[c].n \in Nat
  <2>0. call[c] \in CallSet /\ call[c].n \in 0..W /\ call[c].at \in Nat /\ place[c] \in Nat /\ W \in Nat
        /\ BLOCK_SIZE \in Nat \ {0}
    <3>1. call[c] \in CallSet /\ W \in Nat /\ place[c] \in Nat /\ BLOCK_SIZE \in Nat \ {0}
      BY <1>0, SizeFacts DEF Types, CallTypes, HistTypes
    <3>2. call[c].at \in Indexes /\ call[c].n \in 0..W
      BY <3>1 DEF CallSet
    <3> QED BY <3>1, <3>2, <1>0
  <2>1. CASE call'[c].n = call[c].n
    BY <2>0, <2>1
  <2>2. CASE Fetch(c)
    <3> DEFINE from == call[c].at % BLOCK_SIZE
               k == Lesser(call[c].n, BLOCK_SIZE - from)
    <3>1. call'[c].n = call[c].n - k
      BY <2>2, <2>0 DEF Fetch, MoveOut, CallSet, Types, CallTypes
    <3>2. from \in 0..(BLOCK_SIZE - 1)
      BY <2>0, Division
    <3> HIDE DEF from
    <3>3. k \in 0..call[c].n
      BY <3>2, <2>0 DEF Lesser
    <3> HIDE DEF k
    <3> QED BY <3>1, <3>3, <2>0, SMTT(40)
  <2>3. Produce => call'[c].n = call[c].n
    BY ProducerSteps
  <2>4. ASSUME NEW d \in Consumers, Consume(d), d # c PROVE call'[c].n = call[c].n
    BY <2>4, OthersSame DEF Same
  <2>5. Consume(c) => Fetch(c)
    BY <1>5 DEF Consume, dequeue_bulk, ClaimElements, At, Begin, ReadOvercommit, Look, Claim, Settle,
       GiveBack, Take, LoadHeader, LoadTail, LoadKey, SetManyEmpty, ClearEntry, FreeBlock
  <2> QED BY <2>1, <2>2, <2>3, <2>4, <2>5 DEF Next
<1>6. place' \in [Consumers -> Nat]
  BY <1>0, <1>5 DEF HistNext, HistTypes
<1>7. Newest \in Int /\ current \in Nat /\ current >= 1 /\ Newest - Size(current) + 1 \in Int
  <2>1. Len(headers) \in Nat /\ current >= 1 /\ IndexTypes
    BY LenProperties DEF Types, IndexTypes
  <2>2. current \in Nat /\ current \in 1..current
    BY <2>1 DEF current
  <2>3. Size(current) \in Nat
    BY <2>1, <2>2, HeadersFacts
  <2>4. Len(producer.chain) \in Nat /\ producer.undone \in Nat
    BY LenProperties DEF Types, ProducerTypes
  <2>5. End - 1 \in Int
    BY SizeFacts DEF Types, StoreTypes, End
  <2>6. TailNumber \in Int
    BY <2>5, NumFacts DEF TailNumber
  <2>7. Newest \in Int
    BY <2>4, <2>6 DEF Newest
  <2> QED BY <2>1, <2>2, <2>3, <2>7
<1>8. number' \in [Entries -> Int] /\ first' \in Seq(Int)
  <2>1. first \in Seq(Int) /\ number \in [Entries -> Int] /\ Newest + 1 \in Int
    BY <1>0, <1>7 DEF HistTypes
  <2>2. Append(first, Newest - Size(current) + 1) \in Seq(Int)
    BY <2>1, <1>7, AppendProperties
  <2> QED BY <2>1, <2>2 DEF HistNext
<1> QED BY <1>3, <1>4, <1>6, <1>8 DEF HistTypes

\* A step keeps all the types.
LEMMA TypesStep ==
  ASSUME Types, [HNext]_<<vars, hist>>
  PROVE  Types'
<1>1. CASE HNext
  BY <1>1, CounterTypesStep, StoreTypesStep, CallTypesStep, IndexTypesStep, ProducerTypesStep,
     HistTypesStep DEF HNext, Types
<1>2. CASE UNCHANGED <<vars, hist>>
  <2>1. UNCHANGED <<tailIndex, headIndex, dequeueOptimisticCount, dequeueOvercommit, tailBlock, elems, free,
                    sent, call, out, key, value, headers, emptied, producer, head, claimed, given, read,
                    place, number, first>>
    BY <1>2 DEF vars, hist, base, counters, stored, blockIndex
  <2>2. CounterTypes' /\ StoreTypes' /\ HistTypes'
    BY <2>1 DEF Types, CounterTypes, StoreTypes, HistTypes
  <2>3. IndexTypes'
    BY <2>1 DEF Types, IndexTypes, current
  <2>4. CallTypes'
    <3>1. \A c \in Consumers : PlacesOK(call'[c], headers')
      BY <2>1, CallTypesIs DEF Types
    <3> QED BY <2>1, <3>1, CallTypesAfter DEF Types, CallTypes
  <2>5. ProducerTypes'
    BY <2>1 DEF Types, ProducerTypes, Producing
  <2> QED BY <2>2, <2>3, <2>4, <2>5 DEF Types
<1> QED BY <1>1, <1>2

-------------------------------------------------------------------------------
(* The claims: what they say of the counters *)

\* With several consumers, a call's claim, less what had been given back when it
\* read that, is at most half the range of the counters beyond the end when it
\* looks again: the difference of two wrapped counters tells no more.
Timely == \A c \in Consumers :
  Consumers # {c} /\ At(c, "settle") => place[c] - read[c] <= End + Half

\* The counters are the histories, wrapped.
Numbers == /\ tailIndex = End % W /\ headIndex = head % W
           /\ dequeueOptimisticCount = claimed % W /\ dequeueOvercommit = given % W

\* What the calls have claimed and not yet looked at again; of it, what lies
\* before x; what they owe; what they are about to take.
Unsettled == [c \in Consumers |-> IF At(c, "settle") THEN call[c].n ELSE 0]
Before(x) == [c \in Consumers |-> IF At(c, "settle") /\ place[c] < x THEN call[c].n ELSE 0]
Owed == [c \in Consumers |-> IF At(c, "giveback") THEN call[c].k ELSE 0]
Pending == [c \in Consumers |-> IF call[c].pc \in {"giveback", "take"} THEN call[c].n ELSE 0]

\* The head, once those about to take have; every claimed element is dealt,
\* given back, owed or unsettled.
Dealt == head + Total(Pending)
Balance == claimed = Dealt + given + Total(Owed) + Total(Unsettled)

\* Up to F the claims are granted in full at worst and there is enough; from F
\* on none can be granted what is not there.
Frontier(F) ==
  /\ Dealt + Total(Before(F)) <= End
  /\ \A c \in Consumers, x \in Nat :
       At(c, "settle") /\ place[c] = x /\ x >= F => x - read[c] >= Dealt + Total(Before(x))
Bounded == \E F \in 0..claimed : Frontier(F)

\* The unsettled claims are disjoint.
ClaimsApart ==
  /\ \A c \in Consumers : At(c, "settle") => place[c] + call[c].n <= claimed
  /\ \A c, d \in Consumers : At(c, "settle") /\ At(d, "settle") /\ c # d =>
       place[c] + call[c].n <= place[d] \/ place[d] + call[d].n <= place[c]

\* What the place of a call says of what it has read and claimed.
Phase(c) ==
  LET r == call[c] IN
  /\ r.pc \in {"idle", "overcommit", "look"} => r.n = 0
  /\ r.pc \in {"overcommit", "look"} => r.max # 0
  /\ read[c] <= given
  /\ r.pc \in {"look", "claim", "settle"} => r.over = read[c] % W
  /\ r.pc \in {"claim", "settle"} => r.n \in 1..(Half - 1)
  /\ r.pc = "settle" => r.at = place[c] % W
  /\ r.pc = "giveback" => r.k \in 1..(Half - 1) /\ r.n \in 0..(Half - 1)
  /\ r.pc = "take" => r.n \in 1..(Half - 1)
  /\ Taking(c) => r.at = place[c] % W
  /\ ~Taking(c) => out[c] = <<>>

\* What a call that no other overlaps has read and claimed.
Alone(c) ==
  LET r == call[c] IN
  r.alone =>
    /\ \A d \in Consumers : d # c => At(d, "idle")
    /\ r.pc \in {"overcommit", "look", "claim", "settle", "take"}
    /\ claimed - given = head + (IF r.pc \in {"settle", "take"} THEN r.n ELSE 0)
    /\ r.pc \in {"overcommit", "look"} =>
         r.due = Lesser(r.max, Minus(r.tail, headIndex)) /\ Minus(r.tail, headIndex) <= End - head
    /\ r.pc \in {"look", "claim", "settle"} => read[c] = given
    /\ r.pc \in {"claim", "settle", "take"} => r.n = r.due
    /\ r.pc \in {"claim", "settle"} => r.n <= End - head
    /\ r.pc = "settle" => place[c] - given = head

\* A single consumer is always alone.
Single == (\A c, d \in Consumers : c = d) =>
            \A c \in Consumers : call[c].pc \in {"overcommit", "look", "claim", "settle"} => call[c].alone

\* How many blocks an enqueue needs; how far it may get before it checks again.
Needs(count) == Num(End + count - 1) - TailNumber
Extra == IF producer.pc \in {"insert", "advance", "requisition"} THEN 2 ELSE 1
\* All that is in the queue, and what is being added, is below half the range.
Window == From(TailNumber + Len(producer.chain) + Extra) - head < Half
\* An enqueue's chain grows to the blocks it needs.
Enqueuing ==
  /\ producer.pc \in {"insert", "advance", "requisition", "room"} => Needs(producer.count) > Len(producer.chain)
  /\ Producing("publish") => Needs(producer.count) = Len(producer.chain)
  /\ Producing("room") => Len(producer.chain) > 0

\* What is invariant of the claims, under Timely.
Claims == /\ Numbers /\ Balance /\ Bounded /\ ClaimsApart /\ Window /\ Enqueuing /\ Single
          /\ \A c \in Consumers : Phase(c) /\ Alone(c)

\* Where the newest element is among the blocks.
LEMMA EndFacts ==
  ASSUME StoreTypes
  PROVE  /\ End \in Nat /\ sent \in Nat /\ TailNumber \in Int /\ From(TailNumber) \in Int
         /\ From(TailNumber + 1) = From(TailNumber) + BLOCK_SIZE
         /\ From(TailNumber) < End /\ End <= From(TailNumber + 1) /\ -1 <= TailNumber
<1>1. Start \in Nat /\ sent \in Nat /\ BLOCK_SIZE \in Nat \ {0}
  BY SizeFacts, SizesFit DEF StoreTypes
<1>2. End \in Nat /\ End - 1 \in Int
  BY <1>1 DEF End
<1>3. TailNumber \in Int /\ From(TailNumber) <= End - 1 /\ End - 1 < From(TailNumber) + BLOCK_SIZE
  BY <1>2, NumFacts DEF TailNumber
<1>4. From(TailNumber) \in Int /\ From(TailNumber + 1) = From(TailNumber) + BLOCK_SIZE
  BY <1>3, FromFacts
<1>5. -1 <= TailNumber
  <2>1. From(-1) = -BLOCK_SIZE
    BY <1>1 DEF From
  <2>2. From(-1) <= End - 1
    BY <2>1, <1>1, <1>2
  <2>3. Num(End - 1) >= -1
    BY <1>2, <2>2, NumIs
  <2> QED BY <2>3, <1>3 DEF TailNumber
<1> QED BY <1>1, <1>2, <1>3, <1>4, <1>5

\* The number of blocks that the enqueue computes from the wrapped index.
LEMMA NeedFacts ==
  ASSUME Types, Numbers, NEW count \in Counts
  PROVE  /\ BlocksNeeded(count) = Needs(count) /\ Needs(count) \in Nat /\ From(Needs(count)) < Half
         /\ count \in Nat \ {0} /\ count < Half
<1>1. count \in Nat \ {0} /\ count <= Half - BLOCK_SIZE /\ BLOCK_SIZE \in Nat \ {0} /\ Half \in Nat
  BY SizesFit, SizeFacts DEF Half
<1>2. End \in Nat
  BY EndFacts DEF Types
<1> DEFINE x == End - 1
           y == End + count - 1
           p == Num(x)
           q == Num(y)
<1>3. x \in Int /\ y \in Int /\ y - x = count
  BY <1>1, <1>2
<1>4. /\ p \in Int /\ q \in Int /\ From(p) <= x /\ x < From(p) + BLOCK_SIZE /\ From(q) <= y /\ y < From(q) + BLOCK_SIZE
  BY <1>3, NumFacts
<1>5. Minus(tailIndex, 1) = x % W /\ Plus(tailIndex, count - 1) = y % W
  <2>1. End \in Int /\ count - 1 \in Int /\ 1 \in Int
    BY <1>1, <1>2
  <2>2. Minus(End % W, 1) = (End - 1) % W /\ Plus(End % W, count - 1) = (End + (count - 1)) % W
    BY <2>1, Wrapped
  <2>3. End + (count - 1) = End + count - 1
    BY <2>1, <1>1
  <2> QED BY <2>2, <2>3 DEF Numbers
<1> HIDE DEF x, y, p, q
<1>6. From(q - p) = From(q) - From(p) /\ From(q) \in Int /\ From(p) \in Int
  BY <1>4, FromFacts
<1>7. From(q - p) < Half /\ From(q - p) > -BLOCK_SIZE
  BY <1>1, <1>3, <1>4, <1>6
<1>8. q - p \in Nat
  <2>1. From(-1) = -BLOCK_SIZE
    BY <1>1 DEF From
  <2>2. q - p \in Int /\ -1 \in Int
    BY <1>4
  <2>3. -1 < q - p
    BY <2>1, <2>2, <1>7, FromFacts
  <2> QED BY <2>2, <2>3
<1>9. BlocksBetween(x % W, y % W) = q - p
  <2>1. -Half <= From(q - p)
    BY <1>7, <1>1, <1>6
  <2> QED BY <2>1, <1>3, <1>7, Between DEF p, q
<1> QED BY <1>1, <1>5, <1>7, <1>8, <1>9 DEF BlocksNeeded, Needs, TailNumber, p, q, x, y

\* The base that the enqueue computes for its next block.
LEMMA NewBaseIs ==
  ASSUME Types, Numbers
  PROVE  NewBase = From(TailNumber + Len(producer.chain) + 1) % W
         /\ TailNumber + Len(producer.chain) + 1 \in Nat /\ Len(producer.chain) \in Nat
<1>1. /\ End \in Nat /\ TailNumber \in Int /\ BLOCK_SIZE \in Nat \ {0} /\ -1 <= TailNumber
  BY EndFacts, SizeFacts DEF Types
<1>2. Len(producer.chain) \in Nat
  BY LenProperties DEF Types, ProducerTypes
<1> DEFINE n == Len(producer.chain) + 1
<1>3. n \in Nat
  BY <1>2
<1>4. End - 1 \in Int
  BY <1>1
<1>5. Minus(tailIndex, 1) = (End - 1) % W
  BY <1>1, Wrapped DEF Numbers
<1>6. Base((End - 1) % W) = From(TailNumber) % W
  BY <1>4, WrappedBase DEF TailNumber
<1> HIDE DEF n
<1>7. From(TailNumber) \in Int /\ BLOCK_SIZE * n \in Int /\ BLOCK_SIZE * n = From(n) /\ TailNumber + n \in Int
      /\ From(TailNumber + n) = From(TailNumber) + From(n)
  <2>1. TailNumber + n \in Int /\ n \in Int
    BY <1>1, <1>3
  <2>2. From(TailNumber) \in Int /\ From(TailNumber + n) = From(TailNumber) + From(n)
    BY <1>1, <2>1, FromFacts
  <2>3. From(n) \in Int /\ From(n) = BLOCK_SIZE * n
    BY <2>1, FromFacts
  <2> QED BY <2>1, <2>2, <2>3
<1>8. NewBase = Plus(From(TailNumber) % W, BLOCK_SIZE * n)
  BY <1>5, <1>6 DEF NewBase, n
<1>9. NewBase = From(TailNumber + n) % W
  BY <1>7, <1>8, Wrapped
<1>10. TailNumber + n = TailNumber + Len(producer.chain) + 1
  BY <1>1, <1>2 DEF n
<1> QED BY <1>1, <1>2, <1>9, <1>10

\* A block that there is room for lies in the window.
LEMMA RoomIs ==
  ASSUME Types, Numbers, NEW q \in Int, ~Full(From(q) % W),
         From(q) - head < Half, head < From(q + 1)
  PROVE  From(q + 1) - head < Half
<1>1. W \in Nat \ {0} /\ Half \in Nat \ {0} /\ W = 2 * Half /\ BLOCK_SIZE \in Nat \ {0} /\ BLOCK_SIZE <= Half
  BY SizeFacts
<1>2. From(q) \in Int /\ From(q + 1) = From(q) + BLOCK_SIZE /\ head \in Int /\ From(q + 1) \in Int
  BY <1>1, FromFacts DEF Types, HistTypes
<1>3. circular_less_than(headIndex, Plus(From(q) % W, BLOCK_SIZE))
  BY DEF Full
<1>4. Plus(From(q) % W, BLOCK_SIZE) = From(q + 1) % W
  <2>1. Plus(From(q) % W, BLOCK_SIZE) = (From(q) + BLOCK_SIZE) % W
    <3>1. From(q) \in Int /\ BLOCK_SIZE \in Int
      BY <1>1, <1>2
    <3> QED BY <3>1, Wrapped
  <2> QED BY <2>1, <1>2
<1>5. -Half <= From(q + 1) - head /\ From(q + 1) - head < W
  BY <1>1, <1>2
<1> QED BY <1>2, <1>3, <1>4, <1>5, CircularLess DEF Numbers

-------------------------------------------------------------------------------
(* The claims: what a step leaves *)

\* A call that counts in one of the sums, and one that counts for the same.
Busy == {"settle", "giveback", "take"}
Still(d) == \/ call[d].pc \notin Busy /\ call'[d].pc \notin Busy
            \/ call'[d].pc = call[d].pc /\ call'[d].n = call[d].n /\ call'[d].k = call[d].k

\* The types of one call's fields.
LEMMA CallFacts ==
  ASSUME Types, NEW c \in Consumers
  PROVE  /\ call[c] \in CallSet /\ call[c].n \in 0..W /\ call[c].n \in Nat /\ call[c].k \in Nat /\ call[c].k \in 0..W
         /\ call[c].at \in Indexes /\ call[c].over \in Indexes /\ call[c].tail \in Indexes
         /\ call[c].max \in Nat /\ call[c].header \in Nat /\ call[c].pos \in Nat
         /\ call[c].due \in Indexes /\ call[c].alone \in BOOLEAN
         /\ call[c].block \in Blocks \cup {Null}
         /\ Indexes \subseteq Nat /\ W \in Nat /\ place[c] \in Nat /\ read[c] \in Nat
         /\ call[c].pc \in Places
<1>1. W \in Nat /\ Indexes \subseteq Nat /\ Sizes \cup {0, 1} \subseteq Nat
  BY SizeFacts, SizesFit DEF Indexes
<1>2. call[c] \in CallSet /\ place[c] \in Nat /\ read[c] \in Nat
  BY DEF Types, CallTypes, HistTypes
<1>3. /\ call[c].n \in 0..W /\ call[c].k \in 0..W
      /\ call[c].at \in Indexes /\ call[c].over \in Indexes /\ call[c].tail \in Indexes
      /\ call[c].max \in Sizes \cup {0, 1} /\ call[c].header \in Nat /\ call[c].pos \in Nat
      /\ call[c].due \in Indexes /\ call[c].alone \in BOOLEAN
      /\ call[c].block \in Blocks \cup {Null} /\ call[c].pc \in Places
  BY <1>2 DEF CallSet
<1>4. call[c].n \in Nat /\ call[c].k \in Nat
  BY <1>1, <1>3
<1> QED BY <1>1, <1>2, <1>3, <1>4

\* The types of the histories and the counters.
LEMMA HistFacts ==
  ASSUME Types
  PROVE  /\ head \in Nat /\ claimed \in Nat /\ given \in Nat
         /\ headIndex \in Indexes /\ dequeueOptimisticCount \in Indexes /\ dequeueOvercommit \in Indexes
         /\ tailIndex \in Indexes /\ IsFiniteSet(Consumers) /\ End \in Nat
BY FiniteAssumption, EndFacts DEF Types, HistTypes, CounterTypes

\* The primed end is a number.
LEMMA EndNext ==
  ASSUME Types'
  PROVE  End' \in Nat
<1>1. StoreTypes'
  BY DEF Types
<1>2. Start \in Nat /\ MaxItems \in Nat
  BY SizesFit
<1>3. sent' \in Nat
  BY <1>1, <1>2 DEF StoreTypes
<1>4. End' = Start + sent'
  BY DEF End
<1>5. \A x, y \in Nat : x + y \in Nat
  OBVIOUS
<1> QED BY <1>2, <1>3, <1>4, <1>5

\* The sums over the calls are numbers.
LEMMA SumTypes ==
  ASSUME Types
  PROVE  /\ Unsettled \in [Consumers -> Nat] /\ Total(Unsettled) \in Nat
         /\ Owed \in [Consumers -> Nat] /\ Total(Owed) \in Nat
         /\ Pending \in [Consumers -> Nat] /\ Total(Pending) \in Nat
         /\ \A x \in Int : Before(x) \in [Consumers -> Nat] /\ Total(Before(x)) \in Nat
         /\ Dealt \in Nat /\ head <= Dealt
<1>1. \A c \in Consumers : call[c].n \in Nat /\ call[c].k \in Nat
  BY CallFacts
<1>2. Unsettled \in [Consumers -> Nat]
  BY <1>1 DEF Unsettled
<1>3. Owed \in [Consumers -> Nat]
  BY <1>1 DEF Owed
<1>4. Pending \in [Consumers -> Nat]
  BY <1>1 DEF Pending
<1>5. ASSUME NEW x \in Int PROVE Before(x) \in [Consumers -> Nat]
  BY <1>1 DEF Before
<1>6. \A f \in [Consumers -> Nat] : Total(f) \in Nat
  BY HistFacts, TotalType
<1>7. Total(Pending) \in Nat
  BY <1>4, <1>6
<1> QED BY <1>2, <1>3, <1>4, <1>5, <1>6, <1>7, HistFacts DEF Dealt

\* Nothing is taken that was not enqueued, and the window is below half the range.
LEMMA ClaimsFacts ==
  ASSUME Types, Claims
  PROVE  /\ head <= Dealt /\ Dealt <= End /\ head <= End /\ End - head < Half
         /\ From(TailNumber + 1) - head < Half
         /\ head \in Nat /\ End \in Nat
<1>1. PICK F \in 0..claimed : Frontier(F)
  BY DEF Claims, Bounded
<1>2. F \in Int
  BY HistFacts
<1>3. Dealt + Total(Before(F)) <= End
  BY <1>1 DEF Frontier
<1>4. head \in Nat /\ End \in Nat /\ Dealt \in Nat /\ head <= Dealt /\ Total(Before(F)) \in Nat
  BY <1>2, HistFacts, SumTypes
<1>5. From(TailNumber + 1) - head < Half
  <2>1. Len(producer.chain) \in Nat
    BY LenProperties DEF Types, ProducerTypes
  <2>2. TailNumber \in Int
    BY EndFacts DEF Types
  <2> DEFINE m == TailNumber + Len(producer.chain) + Extra
  <2>3. m \in Int /\ TailNumber + 1 <= m /\ TailNumber + 1 \in Int
    <3>1. Extra \in {1, 2}
      BY DEF Extra
    <3> QED BY <2>1, <2>2, <3>1
  <2>4. From(m) - head < Half
    BY DEF Claims, Window
  <2> HIDE DEF m
  <2>5. From(TailNumber + 1) <= From(m) /\ From(m) \in Int /\ From(TailNumber + 1) \in Int
    BY <2>3, FromFacts
  <2>6. Half \in Int
    BY SizeFacts
  <2> QED BY <2>4, <2>5, <2>6, <1>4
<1>6. End <= From(TailNumber + 1) /\ From(TailNumber + 1) \in Int
  <2>1. TailNumber + 1 \in Int
    BY EndFacts DEF Types
  <2> QED BY <2>1, EndFacts, FromFacts DEF Types
<1>7. Half \in Int
  BY SizeFacts
<1> QED BY <1>3, <1>4, <1>5, <1>6, <1>7

\* A history stands still with its counter.
LEMMA HistSame ==
  ASSUME Types, HistNext
  PROVE  /\ headIndex' = headIndex => head' = head
         /\ dequeueOptimisticCount' = dequeueOptimisticCount => claimed' = claimed
         /\ dequeueOvercommit' = dequeueOvercommit => given' = given
<1>1. ASSUME NEW x \in Int PROVE Minus(x, x) = 0
  <2>1. 0 % W = 0
    BY SizeFacts, ModSmall
  <2> QED BY <2>1 DEF Minus
<1>2. headIndex \in Int /\ dequeueOptimisticCount \in Int /\ dequeueOvercommit \in Int
  BY HistFacts, SizeFacts DEF Indexes
<1>3. head \in Nat /\ claimed \in Nat /\ given \in Nat
  BY HistFacts
<1> QED BY <1>1, <1>2, <1>3 DEF HistNext

\* What a step makes of what a call has read and where it begins.
LEMMA HistCalls ==
  ASSUME Types, HistNext, NEW c \in Consumers
  PROVE  /\ ~At(c, "overcommit") => read'[c] = read[c]
         /\ At(c, "overcommit") => read'[c] = given
         /\ At(c, "claim") => place'[c] = claimed
         /\ At(c, "take") => place'[c] = head
         /\ At(c, "fetch") => place'[c] = place[c] + call[c].n - call'[c].n
         /\ call[c].pc \notin {"claim", "take", "fetch"} => place'[c] = place[c]
         /\ call[c].pc # "claim" /\ call[c].pc # "take" /\ call'[c].n = call[c].n => place'[c] = place[c]
<1>1. place[c] \in Nat /\ call[c].n \in Nat
  BY CallFacts
<1> QED BY <1>1 DEF HistNext, At

\* The sums are the same when every call counts for the same.
LEMMA StillSums ==
  ASSUME Types, HistNext, \A d \in Consumers : Still(d)
  PROVE  /\ Unsettled' = Unsettled /\ Owed' = Owed /\ Pending' = Pending
         /\ \A x \in Int : Before(x)' = Before(x)
<1>1. ASSUME NEW d \in Consumers, call'[d].pc = "settle" \/ call[d].pc = "settle"
      PROVE  call'[d].pc = call[d].pc /\ place'[d] = place[d] /\ call'[d].n = call[d].n
  BY <1>1, HistCalls DEF Still, Busy
<1>2. Unsettled' = Unsettled
  BY <1>1 DEF Unsettled, At
<1>3. ASSUME NEW d \in Consumers, call'[d].pc \in Busy \/ call[d].pc \in Busy
      PROVE  call'[d].pc = call[d].pc /\ call'[d].n = call[d].n /\ call'[d].k = call[d].k
  BY <1>3 DEF Still
<1>4. Owed' = Owed /\ Pending' = Pending
  BY <1>3 DEF Owed, Pending, At, Busy
<1>5. ASSUME NEW x \in Int PROVE Before(x)' = Before(x)
  BY <1>1 DEF Before, At
<1> QED BY <1>2, <1>4, <1>5

\* Steps that move no counter of the consumers keep the claims.
LEMMA QuietStep ==
  ASSUME Types, Claims, HistNext, End' >= End, Types', \A d \in Consumers : Still(d),
         UNCHANGED <<headIndex, dequeueOptimisticCount, dequeueOvercommit>>
  PROVE  Balance' /\ Bounded' /\ ClaimsApart'
<1>1. head' = head /\ claimed' = claimed /\ given' = given
  BY HistSame
<1>2. Dealt' = Dealt
  BY <1>1, StillSums DEF Dealt
<1>3. Balance'
  BY <1>1, <1>2, StillSums DEF Claims, Balance
<1>4. ASSUME NEW d \in Consumers, call'[d].pc = "settle"
      PROVE  call[d].pc = "settle" /\ place'[d] = place[d] /\ call'[d].n = call[d].n /\ read'[d] = read[d]
  BY <1>4, HistCalls DEF Still, Busy, At
<1>5. ClaimsApart'
  BY <1>1, <1>4 DEF Claims, ClaimsApart, At
<1>6. PICK F \in 0..claimed : Frontier(F)
  BY DEF Claims, Bounded
<1>7. Frontier(F)'
  <2>1. F \in Int /\ Dealt \in Nat /\ Total(Before(F)) \in Nat /\ End \in Nat /\ End' \in Nat
    <3>1. F \in Int /\ Dealt \in Nat /\ End \in Nat
      BY HistFacts, SumTypes
    <3>2. End' \in Nat
      BY EndNext
    <3> QED BY <3>1, <3>2, SumTypes
  <2>2. Total(Before(F))' = Total(Before(F))
    BY <2>1, StillSums
  <2>3. Dealt' + Total(Before(F))' <= End'
    BY <2>1, <2>2, <1>2, <1>6 DEF Frontier
  <2>4. ASSUME NEW c \in Consumers, NEW x \in Nat, call'[c].pc = "settle", place'[c] = x, x >= F
        PROVE  x - read'[c] >= Dealt' + Total(Before(x)')
    <3>1. Before(x)' = Before(x)
      BY StillSums
    <3> QED BY <2>4, <1>4, <3>1, <1>2, <1>6 DEF Frontier, At
  <2> QED BY <2>3, <2>4, <1>4 DEF Frontier, At
<1>8. Bounded'
  BY <1>1, <1>6, <1>7 DEF Bounded
<1> QED BY <1>3, <1>5, <1>8

\* The sums move by what one call's part of them does.
LEMMA OneSums ==
  ASSUME Types, Types', HistNext, NEW c \in Consumers, \A d \in Consumers : d # c => Still(d)
  PROVE  /\ Total(Unsettled)' = Total(Unsettled) - Unsettled[c] + Unsettled'[c]
         /\ Total(Owed)' = Total(Owed) - Owed[c] + Owed'[c]
         /\ Total(Pending)' = Total(Pending) - Pending[c] + Pending'[c]
         /\ \A x \in Int : Total(Before(x)') = Total(Before(x)) - Before(x)[c] + Before(x)'[c]
         /\ Unsettled'[c] \in Nat /\ Owed'[c] \in Nat /\ Pending'[c] \in Nat
<1>1. ASSUME NEW d \in Consumers, d # c, call'[d].pc = "settle" \/ call[d].pc = "settle"
      PROVE  call'[d].pc = call[d].pc /\ place'[d] = place[d] /\ call'[d].n = call[d].n
  BY <1>1, HistCalls DEF Still, Busy
<1>2. ASSUME NEW d \in Consumers, d # c, call'[d].pc \in Busy \/ call[d].pc \in Busy
      PROVE  call'[d].pc = call[d].pc /\ call'[d].n = call[d].n /\ call'[d].k = call[d].k
  BY <1>2 DEF Still
<1>3. IsFiniteSet(Consumers) /\ call'[c].n \in Nat /\ call'[c].k \in Nat
  <2>1. call'[c] \in CallSet /\ W \in Nat
    BY SizeFacts DEF Types, CallTypes
  <2>2. call'[c].n \in 0..W /\ call'[c].k \in 0..W
    BY <2>1 DEF CallSet
  <2> QED BY <2>1, <2>2, FiniteAssumption
<1>4. ASSUME NEW f \in [Consumers -> Nat], NEW g, NEW n \in Nat, g = [f EXCEPT ![c] = n]
      PROVE  Total(g) = Total(f) - f[c] + n
  BY <1>3, <1>4, TotalChange, ZenonT(40)
<1>5. Unsettled' = [Unsettled EXCEPT ![c] = Unsettled'[c]] /\ Unsettled'[c] \in Nat
  <2>1. ASSUME NEW d \in Consumers, d # c PROVE Unsettled'[d] = Unsettled[d]
    BY <1>1, <2>1 DEF Unsettled, At
  <2>2. Unsettled'[c] \in Nat
    BY <1>3 DEF Unsettled, At
  <2>3. DOMAIN Unsettled = Consumers /\ DOMAIN Unsettled' = Consumers
        /\ Unsettled' = [d \in Consumers |-> Unsettled'[d]]
    BY DEF Unsettled
  <2> QED BY <2>1, <2>2, <2>3
<1>6. Owed' = [Owed EXCEPT ![c] = Owed'[c]] /\ Owed'[c] \in Nat
  BY <1>2, <1>3 DEF Owed, At, Busy
<1>7. Pending' = [Pending EXCEPT ![c] = Pending'[c]] /\ Pending'[c] \in Nat
  BY <1>2, <1>3 DEF Pending, At, Busy
<1>8. ASSUME NEW x \in Int
      PROVE  Before(x)' = [Before(x) EXCEPT ![c] = Before(x)'[c]] /\ Before(x)'[c] \in Nat
  BY <1>1, <1>3 DEF Before, At
<1>9. \A x \in Int : Total(Before(x)') = Total(Before(x)) - Before(x)[c] + Before(x)'[c]
  BY <1>4, <1>8, SumTypes
<1>10. /\ Total(Unsettled') = Total(Unsettled) - Unsettled[c] + Unsettled'[c]
       /\ Total(Owed') = Total(Owed) - Owed[c] + Owed'[c]
       /\ Total(Pending') = Total(Pending) - Pending[c] + Pending'[c]
  BY <1>4, <1>5, <1>6, <1>7, SumTypes
<1> QED BY <1>5, <1>6, <1>7, <1>9, <1>10

\* What the steps of one consumer have in common.
LEMMA OthersStill ==
  ASSUME Types, HistNext, NEW c \in Consumers, Consume(c)
  PROVE  \A d \in Consumers : d # c =>
           /\ Same(d) /\ Still(d)
           /\ At(d, "settle") => place'[d] = place[d] /\ read'[d] = read[d]
BY OthersSame, HistCalls DEF Same, Still, At

\* The end moves with the elements sent.
LEMMA EndSame ==
  ASSUME sent' = sent
  PROVE  End' = End
BY DEF End

\* The head moves by what was dealt to it, the other counters by n.
LEMMA Moved ==
  ASSUME Types, NEW x \in Int, NEW n \in 0..(W - 1)
  PROVE  Minus(Plus(x % W, n), x % W) = n
<1>1. W \in Nat \ {0} /\ n \in Int
  BY SizeFacts
<1>2. Plus(x % W, n) = (x + n) % W
  BY <1>1, Wrapped
<1>3. x + n \in Int /\ (x + n) - x = n
  BY <1>1
<1>4. Minus((x + n) % W, x % W) = ((x + n) - x) % W
  BY <1>3, Wrapped
<1>5. n % W = n
  BY <1>1, ModSmall
<1> QED BY <1>2, <1>3, <1>4, <1>5

\* fetch_add on the optimistic count: the claim begins where the others end.
LEMMA ClaimStep ==
  ASSUME Types, Types', Claims, HistNext, NEW c \in Consumers, Consume(c), Claim(c)
  PROVE  Balance' /\ Bounded' /\ ClaimsApart'
<1> DEFINE n == call[c].n
<1>1. /\ At(c, "claim") /\ call'[c].pc = "settle" /\ call'[c].n = n /\ sent' = sent
      /\ headIndex' = headIndex /\ dequeueOvercommit' = dequeueOvercommit
      /\ dequeueOptimisticCount' = Plus(dequeueOptimisticCount, n)
  BY CallFacts DEF Claim, Types, CallTypes, stored, CallSet
<1>2. n \in 1..(Half - 1) /\ Half \in Nat /\ W = 2 * Half /\ read[c] <= given
  BY <1>1, SizeFacts DEF Claims, Phase, At
<1>3. head' = head /\ given' = given /\ place'[c] = claimed /\ read'[c] = read[c] /\ End' = End
  BY <1>1, HistSame, HistCalls, EndSame DEF At
<1>4. claimed' = claimed + n
  <2>1. n \in 0..(W - 1) /\ claimed \in Int
    BY <1>2, HistFacts
  <2>2. Minus(Plus(claimed % W, n), claimed % W) = n
    BY <2>1, Moved
  <2> QED BY <2>2, <1>1 DEF HistNext, Claims, Numbers
<1>5. \A d \in Consumers : d # c =>
        /\ Same(d) /\ Still(d)
        /\ At(d, "settle") => place'[d] = place[d] /\ read'[d] = read[d]
  BY OthersStill
<1>6. /\ claimed \in Nat /\ head \in Nat /\ given \in Nat /\ End \in Nat /\ place[c] \in Nat /\ read[c] \in Nat
      /\ Total(Unsettled) \in Nat /\ Total(Owed) \in Nat /\ Dealt \in Nat
  BY HistFacts, SumTypes, CallFacts
<1>7. Total(Unsettled)' = Total(Unsettled) + n /\ Total(Owed)' = Total(Owed) /\ Total(Pending)' = Total(Pending)
  <2>1. Unsettled[c] = 0 /\ Owed[c] = 0 /\ Pending[c] = 0 /\ Unsettled'[c] = n /\ Owed'[c] = 0 /\ Pending'[c] = 0
    BY <1>1 DEF Unsettled, Owed, Pending, At
  <2>2. /\ Total(Unsettled)' = Total(Unsettled) - Unsettled[c] + Unsettled'[c]
        /\ Total(Owed)' = Total(Owed) - Owed[c] + Owed'[c]
        /\ Total(Pending)' = Total(Pending) - Pending[c] + Pending'[c]
    BY <1>5, OneSums
  <2> QED BY <2>1, <2>2, <1>2, <1>6, SumTypes
<1>8. Dealt' = Dealt
  BY <1>3, <1>7 DEF Dealt
<1>9. Balance'
  BY <1>2, <1>3, <1>4, <1>6, <1>7, <1>8 DEF Balance, Claims
<1>10. ASSUME NEW d \in Consumers, d # c, call'[d].pc = "settle"
       PROVE  /\ call[d].pc = "settle" /\ place'[d] = place[d] /\ call'[d].n = call[d].n /\ read'[d] = read[d]
              /\ place[d] + call[d].n <= claimed /\ place[d] \in Nat /\ call[d].n \in Nat /\ place[d] < claimed
  <2>0. Same(d) /\ (At(d, "settle") => place'[d] = place[d] /\ read'[d] = read[d])
    BY <1>5, <1>10
  <2>1. call[d].pc = "settle" /\ place'[d] = place[d] /\ call'[d].n = call[d].n /\ read'[d] = read[d]
    BY <2>0, <1>10 DEF Same, At
  <2>2. place[d] + call[d].n <= claimed /\ call[d].n \in 1..(Half - 1)
    BY <2>1 DEF Claims, ClaimsApart, Phase, At
  <2>3. place[d] \in Nat
    BY CallFacts
  <2> QED BY <2>1, <2>2, <2>3, <1>2, <1>6
<1>11. ClaimsApart'
  BY <1>1, <1>2, <1>3, <1>4, <1>6, <1>10 DEF Claims, ClaimsApart, At
<1>12. ASSUME NEW x \in Int, x <= claimed PROVE Before(x)' = Before(x)
  <2>1. ~(call[c].pc = "settle") /\ ~(place'[c] < x)
    BY <1>1, <1>3, <1>6, <1>12 DEF At
  <2>2. \A d \in Consumers : d # c => call'[d].pc = call[d].pc /\ call'[d].n = call[d].n
          /\ (call[d].pc = "settle" => place'[d] = place[d])
    BY <1>5 DEF Same, At
  <2> QED BY <2>1, <2>2 DEF Before, At
<1>13. PICK F \in 0..claimed : Frontier(F)
  BY DEF Claims, Bounded
<1>14. Frontier(F)'
  <2>1. F \in Int /\ F <= claimed /\ Total(Before(F)) \in Nat
    BY <1>6, SumTypes
  <2>2. Dealt' + Total(Before(F))' <= End'
    BY <1>3, <1>8, <1>12, <1>13, <2>1 DEF Frontier
  <2>3. ASSUME NEW x \in Nat, x = claimed
        PROVE  x - read'[c] >= Dealt' + Total(Before(x)')
    <3>0. Before(x) \in [Consumers -> Nat] /\ Unsettled \in [Consumers -> Nat] /\ IsFiniteSet(Consumers)
          /\ Total(Before(x)) \in Nat
      BY <2>3, SumTypes, HistFacts, SMTT(40)
    <3>1. Total(Before(x)) <= Total(Unsettled)
      <4>2. \A d \in Consumers : Before(x)[d] <= Unsettled[d]
        BY CallFacts DEF Before, Unsettled
      <4> QED BY <3>0, <4>2, TotalSub
    <3>2. Before(x)' = Before(x)
      BY <2>3, <1>12
    <3>3. claimed = Dealt + given + Total(Owed) + Total(Unsettled)
      BY DEF Claims, Balance
    <3> QED BY <1>2, <1>3, <1>6, <1>8, <2>3, <3>0, <3>1, <3>2, <3>3
  <2>4. ASSUME NEW d \in Consumers, NEW x \in Nat, d # c, call'[d].pc = "settle", place'[d] = x, x >= F
        PROVE  x - read'[d] >= Dealt' + Total(Before(x)')
    <3>1. call[d].pc = "settle" /\ place[d] = x /\ read'[d] = read[d] /\ x < claimed
      BY <1>10, <2>4
    <3>2. Before(x)' = Before(x)
      BY <1>6, <1>12, <3>1
    <3> QED BY <1>8, <1>13, <2>4, <3>1, <3>2 DEF Frontier, At
  <2> QED BY <2>2, <2>3, <2>4, <1>3 DEF Frontier, At
<1>15. Bounded'
  <2>1. F \in 0..claimed'
    BY <1>2, <1>4, <1>6
  <2> QED BY <2>1, <1>14 DEF Bounded
<1> QED BY <1>9, <1>11, <1>15

\* What is granted beyond the frontier is there.
LEMMA Grant ==
  ASSUME Types, Claims, Timely, NEW c \in Consumers, At(c, "settle")
  PROVE  /\ Granted(c) \in 0..call[c].n
         /\ \A F \in Int : Frontier(F) /\ place[c] >= F /\ Granted(c) > 0
                             => Granted(c) <= End - (place[c] - read[c])
<1> DEFINE x == End - (place[c] - read[c])
           v == Covered(End % W, place[c] % W, read[c] % W)
<1>1. call[c].n \in 1..(Half - 1) /\ call[c].at = place[c] % W /\ call[c].over = read[c] % W /\ Half \in Nat
      /\ place[c] \in Nat /\ read[c] \in Nat /\ End \in Nat /\ head \in Nat /\ End - head < Half /\ head <= End
      /\ tailIndex = End % W
  BY CallFacts, ClaimsFacts, SizeFacts DEF Claims, Phase, At, Numbers
<1>2. Granted(c) = Lesser(call[c].n, v)
  BY <1>1 DEF Granted
<1>3. /\ v \in 0..(Half - 1)
      /\ 0 <= x /\ x < Half => v = x
      /\ -Half <= x /\ x <= 0 => v = 0
  <2>1. End \in Int /\ place[c] \in Int /\ read[c] \in Int
    BY <1>1
  <2> QED BY <2>1, CoveredIs
<1>4. x \in Int
  BY <1>1
<1> HIDE DEF v
<1>5. Granted(c) \in 0..call[c].n /\ Granted(c) <= v
  BY <1>1, <1>2, <1>3 DEF Lesser
<1>6. -Half <= x
  <2>1. CASE Consumers = {c}
    <3>1. call[c].alone
      BY <2>1 DEF Claims, Single, At
    <3>2. place[c] - given = head /\ read[c] = given
      BY <3>1 DEF Claims, Alone, At
    <3> QED BY <3>2, <1>1, HistFacts
  <2>2. CASE Consumers # {c}
    <3>1. place[c] - read[c] <= End + Half
      BY <2>2 DEF Timely
    <3> QED BY <3>1, <1>1
  <2> QED BY <2>1, <2>2
<1>7. ASSUME NEW F \in Int, Frontier(F), place[c] >= F, Granted(c) > 0
      PROVE  Granted(c) <= x
  <2>1. place[c] - read[c] >= Dealt + Total(Before(place[c]))
    BY <1>1, <1>7 DEF Frontier
  <2>2. Total(Before(place[c])) \in Nat /\ Dealt \in Nat /\ head <= Dealt
    BY <1>1, SumTypes
  <2>3. x < Half
    BY <1>1, <2>1, <2>2
  <2> HIDE DEF x
  <2> QED BY <1>1, <1>3, <1>4, <1>5, <1>6, <1>7, <2>3
<1> QED BY <1>5, <1>7

\* The second look divides a claim into what is there and what is owed.
LEMMA SettleStep ==
  ASSUME Types, Types', Claims, Timely, HistNext, NEW c \in Consumers, Consume(c), Settle(c)
  PROVE  Balance' /\ Bounded' /\ ClaimsApart'
<1> DEFINE n == call[c].n
           g == Granted(c)
<1>1. /\ At(c, "settle") /\ call'[c].pc \in {"giveback", "take"} /\ call'[c].n = g /\ call'[c].k = n - g
      /\ g < n => call'[c].pc = "giveback"
      /\ sent' = sent /\ headIndex' = headIndex /\ dequeueOvercommit' = dequeueOvercommit
      /\ dequeueOptimisticCount' = dequeueOptimisticCount
  <2>1. call \in [Consumers -> CallSet] /\ call[c] \in CallSet
    BY DEF Types, CallTypes
  <2>2. /\ At(c, "settle") /\ sent' = sent /\ UNCHANGED counters
        /\ call' = [call EXCEPT ![c].n = g, ![c].k = n - g, ![c].at = 0, ![c].over = 0,
                                ![c].pc = IF g < n THEN "giveback" ELSE "take"]
    BY DEF Settle, stored
  <2> HIDE DEF g
  <2>3. call'[c].n = g /\ call'[c].k = n - g /\ call'[c].pc = IF g < n THEN "giveback" ELSE "take"
    BY <2>1, <2>2 DEF CallSet
  <2> QED BY <2>2, <2>3 DEF counters
<1>2. n \in 1..(Half - 1) /\ g \in 0..n /\ Half \in Nat /\ place[c] + n <= claimed /\ place[c] \in Nat
      /\ read[c] \in Nat
  BY <1>1, Grant, CallFacts, SizeFacts DEF Claims, Phase, At, ClaimsApart
<1> HIDE DEF g
<1>3. head' = head /\ given' = given /\ claimed' = claimed /\ End' = End
  BY <1>1, HistSame, EndSame
<1>5. \A d \in Consumers : d # c =>
        /\ Same(d) /\ Still(d)
        /\ At(d, "settle") => place'[d] = place[d] /\ read'[d] = read[d]
  BY OthersStill
<1>6. /\ claimed \in Nat /\ head \in Nat /\ given \in Nat /\ End \in Nat
      /\ Total(Unsettled) \in Nat /\ Total(Owed) \in Nat /\ Total(Pending) \in Nat /\ Dealt \in Nat
  BY HistFacts, SumTypes
<1>7. /\ Total(Unsettled)' = Total(Unsettled) - n /\ Total(Owed)' = Total(Owed) + (n - g)
      /\ Total(Pending)' = Total(Pending) + g
  <2>1. /\ Unsettled[c] = n /\ Owed[c] = 0 /\ Pending[c] = 0 /\ Unsettled'[c] = 0
        /\ Pending'[c] = g
    BY <1>1 DEF Unsettled, Owed, Pending, At
  <2>2. Owed'[c] = n - g
    <3>1. CASE g < n
      BY <3>1, <1>1 DEF Owed, At
    <3>2. CASE g = n
      BY <3>2, <1>1, <1>2 DEF Owed, At
    <3> QED BY <3>1, <3>2, <1>2
  <2>3. /\ Total(Unsettled)' = Total(Unsettled) - Unsettled[c] + Unsettled'[c]
        /\ Total(Owed)' = Total(Owed) - Owed[c] + Owed'[c]
        /\ Total(Pending)' = Total(Pending) - Pending[c] + Pending'[c]
    BY <1>5, OneSums
  <2> QED BY <2>1, <2>2, <2>3, <1>2, <1>6
<1>8. Dealt' = Dealt + g
  BY <1>2, <1>3, <1>6, <1>7 DEF Dealt
<1>9. Balance'
  BY <1>2, <1>3, <1>6, <1>7, <1>8 DEF Balance, Claims
<1>10. ASSUME NEW d \in Consumers, call'[d].pc = "settle"
       PROVE  /\ d # c /\ call[d].pc = "settle" /\ place'[d] = place[d] /\ call'[d].n = call[d].n /\ read'[d] = read[d]
              /\ place[d] \in Nat /\ read[d] \in Nat
              /\ place[c] < place[d] \/ place[d] < place[c]
              /\ place[c] + n <= place[d] \/ place[d] < place[c]
  <2>0. d # c
    BY <1>1, <1>10
  <2>a. Same(d) /\ (At(d, "settle") => place'[d] = place[d] /\ read'[d] = read[d])
    BY <1>5, <2>0
  <2>1. call[d].pc = "settle" /\ place'[d] = place[d] /\ call'[d].n = call[d].n /\ read'[d] = read[d]
    BY <2>a, <1>10 DEF Same, At
  <2>2. place[c] + n <= place[d] \/ place[d] + call[d].n <= place[c]
    BY <1>1, <2>0, <2>1 DEF Claims, ClaimsApart, At
  <2>3. place[d] \in Nat /\ read[d] \in Nat /\ call[d].n \in 1..(Half - 1)
    BY CallFacts, <2>1 DEF Claims, Phase
  <2> QED BY <2>0, <2>1, <2>2, <2>3, <1>2
<1>11. ClaimsApart'
  BY <1>3, <1>10 DEF Claims, ClaimsApart, At
<1>12. ASSUME NEW x \in Int
       PROVE  /\ place[c] < x => Total(Before(x)') = Total(Before(x)) - n
              /\ place[c] >= x => Total(Before(x)') = Total(Before(x))
              /\ Total(Before(x)) \in Nat /\ Total(Before(x)') \in Int
              /\ Total(Before(x)') <= Total(Before(x))
  <2>1. Total(Before(x)') = Total(Before(x)) - Before(x)[c] + Before(x)'[c]
    BY <1>5, OneSums
  <2>2. Before(x)'[c] = 0
    BY <1>1 DEF Before, At
  <2>3. Before(x)[c] = IF place[c] < x THEN n ELSE 0
    BY <1>1 DEF Before
  <2>4. Total(Before(x)) \in Nat
    BY SumTypes
  <2> QED BY <2>1, <2>2, <2>3, <2>4, <1>2
<1>13. PICK F \in 0..claimed : Frontier(F)
  BY DEF Claims, Bounded
<1>14. F \in Nat /\ Dealt + Total(Before(F)) <= End
  BY <1>6, <1>13 DEF Frontier
<1>15. ASSUME NEW d \in Consumers, NEW x \in Nat, call'[d].pc = "settle", place'[d] = x, x >= F
       PROVE  x - read'[d] >= Dealt + Total(Before(x))
  BY <1>10, <1>13, <1>15 DEF Frontier, At
<1>16. CASE place[c] < F \/ g = 0
  <2>1. Dealt' + Total(Before(F)') <= End'
    BY <1>2, <1>3, <1>6, <1>8, <1>12, <1>14, <1>16
  <2>2. ASSUME NEW d \in Consumers, NEW x \in Nat, call'[d].pc = "settle", place'[d] = x, x >= F
        PROVE  x - read'[d] >= Dealt' + Total(Before(x)')
    <3>1. x - read'[d] >= Dealt + Total(Before(x))
      BY <2>2, <1>15
    <3>2. place[c] < F => place[c] < x
      BY <2>2, <1>2, <1>14
    <3>3. read'[d] \in Nat
      BY <2>2, <1>10
    <3> QED BY <3>1, <3>2, <3>3, <1>2, <1>6, <1>8, <1>12, <1>16
  <2>3. Frontier(F)'
    BY <2>1, <2>2 DEF Frontier, At
  <2> QED BY <2>3, <1>3, <1>9, <1>11, <1>13 DEF Bounded
<1>17. CASE place[c] >= F /\ g > 0
  <2>0. PICK p \in Nat : p = place[c]
    BY <1>2
  <2> DEFINE G == p + 1
  <2>1. g <= End - (p - read[c]) /\ p - read[c] >= Dealt + Total(Before(p))
    BY <1>1, <1>2, <1>13, <1>14, <1>17, <2>0, Grant DEF Frontier, g
  <2>2. Before(G)' = Before(p)'
    <3>1. ASSUME NEW d \in Consumers, call'[d].pc = "settle"
          PROVE  place'[d] < p + 1 <=> place'[d] < p
      BY <3>1, <1>2, <1>10, <2>0
    <3> QED BY <3>1 DEF Before, At
  <2>3. Dealt' + Total(Before(G)') <= End'
    <3>1. Total(Before(p)') = Total(Before(p)) /\ Total(Before(p)) \in Nat
      BY <1>12, <2>0
    <3>2. Total(Before(G)') = Total(Before(p))
      BY <2>2, <3>1
    <3> HIDE DEF G
    <3> QED BY <2>0, <2>1, <3>1, <3>2, <1>2, <1>3, <1>6, <1>8
  <2>4. ASSUME NEW d \in Consumers, NEW x \in Nat, call'[d].pc = "settle", place'[d] = x, x >= G
        PROVE  x - read'[d] >= Dealt' + Total(Before(x)')
    <3>1. x - read'[d] >= Dealt + Total(Before(x)) /\ place[c] < x
      BY <2>0, <2>4, <1>15, <1>14, <1>17
    <3>2. read'[d] \in Nat
      BY <2>4, <1>10
    <3>3. Total(Before(x)') = Total(Before(x)) - n /\ Total(Before(x)) \in Nat
      BY <3>1, <1>12
    <3> QED BY <3>1, <3>2, <3>3, <1>2, <1>6, <1>8
  <2>5. Frontier(G)'
    <3> HIDE DEF G
    <3> QED BY <2>3, <2>4 DEF Frontier, At
  <2>6. G \in 0..claimed'
    BY <2>0, <1>2, <1>3, <1>6
  <2> HIDE DEF G
  <2> QED BY <2>5, <2>6, <1>9, <1>11 DEF Bounded
<1> QED BY <1>2, <1>14, <1>16, <1>17

\* A step after the settling leaves the unsettled claims as they are.
LEMMA SettledStep ==
  ASSUME Types, Types', Claims, HistNext, NEW c \in Consumers, Consume(c),
         ~At(c, "settle"), call'[c].pc # "settle",
         Dealt' = Dealt, claimed' = claimed, End' = End
  PROVE  Bounded' /\ ClaimsApart' /\ Unsettled' = Unsettled
<1>1. ASSUME NEW d \in Consumers, call'[d].pc = "settle" \/ call[d].pc = "settle"
      PROVE  /\ call'[d].pc = "settle" /\ call[d].pc = "settle" /\ place'[d] = place[d]
             /\ call'[d].n = call[d].n /\ read'[d] = read[d]
  <2>1. d # c
    BY <1>1 DEF At
  <2>2. Same(d) /\ (At(d, "settle") => place'[d] = place[d] /\ read'[d] = read[d])
    BY <2>1, OthersStill
  <2> QED BY <1>1, <2>2 DEF Same, At
<1>2. ClaimsApart' /\ Unsettled' = Unsettled
  BY <1>1 DEF Claims, ClaimsApart, At, Unsettled
<1>3. \A x \in Int : Before(x)' = Before(x)
  BY <1>1 DEF Before, At
<1>4. PICK F \in 0..claimed : Frontier(F)
  BY DEF Claims, Bounded
<1>5. F \in Int
  BY HistFacts
<1>6. Frontier(F)'
  BY <1>1, <1>3, <1>4, <1>5 DEF Frontier, At
<1> QED BY <1>2, <1>4, <1>6 DEF Bounded

\* fetch_add on the overcommit pays what is owed.
LEMMA GiveBackStep ==
  ASSUME Types, Types', Claims, HistNext, NEW c \in Consumers, Consume(c), GiveBack(c)
  PROVE  Balance' /\ Bounded' /\ ClaimsApart'
<1> DEFINE n == call[c].n
           k == call[c].k
<1>1. /\ At(c, "giveback") /\ sent' = sent /\ headIndex' = headIndex
      /\ dequeueOptimisticCount' = dequeueOptimisticCount
      /\ dequeueOvercommit' = Plus(dequeueOvercommit, k)
      /\ n = 0 => call'[c].pc = "idle"
      /\ n # 0 => call'[c].pc = "take" /\ call'[c].n = n
  BY CallFacts DEF GiveBack, Types, CallTypes, stored, CallSet, NoCall
<1>2. n \in Nat /\ k \in 0..(W - 1) /\ k \in Nat
  BY <1>1, SizeFacts DEF Claims, Phase, At
<1>3. head' = head /\ claimed' = claimed /\ End' = End
  BY <1>1, HistSame, EndSame
<1>4. given' = given + k
  <2>1. given \in Int
    BY HistFacts
  <2>2. Minus(Plus(given % W, k), given % W) = k
    BY <1>2, <2>1, Moved
  <2> QED BY <2>2, <1>1 DEF HistNext, Claims, Numbers
<1>5. \A d \in Consumers : d # c => Still(d)
  BY OthersStill
<1>6. /\ claimed \in Nat /\ head \in Nat /\ given \in Nat /\ End \in Nat
      /\ Total(Unsettled) \in Nat /\ Total(Owed) \in Nat /\ Total(Pending) \in Nat /\ Dealt \in Nat
  BY HistFacts, SumTypes
<1>7. Total(Owed)' = Total(Owed) - k /\ Total(Pending)' = Total(Pending)
  <2>1. Owed[c] = k /\ Owed'[c] = 0 /\ Pending[c] = n /\ Pending'[c] = n
    BY <1>1, <1>2 DEF Owed, Pending, At
  <2>2. /\ Total(Owed)' = Total(Owed) - Owed[c] + Owed'[c]
        /\ Total(Pending)' = Total(Pending) - Pending[c] + Pending'[c]
    BY <1>5, OneSums
  <2> QED BY <2>1, <2>2, <1>2, <1>6
<1>8. Dealt' = Dealt
  BY <1>3, <1>7 DEF Dealt
<1>9. Bounded' /\ ClaimsApart' /\ Unsettled' = Unsettled
  <2>1. ~At(c, "settle") /\ call'[c].pc # "settle"
    BY <1>1 DEF At
  <2> QED BY <2>1, <1>3, <1>8, SettledStep
<1>10. Balance'
  BY <1>2, <1>3, <1>4, <1>6, <1>7, <1>8, <1>9 DEF Balance, Claims
<1> QED BY <1>9, <1>10

\* fetch_add on the head index takes what was granted.
LEMMA TakeStep ==
  ASSUME Types, Types', Claims, HistNext, NEW c \in Consumers, Consume(c), Take(c)
  PROVE  Balance' /\ Bounded' /\ ClaimsApart' /\ head' = head + call[c].n
<1> DEFINE n == call[c].n
<1>1. /\ At(c, "take") /\ sent' = sent /\ headIndex' = Plus(headIndex, n)
      /\ dequeueOptimisticCount' = dequeueOptimisticCount
      /\ dequeueOvercommit' = dequeueOvercommit
      /\ call'[c].pc = "header" /\ call'[c].n = n
  BY CallFacts DEF Take, Types, CallTypes, stored, CallSet
<1>2. n \in Nat /\ n \in 0..(W - 1)
  BY <1>1, SizeFacts DEF Claims, Phase, At
<1>3. given' = given /\ claimed' = claimed /\ End' = End
  BY <1>1, HistSame, EndSame
<1>4. head' = head + n
  <2>1. head \in Int
    BY HistFacts
  <2>2. Minus(Plus(head % W, n), head % W) = n
    BY <1>2, <2>1, Moved
  <2> QED BY <2>2, <1>1 DEF HistNext, Claims, Numbers
<1>5. \A d \in Consumers : d # c => Still(d)
  BY OthersStill
<1>6. /\ claimed \in Nat /\ head \in Nat /\ given \in Nat /\ End \in Nat
      /\ Total(Unsettled) \in Nat /\ Total(Owed) \in Nat /\ Total(Pending) \in Nat /\ Dealt \in Nat
  BY HistFacts, SumTypes
<1>7. Total(Owed)' = Total(Owed) /\ Total(Pending)' = Total(Pending) - n
  <2>1. Owed[c] = 0 /\ Owed'[c] = 0 /\ Pending[c] = n /\ Pending'[c] = 0
    BY <1>1, <1>2 DEF Owed, Pending, At
  <2>2. /\ Total(Owed)' = Total(Owed) - Owed[c] + Owed'[c]
        /\ Total(Pending)' = Total(Pending) - Pending[c] + Pending'[c]
    BY <1>5, OneSums
  <2> QED BY <2>1, <2>2, <1>2, <1>6
<1>8. Dealt' = Dealt
  BY <1>2, <1>4, <1>6, <1>7 DEF Dealt
<1>9. Bounded' /\ ClaimsApart' /\ Unsettled' = Unsettled
  <2>1. ~At(c, "settle") /\ call'[c].pc # "settle"
    BY <1>1 DEF At
  <2> QED BY <2>1, <1>3, <1>8, SettledStep
<1>10. Balance'
  BY <1>2, <1>3, <1>6, <1>7, <1>8, <1>9 DEF Balance, Claims
<1> QED BY <1>4, <1>9, <1>10

\* The steps of a call that has taken.
Later(c) == \/ LoadHeader(c) \/ LoadTail(c) \/ LoadKey(c) \/ Fetch(c)
            \/ SetManyEmpty(c) \/ ClearEntry(c) \/ FreeBlock(c)

\* The steps of a call that has taken.
LEMMA LaterEffects ==
  ASSUME Types, NEW c \in Consumers, Later(c)
  PROVE  /\ Taking(c) /\ UNCHANGED <<counters, sent, producer>>
         /\ \/ call'[c] = NoCall /\ out'[c] = <<>>
            \/ /\ call'[c].pc \in {"front", "key", "fetch", "empty", "clear", "free"}
               /\ call'[c].alone = call[c].alone
               /\ ~At(c, "fetch") => call'[c].at = call[c].at /\ call'[c].n = call[c].n
               /\ At(c, "fetch") => /\ call'[c].at = Plus(call[c].at, call[c].n - call'[c].n)
                                    /\ call'[c].n \in 0..call[c].n
         /\ At(c, "fetch") => call'[c].pc = "empty"
<1>0. /\ call \in [Consumers -> CallSet] /\ out \in [Consumers -> Seq(Values)] /\ call[c] \in CallSet
      /\ call[c].n \in Nat /\ call[c].at \in Nat /\ BLOCK_SIZE \in Nat \ {0}
  BY CallFacts, SizeFacts DEF Types, CallTypes
<1>1. LoadHeader(c) \/ LoadTail(c) \/ LoadKey(c) \/ ClearEntry(c)
        => /\ Taking(c) /\ ~At(c, "fetch") /\ UNCHANGED <<counters, sent, producer>>
           /\ call'[c].pc \in {"front", "key", "fetch", "free"}
           /\ call'[c].alone = call[c].alone
           /\ call'[c].at = call[c].at /\ call'[c].n = call[c].n
  BY <1>0, SMTT(40) DEF LoadHeader, LoadTail, LoadKey, ClearEntry, At, Taking, CallSet, stored
<1>2. ASSUME Fetch(c)
      PROVE  /\ Taking(c) /\ At(c, "fetch") /\ UNCHANGED <<counters, sent, producer>>
             /\ call'[c].pc = "empty" /\ call'[c].alone = call[c].alone
             /\ call'[c].at = Plus(call[c].at, call[c].n - call'[c].n)
             /\ call'[c].n \in 0..call[c].n
  <2> DEFINE from == call[c].at % BLOCK_SIZE
             k == Lesser(call[c].n, BLOCK_SIZE - from)
  <2>1. /\ At(c, "fetch") /\ UNCHANGED <<counters, sent, producer>>
        /\ call'[c].pc = "empty" /\ call'[c].alone = call[c].alone
        /\ call'[c].at = Plus(call[c].at, k) /\ call'[c].n = call[c].n - k
    BY <1>2, <1>0 DEF Fetch, MoveOut, CallSet
  <2>2. from \in 0..(BLOCK_SIZE - 1)
    <3>1. call[c].at \in Int
      BY <1>0
    <3> QED BY <3>1, <1>0, Division
  <2> HIDE DEF from
  <2>3. k \in 0..call[c].n
    BY <2>2, <1>0 DEF Lesser
  <2> HIDE DEF k
  <2>4. call[c].n - call'[c].n = k /\ call'[c].n \in 0..call[c].n
    BY <2>1, <2>3, <1>0
  <2> QED BY <2>1, <2>4 DEF Taking, At
<1>3. ASSUME OnToNext(c)
      PROVE  \/ call'[c] = NoCall /\ out'[c] = <<>>
             \/ /\ call'[c].pc = "fetch" /\ call'[c].alone = call[c].alone
                /\ call'[c].at = call[c].at /\ call'[c].n = call[c].n
  BY <1>3, <1>0 DEF OnToNext, NextBlock, CallSet
<1>4. SetManyEmpty(c) \/ FreeBlock(c)
        => Taking(c) /\ ~At(c, "fetch") /\ UNCHANGED <<counters, sent, producer>>
  BY DEF SetManyEmpty, FreeBlock, Taking, At, stored
<1>5. ASSUME SetManyEmpty(c), ~OnToNext(c)
      PROVE  /\ call'[c].pc = "clear" /\ call'[c].alone = call[c].alone
             /\ call'[c].at = call[c].at /\ call'[c].n = call[c].n
  BY <1>0, <1>5 DEF SetManyEmpty, CallSet
<1>6. FreeBlock(c) => OnToNext(c)
  BY DEF FreeBlock
<1> QED BY <1>1, <1>2, <1>3, <1>4, <1>5, <1>6 DEF Later

\* The disjuncts of a consumer's step.
LEMMA Claiming ==
  ASSUME NEW c \in Consumers, Consume(c)
  PROVE  \/ (\E m \in Sizes \cup {1} : Begin(c, m)) \/ ReadOvercommit(c) \/ Look(c)
         \/ Claim(c) \/ Settle(c) \/ GiveBack(c) \/ Take(c) \/ Later(c)
BY DEF Consume, dequeue_bulk, ClaimElements, Later

\* What the producer does to the counters.
LEMMA ProducerCounters ==
  ASSUME Types, Produce
  PROVE  /\ UNCHANGED <<headIndex, dequeueOptimisticCount, dequeueOvercommit, call, out>>
         /\ \/ UNCHANGED <<tailIndex, sent>> /\ ~AppendToTail /\ ~Publish
            \/ /\ AppendToTail \/ Publish
               /\ \E count \in Counts :
                   /\ tailIndex' = Plus(tailIndex, count) /\ sent' = sent + count
                   /\ AppendToTail => Producing("idle") /\ BlocksNeeded(count) = 0 /\ UNCHANGED producer
                   /\ Publish => Producing("publish") /\ count = producer.count /\ producer' = NoEnqueue
<1>1. UNCHANGED <<call, out>>
  BY ProducerSteps
<1>2. ASSUME NEW count \in Counts, BeginEnqueue(count) PROVE UNCHANGED <<counters, sent>>
  BY <1>2 DEF BeginEnqueue, base, stored
<1>3. CheckRoom \/ InsertBlockIndexEntry \/ AdvanceIndexTail \/ NewBlockIndex \/ FailBlock \/ UndoBlock
      => UNCHANGED <<counters, sent>>
  BY DEF CheckRoom, InsertBlockIndexEntry, AdvanceIndexTail, NewBlockIndex, FailBlock, UndoBlock, base, stored
<1>4. RequisitionBlock \/ FreeChain => UNCHANGED <<counters, sent>>
  BY DEF RequisitionBlock, FreeChain
<1>5. ASSUME AppendToTail
      PROVE  /\ UNCHANGED <<headIndex, dequeueOptimisticCount, dequeueOvercommit>> /\ ~Publish
             /\ \E count \in Counts :
                   /\ tailIndex' = Plus(tailIndex, count) /\ sent' = sent + count
                   /\ Producing("idle") /\ BlocksNeeded(count) = 0 /\ UNCHANGED producer
  BY <1>5 DEF AppendToTail, Construct, Publish, Producing
<1>6. ASSUME Publish
      PROVE  /\ UNCHANGED <<headIndex, dequeueOptimisticCount, dequeueOvercommit>> /\ ~AppendToTail
             /\ \E count \in Counts :
                   /\ tailIndex' = Plus(tailIndex, count) /\ sent' = sent + count
                   /\ Producing("publish") /\ count = producer.count /\ producer' = NoEnqueue
  <2>1. producer.count \in Counts
    BY <1>6 DEF Publish, Producing, Types, ProducerTypes
  <2> QED BY <1>6, <2>1 DEF AppendToTail, Construct, Publish, Producing
<1>7. CASE AppendToTail
  BY <1>1, <1>5, <1>7
<1>8. CASE Publish
  BY <1>1, <1>6, <1>8
<1>9. CASE UNCHANGED <<counters, sent>> /\ ~AppendToTail /\ ~Publish
  BY <1>1, <1>9 DEF counters
<1> QED BY <1>2, <1>3, <1>4, <1>7, <1>8, <1>9 DEF Produce, enqueue, enqueue_bulk

\* Counts are positive and below half the range.
LEMMA CountsFacts ==
  ASSUME NEW count \in Counts
  PROVE  count \in Nat \ {0} /\ count < Half
BY SizesFit, SizeFacts DEF Half

\* An enqueue's step keeps the claims: it moves the end, forward.
LEMMA ProducerQuiet ==
  ASSUME Types, Types', Claims, Produce, HistNext
  PROVE  /\ Balance' /\ Bounded' /\ ClaimsApart' /\ End' >= End
         /\ head' = head /\ claimed' = claimed /\ given' = given
<1>1. UNCHANGED <<headIndex, dequeueOptimisticCount, dequeueOvercommit, call>> /\ sent' >= sent
  <2>1. UNCHANGED sent \/ \E count \in Counts : sent' = sent + count
    BY ProducerCounters
  <2>2. sent \in Nat
    BY EndFacts DEF Types
  <2> QED BY <2>1, <2>2, ProducerCounters, CountsFacts
<1>2. End' >= End
  <2>1. sent \in Nat /\ Start \in Nat /\ sent' >= sent /\ sent' \in 0..MaxItems
    BY <1>1, EndFacts, SizesFit DEF Types, StoreTypes
  <2>2. End' = Start + sent' /\ End = Start + sent
    BY DEF End
  <2>3. \A x \in Nat, y \in Nat, z \in 0..MaxItems : z >= y => x + z >= x + y
    BY SizesFit
  <2> QED BY <2>1, <2>2, <2>3
<1>3. \A d \in Consumers : Still(d)
  BY <1>1 DEF Still
<1> QED BY <1>1, <1>2, <1>3, QuietStep, HistSame

\* A consumer's step that moves no counter keeps the claims.
LEMMA ConsumerQuiet ==
  ASSUME Types, Types', Claims, HistNext, NEW c \in Consumers, Consume(c),
         (\E m \in Sizes \cup {1} : Begin(c, m)) \/ ReadOvercommit(c) \/ Look(c) \/ Later(c)
  PROVE  /\ Balance' /\ Bounded' /\ ClaimsApart' /\ End' = End
         /\ head' = head /\ claimed' = claimed /\ given' = given
         /\ UNCHANGED counters
<1>0. call \in [Consumers -> CallSet] /\ call[c] \in CallSet
  BY DEF Types, CallTypes
<1>1. UNCHANGED <<counters, sent>> /\ call[c].pc \notin Busy /\ call'[c].pc \notin Busy
  <2>1. ASSUME NEW m \in Sizes \cup {1}, Begin(c, m)
        PROVE  UNCHANGED <<counters, sent>> /\ call[c].pc \notin Busy /\ call'[c].pc \notin Busy
    BY <2>1, <1>0, ZenonT(30) DEF Begin, NoCall, stored, Busy, At
  <2>2. ReadOvercommit(c) => UNCHANGED <<counters, sent>> /\ call[c].pc \notin Busy /\ call'[c].pc \notin Busy
    BY <1>0 DEF ReadOvercommit, stored, Busy, At, CallSet
  <2>4. ASSUME Look(c)
        PROVE  UNCHANGED <<counters, sent>> /\ call[c].pc \notin Busy /\ call'[c].pc \notin Busy
    <3>1. call'[c].pc \in {"idle", "claim"}
      BY <2>4, <1>0 DEF Look, NoCall, CallSet
    <3> QED BY <2>4, <3>1 DEF Look, stored, Busy, At
  <2>3. Later(c) => UNCHANGED <<counters, sent>> /\ call[c].pc \notin Busy /\ call'[c].pc \notin Busy
    BY LaterEffects, SMTT(40) DEF Taking, Busy, NoCall
  <2> QED BY <2>1, <2>2, <2>3, <2>4, ZenonT(30)
<1>2. \A d \in Consumers : Still(d)
  BY <1>1, OthersStill DEF Still
<1>3. End' = End
  BY <1>1, EndSame
<1>4. UNCHANGED <<headIndex, dequeueOptimisticCount, dequeueOvercommit>>
  BY <1>1 DEF counters
<1>5. End' >= End
  BY <1>3, HistFacts
<1> QED BY <1>1, <1>2, <1>3, <1>4, <1>5, QuietStep, HistSame

\* Every step keeps the sums.
LEMMA SumsStep ==
  ASSUME Types, Types', Claims, Timely, Next, HistNext
  PROVE  Balance' /\ Bounded' /\ ClaimsApart'
<1>1. CASE Produce
  BY <1>1, ProducerQuiet
<1>2. ASSUME NEW c \in Consumers, Consume(c) PROVE Balance' /\ Bounded' /\ ClaimsApart'
  BY <1>2, Claiming, ConsumerQuiet, ClaimStep, SettleStep, GiveBackStep, TakeStep
<1> QED BY <1>1, <1>2 DEF Next

\* Every step keeps the counters equal to the wrapped histories.
LEMMA NumbersStep ==
  ASSUME Types, Types', Claims, Next, HistNext
  PROVE  Numbers'
<1>0. /\ Numbers /\ head \in Nat /\ claimed \in Nat /\ given \in Nat /\ End \in Nat /\ sent \in Nat
  BY HistFacts, EndFacts DEF Claims, Types
<1>1. CASE Produce
  <2>1. head' = head /\ claimed' = claimed /\ given' = given
        /\ UNCHANGED <<headIndex, dequeueOptimisticCount, dequeueOvercommit>>
    BY <1>1, ProducerQuiet, ProducerCounters
  <2>2. tailIndex' = End' % W
    <3>1. CASE UNCHANGED <<tailIndex, sent>>
      BY <3>1, <1>0, EndSame DEF Numbers
    <3>2. ASSUME NEW count \in Counts, tailIndex' = Plus(tailIndex, count), sent' = sent + count
          PROVE  tailIndex' = End' % W
      <4>1. count \in Int /\ End \in Int
        BY <1>0, CountsFacts
      <4>2. Plus(End % W, count) = (End + count) % W
        BY <4>1, Wrapped
      <4>3. End' = End + count
        <5>1. End' = Start + sent' /\ End = Start + sent /\ Start \in Nat /\ count \in Nat
          BY SizesFit, CountsFacts DEF End
        <5> QED BY <5>1, <3>2, <1>0
      <4> QED BY <3>2, <4>2, <4>3, <1>0 DEF Numbers
    <3> QED BY <1>1, <3>1, <3>2, ProducerCounters
  <2> QED BY <2>1, <2>2, <1>0 DEF Numbers
<1>2. ASSUME NEW c \in Consumers, Consume(c) PROVE Numbers'
  <2>1. CASE UNCHANGED counters /\ End' = End /\ head' = head /\ claimed' = claimed /\ given' = given
    BY <2>1, <1>0 DEF Numbers, counters
  <2>n. call[c].n \in Int /\ call[c].k \in Int /\ W \in Nat
    BY CallFacts
  <2>2. CASE Claim(c)
    <3>1. /\ headIndex' = headIndex /\ dequeueOvercommit' = dequeueOvercommit /\ tailIndex' = tailIndex
          /\ dequeueOptimisticCount' = Plus(dequeueOptimisticCount, call[c].n) /\ sent' = sent
      BY <2>2 DEF Claim, stored
    <3>2. head' = head /\ given' = given /\ End' = End
      BY <3>1, HistSame, EndSame
    <3>3. call[c].n \in 0..(W - 1)
      <4>1. Phase(c)
        BY DEF Claims
      <4> QED BY <2>2, <4>1, SizeFacts, SMTT(40) DEF Claim, At, Phase
    <3>4. Plus(claimed % W, call[c].n) = (claimed + call[c].n) % W /\ Minus(Plus(claimed % W, call[c].n), claimed % W) = call[c].n
      <4>1. claimed \in Int
        BY <1>0
      <4> QED BY <4>1, <2>n, <3>3, Wrapped, Moved
    <3> QED BY <3>1, <3>2, <3>4, <1>0 DEF HistNext, Numbers
  <2>3. CASE Settle(c)
    <3>1. UNCHANGED counters /\ sent' = sent
      BY <2>3 DEF Settle, stored
    <3> QED BY <3>1, <2>1, HistSame, EndSame DEF counters
  <2>4. CASE GiveBack(c)
    <3>1. /\ headIndex' = headIndex /\ dequeueOptimisticCount' = dequeueOptimisticCount /\ tailIndex' = tailIndex
          /\ dequeueOvercommit' = Plus(dequeueOvercommit, call[c].k) /\ sent' = sent
      BY <2>4 DEF GiveBack, stored
    <3>2. head' = head /\ claimed' = claimed /\ End' = End
      BY <3>1, HistSame, EndSame
    <3>3. call[c].k \in 0..(W - 1)
      <4>1. Phase(c)
        BY DEF Claims
      <4> QED BY <2>4, <4>1, SizeFacts, SMTT(40) DEF GiveBack, At, Phase
    <3>4. Plus(given % W, call[c].k) = (given + call[c].k) % W /\ Minus(Plus(given % W, call[c].k), given % W) = call[c].k
      <4>1. given \in Int
        BY <1>0
      <4> QED BY <4>1, <2>n, <3>3, Wrapped, Moved
    <3> QED BY <3>1, <3>2, <3>4, <1>0 DEF HistNext, Numbers
  <2>5. CASE Take(c)
    <3>1. /\ dequeueOvercommit' = dequeueOvercommit /\ dequeueOptimisticCount' = dequeueOptimisticCount
          /\ tailIndex' = tailIndex /\ headIndex' = Plus(headIndex, call[c].n) /\ sent' = sent
      BY <2>5 DEF Take, stored
    <3>2. given' = given /\ claimed' = claimed /\ End' = End
      BY <3>1, HistSame, EndSame
    <3>3. call[c].n \in 0..(W - 1)
      BY <2>5, SizeFacts DEF Take, At, Claims, Phase
    <3>4. Plus(head % W, call[c].n) = (head + call[c].n) % W /\ Minus(Plus(head % W, call[c].n), head % W) = call[c].n
      <4>1. head \in Int
        BY <1>0
      <4> QED BY <4>1, <2>n, <3>3, Wrapped, Moved
    <3> QED BY <3>1, <3>2, <3>4, <1>0 DEF HistNext, Numbers
  <2> QED BY <1>2, <2>1, <2>2, <2>3, <2>4, <2>5, Claiming, ConsumerQuiet
<1> QED BY <1>1, <1>2 DEF Next

\* What was given back only grows.
LEMMA GivenGrows ==
  ASSUME Types, Types', HistNext
  PROVE  given' \in Nat /\ given' >= given
<1>1. dequeueOvercommit \in Int /\ dequeueOvercommit' \in Int
  BY SizeFacts DEF Types, CounterTypes, Indexes
<1>2. Minus(dequeueOvercommit', dequeueOvercommit) \in Indexes
  BY <1>1, Wrapped
<1>3. \A i \in Indexes : i \in Nat
  BY SizeFacts DEF Indexes
<1>4. given \in Nat /\ Minus(dequeueOvercommit', dequeueOvercommit) \in Nat
  BY <1>2, <1>3, HistFacts
<1> QED BY <1>4 DEF HistNext

\* What others do keeps what a call's place says of it.
LEMMA PhaseSame ==
  ASSUME Types, Types', Claims, HistNext, NEW d \in Consumers, Same(d)
  PROVE  Phase(d)'
<1>1. Phase(d) /\ given \in Nat /\ read[d] \in Nat /\ given' \in Nat /\ given' >= given
  BY HistFacts, CallFacts, GivenGrows DEF Claims
<1>2. read'[d] \in {read[d], given} /\ (~At(d, "overcommit") => read'[d] = read[d])
  BY HistCalls
<1>3. Taking(d) \/ At(d, "settle") => place'[d] = place[d]
  BY HistCalls DEF Taking, At, Same
<1>4. read'[d] <= given'
  BY <1>1, <1>2 DEF Phase
<1> QED BY <1>1, <1>2, <1>3, <1>4 DEF Phase, Same, Taking, At

\* What a step's own call reads and finds.
LEMMA PhaseOwn ==
  ASSUME Types, Types', Claims, Timely, HistNext, NEW c \in Consumers, Consume(c)
  PROVE  Phase(c)'
<1>0. /\ Phase(c) /\ call \in [Consumers -> CallSet] /\ call[c] \in CallSet /\ call'[c] \in CallSet
      /\ call[c].n \in Nat /\ place[c] \in Nat /\ read[c] \in Nat /\ given \in Nat /\ given' \in Nat /\ given' >= given
      /\ Half \in Nat \ {0} /\ claimed \in Nat /\ head \in Nat /\ Numbers
  BY CallFacts, HistFacts, GivenGrows, SizeFacts DEF Claims, Types, CallTypes
<1>1. read'[c] \in {read[c], given} /\ read'[c] <= given'
  <2>1. read'[c] \in {read[c], given}
    BY HistCalls
  <2> QED BY <2>1, <1>0 DEF Phase
<1>2. ASSUME NEW m \in Sizes \cup {1}, Begin(c, m) PROVE Phase(c)'
  <2>1. m # 0 /\ At(c, "idle") /\ out'[c] = out[c]
    <3>1. m # 0
      BY SizesFit
    <3>2. At(c, "idle") /\ out' = out
      BY <1>2, ZenonT(30) DEF Begin
    <3> QED BY <3>1, <3>2
  <2>2. call'[c].pc = "overcommit" /\ call'[c].max = m /\ call'[c].n = 0
    BY <1>0, <1>2, ZenonT(30) DEF Begin, NoCall
  <2>3. out'[c] = <<>>
    BY <2>1, <1>0 DEF Phase, Taking, At
  <2> QED BY <2>1, <2>2, <2>3, <1>1 DEF Phase, Taking
<1>3. CASE ReadOvercommit(c)
  <2>1. At(c, "overcommit") /\ out' = out /\ call'[c].pc = "look" /\ call'[c].over = dequeueOvercommit
        /\ call'[c].n = call[c].n /\ call'[c].max = call[c].max
    BY <1>3, <1>0 DEF ReadOvercommit, CallSet
  <2>2. read'[c] = given
    BY <2>1, HistCalls
  <2>3. out'[c] = <<>> /\ call[c].n = 0 /\ call[c].max # 0
    BY <2>1, <1>0 DEF Phase, Taking, At
  <2> QED BY <2>1, <2>2, <2>3, <1>0, <1>1 DEF Phase, Taking, Numbers
<1>4. CASE Look(c)
  <2> DEFINE v == Covered(call[c].tail, dequeueOptimisticCount, call[c].over)
  <2>1. At(c, "look") /\ out' = out /\ (v = 0 => call'[c] = NoCall)
        /\ (v # 0 => call'[c].pc = "claim" /\ call'[c].n = Lesser(v, call[c].max) /\ call'[c].over = call[c].over)
    BY <1>4, <1>0 DEF Look, CallSet
  <2>2. read'[c] = read[c]
    BY <2>1, HistCalls DEF At
  <2>3. CASE v = 0
    BY <2>1, <2>2, <2>3, <1>0, <1>1 DEF Phase, Taking, At, NoCall
  <2>4. CASE v # 0
    <3>1. v \in 0..(Half - 1)
      <4>1. call[c].tail \in Indexes /\ dequeueOptimisticCount \in Indexes /\ call[c].over \in Indexes
        BY CallFacts, HistFacts
      <4>2. \A i \in Indexes : i \in Int /\ i % W = i
        BY SizeFacts, ModSmall DEF Indexes
      <4>3. PICK t \in Int : t = call[c].tail /\ t % W = t
        BY <4>1, <4>2
      <4>4. PICK o \in Int : o = dequeueOptimisticCount /\ o % W = o
        BY <4>1, <4>2
      <4>5. PICK w \in Int : w = call[c].over /\ w % W = w
        BY <4>1, <4>2
      <4>6. Covered(t % W, o % W, w % W) \in 0..(Half - 1)
        BY CoveredIs
      <4> QED BY <4>3, <4>4, <4>5, <4>6
    <3>2. call[c].max \in Nat \ {0}
      <4>1. At(c, "look") => call[c].max # 0
        BY <1>0 DEF Phase, At
      <4> QED BY <4>1, <2>1, CallFacts
    <3> HIDE DEF v
    <3>3. Lesser(v, call[c].max) \in 1..(Half - 1)
      <4>1. Half \in Nat
        BY <1>0
      <4>2. PICK m \in Nat \ {0} : m = call[c].max
        BY <3>2
      <4>3. Lesser(v, m) \in 1..(Half - 1)
        BY <4>1, <3>1, <2>4 DEF Lesser
      <4> QED BY <4>2, <4>3
    <3> QED BY <2>1, <2>2, <2>4, <3>3, <1>0, <1>1 DEF Phase, Taking, At
  <2> QED BY <2>3, <2>4
<1>5. CASE Claim(c)
  <2>1. At(c, "claim") /\ out' = out /\ call'[c].pc = "settle" /\ call'[c].at = dequeueOptimisticCount
        /\ call'[c].n = call[c].n /\ call'[c].over = call[c].over
    BY <1>5, <1>0 DEF Claim, CallSet
  <2>2. read'[c] = read[c] /\ place'[c] = claimed
    BY <2>1, HistCalls DEF At
  <2> QED BY <2>1, <2>2, <1>0, <1>1 DEF Phase, Taking, At, Numbers
<1>6. CASE Settle(c)
  <2>1. At(c, "settle") /\ out' = out /\ call'[c].n = Granted(c) /\ call'[c].k = call[c].n - Granted(c)
        /\ call'[c].pc = IF Granted(c) < call[c].n THEN "giveback" ELSE "take"
    BY <1>6, <1>0 DEF Settle, CallSet
  <2>2. Granted(c) \in 0..call[c].n
    BY <2>1, Grant
  <2>3. read'[c] = read[c] /\ call[c].n \in 1..(Half - 1)
    BY <2>1, <1>0, HistCalls DEF At, Phase
  <2>4. out'[c] = <<>>
    BY <2>1, <1>0 DEF Phase, Taking, At
  <2>5. CASE Granted(c) < call[c].n
    <3>1. call[c].n - Granted(c) \in 1..(Half - 1) /\ Granted(c) \in 0..(Half - 1)
      BY <2>2, <2>3, <2>5, <1>0
    <3> QED BY <2>1, <2>4, <2>5, <3>1, <1>1 DEF Phase, Taking
  <2>6. CASE ~(Granted(c) < call[c].n)
    <3>1. Granted(c) = call[c].n
      BY <2>2, <2>6, <1>0
    <3> QED BY <2>1, <2>3, <2>4, <2>6, <3>1, <1>1 DEF Phase, Taking
  <2> QED BY <2>5, <2>6
<1>7. CASE GiveBack(c)
  <2>1. At(c, "giveback") /\ out' = out /\ call'[c] = (IF call[c].n = 0 THEN NoCall ELSE [call[c] EXCEPT !.k = 0, !.pc = "take"])
    BY <1>7, <1>0 DEF GiveBack
  <2>2. out'[c] = <<>> /\ call[c].n \in 0..(Half - 1)
    BY <2>1, <1>0 DEF Phase, Taking, At
  <2>3. CASE call[c].n = 0
    BY <2>1, <2>2, <2>3, <1>0, <1>1 DEF Phase, Taking, NoCall
  <2>4. CASE call[c].n # 0
    <3>1. call'[c].pc = "take" /\ call'[c].n = call[c].n /\ call[c].n \in 1..(Half - 1)
      BY <2>1, <2>2, <2>4, <1>0 DEF CallSet
    <3> QED BY <2>2, <3>1, <1>0, <1>1 DEF Phase, Taking
  <2> QED BY <2>3, <2>4
<1>8. CASE Take(c)
  <2>1. At(c, "take") /\ out' = out /\ call'[c].pc = "header" /\ call'[c].at = headIndex
    BY <1>8, <1>0 DEF Take, CallSet
  <2>2. place'[c] = head /\ out'[c] = <<>>
    BY <2>1, <1>0, HistCalls DEF Phase, Taking, At
  <2> QED BY <2>1, <2>2, <1>0, <1>1 DEF Phase, Taking, At, Numbers
<1>9. CASE Later(c)
  <2>1. Taking(c) /\ call[c].at = place[c] % W
    BY <1>9, <1>0, LaterEffects DEF Phase
  <2>2. CASE call'[c] = NoCall /\ out'[c] = <<>>
    BY <2>2, <1>1 DEF Phase, Taking, NoCall
  <2>3. CASE ~(call'[c] = NoCall /\ out'[c] = <<>>)
    <3>1. call'[c].pc \in {"front", "key", "fetch", "empty", "clear", "free"}
      BY <1>9, <2>3, LaterEffects
    <3>2. call'[c].at = place'[c] % W
      <4>1. CASE At(c, "fetch")
        <5>1. call'[c].n \in 0..call[c].n /\ call'[c].at = Plus(call[c].at, call[c].n - call'[c].n)
              /\ place'[c] = place[c] + call[c].n - call'[c].n
          BY <4>1, <1>9, <2>3, LaterEffects, HistCalls
        <5>2. call[c].n - call'[c].n \in Int /\ place[c] \in Int
          BY <5>1, <1>0
        <5>3. Plus(place[c] % W, call[c].n - call'[c].n) = (place[c] + (call[c].n - call'[c].n)) % W
          BY <5>2, Wrapped
        <5>4. place[c] + (call[c].n - call'[c].n) = place[c] + call[c].n - call'[c].n
          BY <5>1, <1>0
        <5> QED BY <5>1, <5>3, <5>4, <2>1
      <4>2. CASE ~At(c, "fetch")
        <5>1. call'[c].at = call[c].at /\ place'[c] = place[c]
          BY <4>2, <1>9, <2>1, <2>3, LaterEffects, HistCalls DEF Taking, At
        <5> QED BY <5>1, <2>1
      <4> QED BY <4>1, <4>2
    <3> QED BY <3>1, <3>2, <1>1 DEF Phase, Taking
  <2> QED BY <2>2, <2>3
<1> QED BY <1>2, <1>3, <1>4, <1>5, <1>6, <1>7, <1>8, <1>9, Claiming

\* Every step keeps what the places of the calls say.
LEMMA PhaseStep ==
  ASSUME Types, Types', Claims, Timely, Next, HistNext
  PROVE  \A d \in Consumers : Phase(d)'
<1> SUFFICES ASSUME NEW d \in Consumers PROVE Phase(d)'
  OBVIOUS
<1>1. CASE Produce
  <2>1. Same(d)
    BY <1>1, ProducerSteps DEF Same
  <2> QED BY <2>1, PhaseSame
<1>2. ASSUME NEW c \in Consumers, Consume(c) PROVE Phase(d)'
  <2>1. CASE d = c
    BY <1>2, <2>1, PhaseOwn
  <2>2. CASE d # c
    BY <1>2, <2>2, OthersSame, PhaseSame
  <2> QED BY <2>1, <2>2
<1> QED BY <1>1, <1>2 DEF Next

\* What a consumer's step does to others.
LEMMA ConsumerKeeps ==
  ASSUME NEW c \in Consumers, Consume(c)
  PROVE  UNCHANGED <<producer, key, headers, tailBlock, sent, tailIndex>>
<1>1. ClaimElements(c) => UNCHANGED <<tailBlock, sent, tailIndex>>
  BY ZenonT(30) DEF ClaimElements, Begin, ReadOvercommit, Look, Claim, Settle, GiveBack, Take, counters, stored
<1>2. LoadHeader(c) \/ LoadTail(c) \/ LoadKey(c) => UNCHANGED <<producer, key, headers, tailBlock, sent, tailIndex>>
  BY ZenonT(30) DEF LoadHeader, LoadTail, LoadKey, blockIndex, counters, stored
<1>3. Fetch(c) => UNCHANGED <<producer, key, headers, tailBlock, sent, tailIndex>>
  BY DEF Fetch, MoveOut, blockIndex, counters
<1>4. SetManyEmpty(c) \/ ClearEntry(c) \/ FreeBlock(c) => UNCHANGED <<producer, key, headers, tailBlock, sent, tailIndex>>
  BY DEF SetManyEmpty, ClearEntry, FreeBlock, blockIndex, counters, stored
<1> QED BY <1>1, <1>2, <1>3, <1>4, ZenonT(30) DEF Consume, dequeue_bulk, blockIndex

\* When another call is alone, a call can only begin.
LEMMA AloneOther ==
  ASSUME Types, Claims, NEW c \in Consumers, NEW d \in Consumers, c # d, Consume(c)
  PROVE  ~call'[d].alone
<1>0. call \in [Consumers -> CallSet] /\ Same(d)
  BY OthersSame DEF Types, CallTypes
<1>1. ASSUME NEW m \in Sizes \cup {1}, Begin(c, m) PROVE ~call'[d].alone
  BY <1>0, <1>1, ZenonT(30) DEF Begin, CallSet
<1>2. ASSUME ReadOvercommit(c) \/ Look(c) \/ Claim(c) \/ Settle(c) \/ GiveBack(c) \/ Take(c) \/ Later(c)
      PROVE  ~At(c, "idle")
  BY <1>2, LaterEffects DEF ReadOvercommit, Look, Claim, Settle, GiveBack, Take, At, Taking
<1>3. call'[d].alone => call[d].alone
  BY <1>0 DEF Same
<1>4. call[d].alone => At(c, "idle")
  BY DEF Claims, Alone
<1> QED BY <1>1, <1>2, <1>3, <1>4, Claiming

\* A call that begins with no other under way is alone.
LEMMA AloneBegin ==
  ASSUME Types, Types', Claims, HistNext, NEW c \in Consumers, Consume(c),
         NEW m \in Sizes \cup {1}, Begin(c, m)
  PROVE  Alone(c)'
<1>0. /\ call \in [Consumers -> CallSet] /\ \A d \in Consumers : d # c => Same(d)
      /\ claimed \in Nat /\ given \in Nat /\ head \in Nat /\ End \in Nat /\ Numbers
      /\ head <= End /\ End - head < Half /\ Half \in Nat \ {0} /\ W = 2 * Half
  BY OthersSame, HistFacts, ClaimsFacts, SizeFacts DEF Types, CallTypes, Claims
<1>1. /\ claimed' = claimed /\ given' = given /\ head' = head /\ End' = End /\ headIndex' = headIndex
  BY ConsumerQuiet DEF counters
<1>2. /\ At(c, "idle") /\ call'[c].pc = "overcommit" /\ call'[c].n = 0 /\ call'[c].max = m
      /\ call'[c].tail = tailIndex
      /\ call'[c].alone => /\ \A d \in Consumers : d # c => At(d, "idle")
                           /\ call'[c].due = Lesser(m, Minus(tailIndex, headIndex))
  <2>1. At(c, "idle")
    BY ZenonT(30) DEF Begin
  <2> DEFINE alone == \A d \in Consumers \ {c} : At(d, "idle")
  <2>2. call'[c] = [NoCall EXCEPT !.pc = "overcommit", !.max = m, !.tail = tailIndex,
                           !.alone = alone,
                           !.due = IF alone THEN Lesser(m, Minus(tailIndex, headIndex)) ELSE 0]
    BY <1>0, ZenonT(30) DEF Begin
  <2> HIDE DEF alone
  <2>3. /\ call'[c].pc = "overcommit" /\ call'[c].n = 0 /\ call'[c].max = m /\ call'[c].tail = tailIndex
        /\ call'[c].alone = alone /\ (alone => call'[c].due = Lesser(m, Minus(tailIndex, headIndex)))
    BY <2>2 DEF NoCall
  <2> USE DEF alone
  <2> QED BY <2>1, <2>3
<1> SUFFICES ASSUME call'[c].alone PROVE Alone(c)'
  BY DEF Alone
<1>3. \A d \in Consumers : At(d, "idle")
  BY <1>2
<1>4. claimed - given = head
  <2>1. Pending = [d \in Consumers |-> 0] /\ Owed = [d \in Consumers |-> 0] /\ Unsettled = [d \in Consumers |-> 0]
    BY <1>3 DEF Pending, Owed, Unsettled, At
  <2>2. Total(Pending) = 0 /\ Total(Owed) = 0 /\ Total(Unsettled) = 0
    BY <2>1, TotalZero
  <2>3. claimed = head + 0 + given + 0 + 0
    BY <2>2 DEF Claims, Balance, Dealt
  <2> QED BY <2>3, <1>0
<1>5. Minus(tailIndex, headIndex) = End - head
  <2>1. End \in Int /\ head \in Int /\ End - head \in Int /\ W \in Nat \ {0}
    BY <1>0
  <2>2. Minus(End % W, head % W) = (End - head) % W
    BY <2>1, Wrapped
  <2>3. 0 <= End - head /\ End - head < W
    BY <1>0
  <2>4. (End - head) % W = End - head
    BY <2>1, <2>3, ModSmall
  <2> QED BY <2>2, <2>4, <1>0 DEF Numbers
<1>6. \A d \in Consumers : d # c => call'[d].pc = "idle"
  BY <1>0, <1>3 DEF Same, At
<1>7. claimed' - given' = head' + 0 /\ Minus(tailIndex, headIndex) <= End - head
  BY <1>1, <1>4, <1>5, <1>0
<1> QED BY <1>1, <1>2, <1>6, <1>7 DEF Alone, At

\* What a call that is alone sees at its first look is what is due to it.
LEMMA AloneLook ==
  ASSUME Types, Claims, NEW c \in Consumers, call[c].alone, At(c, "look")
  PROVE  Lesser(Covered(call[c].tail, dequeueOptimisticCount, call[c].over), call[c].max) = call[c].due
         /\ call[c].due <= End - head /\ call[c].due \in Nat
         /\ (Covered(call[c].tail, dequeueOptimisticCount, call[c].over) = 0 <=> call[c].due = 0)
<1> DEFINE m == Minus(call[c].tail, headIndex)
<1>1. /\ call[c].tail \in Indexes /\ headIndex = head % W /\ dequeueOptimisticCount = claimed % W
      /\ call[c].over = read[c] % W /\ read[c] = given /\ claimed - given = head + 0
      /\ call[c].due = Lesser(call[c].max, m) /\ m <= End - head /\ call[c].max \in Nat /\ call[c].max # 0
      /\ head \in Nat /\ claimed \in Nat /\ given \in Nat /\ End \in Nat /\ End - head < Half
      /\ Half \in Nat \ {0} /\ W \in Nat \ {0}
  BY CallFacts, HistFacts, ClaimsFacts, SizeFacts DEF Claims, Numbers, Phase, Alone, At
<1>2. call[c].tail \in Int /\ headIndex \in Int /\ call[c].tail % W = call[c].tail
  BY <1>1, HistFacts, ModSmall DEF Indexes
<1>3. m \in Indexes
  BY <1>2, Wrapped
<1>4. m \in Nat
  BY <1>1, <1>3 DEF Indexes
<1>5. (head + m) % W = call[c].tail
  <2> DEFINE t == call[c].tail
             i == head % W
  <2>0. t \in Int /\ head \in Int /\ i \in Int /\ t - i \in Int /\ t + head \in Int /\ t % W = t
    <3>1. t \in Int /\ head \in Int /\ t % W = t /\ i = headIndex /\ i \in Int
      BY <1>1, <1>2
    <3> HIDE DEF t, i
    <3> QED BY <3>1
  <2>1. m = (t - i) % W
    BY <1>1 DEF Minus
  <2> HIDE DEF t, m
  <2>w. W \in Nat \ {0}
    BY <1>1
  <2>x. PICK x \in Int : x = t - i
    BY <2>0
  <2>y. PICK y \in Int : y = t + head
    BY <2>0
  <2>2. (head + m) % W = (head + x) % W
    <3>1. (head + (x % W)) % W = (head + x) % W
      BY <2>w, <2>0, ModSum
    <3> QED BY <3>1, <2>1, <2>x
  <2>3. head + x = y - i
    BY <2>0, <2>x, <2>y
  <2>4. (y - i) % W = (y - head) % W
    BY <2>w, <2>0, ModSum
  <2>5. y - head = t
    BY <2>0, <2>y
  <2>6. (head + m) % W = t
    BY <2>0, <2>2, <2>3, <2>4, <2>5
  <2> QED BY <2>6 DEF t
<1> HIDE DEF m
<1> DEFINE u == head + m
<1>6. Covered(u % W, claimed % W, read[c] % W) = m
  <2>1. u \in Int /\ claimed \in Int /\ read[c] \in Int
    BY <1>1, <1>4
  <2>2. u - (claimed - read[c]) = m
    BY <1>1, <1>4
  <2>3. 0 <= m /\ m < Half
    BY <1>1, <1>4
  <2> HIDE DEF u
  <2> QED BY <2>1, <2>2, <2>3, CoveredIs
<1>7. Covered(call[c].tail, dequeueOptimisticCount, call[c].over) = m
  BY <1>1, <1>5, <1>6
<1> QED BY <1>1, <1>4, <1>7 DEF Lesser

\* A call that is alone is granted all that it claimed.
LEMMA AloneSettle ==
  ASSUME Types, Claims, NEW c \in Consumers, call[c].alone, At(c, "settle")
  PROVE  Granted(c) = call[c].n
<1>1. /\ tailIndex = End % W /\ call[c].at = place[c] % W /\ call[c].over = read[c] % W /\ read[c] = given
      /\ call[c].n <= End - head /\ place[c] - given = head
      /\ head \in Nat /\ place[c] \in Nat /\ given \in Nat /\ End \in Nat /\ End - head < Half
      /\ Half \in Nat \ {0} /\ W \in Nat \ {0} /\ call[c].n \in Nat /\ head <= End
  BY CallFacts, HistFacts, ClaimsFacts, SizeFacts DEF Claims, Numbers, Phase, Alone, At
<1>2. Covered(End % W, place[c] % W, read[c] % W) = End - head
  <2>1. End \in Int /\ place[c] \in Int /\ read[c] \in Int
    BY <1>1
  <2>2. End - (place[c] - read[c]) = End - head
    BY <1>1
  <2>3. 0 <= End - head /\ End - head < Half
    BY <1>1
  <2> QED BY <2>1, <2>2, <2>3, CoveredIs
<1> QED BY <1>1, <1>2 DEF Granted, Lesser

\* A step of a call keeps what is said of it if it is alone.
LEMMA AloneOwn ==
  ASSUME Types, Types', Claims, Timely, HistNext, NEW c \in Consumers, Consume(c)
  PROVE  Alone(c)'
<1>0. /\ call \in [Consumers -> CallSet] /\ call[c] \in CallSet /\ Alone(c)
      /\ \A d \in Consumers : d # c => Same(d)
      /\ claimed \in Nat /\ given \in Nat /\ head \in Nat /\ End \in Nat /\ call[c].n \in Nat
      /\ End' = End
  <2>1. sent' = sent
    BY ConsumerKeeps
  <2> QED BY <2>1, EndSame, OthersSame, HistFacts, CallFacts DEF Types, CallTypes, Claims
<1>1. ASSUME NEW m \in Sizes \cup {1}, Begin(c, m) PROVE Alone(c)'
  BY <1>1, AloneBegin
<1> DEFINE Others == \A d \in Consumers : d # c => call'[d].pc = "idle"
<1>2. call[c].alone => Others
  BY <1>0 DEF Alone, Same, At
<1> HIDE DEF Others
<1>3. CASE ReadOvercommit(c)
  <2>1. /\ At(c, "overcommit") /\ UNCHANGED counters
        /\ call'[c].pc = "look" /\ call'[c].n = call[c].n /\ call'[c].max = call[c].max /\ call'[c].tail = call[c].tail
        /\ call'[c].alone = call[c].alone /\ call'[c].due = call[c].due
    BY <1>3, <1>0 DEF ReadOvercommit, CallSet
  <2>2. read'[c] = given /\ given' = given /\ claimed' = claimed /\ head' = head /\ headIndex' = headIndex
    BY <2>1, HistCalls, HistSame DEF counters
  <2> QED BY <2>1, <2>2, <1>0, <1>2 DEF Alone, At, Others
<1>4. CASE Look(c)
  <2> DEFINE v == Covered(call[c].tail, dequeueOptimisticCount, call[c].over)
  <2>1. At(c, "look") /\ UNCHANGED counters /\ (v = 0 => call'[c] = NoCall)
        /\ (v # 0 => /\ call'[c].pc = "claim" /\ call'[c].n = Lesser(v, call[c].max)
                     /\ call'[c].alone = call[c].alone /\ call'[c].due = call[c].due)
    BY <1>4, <1>0 DEF Look, CallSet
  <2>2. read'[c] = read[c] /\ given' = given /\ claimed' = claimed /\ head' = head
    BY <2>1, HistCalls, HistSame DEF counters, At
  <2>3. CASE v = 0
    BY <2>1, <2>3 DEF Alone, NoCall
  <2>4. CASE v # 0 /\ call[c].alone
    <3>1. Lesser(v, call[c].max) = call[c].due /\ call[c].due <= End - head
      BY <2>1, <2>4, AloneLook
    <3> QED BY <2>1, <2>2, <2>4, <3>1, <1>0, <1>2 DEF Alone, At, Others
  <2>5. CASE v # 0 /\ ~call[c].alone
    BY <2>1, <2>5 DEF Alone
  <2> QED BY <2>3, <2>4, <2>5
<1>5. CASE Claim(c)
  <2>1. At(c, "claim") /\ headIndex' = headIndex /\ dequeueOvercommit' = dequeueOvercommit
        /\ call'[c].pc = "settle" /\ call'[c].n = call[c].n /\ call'[c].over = call[c].over
        /\ call'[c].alone = call[c].alone /\ call'[c].due = call[c].due
    BY <1>5, <1>0 DEF Claim, CallSet
  <2>2. read'[c] = read[c] /\ place'[c] = claimed /\ head' = head /\ given' = given
    BY <2>1, HistCalls, HistSame DEF At
  <2>3. claimed' = claimed + call[c].n
    <3>1. dequeueOptimisticCount' = Plus(dequeueOptimisticCount, call[c].n)
      BY <1>5 DEF Claim
    <3>2. call[c].n \in 0..(W - 1) /\ claimed \in Int
      BY <2>1, <1>0, SizeFacts DEF At, Claims, Phase
    <3>3. Minus(Plus(claimed % W, call[c].n), claimed % W) = call[c].n
      BY <3>2, Moved
    <3> QED BY <3>1, <3>3 DEF HistNext, Claims, Numbers
  <2>4. call[c].alone => claimed - given = head + 0 /\ read[c] = given /\ call[c].n = call[c].due /\ call[c].n <= End - head
    BY <2>1, <1>0 DEF Alone, At
  <2>5. call[c].alone => claimed' - given' = head' + call[c].n /\ claimed - given' = head'
    BY <2>2, <2>3, <2>4, <1>0
  <2> QED BY <2>1, <2>2, <2>4, <2>5, <1>0, <1>2 DEF Alone, At, Others
<1>6. CASE Settle(c)
  <2>1. At(c, "settle") /\ UNCHANGED counters
        /\ call'[c].n = Granted(c) /\ call'[c].alone = call[c].alone /\ call'[c].due = call[c].due
        /\ call'[c].pc = IF Granted(c) < call[c].n THEN "giveback" ELSE "take"
    BY <1>6, <1>0 DEF Settle, CallSet
  <2>2. given' = given /\ claimed' = claimed /\ head' = head
    BY <2>1, HistSame DEF counters
  <2>3. CASE call[c].alone
    <3>1. Granted(c) = call[c].n
      BY <2>1, <2>3, AloneSettle
    <3>2. call'[c].pc = "take" /\ call'[c].n = call[c].n
      BY <2>1, <3>1, <1>0
    <3> QED BY <2>1, <2>2, <2>3, <3>2, <1>0, <1>2 DEF Alone, At, Others
  <2>4. CASE ~call[c].alone
    BY <2>1, <2>4 DEF Alone
  <2> QED BY <2>3, <2>4
<1>7. CASE GiveBack(c)
  <2>1. At(c, "giveback") /\ call'[c] = (IF call[c].n = 0 THEN NoCall ELSE [call[c] EXCEPT !.k = 0, !.pc = "take"])
    BY <1>7, <1>0 DEF GiveBack
  <2>2. ~call[c].alone
    BY <2>1, <1>0 DEF Alone, At
  <2>3. ~call'[c].alone
    BY <2>1, <2>2, <1>0 DEF NoCall, CallSet
  <2> QED BY <2>3 DEF Alone
<1>8. CASE Take(c)
  <2>1. ~call'[c].alone
    BY <1>8, <1>0 DEF Take, CallSet
  <2> QED BY <2>1 DEF Alone
<1>9. CASE Later(c)
  <2>1. ~call[c].alone
    BY <1>9, <1>0, LaterEffects DEF Alone, Taking
  <2>2. ~call'[c].alone
    BY <1>9, <2>1, LaterEffects DEF NoCall
  <2> QED BY <2>2 DEF Alone
<1> QED BY <1>1, <1>3, <1>4, <1>5, <1>6, <1>7, <1>8, <1>9, Claiming

\* Every step keeps what is said of a call that is alone.
LEMMA AloneStep ==
  ASSUME Types, Types', Claims, Timely, Next, HistNext
  PROVE  \A d \in Consumers : Alone(d)'
<1> SUFFICES ASSUME NEW d \in Consumers PROVE Alone(d)'
  OBVIOUS
<1>1. CASE Produce
  <2>0. Alone(d) /\ claimed \in Nat /\ given \in Nat /\ head \in Nat /\ End \in Nat /\ End' \in Nat
    BY HistFacts, EndNext DEF Claims
  <2>1. call' = call /\ headIndex' = headIndex /\ head' = head /\ claimed' = claimed /\ given' = given /\ End' >= End
    BY <1>1, ProducerSteps, ProducerQuiet, ProducerCounters
  <2>2. (~At(d, "overcommit") => read'[d] = read[d]) /\ (At(d, "settle") => place'[d] = place[d])
    BY HistCalls DEF At
  <2>3. \A x \in Int : x <= End - head => x <= End' - head
    <3>1. \A a, b, h, x \in Int : b >= a /\ x <= a - h => x <= b - h
      OBVIOUS
    <3>2. End \in Int /\ End' \in Int /\ head \in Int
      BY <2>0
    <3> QED BY <2>1, <3>1, <3>2
  <2>4. call[d].n \in Int /\ Minus(call[d].tail, headIndex) \in Int
    <3>1. call[d].n \in Int /\ call[d].tail \in Int /\ headIndex \in Int
      BY CallFacts, HistFacts
    <3>2. \A i \in Indexes : i \in Int
      BY CallFacts
    <3> QED BY <3>1, <3>2, Wrapped
  <2>5. /\ call[d].n <= End - head => call[d].n <= End' - head
        /\ Minus(call[d].tail, headIndex) <= End - head => Minus(call[d].tail, headIndex) <= End' - head
    BY <2>3, <2>4
  <2> QED BY <2>0, <2>1, <2>2, <2>5 DEF Alone, At
<1>2. ASSUME NEW c \in Consumers, Consume(c) PROVE Alone(d)'
  <2>1. CASE d = c
    BY <1>2, <2>1, AloneOwn
  <2>2. CASE d # c
    BY <1>2, <2>2, AloneOther DEF Alone
  <2> QED BY <2>1, <2>2
<1> QED BY <1>1, <1>2 DEF Next

\* Every step keeps a single consumer alone.
LEMMA SingleStep ==
  ASSUME Types, Types', Claims, Next, HistNext
  PROVE  Single'
<1> SUFFICES ASSUME \A c, d \in Consumers : c = d, NEW c \in Consumers,
                    call'[c].pc \in {"overcommit", "look", "claim", "settle"}
             PROVE  call'[c].alone
  BY DEF Single
<1>0. /\ call \in [Consumers -> CallSet] /\ call[c] \in CallSet
      /\ call[c].pc \in {"overcommit", "look", "claim", "settle"} => call[c].alone
  BY DEF Types, CallTypes, Claims, Single
<1>1. CASE Produce
  BY <1>0, <1>1, ProducerSteps
<1>2. CASE Consume(c)
  <2>1. ASSUME NEW m \in Sizes \cup {1}, Begin(c, m) PROVE call'[c].alone
    <3> DEFINE alone == \A d \in Consumers \ {c} : At(d, "idle")
    <3>1. call'[c] = [NoCall EXCEPT !.pc = "overcommit", !.max = m, !.tail = tailIndex,
                           !.alone = alone,
                           !.due = IF alone THEN Lesser(m, Minus(tailIndex, headIndex)) ELSE 0]
      BY <1>0, <2>1, ZenonT(30) DEF Begin
    <3>2. alone
      OBVIOUS
    <3> HIDE DEF alone
    <3> QED BY <3>1, <3>2 DEF NoCall
  <2>2. ReadOvercommit(c) => call'[c].alone
    BY <1>0 DEF ReadOvercommit, At, CallSet
  <2>3. Look(c) => call'[c].alone \/ call'[c] = NoCall
    BY <1>0 DEF Look, At, CallSet
  <2>4. Claim(c) => call'[c].alone
    BY <1>0 DEF Claim, At, CallSet
  <2>5. Settle(c) => call'[c].pc \in {"giveback", "take"}
    BY <1>0 DEF Settle, CallSet
  <2>6. GiveBack(c) => call'[c] = NoCall \/ call'[c].pc = "take"
    BY <1>0 DEF GiveBack, CallSet
  <2>7. Take(c) => call'[c].pc = "header"
    BY <1>0 DEF Take, CallSet
  <2>8. Later(c) => call'[c] = NoCall \/ call'[c].pc \in {"front", "key", "fetch", "empty", "clear", "free"}
    BY LaterEffects
  <2> QED BY <1>2, <2>1, <2>2, <2>3, <2>4, <2>5, <2>6, <2>7, <2>8, Claiming DEF NoCall
<1> QED BY <1>1, <1>2 DEF Next

\* The head only grows.
LEMMA HeadGrows ==
  ASSUME Types, Types', HistNext
  PROVE  head' \in Nat /\ head' >= head
<1>1. headIndex \in Int /\ headIndex' \in Int
  BY SizeFacts DEF Types, CounterTypes, Indexes
<1>2. Minus(headIndex', headIndex) \in Indexes
  BY <1>1, Wrapped
<1>3. \A i \in Indexes : i \in Nat
  BY SizeFacts DEF Indexes
<1>4. head \in Nat /\ Minus(headIndex', headIndex) \in Nat
  BY <1>2, <1>3, HistFacts
<1> QED BY <1>4 DEF HistNext

\* Where the enqueue under way stands, in blocks.
Reach == TailNumber + Len(producer.chain) + Extra

\* The numbers of the enqueue under way are integers.
LEMMA ReachType ==
  ASSUME Types
  PROVE  /\ Len(producer.chain) \in Nat /\ Extra \in {1, 2} /\ Reach \in Int /\ From(Reach) \in Int
         /\ TailNumber \in Int /\ producer.chain \in Seq(Blocks)
         /\ producer \in [pc : ProducerPlaces, count : Nat, chain : Seq(Blocks), undone : Nat]
<1>1. /\ TailNumber \in Int /\ producer.chain \in Seq(Blocks)
      /\ producer \in [pc : ProducerPlaces, count : Nat, chain : Seq(Blocks), undone : Nat]
  BY EndFacts DEF Types, ProducerTypes
<1>2. Len(producer.chain) \in Nat
  BY <1>1, LenProperties
<1>3. Extra \in {1, 2}
  BY DEF Extra
<1>4. Reach \in Int
  BY <1>1, <1>2, <1>3 DEF Reach
<1> QED BY <1>1, <1>2, <1>3, <1>4, FromFacts

\* The window holds while the enqueue gets no further.
LEMMA ReachStays ==
  ASSUME Types, Types', Claims, HistNext, Reach' <= Reach
  PROVE  Window'
<1>1. From(Reach) - head < Half
  BY DEF Claims, Window, Reach
<1>2. Reach \in Int /\ Reach' \in Int
  <2>1. Reach \in Int
    BY ReachType
  <2>2. Reach' \in Int
    <3>1. StoreTypes' /\ ProducerTypes'
      BY DEF Types
    <3>2. (End - 1)' \in Int
      <4>1. End' \in Nat
        BY EndNext
      <4>2. (End - 1)' = End' - 1
        OBVIOUS
      <4>3. \A x \in Nat : x - 1 \in Int
        OBVIOUS
      <4> QED BY <4>1, <4>2, <4>3
    <3>3. TailNumber' \in Int
      <4>1. TailNumber' = Num((End - 1)')
        BY DEF TailNumber
      <4> QED BY <3>2, <4>1, NumFacts
    <3>4. Len(producer'.chain) \in Nat
      <4>1. producer'.chain \in Seq(Blocks)
        BY <3>1 DEF ProducerTypes
      <4> QED BY <4>1, LenProperties
    <3>5. Extra' \in {1, 2}
      BY DEF Extra
    <3>6. Reach' = TailNumber' + Len(producer'.chain) + Extra'
      BY DEF Reach
    <3>7. \A x \in Int, y \in Nat, z \in {1, 2} : x + y + z \in Int
      OBVIOUS
    <3> QED BY <3>3, <3>4, <3>5, <3>6, <3>7
  <2> QED BY <2>1, <2>2
<1>3. head \in Nat /\ head' \in Nat /\ head' >= head /\ Half \in Nat
  BY HistFacts, HeadGrows, SizeFacts
<1>4. From(Reach') - head' < Half
  <2>1. \A x, y \in Int : x <= y => From(x) <= From(y)
    BY FromFacts
  <2>2. From(Reach') <= From(Reach) /\ From(Reach') \in Int /\ From(Reach) \in Int
    BY <1>2, <2>1, FromFacts
  <2>3. \A x, y, h, k, z \in Int : x <= y /\ k >= h /\ y - h < z => x - k < z
    OBVIOUS
  <2> QED BY <1>1, <1>3, <2>2, <2>3
<1> QED BY <1>4 DEF Window, Reach

\* There is room for one block more.
LEMMA ReachGrows ==
  ASSUME Types, Types', Claims, HistNext, headIndex' = headIndex, sent' = sent,
         ~Full(NewBase), Extra = 1, producer'.chain = producer.chain
  PROVE  Window'
<1> DEFINE q == TailNumber + Len(producer.chain) + 1
<1>1. q \in Int /\ q = Reach /\ NewBase = From(q) % W /\ TailNumber \in Int /\ Len(producer.chain) \in Nat
  BY ReachType, NewBaseIs DEF Reach, Claims
<1>2. From(q) - head < Half
  BY <1>1 DEF Claims, Window, Reach
<1>3. head < From(q + 1)
  <2>1. head \in Nat /\ End \in Nat /\ head <= End /\ End <= From(TailNumber + 1)
    BY ClaimsFacts, EndFacts DEF Types
  <2>2. TailNumber + 1 \in Int /\ q + 1 \in Int /\ TailNumber + 1 < q + 1
    BY <1>1
  <2>3. From(TailNumber + 1) < From(q + 1) /\ From(TailNumber + 1) \in Int /\ From(q + 1) \in Int
    BY <2>2, FromFacts
  <2> QED BY <2>1, <2>3
<1> HIDE DEF q
<1>4. From(q + 1) - head < Half
  BY <1>1, <1>2, <1>3, RoomIs DEF Claims
<1>5. head' = head /\ TailNumber' = TailNumber
  <2>1. End' = End
    BY EndSame
  <2>2. TailNumber' = Num(End' - 1)
    BY DEF TailNumber
  <2> QED BY <2>1, <2>2, HistSame DEF TailNumber
<1>6. Extra' \in {1, 2}
  BY DEF Extra
<1>7. TailNumber' + Len(producer'.chain) + Extra' <= q + 1
  BY <1>1, <1>5, <1>6 DEF q
<1>8. From(TailNumber' + Len(producer'.chain) + Extra') <= From(q + 1)
  <2>1. TailNumber' + Len(producer'.chain) + Extra' \in Int /\ q + 1 \in Int
    BY <1>1, <1>5, <1>6
  <2> QED BY <1>7, <2>1, FromFacts
<1>9. From(TailNumber' + Len(producer'.chain) + Extra') \in Int /\ From(q + 1) \in Int /\ head \in Nat /\ Half \in Nat
  <2>1. TailNumber' + Len(producer'.chain) + Extra' \in Int /\ q + 1 \in Int
    BY <1>1, <1>5, <1>6
  <2> QED BY <2>1, FromFacts, HistFacts, SizeFacts
<1>10. From(TailNumber' + Len(producer'.chain) + Extra') - head' < Half
  BY <1>4, <1>5, <1>8, <1>9
<1> QED BY <1>10 DEF Window

\* The tail block is the same while nothing is sent.
LEMMA TailSame ==
  ASSUME sent' = sent
  PROVE  TailNumber' = TailNumber /\ End' = End /\ \A n \in Counts : Needs(n)' = Needs(n)
<1>1. End' = End
  BY EndSame
<1>2. TailNumber' = Num(End' - 1)
  BY DEF TailNumber
<1>3. TailNumber' = TailNumber
  BY <1>1, <1>2 DEF TailNumber
<1>4. \A n \in Counts : Needs(n)' = Num(End' + n - 1) - TailNumber'
  BY DEF Needs
<1> QED BY <1>1, <1>3, <1>4 DEF Needs

\* The tail block moves by the blocks that the count needs.
LEMMA TailMoves ==
  ASSUME Types, Claims, NEW count \in Counts, sent' = sent + count
  PROVE  End' = End + count /\ TailNumber' = TailNumber + Needs(count) /\ Needs(count) \in Nat
<1>1. Start \in Nat /\ sent \in Nat /\ count \in Nat /\ TailNumber \in Int
  BY SizesFit, CountsFacts, EndFacts DEF Types
<1>2. End' = Start + sent' /\ End = Start + sent
  BY DEF End
<1>3. End' = End + count
  BY <1>1, <1>2
<1>4. TailNumber' = Num(End' - 1)
  BY DEF TailNumber
<1>5. End' - 1 = End + count - 1
  BY <1>1, <1>2, <1>3
<1>6. Num(End + count - 1) \in Int
  <2>1. End + count - 1 \in Int
    BY <1>1, <1>2
  <2> QED BY <2>1, NumFacts
<1> QED BY <1>1, <1>3, <1>4, <1>5, <1>6, NeedFacts DEF Needs, Claims

\* What an enqueue's step does to the record of it.
LEMMA ProducerRecord ==
  ASSUME Types
  PROVE  /\ \A count \in Counts : BeginEnqueue(count) =>
              /\ producer = NoEnqueue /\ producer'.pc = "insert" /\ producer'.count = count /\ producer'.chain = <<>>
              /\ UNCHANGED <<counters, sent, tailBlock>>
         /\ CheckRoom => /\ Producing("room") /\ UNCHANGED <<counters, sent, tailBlock>>
                         /\ producer'.pc = (IF Full(NewBase) THEN "undo" ELSE "insert")
                         /\ producer'.count = producer.count /\ producer'.chain = producer.chain
         /\ InsertBlockIndexEntry => /\ Producing("insert") /\ UNCHANGED <<counters, sent, tailBlock>>
                         /\ producer'.pc = "advance"
                         /\ producer'.count = producer.count /\ producer'.chain = producer.chain
         /\ AdvanceIndexTail => /\ Producing("advance") /\ UNCHANGED <<counters, sent, tailBlock>>
                         /\ producer'.pc = "requisition"
                         /\ producer'.count = producer.count /\ producer'.chain = producer.chain
         /\ NewBlockIndex => /\ Producing("insert") /\ UNCHANGED <<counters, sent, tailBlock>>
                         /\ producer'.pc \in {"insert", "undo"}
                         /\ producer'.count = producer.count /\ producer'.chain = producer.chain
         /\ FailBlock => /\ Producing("requisition") /\ UNCHANGED <<counters, sent, tailBlock>>
                         /\ producer'.pc = "undo"
                         /\ producer'.count = producer.count /\ producer'.chain = producer.chain
         /\ UndoBlock => /\ Producing("undo") /\ UNCHANGED <<counters, sent, tailBlock>>
                         /\ producer'.pc = "undo"
                         /\ producer'.count = producer.count /\ producer'.chain = producer.chain
                         /\ producer'.undone = producer.undone + 1
         /\ FreeChain => /\ Producing("undo") /\ UNCHANGED <<counters, sent, tailBlock>>
                         /\ producer' = NoEnqueue
<1>1. producer \in [pc : ProducerPlaces, count : Nat, chain : Seq(Blocks), undone : Nat]
      /\ (Producing("idle") => producer = NoEnqueue)
  BY DEF Types, ProducerTypes
<1>2. \A count \in Counts : BeginEnqueue(count) =>
              /\ producer = NoEnqueue /\ producer'.pc = "insert" /\ producer'.count = count /\ producer'.chain = <<>>
              /\ UNCHANGED <<counters, sent, tailBlock>>
  BY <1>1 DEF BeginEnqueue, NoEnqueue, base, stored
<1>3. CheckRoom => /\ Producing("room") /\ UNCHANGED <<counters, sent, tailBlock>>
                         /\ producer'.pc = (IF Full(NewBase) THEN "undo" ELSE "insert")
                         /\ producer'.count = producer.count /\ producer'.chain = producer.chain
  BY <1>1 DEF CheckRoom, GoTo, base, stored
<1>4. InsertBlockIndexEntry => /\ Producing("insert") /\ UNCHANGED <<counters, sent, tailBlock>>
                         /\ producer'.pc = "advance"
                         /\ producer'.count = producer.count /\ producer'.chain = producer.chain
  BY <1>1 DEF InsertBlockIndexEntry, GoTo, base, stored
<1>5. AdvanceIndexTail => /\ Producing("advance") /\ UNCHANGED <<counters, sent, tailBlock>>
                         /\ producer'.pc = "requisition"
                         /\ producer'.count = producer.count /\ producer'.chain = producer.chain
  BY <1>1 DEF AdvanceIndexTail, GoTo, base, stored
<1>6. NewBlockIndex => /\ Producing("insert") /\ UNCHANGED <<counters, sent, tailBlock>>
                         /\ producer'.pc \in {"insert", "undo"}
                         /\ producer'.count = producer.count /\ producer'.chain = producer.chain
  BY <1>1 DEF NewBlockIndex, GoTo, base, stored, Producing
<1>7. FailBlock => /\ Producing("requisition") /\ UNCHANGED <<counters, sent, tailBlock>>
                         /\ producer'.pc = "undo"
                         /\ producer'.count = producer.count /\ producer'.chain = producer.chain
  BY <1>1 DEF FailBlock, GoTo, base, stored
<1>8. UndoBlock => /\ Producing("undo") /\ UNCHANGED <<counters, sent, tailBlock>>
                         /\ producer'.pc = "undo"
                         /\ producer'.count = producer.count /\ producer'.chain = producer.chain
                         /\ producer'.undone = producer.undone + 1
  BY <1>1 DEF UndoBlock, base, stored, Producing
<1>9. FreeChain => /\ Producing("undo") /\ UNCHANGED <<counters, sent, tailBlock>>
                         /\ producer' = NoEnqueue
  BY <1>1 DEF FreeChain, Producing
<1> QED BY <1>2, <1>3, <1>4, <1>5, <1>6, <1>7, <1>8, <1>9

\* A block joins the chain.
LEMMA ChainRecord ==
  ASSUME Types, NEW b \in free, EnterBlock(b)
  PROVE  /\ producer'.chain = Append(producer.chain, b) /\ producer'.count = producer.count
         /\ producer'.undone = producer.undone
         /\ producer'.pc = (IF BlocksNeeded(producer.count) > Len(producer.chain) + 1 THEN "room" ELSE "publish")
         /\ Len(producer'.chain) = Len(producer.chain) + 1
         /\ \A j \in 1..Len(producer.chain) : producer'.chain[j] = producer.chain[j]
         /\ producer'.chain[Len(producer.chain) + 1] = b
<1>1. producer \in [pc : ProducerPlaces, count : Nat, chain : Seq(Blocks), undone : Nat] /\ b \in Blocks
      /\ producer.chain \in Seq(Blocks)
  BY DEF Types, ProducerTypes, StoreTypes
<1>2. /\ producer'.chain = Append(producer.chain, b) /\ producer'.count = producer.count
      /\ producer'.undone = producer.undone
      /\ producer'.pc = (IF BlocksNeeded(producer.count) > Len(producer.chain) + 1 THEN "room" ELSE "publish")
  BY <1>1 DEF EnterBlock
<1>3. /\ Len(Append(producer.chain, b)) = Len(producer.chain) + 1
      /\ \A j \in 1..Len(producer.chain) : Append(producer.chain, b)[j] = producer.chain[j]
      /\ Append(producer.chain, b)[Len(producer.chain) + 1] = b
  BY <1>1, AppendProperties
<1> QED BY <1>2, <1>3

\* Every step keeps the enqueue's blocks inside the window.
LEMMA ReachStep ==
  ASSUME Types, Types', Claims, Next, HistNext
  PROVE  Window' /\ Enqueuing'
<1>0. /\ Len(producer.chain) \in Nat /\ Extra \in {1, 2} /\ Reach \in Int /\ TailNumber \in Int
      /\ Window /\ Enqueuing
      /\ producer \in [pc : ProducerPlaces, count : Nat, chain : Seq(Blocks), undone : Nat]
      /\ ~Producing("idle") => producer.count \in Counts
  BY ReachType DEF Claims, Types, ProducerTypes
<1>r. Reach' = TailNumber' + Len(producer'.chain) + Extra' /\ Reach = TailNumber + Len(producer.chain) + Extra
  BY DEF Reach
<1>e. /\ producer.pc \in {"insert", "advance", "requisition"} => Extra = 2
      /\ producer.pc \notin {"insert", "advance", "requisition"} => Extra = 1
      /\ producer'.pc \in {"insert", "advance", "requisition"} => Extra' = 2
      /\ producer'.pc \notin {"insert", "advance", "requisition"} => Extra' = 1
  BY DEF Extra
<1>n. Len(<<>>) = 0
  OBVIOUS
<1>1. ASSUME sent' = sent, UNCHANGED counters,
             producer'.count = producer.count, producer'.chain = producer.chain,
             Extra' <= Extra \/ (Extra = 1 /\ ~Full(NewBase)),
             producer'.pc \in {"insert", "advance", "requisition"} => producer.pc \in {"insert", "advance", "requisition", "room"},
             producer'.pc \notin {"room", "publish"} \/ producer'.pc = producer.pc
      PROVE  Window' /\ Enqueuing'
  <2>1. TailNumber' = TailNumber /\ \A n \in Counts : Needs(n)' = Needs(n)
    BY <1>1, TailSame
  <2>2. Window'
    <3>1. CASE Extra' <= Extra
      <4>1. Extra' \in {1, 2}
        BY <1>e
      <4>2. Reach' <= Reach
        BY <1>0, <1>r, <1>1, <2>1, <3>1, <4>1
      <4> QED BY <4>2, ReachStays
    <3>2. CASE Extra = 1 /\ ~Full(NewBase)
      BY <1>1, <3>2, ReachGrows DEF counters
    <3> QED BY <1>1, <3>1, <3>2
  <2>3. Needs(producer.count)' = Needs(producer.count)
    <3>1. Needs(producer.count)' = Num(End' + producer'.count - 1) - TailNumber'
      BY DEF Needs
    <3>2. End' = End
      BY <1>1, TailSame
    <3> QED BY <3>1, <3>2, <2>1, <1>1 DEF Needs
  <2>4. Enqueuing'
    <3>1. producer'.pc \in {"insert", "advance", "requisition", "room"} => Needs(producer.count)' > Len(producer'.chain)
      BY <1>0, <1>1, <2>3 DEF Enqueuing, Producing
    <3>2. producer'.pc = "publish" => Needs(producer.count)' = Len(producer'.chain)
      BY <1>0, <1>1, <2>3 DEF Enqueuing, Producing
    <3>3. producer'.pc = "room" => Len(producer'.chain) > 0
      BY <1>0, <1>1 DEF Enqueuing, Producing
    <3> QED BY <3>1, <3>2, <3>3 DEF Enqueuing, Producing
  <2> QED BY <2>2, <2>4
<1>2. ASSUME NEW count \in Counts, BeginEnqueue(count) PROVE Window' /\ Enqueuing'
  <2>1. /\ producer = NoEnqueue /\ producer'.pc = "insert" /\ producer'.count = count /\ producer'.chain = <<>>
        /\ UNCHANGED <<counters, sent>>
    BY <1>2, ProducerRecord
  <2>2. ~Full(NewBase) /\ BlocksNeeded(count) > 0
    BY <1>2 DEF BeginEnqueue
  <2>3. Window'
    <3>1. producer.chain = <<>> /\ Extra = 1
      BY <2>1, <1>e DEF NoEnqueue
    <3> QED BY <2>1, <2>2, <3>1, ReachGrows DEF counters
  <2>4. Needs(count)' > 0
    <3>1. Needs(count) > 0
      BY <2>2, NeedFacts DEF Claims
    <3> QED BY <2>1, <3>1, TailSame
  <2>5. Needs(producer.count)' = Needs(count)'
    <3>1. Needs(producer.count)' = Num(End' + producer'.count - 1) - TailNumber'
      BY DEF Needs
    <3>2. Needs(count)' = Num(End' + count - 1) - TailNumber'
      BY DEF Needs
    <3> QED BY <3>1, <3>2, <2>1
  <2>6. Enqueuing'
    BY <2>1, <2>4, <2>5, <1>n DEF Enqueuing, Producing
  <2> QED BY <2>3, <2>6
<1>3. CASE CheckRoom
  BY <1>3, <1>1, <1>e, ProducerRecord DEF Producing
<1>4. CASE InsertBlockIndexEntry
  BY <1>4, <1>1, <1>e, ProducerRecord DEF Producing
<1>5. CASE AdvanceIndexTail
  BY <1>5, <1>1, <1>e, ProducerRecord DEF Producing
<1>6. CASE NewBlockIndex
  BY <1>6, <1>1, <1>e, ProducerRecord DEF Producing
<1>7. CASE FailBlock
  BY <1>7, <1>1, <1>e, ProducerRecord DEF Producing
<1>8. CASE UndoBlock
  BY <1>8, <1>1, <1>e, ProducerRecord DEF Producing
<1>9. CASE FreeChain
  <2>1. Producing("undo") /\ UNCHANGED <<counters, sent>> /\ producer'.pc = "idle" /\ producer'.chain = <<>>
    BY <1>9, ProducerRecord DEF NoEnqueue
  <2>2. TailNumber' = TailNumber
    BY <2>1, TailSame
  <2>3. Reach' <= Reach
    BY <1>0, <1>r, <1>e, <1>n, <2>1, <2>2 DEF Producing
  <2> QED BY <2>1, <2>3, ReachStays DEF Enqueuing, Producing
<1>10. CASE RequisitionBlock
  <2>1. PICK b \in free : EnterBlock(b)
    BY <1>10 DEF RequisitionBlock
  <2>2. Producing("requisition") /\ UNCHANGED <<counters, sent>>
    BY <1>10 DEF RequisitionBlock
  <2>3. /\ producer'.count = producer.count /\ Len(producer'.chain) = Len(producer.chain) + 1
        /\ producer'.pc = (IF BlocksNeeded(producer.count) > Len(producer.chain) + 1 THEN "room" ELSE "publish")
    BY <2>1, ChainRecord
  <2>4. producer.count \in Counts
    BY <1>0, <2>2 DEF Producing
  <2>5. TailNumber' = TailNumber /\ End' = End
    BY <2>2, TailSame
  <2>6. Reach' <= Reach
    BY <1>0, <1>r, <1>e, <2>2, <2>3, <2>5 DEF Producing
  <2>7. BlocksNeeded(producer.count) = Needs(producer.count) /\ Needs(producer.count) \in Nat
    BY <2>4, NeedFacts DEF Claims
  <2>8. Needs(producer.count) > Len(producer.chain)
    BY <1>0, <2>2 DEF Enqueuing, Producing
  <2>9. Needs(producer.count)' = Needs(producer.count)
    <3>1. Needs(producer.count)' = Num(End' + producer'.count - 1) - TailNumber'
      BY DEF Needs
    <3> QED BY <3>1, <2>3, <2>5 DEF Needs
  <2>10. Enqueuing'
    <3>1. CASE BlocksNeeded(producer.count) > Len(producer.chain) + 1
      <4>1. producer'.pc = "room" /\ Needs(producer.count)' > Len(producer'.chain) /\ Len(producer'.chain) > 0
        BY <2>3, <2>7, <2>9, <3>1, <1>0
      <4> QED BY <4>1 DEF Enqueuing, Producing
    <3>2. CASE ~(BlocksNeeded(producer.count) > Len(producer.chain) + 1)
      <4>1. producer'.pc = "publish" /\ Needs(producer.count)' = Len(producer'.chain)
        BY <2>3, <2>7, <2>8, <2>9, <3>2, <1>0
      <4> QED BY <4>1 DEF Enqueuing, Producing
    <3> QED BY <3>1, <3>2
  <2> QED BY <2>6, <2>10, ReachStays
<1>11. CASE AppendToTail
  <2>1. PICK count \in Counts : sent' = sent + count /\ Producing("idle") /\ BlocksNeeded(count) = 0 /\ UNCHANGED producer
    BY <1>11 DEF AppendToTail, Construct
  <2>2. Needs(count) = 0
    BY <2>1, NeedFacts DEF Claims
  <2>3. TailNumber' = TailNumber
    BY <2>1, <2>2, TailMoves, <1>0
  <2>4. Reach' <= Reach
    BY <1>0, <1>r, <1>e, <2>1, <2>3
  <2> QED BY <2>1, <2>4, ReachStays DEF Enqueuing, Producing
<1>12. CASE Publish
  <2>1. sent' = sent + producer.count /\ Producing("publish") /\ producer' = NoEnqueue
    BY <1>12 DEF Publish, Construct
  <2>2. Needs(producer.count) = Len(producer.chain) /\ producer.count \in Counts
    BY <2>1, <1>0 DEF Enqueuing, Producing
  <2>3. TailNumber' = TailNumber + Len(producer.chain)
    BY <2>1, <2>2, TailMoves
  <2>4. producer'.chain = <<>> /\ producer'.pc = "idle"
    BY <2>1 DEF NoEnqueue
  <2>5. Reach' <= Reach
    BY <1>0, <1>r, <1>e, <1>n, <2>1, <2>3, <2>4 DEF Producing
  <2> QED BY <2>4, <2>5, ReachStays DEF Enqueuing, Producing
<1>13. ASSUME NEW c \in Consumers, Consume(c) PROVE Window' /\ Enqueuing'
  <2>1. sent' = sent /\ producer' = producer
    BY <1>13, ConsumerKeeps
  <2>2. TailNumber' = TailNumber /\ End' = End
    BY <2>1, TailSame
  <2>3. Reach' <= Reach
    BY <1>0, <1>r, <1>e, <2>1, <2>2
  <2>4. Needs(producer.count)' = Needs(producer.count)
    <3>1. Needs(producer.count)' = Num(End' + producer'.count - 1) - TailNumber'
      BY DEF Needs
    <3> QED BY <3>1, <2>1, <2>2 DEF Needs
  <2> QED BY <1>0, <2>1, <2>3, <2>4, ReachStays DEF Enqueuing, Producing
<1> QED BY <1>2, <1>3, <1>4, <1>5, <1>6, <1>7, <1>8, <1>9, <1>10, <1>11, <1>12, <1>13
        DEF Next, Produce, enqueue, enqueue_bulk

-------------------------------------------------------------------------------
(* The claims hold *)

\* Every step under Timely keeps the claims.
LEMMA ClaimsStep ==
  ASSUME Types, Types', Claims, Timely, [HNext]_<<vars, hist>>
  PROVE  Claims'
<1>1. CASE HNext
  BY <1>1, NumbersStep, SumsStep, PhaseStep, AloneStep, SingleStep, ReachStep DEF HNext, Claims
<1>2. CASE UNCHANGED <<vars, hist>>
  <2>1. UNCHANGED <<tailIndex, headIndex, dequeueOptimisticCount, dequeueOvercommit, sent, call, out, producer,
                    head, claimed, given, read, place>>
    BY <1>2 DEF vars, hist, base, counters, stored
  <2>2. End' = End /\ TailNumber' = TailNumber
    BY <2>1, TailSame
  <2>3. Unsettled' = Unsettled /\ Owed' = Owed /\ Pending' = Pending
    BY <2>1 DEF Unsettled, Owed, Pending, At
  <2>4. \A x \in Int : Before(x)' = Before(x)
    BY <2>1 DEF Before, At
  <2>5. Dealt' = Dealt
    BY <2>1, <2>3 DEF Dealt
  <2>6. Numbers' /\ Balance' /\ ClaimsApart' /\ Single'
    BY <2>1, <2>2, <2>3, <2>5 DEF Claims, Numbers, Balance, ClaimsApart, Single, At
  <2>7. Bounded'
    <3>1. PICK F \in 0..claimed : Frontier(F)
      BY DEF Claims, Bounded
    <3>2. F \in Int
      BY <3>1, HistFacts
    <3>3. Frontier(F)'
      BY <2>1, <2>2, <2>4, <2>5, <3>1, <3>2 DEF Frontier, At
    <3> QED BY <2>1, <3>1, <3>3 DEF Bounded
  <2>8. Window'
    BY <2>1, <2>2 DEF Claims, Window, Extra
  <2>9. Enqueuing'
    <3>1. Needs(producer.count)' = Num(End' + producer'.count - 1) - TailNumber'
      BY DEF Needs
    <3>2. Needs(producer.count)' = Needs(producer.count)
      BY <3>1, <2>1, <2>2 DEF Needs
    <3> QED BY <2>1, <3>2 DEF Claims, Enqueuing, Producing
  <2>10. \A c \in Consumers : Phase(c)' /\ Alone(c)'
    BY <2>1, <2>2 DEF Claims, Phase, Alone, Taking, At
  <2> QED BY <2>6, <2>7, <2>8, <2>9, <2>10 DEF Claims
<1> QED BY <1>1, <1>2

\* The claims hold of a producer at rest.
LEMMA InitClaims ==
  HInit => Claims
<1> SUFFICES ASSUME HInit PROVE Claims
  OBVIOUS
<1>0. Types
  BY InitTypes
<1>1. /\ tailIndex = Start % W /\ headIndex = Start % W /\ dequeueOptimisticCount = Start % W
      /\ dequeueOvercommit = 0 /\ sent = 0 /\ call = [c \in Consumers |-> NoCall] /\ out = [c \in Consumers |-> <<>>]
      /\ producer = NoEnqueue /\ head = Start /\ claimed = Start /\ given = 0
      /\ read = [c \in Consumers |-> 0] /\ place = [c \in Consumers |-> 0]
  BY DEF HInit, Init, InitBase, HistInit
<1>2. Start \in Nat /\ W \in Nat \ {0} /\ Half \in Nat \ {0} /\ BLOCK_SIZE \in Nat \ {0} /\ BLOCK_SIZE <= Half
  BY SizeFacts
<1>3. End = Start
  BY <1>1, <1>2 DEF End
<1>4. \A c \in Consumers : call[c] = NoCall /\ read[c] = 0 /\ place[c] = 0 /\ out[c] = <<>>
  BY <1>1
<1>5. Numbers
  <2>1. 0 \in Int /\ 0 <= 0 /\ 0 < W
    BY <1>2
  <2>2. 0 % W = 0
    BY <2>1, <1>2, ModSmall
  <2> QED BY <2>2, <1>1, <1>3 DEF Numbers
<1>6. Pending = [d \in Consumers |-> 0] /\ Owed = [d \in Consumers |-> 0] /\ Unsettled = [d \in Consumers |-> 0]
      /\ \A x \in Int : Before(x) = [d \in Consumers |-> 0]
  BY <1>4 DEF Pending, Owed, Unsettled, Before, At, NoCall
<1>7. Total(Pending) = 0 /\ Total(Owed) = 0 /\ Total(Unsettled) = 0 /\ \A x \in Int : Total(Before(x)) = 0
  BY <1>6, TotalZero
<1>8. Dealt = Start
  BY <1>1, <1>2, <1>7 DEF Dealt
<1>9. Balance
  BY <1>1, <1>2, <1>7, <1>8 DEF Balance
<1>10. Bounded
  <2>1. Total(Before(0)) = 0
    BY <1>7
  <2>2. Frontier(0)
    BY <2>1, <1>2, <1>3, <1>4, <1>8 DEF Frontier, At, NoCall
  <2> QED BY <2>2, <1>1, <1>2 DEF Bounded
<1>11. ClaimsApart /\ Single /\ \A c \in Consumers : Phase(c) /\ Alone(c)
  BY <1>1, <1>4 DEF ClaimsApart, Single, Phase, Alone, NoCall, At, Taking
<1>12. Window
  <2>1. producer.chain = <<>> /\ producer.pc = "idle"
    BY <1>1 DEF NoEnqueue
  <2>2. Extra = 1 /\ Len(producer.chain) = 0
    BY <2>1 DEF Extra
  <2>3. TailNumber + Len(producer.chain) + Extra = TailNumber + 1 /\ TailNumber \in Int
    BY <2>2, <1>0, EndFacts DEF Types
  <2>4. From(TailNumber) < End /\ From(TailNumber + 1) = From(TailNumber) + BLOCK_SIZE /\ From(TailNumber) \in Int
    BY <1>0, EndFacts DEF Types
  <2>5. From(TailNumber + 1) - head < Half
    BY <2>4, <1>1, <1>2, <1>3
  <2> QED BY <2>3, <2>5 DEF Window
<1>13. Enqueuing
  BY <1>1 DEF Enqueuing, Producing, NoEnqueue
<1> QED BY <1>5, <1>9, <1>10, <1>11, <1>12, <1>13 DEF Claims

\* The claims of any number of consumers, as long as none stays behind by half
\* the range of the counters between its first look and its second.
THEOREM ClaimsHold == HSpec /\ []Timely => [](Types /\ Claims)
<1>1. HInit => Types /\ Claims
  BY InitTypes, InitClaims
<1>2. Types /\ Claims /\ Timely /\ [HNext]_<<vars, hist>> => Types' /\ Claims'
  BY TypesStep, ClaimsStep
<1> QED BY <1>1, <1>2, PTL DEF HSpec

\* A step of a call that no other one overlaps ends it, or moves the head, with
\* all that is due to it.
LEMMA AloneGets ==
  ASSUME Types, Types', Claims, [HNext]_<<vars, hist>>, NEW c \in Consumers,
         call[c].alone, call[c].pc \in {"look", "giveback", "take"},
         call'[c].pc \in {"idle", "header"}
  PROVE  call[c].n = call[c].due
<1>0. /\ call \in [Consumers -> CallSet] /\ call[c] \in CallSet /\ Alone(c) /\ Phase(c)
  BY DEF Types, CallTypes, Claims
<1>1. CASE call[c].pc = "take"
  BY <1>0, <1>1 DEF Alone
<1>2. CASE call[c].pc = "giveback"
  BY <1>0, <1>2 DEF Alone
<1>3. CASE call[c].pc = "look"
  <2>1. ~(UNCHANGED <<vars, hist>>)
    BY <1>3 DEF vars, base
  <2>2. Next /\ HistNext
    BY <2>1 DEF HNext
  <2>3. ~Produce
    BY <1>3, ProducerSteps
  <2>4. PICK d \in Consumers : Consume(d)
    BY <2>2, <2>3 DEF Next
  <2>5. d = c
    BY <1>3, <2>4, OthersSame DEF Same
  <2>6. Look(c)
    <3>1. ~Later(c)
      BY <1>3, LaterEffects DEF Taking
    <3>2. (\E m \in Sizes \cup {1} : Begin(c, m)) \/ ReadOvercommit(c) \/ Look(c)
         \/ Claim(c) \/ Settle(c) \/ GiveBack(c) \/ Take(c) \/ Later(c)
      BY <2>4, <2>5, Claiming
    <3> QED BY <1>3, <3>1, <3>2 DEF Begin, ReadOvercommit, Claim, Settle, GiveBack, Take, At
  <2> DEFINE v == Covered(call[c].tail, dequeueOptimisticCount, call[c].over)
  <2>7. v # 0 => call'[c].pc = "claim"
    BY <2>6, <1>0 DEF Look, CallSet
  <2>8. call[c].due = 0
    BY <2>7, <1>3, AloneLook DEF At
  <2>9. call[c].n = 0
    BY <1>0, <1>3 DEF Phase
  <2> QED BY <2>8, <2>9
<1> QED BY <1>1, <1>2, <1>3

\* The same, as the action property that runs check.
THEOREM AloneGetsAllHolds == HSpec /\ []Timely => AloneGetsAll
<1>1. Types /\ Types' /\ Claims /\ [HNext]_<<vars, hist>>
        => [\A c \in Consumers :
               /\ call[c].alone
               /\ call[c].pc \in {"look", "giveback", "take"}
               /\ call'[c].pc \in {"idle", "header"}
               => call[c].n = call[c].due]_call
  BY AloneGets
<1>2. HInit => Types /\ Claims
  BY InitTypes, InitClaims
<1>3. Types /\ Claims /\ Timely /\ [HNext]_<<vars, hist>> => Types' /\ Claims'
  BY TypesStep, ClaimsStep
<1> QED BY <1>1, <1>2, <1>3, PTL DEF HSpec, AloneGetsAll

\* With one consumer nobody stays behind: Timely speaks of consumers among
\* several.
LEMMA OneIsTimely == (\A c, d \in Consumers : c = d) => Timely
BY DEF Timely
===============================================================================
