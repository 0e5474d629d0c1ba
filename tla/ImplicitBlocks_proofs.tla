------------------------- MODULE ImplicitBlocks_proofs ------------------------
(***************************************************************************)
(* TLAPS proofs about ImplicitProducer, continued: the blocks.  Which      *)
(* blocks there are and who holds them, the index that finds them, what    *)
(* they hold, that the sub-queue is a channel, and that no block is lost.  *)
(* All rests on the claims of ImplicitProducer_proofs, which say whose     *)
(* element every number is.                                                *)
(***************************************************************************)
EXTENDS ImplicitProducer_proofs

-------------------------------------------------------------------------------
(* The blocks: what is said of them *)

\* Where block q is, or would be, in index h.
Pos(h, q) == (q - first[h]) % Size(h)
\* The entry of block q in index h.
EntryFor(h, q) == headers[h].index[Pos(h, q)]

\* The elements that c has taken and not yet counted, and their blocks; a block
\* that c has emptied is c's until its entry is clear.
Low(c) == IF At(c, "empty") THEN place[c] - call[c].k ELSE place[c]
High(c) == place[c] + call[c].n
Held(c, q) ==
  /\ Taking(c)
  /\ \/ Low(c) < High(c) /\ From(q) < High(c) /\ Low(c) < From(q + 1)
     \/ At(c, "clear") /\ q = Num(place[c] - 1)
\* All elements of q are taken and counted, and its entry is clear.
Done(q) == From(q + 1) <= head /\ \A c \in Consumers : ~Held(c, q)
\* The offsets of q whose elements are taken and counted.
Counted(q) == {o \in Offsets : /\ From(q) + o < head
                               /\ \A c \in Consumers : Taking(c) =>
                                    ~(Low(c) <= From(q) + o /\ From(q) + o < High(c))}
\* Where a block may be: in an entry, about to be freed, undone; and a number
\* whose entry has its block.
InEntry(b) == \E e \in Entries : value[e] = b
AtFree(c, b) == At(c, "free") /\ call[c].block = b
Undone(b) == \E j \in 1..producer.undone : producer.chain[j] = b
Standing(q) == number[EntryFor(current, q)] = q /\ value[EntryFor(current, q)] # Null

\* What the calls have taken is taken once.
Intervals ==
  /\ Start <= head
  /\ \A c \in Consumers : Taking(c) => Start <= Low(c) /\ High(c) <= head
  /\ \A c, d \in Consumers : Taking(c) /\ Taking(d) /\ c # d =>
       High(c) <= Low(d) \/ High(d) <= Low(c)
\* The indexes: each is one to one, and an older one agrees with the current one
\* on the entries it has.
Rows ==
  /\ Len(first) = current
  /\ \A h \in 1..current :
       /\ Size(h) <= Size(current)
       /\ headers[h].index \in [0..(Size(h) - 1) -> 0..(Size(h) - 1)]
       /\ \A x, y \in 0..(Size(h) - 1) : headers[h].index[x] = headers[h].index[y] => x = y
       /\ \A q \in Int : EntryFor(current, q) < Size(h) => EntryFor(h, q) = EntryFor(current, q)
\* The tail of the current index is at the newest block.
Tailed == headers[current].tail = Pos(current, Newest)
\* The keys are the bases of the entries' numbers; an entry with a block is in use.
Numbered ==
  \A e \in Entries :
    /\ number[e] >= -1 /\ number[e] <= TailNumber + Size(current)
    /\ key[e] = IF number[e] = -1 THEN INVALID_BLOCK_BASE ELSE From(number[e]) % W
    /\ number[e] # -1 => EntryFor(current, number[e]) = e
    /\ value[e] # Null =>
         number[e] \in Num(Start)..TailNumber
           \cup (TailNumber + producer.undone + 1)..(TailNumber + Len(producer.chain))
\* The blocks in the index are closer together than its size.
Spread == \A e, f \in Entries : value[e] # Null => number[f] < number[e] + Size(current)
\* From an entry in use to the tail, no place was left behind.
Reached == \A q \in Int, e \in Entries :
  value[e] # Null /\ number[e] <= q /\ q <= Newest => number[EntryFor(current, q)] >= q
\* The blocks of the enqueue under way are in the entries after the tail block's.
Chained ==
  /\ \A j \in 1..Len(producer.chain) :
       /\ number[EntryFor(current, TailNumber + j)] = TailNumber + j
       /\ j > producer.undone => value[EntryFor(current, TailNumber + j)] = producer.chain[j]
  /\ producer.pc \in {"advance", "requisition"} =>
       LET e == EntryFor(current, TailNumber + Len(producer.chain) + 1)
       IN number[e] = TailNumber + Len(producer.chain) + 1 /\ value[e] = Null
\* A block that is not done with is in the index.
Present == \A q \in Num(Start)..TailNumber : ~Done(q) => Standing(q)
\* No block is in two entries.
Distinct == \A e, f \in Entries : value[e] = value[f] /\ value[e] # Null => e = f
\* A block is in one place.
Apart ==
  \A b \in Blocks :
    /\ b \in free => ~InEntry(b) /\ ~Undone(b) /\ \A c \in Consumers : ~AtFree(c, b)
    /\ InEntry(b) => ~Undone(b) /\ \A c \in Consumers : ~AtFree(c, b)
    /\ Undone(b) => \A c \in Consumers : ~AtFree(c, b)
    /\ \A c, d \in Consumers : AtFree(c, b) /\ AtFree(d, b) => c = d
\* The counts of the blocks are those of their counted elements.
Emptied ==
  /\ \A e \in Entries : value[e] # Null => emptied[value[e]] = Cardinality(Counted(number[e]))
  /\ \A b \in Blocks : emptied[b] <= BLOCK_SIZE
\* What a lookup under way has read leads to the blocks the call holds.
Looking(c) ==
  LET r == call[c] h == r.header IN
  /\ r.pc \in {"header", "front", "key", "fetch"} => r.n >= 1
  /\ r.pc \in {"front", "key", "fetch", "empty", "clear", "free"} =>
       \A q \in Int : Held(c, q) => number[EntryFor(h, q)] = q
  /\ r.pc = "front" => \A q \in Int : Held(c, q) => number[headers[h].index[headers[h].tail]] >= q
  /\ r.pc = "key" => \A q \in Int : Held(c, q) => number[headers[h].index[r.pos]] >= q
  /\ r.pc = "fetch" => r.pos = Pos(h, Num(place[c]))
  /\ r.pc \in {"empty", "clear", "free"} => r.pos = Pos(h, Num(place[c] - 1))
  /\ r.pc \in {"empty", "clear", "free"} /\ r.n > 0 => place[c] % BLOCK_SIZE = 0
  /\ r.pc = "empty" => r.k \in 1..BLOCK_SIZE /\ Num(place[c] - r.k) = Num(place[c] - 1)
  /\ r.pc \in {"empty", "clear"} => value[EntryFor(h, Num(place[c] - 1))] = r.block
  /\ r.pc = "clear" => /\ Counted(Num(place[c] - 1)) = Offsets
                       /\ \A d \in Consumers : d # c /\ At(d, "clear") => Num(place[d] - 1) # Num(place[c] - 1)
\* The block index is right; the blocks are where they should be; the calls find
\* them.
Indexed == Rows /\ Tailed /\ Numbered /\ Spread /\ Reached /\ Chained
Located == Present /\ Distinct /\ Apart /\ Emptied
Found == Intervals /\ Indexed /\ Located /\ \A c \in Consumers : Looking(c)

\* The types of one index's places.
LEMMA FirstFacts ==
  ASSUME Types, Rows, NEW h \in 1..current
  PROVE  /\ first[h] \in Int /\ Size(h) \in Nat \ {0} /\ current \in Nat \ {0}
         /\ headers[h].index \in [0..(Size(h) - 1) -> 0..(Size(h) - 1)] /\ Size(h) <= MaxIndexSize
         /\ MaxIndexSize \in Nat
<1>1. first \in Seq(Int) /\ Len(first) = current
  BY DEF Types, HistTypes, Rows
<1>2. first[h] \in Int
  BY <1>1, ElementOfSeq
<1>3. current \in Nat \ {0} /\ Size(h) \in 1..MaxIndexSize /\ MaxIndexSize \in Nat
  BY HeadersFacts DEF Types, IndexTypes, current
<1> QED BY <1>2, <1>3, HeadersFacts DEF Types, Rows

\* The place of a block in an index, and of its neighbours.
LEMMA PosFacts ==
  ASSUME Types, Rows, NEW h \in 1..current, NEW q \in Int
  PROVE  /\ Pos(h, q) \in 0..(Size(h) - 1)
         /\ EntryFor(h, q) \in 0..(Size(h) - 1) /\ EntryFor(h, q) \in Entries
         /\ \A k \in Int : (Pos(h, q) + k) % Size(h) = Pos(h, q + k)
         /\ \A k \in Int : Pos(h, q + Size(h) * k) = Pos(h, q)
<1>1. first[h] \in Int /\ Size(h) \in Nat \ {0} /\ Size(h) <= MaxIndexSize /\ MaxIndexSize \in Nat
      /\ headers[h].index \in [0..(Size(h) - 1) -> 0..(Size(h) - 1)]
  BY FirstFacts
<1> DEFINE s == Size(h)
           x == q - first[h]
<1>2. x \in Int /\ s \in Nat \ {0}
  BY <1>1
<1>p. Pos(h, q) = x % s
  BY DEF Pos
<1>3. Pos(h, q) \in 0..(s - 1)
  <2> HIDE DEF x, s
  <2> QED BY <1>2, <1>p, Division
<1>4. EntryFor(h, q) \in 0..(s - 1) /\ EntryFor(h, q) \in Entries
  <2>1. EntryFor(h, q) \in 0..(s - 1)
    BY <1>1, <1>3 DEF EntryFor
  <2> QED BY <2>1, <1>1 DEF Entries
<1>5. ASSUME NEW k \in Int PROVE (Pos(h, q) + k) % s = Pos(h, q + k)
  <2>1. ((x % s) + k) % s = (x + k) % s
    <3> HIDE DEF x, s
    <3> QED BY <1>2, ModSum
  <2>2. (q + k) - first[h] = x + k
    BY <1>1
  <2>3. Pos(h, q + k) = ((q + k) - first[h]) % s
    BY DEF Pos
  <2> HIDE DEF x, s
  <2> QED BY <2>1, <2>2, <2>3, <1>p
<1>6. ASSUME NEW k \in Int PROVE Pos(h, q + Size(h) * k) = Pos(h, q)
  <2>1. (x + s * k) % s = x % s
    <3> HIDE DEF x, s
    <3> QED BY <1>2, ModShift
  <2>2. (q + Size(h) * k) - first[h] = x + s * k
    <3>1. s * k \in Int
      BY <1>2
    <3> QED BY <1>1, <3>1
  <2>3. Pos(h, q + Size(h) * k) = ((q + Size(h) * k) - first[h]) % s
    BY DEF Pos
  <2> HIDE DEF x
  <2> QED BY <2>1, <2>2, <2>3, <1>p
<1> QED BY <1>3, <1>4, <1>5, <1>6

\* Blocks that share an entry are a multiple of the index's size apart.
LEMMA PosApart ==
  ASSUME Types, Rows, NEW h \in 1..current, NEW p \in Int, NEW q \in Int,
         EntryFor(h, p) = EntryFor(h, q)
  PROVE  /\ Pos(h, p) = Pos(h, q)
         /\ p < q => p + Size(h) <= q
         /\ q < p + Size(h) /\ p < q + Size(h) => p = q
<1>1. first[h] \in Int /\ Size(h) \in Nat \ {0}
      /\ Pos(h, p) \in 0..(Size(h) - 1) /\ Pos(h, q) \in 0..(Size(h) - 1)
  BY FirstFacts, PosFacts
<1>2. Pos(h, p) = Pos(h, q)
  BY <1>1 DEF EntryFor, Rows
<1> DEFINE s == Size(h)
           x == p - first[h]
           y == q - first[h]
<1>3. x \in Int /\ y \in Int /\ y - x = q - p /\ x % s = y % s /\ s \in Nat \ {0}
  BY <1>1, <1>2 DEF Pos
<1> HIDE DEF x, y, s
<1>4. x = s * (x \div s) + (x % s) /\ y = s * (y \div s) + (y % s) /\ x \div s \in Int /\ y \div s \in Int
      /\ x % s \in Int /\ y % s \in Int
  BY <1>3, Division
<1>5. \A a, b, r \in Int : s * a + r < s * b + r => s * a + r + s <= s * b + r
  <2> SUFFICES ASSUME NEW a \in Int, NEW b \in Int, NEW r \in Int, s * a + r < s * b + r
               PROVE  s * a + r + s <= s * b + r
    OBVIOUS
  <2>1. s * a \in Int /\ s * b \in Int /\ b - a \in Int
    BY <1>3
  <2>2. \A n \in Int : b = a + n => s * b = s * a + s * n /\ s * n \in Int
    BY <1>3
  <2>3. PICK n \in Int : b = a + n
    BY <2>1
  <2>4. s * b = s * a + s * n /\ s * n \in Int
    BY <2>2, <2>3
  <2>5. n >= 1
    <3> SUFFICES ASSUME n <= 0 PROVE FALSE
      BY <2>3
    <3>1. s * n <= 0
      BY <1>3
    <3> QED BY <2>1, <2>4, <3>1
  <2>6. s * n >= s
    BY <1>3, <2>5
  <2> QED BY <2>1, <2>4, <2>6, <1>3
<1>6. x < y => x + s <= y
  BY <1>3, <1>4, <1>5
<1>7. y < x => y + s <= x
  BY <1>3, <1>4, <1>5
<1>8. p < q => p + s <= q
  BY <1>3, <1>6
<1>9. q < p => q + s <= p
  BY <1>3, <1>7
<1>10. q < p + s /\ p < q + s => p = q
  BY <1>3, <1>8, <1>9
<1> QED BY <1>2, <1>8, <1>10 DEF s

-------------------------------------------------------------------------------
(* The block index *)

\* The first block begins at Start.
LEMMA StartFacts ==
  /\ Num(Start) \in Nat /\ From(Num(Start)) = Start
<1>1. Start \in Nat /\ BLOCK_SIZE \in Nat \ {0} /\ Start % BLOCK_SIZE = 0
  BY SizesFit, SizeFacts
<1>2. Start \in Int /\ Num(Start) \in Int /\ Start = From(Num(Start)) + (Start % BLOCK_SIZE) /\ From(Num(Start)) \in Int
  <2>1. Start \in Int
    BY <1>1
  <2>2. Num(Start) \in Int /\ Start = From(Num(Start)) + (Start % BLOCK_SIZE)
    BY <2>1, NumFacts
  <2> QED BY <2>1, <2>2, FromFacts
<1>3. Num(Start) >= 0
  <2>1. From(0) <= Start /\ 0 \in Int
    BY <1>1, FromFacts
  <2> QED BY <2>1, <1>2, NumIs
<1> QED BY <1>1, <1>2, <1>3

\* The newest block, by where the enqueue is.
LEMMA NewestFacts ==
  ASSUME Types
  PROVE  /\ Newest \in Int /\ TailNumber \in Int /\ TailNumber <= Newest /\ -1 <= TailNumber
         /\ Len(producer.chain) \in Nat /\ producer.undone \in Nat /\ producer.undone <= Len(producer.chain)
         /\ producer.chain \in Seq(Blocks)
         /\ ~Producing("undo") => producer.undone = 0
         /\ Producing("idle") => Newest = TailNumber /\ Len(producer.chain) = 0
         /\ producer.pc \in {"insert", "advance", "room", "publish"} => Newest = TailNumber + Len(producer.chain)
         /\ Producing("requisition") => Newest = TailNumber + Len(producer.chain) + 1
         /\ Producing("undo") => Newest = TailNumber + Len(producer.chain) - producer.undone
<1>1. /\ Len(producer.chain) \in Nat /\ TailNumber \in Int /\ producer.chain \in Seq(Blocks) /\ -1 <= TailNumber
  BY ReachType, EndFacts DEF Types
<1>2. /\ producer.undone \in Nat /\ producer.undone <= Len(producer.chain)
      /\ (producer.undone > 0 => Producing("undo")) /\ (Producing("idle") => producer = NoEnqueue)
  BY DEF Types, ProducerTypes
<1>3. ~Producing("undo") => producer.undone = 0
  BY <1>2
<1>4. Producing("idle") => producer.chain = <<>>
  BY <1>2 DEF NoEnqueue
<1>5. Producing("requisition") => ~Producing("undo")
  BY DEF Producing
<1>6. Producing("requisition") => Newest = TailNumber + Len(producer.chain) - producer.undone + 1
  BY <1>1 DEF Newest
<1>7. ~Producing("requisition") => Newest = TailNumber + Len(producer.chain) - producer.undone + 0
  BY <1>1 DEF Newest
<1>8. producer.pc \in {"insert", "advance", "room", "publish", "idle"} => ~Producing("undo") /\ ~Producing("requisition")
  BY DEF Producing
<1>9. Producing("idle") => producer.pc = "idle"
  BY DEF Producing
<1>10. Producing("undo") => ~Producing("requisition")
  BY DEF Producing
<1>11. Len(<<>>) = 0
  OBVIOUS
<1> DEFINE l == Len(producer.chain)
           u == producer.undone
           t == TailNumber
<1>12. t \in Int /\ l \in Nat /\ u \in Nat /\ u <= l
       /\ (Producing("requisition") => Newest = t + l - u + 1) /\ (~Producing("requisition") => Newest = t + l - u + 0)
  BY <1>1, <1>2, <1>6, <1>7
<1> HIDE DEF l, u, t
<1>13. Newest \in Int /\ t <= Newest
       /\ (u = 0 /\ Producing("requisition") => Newest = t + l + 1)
       /\ (u = 0 /\ ~Producing("requisition") => Newest = t + l)
       /\ (~Producing("requisition") => Newest = t + l - u)
  BY <1>12
<1>14. Producing("idle") => l = 0
  BY <1>4, <1>11 DEF l
<1>15. producer.pc \in {"insert", "advance", "room", "publish"} => Newest = t + l
  BY <1>3, <1>8, <1>13 DEF u
<1>16. Producing("idle") => Newest = t
  <2>1. Producing("idle") => Newest = t + l
    BY <1>3, <1>8, <1>9, <1>13 DEF u
  <2> QED BY <2>1, <1>12, <1>14
<1>17. Producing("requisition") => Newest = t + l + 1
  BY <1>3, <1>5, <1>13 DEF u
<1>18. Producing("undo") => Newest = t + l - u
  BY <1>10, <1>13
<1> QED BY <1>1, <1>2, <1>3, <1>12, <1>13, <1>14, <1>15, <1>16, <1>17, <1>18 DEF l, u, t

\* The places next to the tail of the current index.
LEMMA TailPlaces ==
  ASSUME Types, Rows, Tailed
  PROVE  /\ NextTail(headers[current]) = Pos(current, Newest + 1)
         /\ NextEntry(headers[current]) = EntryFor(current, Newest + 1)
         /\ TailEntry(headers[current]) = EntryFor(current, Newest)
         /\ (headers[current].tail - 1) % Size(current) = Pos(current, Newest - 1)
         /\ current \in 1..current /\ current \in Nat \ {0}
         /\ Newest \in Int /\ Newest + 1 \in Int /\ Newest - 1 \in Int
<1>1. current \in 1..current /\ current \in Nat \ {0}
  <2>1. current >= 1 /\ headers \in Seq(Header)
    BY DEF Types, IndexTypes
  <2>2. current \in Nat
    BY <2>1, LenProperties DEF current
  <2> QED BY <2>1, <2>2
<1>2. Newest \in Int /\ Newest + 1 \in Int /\ Newest - 1 \in Int
  BY NewestFacts
<1>3. \A k \in Int : (Pos(current, Newest) + k) % Size(current) = Pos(current, Newest + k)
  BY <1>1, <1>2, PosFacts
<1>4. (Pos(current, Newest) + 1) % Size(current) = Pos(current, Newest + 1)
  BY <1>3
<1>5. (Pos(current, Newest) + (-1)) % Size(current) = Pos(current, Newest + (-1))
  <2>1. -1 \in Int
    OBVIOUS
  <2> QED BY <2>1, <1>3
<1>6. Pos(current, Newest) \in Int
  <2>1. Pos(current, Newest) \in 0..(Size(current) - 1) /\ Size(current) \in Nat
    BY <1>1, <1>2, PosFacts, FirstFacts
  <2> QED BY <2>1
<1>7. Pos(current, Newest) + (-1) = Pos(current, Newest) - 1 /\ Newest + (-1) = Newest - 1
  BY <1>2, <1>6
<1> QED BY <1>1, <1>2, <1>4, <1>5, <1>7 DEF Tailed, NextTail, NextEntry, TailEntry, EntryFor, Size

\* The types of the entries.
LEMMA EntryFacts ==
  ASSUME Types
  PROVE  /\ \A e \in Entries : number[e] \in Int /\ key[e] \in Indexes /\ value[e] \in Blocks \cup {Null}
         /\ Null \notin Blocks /\ number \in [Entries -> Int] /\ value \in [Entries -> Blocks \cup {Null}]
         /\ key \in [Entries -> Indexes]
BY NullAssumption DEF Types, IndexTypes, HistTypes

\* An entry that may be reused holds no block.
LEMMA ReusableNull ==
  ASSUME Types, Numbered, NEW e \in Entries
  PROVE  Reusable(e) <=> value[e] = Null
<1>1. ASSUME key[e] = INVALID_BLOCK_BASE, value[e] # Null PROVE FALSE
  <2>1. number[e] \in Int /\ BLOCK_SIZE \in Nat \ {0} /\ BLOCK_SIZE > 1 /\ W \in Nat \ {0}
    BY EntryFacts, SizeFacts
  <2>2. number[e] # -1
    <3>1. Num(Start) \in Nat /\ TailNumber \in Int /\ -1 <= TailNumber /\ producer.undone \in Nat /\ Len(producer.chain) \in Nat
      BY StartFacts, NewestFacts
    <3>2. number[e] \in Num(Start)..TailNumber
           \cup (TailNumber + producer.undone + 1)..(TailNumber + Len(producer.chain))
      BY <1>1 DEF Numbered
    <3> QED BY <3>1, <3>2
  <2>3. From(number[e]) % W = 1
    BY <2>2, <1>1 DEF Numbered, INVALID_BLOCK_BASE
  <2>4. From(number[e]) \in Int /\ 0 \in Offsets
    <3>1. From(number[e]) \in Int
      BY <2>1, FromFacts
    <3> QED BY <3>1, <2>1 DEF Offsets
  <2>5. (From(number[e]) % W) % BLOCK_SIZE = From(number[e]) % BLOCK_SIZE
    BY <2>4, WrappedBase
  <2>6. (From(number[e]) + 0) % BLOCK_SIZE = 0
    BY <2>1, <2>4, NumFacts
  <2>7. From(number[e]) + 0 = From(number[e])
    BY <2>4
  <2>8. 1 % BLOCK_SIZE = 1
    BY <2>1, ModSmall
  <2> QED BY <2>3, <2>5, <2>6, <2>7, <2>8
<1> QED BY <1>1 DEF Reusable

\* The numbers of entries in use.
LEMMA LiveNumbers ==
  ASSUME Types, Numbered, NEW e \in Entries, value[e] # Null
  PROVE  /\ number[e] \in Nat /\ number[e] >= Num(Start) /\ number[e] # -1
         /\ number[e] <= TailNumber + Len(producer.chain)
         /\ number[e] > TailNumber => number[e] > TailNumber + producer.undone
         /\ EntryFor(current, number[e]) = e /\ value[e] \in Blocks
<1>1. Num(Start) \in Nat /\ TailNumber \in Int /\ -1 <= TailNumber /\ producer.undone \in Nat /\ Len(producer.chain) \in Nat
  BY StartFacts, NewestFacts
<1>2. number[e] \in Num(Start)..TailNumber
           \cup (TailNumber + producer.undone + 1)..(TailNumber + Len(producer.chain))
  BY DEF Numbered
<1>3. number[e] >= Num(Start)
  <2>1. CASE number[e] \in Num(Start)..TailNumber
    BY <2>1, <1>1
  <2>2. CASE number[e] \in (TailNumber + producer.undone + 1)..(TailNumber + Len(producer.chain))
    <3>1. Num(Start) <= TailNumber + 1
      <4>1. StoreTypes
        BY DEF Types
      <4>2. End \in Nat /\ Start <= End /\ End <= From(TailNumber + 1)
        <5>1. Start \in Nat /\ sent \in Nat
          BY <4>1, EndFacts, SizesFit
        <5> QED BY <4>1, <5>1, EndFacts DEF End
      <4>3. From(Num(Start)) = Start /\ TailNumber + 1 \in Int /\ From(TailNumber + 1) \in Int /\ Num(Start) \in Int
        BY <1>1, StartFacts, FromFacts
      <4>4. From(Num(Start)) <= From(TailNumber + 1)
        BY <4>2, <4>3, SizesFit
      <4> QED BY <4>3, <4>4, FromFacts
    <3> QED BY <2>2, <3>1, <1>1
  <2> QED BY <1>2, <2>1, <2>2
<1>4. number[e] \in Int /\ value[e] \in Blocks
  BY EntryFacts
<1>5. number[e] <= TailNumber + Len(producer.chain) /\ (number[e] > TailNumber => number[e] > TailNumber + producer.undone)
  BY <1>1, <1>2, <1>4
<1>6. number[e] \in Nat /\ number[e] # -1
  BY <1>1, <1>3, <1>4
<1> QED BY <1>3, <1>4, <1>5, <1>6 DEF Numbered

\* One instance of Reached.
LEMMA ReachedAt ==
  ASSUME Reached, NEW r \in Int, NEW f \in Entries, value[f] # Null, number[f] <= r, r <= Newest
  PROVE  number[EntryFor(current, r)] >= r
BY DEF Reached

\* The entry of a new block holds none, and no stored block is too far behind.
LEMMA InsertFacts ==
  ASSUME Types, Indexed, Producing("insert"), Reusable(NextEntry(headers[current]))
  PROVE  LET q == Newest + 1
             e == EntryFor(current, q)
         IN /\ e \in Entries /\ value[e] = Null /\ number[e] <= q
            /\ q <= TailNumber + Size(current) /\ q \in Nat /\ q > TailNumber
            /\ q = TailNumber + Len(producer.chain) + 1
            /\ \A f \in Entries : value[f] # Null => q < number[f] + Size(current)
<1> DEFINE q == Newest + 1
           e == EntryFor(current, q)
           s == Size(current)
<1>1. /\ Rows /\ Tailed /\ Numbered /\ Spread /\ Reached /\ Chained
      /\ current \in 1..current /\ s \in Nat \ {0}
      /\ Newest \in Int /\ q \in Int /\ TailNumber \in Int /\ -1 <= TailNumber /\ TailNumber <= Newest
      /\ Len(producer.chain) \in Nat /\ producer.undone = 0 /\ Newest = TailNumber + Len(producer.chain)
  BY TailPlaces, NewestFacts, FirstFacts DEF Indexed, Producing
<1>2. e = NextEntry(headers[current]) /\ e \in Entries
  BY <1>1, TailPlaces, PosFacts
<1>3. value[e] = Null
  BY <1>1, <1>2, ReusableNull
<1>4. \A k \in Int : Pos(current, q + s * k) = Pos(current, q)
  <2>1. current \in 1..current /\ q \in Int /\ Rows
    BY <1>1
  <2> HIDE DEF q
  <2> QED BY <2>1, PosFacts
<1>5. EntryFor(current, q - s) = e /\ q - s \in Int
  <2>1. Pos(current, q + s * (-1)) = Pos(current, q)
    BY <1>4
  <2>2. q + s * (-1) = q - s
    BY <1>1
  <2> QED BY <1>1, <2>1, <2>2 DEF EntryFor
<1>6. \A f \in Entries : number[f] \in Int /\ (value[f] # Null => value[f] \in Blocks)
  BY EntryFacts
<1> HIDE DEF e, s
<1>7. q <= TailNumber + s
  <2> SUFFICES ASSUME q > TailNumber + s PROVE FALSE
    BY <1>1
  <2> DEFINE j == (q - s) - TailNumber
  <2>1. j \in 1..Len(producer.chain) /\ j > producer.undone /\ TailNumber + j = q - s
    BY <1>1
  <2>2. value[EntryFor(current, TailNumber + j)] = producer.chain[j]
    BY <1>1, <2>1 DEF Chained
  <2>3. producer.chain[j] \in Blocks
    <3>1. producer.chain \in Seq(Blocks)
      BY NewestFacts
    <3> QED BY <2>1, <3>1, ElementOfSeq
  <2> QED BY <1>3, <1>5, <2>1, <2>2, <2>3, NullAssumption
<1>8. number[e] <= q
  <2> SUFFICES ASSUME number[e] > q PROVE FALSE
    BY <1>1, <1>2, <1>6
  <2>1. number[e] # -1 /\ number[e] <= TailNumber + s /\ EntryFor(current, number[e]) = e
    BY <1>1, <1>2 DEF Numbered, s
  <2>2. EntryFor(current, q) = EntryFor(current, number[e]) /\ number[e] \in Int
    BY <1>2, <1>6, <2>1 DEF e
  <2>3. q + s <= number[e]
    BY <1>1, <2>2, PosApart DEF s
  <2> QED BY <1>1, <1>2, <1>6, <2>1, <2>3
<1>9. ASSUME NEW f \in Entries, value[f] # Null PROVE q < number[f] + s
  <2> SUFFICES ASSUME q >= number[f] + s PROVE FALSE
    BY <1>1, <1>6
  <2>1. number[f] \in Int /\ number[f] <= Newest
    BY <1>1, <1>6
  <2>2. number[EntryFor(current, Newest)] >= Newest
    BY <1>1, <1>9, <2>1, ReachedAt, SMTT(40)
  <2>3. EntryFor(current, Newest) \in Entries
    BY <1>1, PosFacts
  <2>4. number[EntryFor(current, Newest)] < number[f] + s
    BY <1>1, <1>9, <2>3 DEF Spread, s
  <2>5. number[f] = q - s
    BY <1>1, <1>6, <2>1, <2>2, <2>3, <2>4
  <2>6. EntryFor(current, number[f]) = f
    BY <1>1, <1>9, LiveNumbers
  <2> QED BY <1>3, <1>5, <1>9, <2>5, <2>6
<1>10. q = TailNumber + Len(producer.chain) + 1 /\ q > TailNumber /\ q \in Nat
  BY <1>1
<1> QED BY <1>2, <1>3, <1>7, <1>8, <1>9, <1>10 DEF e, s

\* When the next entry is in use, the index is full: its blocks are the newest.
LEMMA GrowFacts ==
  ASSUME Types, Indexed, Producing("insert"), ~Reusable(NextEntry(headers[current]))
  PROVE  LET low == Newest - Size(current) + 1
         IN /\ low \in Int /\ low <= Newest
            /\ \A f \in Entries : value[f] # Null => low <= number[f]
            /\ \A q \in low..Newest : number[EntryFor(current, q)] = q
            /\ \A f \in Entries : number[f] # -1 => number[f] \in low..Newest
            /\ low <= TailNumber + 1
<1> DEFINE q == Newest + 1
           e == EntryFor(current, q)
           s == Size(current)
           low == q - s
<1>1. /\ Rows /\ Tailed /\ Numbered /\ Spread /\ Reached /\ Chained
      /\ current \in 1..current /\ s \in Nat \ {0}
      /\ Newest \in Int /\ q \in Int /\ TailNumber \in Int /\ -1 <= TailNumber /\ TailNumber <= Newest
      /\ Len(producer.chain) \in Nat /\ producer.undone = 0 /\ Newest = TailNumber + Len(producer.chain)
  BY TailPlaces, NewestFacts, FirstFacts DEF Indexed, Producing
<1>2. e = NextEntry(headers[current]) /\ e \in Entries
  BY <1>1, TailPlaces, PosFacts
<1>3. value[e] # Null
  BY <1>1, <1>2, ReusableNull
<1>4. /\ number[e] \in Nat /\ number[e] # -1 /\ number[e] <= Newest /\ EntryFor(current, number[e]) = e
  BY <1>1, <1>2, <1>3, LiveNumbers
<1>5. \A f \in Entries : number[f] \in Int
  BY EntryFacts
<1> HIDE DEF e, s
<1>6. number[e] + s <= q
  <2>1. EntryFor(current, number[e]) = EntryFor(current, q) /\ number[e] < q /\ number[e] \in Int /\ q \in Int
    BY <1>1, <1>4 DEF e
  <2> QED BY <1>1, <1>4, <2>1, PosApart DEF s
<1>7. \A f \in Entries : number[f] < number[e] + s
  BY <1>1, <1>2, <1>3 DEF Spread, s
<1>8. EntryFor(current, Newest) \in Entries /\ number[EntryFor(current, Newest)] >= Newest
  <2>1. EntryFor(current, Newest) \in Entries
    BY <1>1, PosFacts
  <2> QED BY <2>1, <1>1, <1>2, <1>3, <1>4 DEF Reached
<1>9. number[e] = low
  <2>1. number[EntryFor(current, Newest)] < number[e] + s
    BY <1>7, <1>8
  <2>2. number[EntryFor(current, Newest)] \in Int
    BY <1>5, <1>8
  <2> QED BY <1>1, <1>4, <1>6, <1>8, <2>1, <2>2, SMTT(40)
<1>10. \A f \in Entries : number[f] <= Newest
  BY <1>1, <1>4, <1>5, <1>7, <1>9
<1>11. ASSUME NEW f \in Entries, value[f] # Null PROVE low <= number[f]
  <2>1. number[f] \in Int /\ number[f] <= Newest
    BY <1>5, <1>10
  <2>2. number[EntryFor(current, Newest)] >= Newest
    BY <1>8
  <2>3. number[EntryFor(current, Newest)] < number[f] + s
    BY <1>1, <1>8, <1>11 DEF Spread, s
  <2>4. number[EntryFor(current, Newest)] \in Int
    BY <1>5, <1>8
  <2> QED BY <1>1, <2>1, <2>2, <2>3, <2>4
<1>12. ASSUME NEW r \in low..Newest PROVE number[EntryFor(current, r)] = r
  <2> DEFINE f == EntryFor(current, r)
  <2>1. r \in Int /\ number[e] <= r /\ r <= Newest
    BY <1>1, <1>9
  <2>2. f \in Entries
    BY <1>1, <2>1, PosFacts
  <2>3. number[f] >= r
    BY <1>1, <1>2, <1>3, <2>1 DEF Reached
  <2>4. number[f] \in Int /\ number[f] <= Newest /\ number[f] # -1
    BY <1>4, <1>5, <1>10, <2>1, <2>2, <2>3
  <2>5. EntryFor(current, number[f]) = f
    BY <1>1, <2>2, <2>4 DEF Numbered
  <2> HIDE DEF f
  <2>6. EntryFor(current, r) = EntryFor(current, number[f])
    BY <2>5 DEF f
  <2>7. r < number[f] + s /\ number[f] < r + s
    BY <1>1, <2>1, <2>3, <2>4, <1>9
  <2>8. r = number[f]
    BY <1>1, <2>1, <2>4, <2>6, <2>7, PosApart DEF s
  <2> QED BY <2>8 DEF f
<1>13. ASSUME NEW f \in Entries, number[f] # -1 PROVE number[f] \in low..Newest
  <2> DEFINE n == number[f]
             k == (Newest - n) \div s
             x == (Newest - n) % s
             r == Newest - x
  <2>1. n \in Int /\ n <= Newest /\ EntryFor(current, n) = f
    BY <1>1, <1>5, <1>10, <1>13 DEF Numbered
  <2>2. Newest - n \in Int
    BY <1>1, <2>1
  <2>3. k \in Int /\ x \in 0..(s - 1) /\ Newest - n = s * k + x
    BY <1>1, <2>2, Division
  <2> HIDE DEF n, k, x
  <2>4. r \in low..Newest
    BY <1>1, <2>3
  <2>5. Pos(current, n + s * k) = Pos(current, n)
    <3>1. \A j \in Int : Pos(current, n + Size(current) * j) = Pos(current, n)
      BY <1>1, <2>1, PosFacts
    <3> QED BY <2>3, <3>1 DEF s
  <2>6. n + s * k = r
    <3>1. s * k \in Int
      BY <1>1, <2>3
    <3> QED BY <1>1, <2>1, <2>3, <3>1
  <2> HIDE DEF r
  <2>7. EntryFor(current, r) = f
    BY <2>1, <2>5, <2>6 DEF EntryFor
  <2>8. number[f] = r
    BY <1>12, <2>4, <2>7
  <2> QED BY <2>4, <2>8 DEF n
<1>14. low <= TailNumber + 1
  <2>1. CASE Len(producer.chain) = 0
    BY <1>1, <2>1
  <2>2. CASE Len(producer.chain) # 0
    <3>1. 1 \in 1..Len(producer.chain) /\ 1 > producer.undone
      BY <1>1, <2>2
    <3> DEFINE g == EntryFor(current, TailNumber + 1)
    <3>2. number[g] = TailNumber + 1 /\ value[g] = producer.chain[1]
      BY <1>1, <3>1 DEF Chained
    <3>3. g \in Entries
      <4>1. TailNumber + 1 \in Int
        BY <1>1
      <4> QED BY <1>1, <4>1, PosFacts
    <3>4. value[g] # Null
      <4>1. producer.chain \in Seq(Blocks)
        BY NewestFacts
      <4> QED BY <3>1, <3>2, <4>1, ElementOfSeq, NullAssumption
    <3> QED BY <1>11, <3>2, <3>3, <3>4
  <2> QED BY <2>1, <2>2
<1>15. low = Newest - Size(current) + 1 /\ low \in Int /\ low <= Newest
  BY <1>1 DEF s
<1> HIDE DEF low
<1> QED BY <1>11, <1>12, <1>13, <1>14, <1>15

\* The block that leaves the index next is the first of the chain that is left.
LEMMA UndoFacts ==
  ASSUME Types, Claims, Indexed, Producing("undo"), producer.undone < Len(producer.chain)
  PROVE  LET q == TailNumber + producer.undone + 1
         IN /\ Placed(Plus(Base(Minus(tailIndex, 1)), BLOCK_SIZE * (producer.undone + 1))) = EntryFor(current, q)
            /\ q \in Nat /\ q > TailNumber
            /\ EntryFor(current, q) \in Entries /\ number[EntryFor(current, q)] = q
            /\ value[EntryFor(current, q)] = producer.chain[producer.undone + 1]
<1> DEFINE u == producer.undone
           l == Len(producer.chain)
           q == TailNumber + u + 1
           N == Newest
           i == Plus(Base(Minus(tailIndex, 1)), BLOCK_SIZE * (u + 1))
<1>1. /\ Rows /\ Tailed /\ Numbered /\ Chained /\ Numbers
      /\ current \in 1..current /\ Size(current) \in Nat \ {0}
      /\ N \in Int /\ TailNumber \in Int /\ -1 <= TailNumber
      /\ l \in Nat /\ u \in Nat /\ u < l /\ N = TailNumber + l - u
  BY TailPlaces, NewestFacts, FirstFacts DEF Indexed, Claims
<1>2. q \in Nat /\ q > TailNumber /\ q \in Int
  BY <1>1
<1> HIDE DEF q, N, u, l
<1>3. EntryFor(current, q) \in Entries /\ EntryFor(current, N) \in Entries
  BY <1>1, <1>2, PosFacts
<1>4. number[EntryFor(current, q)] = q /\ value[EntryFor(current, q)] = producer.chain[u + 1]
  <2>1. u + 1 \in 1..l /\ u + 1 > u /\ TailNumber + (u + 1) = q
    BY <1>1 DEF q
  <2> QED BY <1>1, <2>1 DEF Chained, u, l
<1>5. number[EntryFor(current, N)] = N
  <2> DEFINE j == N - TailNumber
  <2>1. j \in 1..l /\ TailNumber + j = N
    BY <1>1
  <2> HIDE DEF j
  <2> QED BY <1>1, <2>1 DEF Chained, l
<1>6. key[EntryFor(current, N)] = From(N) % W
  <2>1. N # -1
    BY <1>1
  <2> QED BY <1>1, <1>3, <1>5, <2>1 DEF Numbered
<1>7. i = From(q) % W
  <2>1. End \in Nat /\ BLOCK_SIZE \in Nat \ {0} /\ End - 1 \in Int
    BY EndFacts, SizeFacts DEF Types
  <2>2. Minus(tailIndex, 1) = (End - 1) % W
    BY <1>1, <2>1, Wrapped DEF Numbers
  <2>3. Base((End - 1) % W) = From(TailNumber) % W
    BY <2>1, WrappedBase DEF TailNumber
  <2> DEFINE n == u + 1
  <2>4. n \in Int /\ q = TailNumber + n
    BY <1>1 DEF q
  <2> HIDE DEF n
  <2>5. From(q) = From(TailNumber) + From(n) /\ From(n) = BLOCK_SIZE * n /\ From(n) \in Int /\ From(TailNumber) \in Int
    BY <1>1, <2>4, FromFacts
  <2>6. Plus(From(TailNumber) % W, BLOCK_SIZE * n) = From(q) % W
    BY <2>5, Wrapped
  <2> QED BY <2>2, <2>3, <2>6 DEF n
<1>8. BlocksBetween(From(N) % W, From(q) % W) = q - N
  <2>1. /\ From(N) \in Int /\ From(q) \in Int /\ Num(From(N)) = N /\ Num(From(q)) = q
    <3>1. 0 \in Offsets
      BY SizeFacts DEF Offsets
    <3>2. From(N) \in Int /\ From(q) \in Int
      BY <1>1, <1>2, FromFacts
    <3>3. Num(From(N) + 0) = N /\ Num(From(q) + 0) = q
      BY <1>1, <1>2, <3>1, NumFacts
    <3>4. From(N) + 0 = From(N) /\ From(q) + 0 = From(q)
      BY <3>2
    <3> QED BY <3>2, <3>3, <3>4
  <2>2. From(l) < Half /\ From(l) \in Int
    <3>1. Window /\ head <= End /\ End <= From(TailNumber + 1) /\ head \in Nat /\ End \in Nat /\ Half \in Nat
      BY ClaimsFacts, EndFacts, HistFacts, SizeFacts DEF Claims, Types
    <3>2. Extra = 1 /\ TailNumber + 1 \in Int /\ l \in Int
      BY <1>1 DEF Extra, Producing
    <3>3. TailNumber + Len(producer.chain) + Extra = (TailNumber + 1) + l
      <4>1. Len(producer.chain) = l
        BY DEF l
      <4> QED BY <1>1, <3>2, <4>1
    <3>4. From((TailNumber + 1) + l) = From(TailNumber + 1) + From(l) /\ From(TailNumber + 1) \in Int /\ From(l) \in Int
      BY <3>2, FromFacts
    <3>5. From((TailNumber + 1) + l) - head < Half
      BY <3>1, <3>3 DEF Window
    <3> QED BY <3>1, <3>4, <3>5
  <2>3. q - N \in Int /\ -l <= q - N /\ q - N <= l /\ -l \in Int /\ l \in Int
    BY <1>1 DEF q
  <2>4. From(-l) = -From(l) /\ From(q - N) \in Int /\ From(-l) \in Int
    <3>1. From(0 - l) = From(0) - From(l) /\ From(0) = 0 /\ 0 - l = -l
      BY <1>1, <2>3, FromFacts
    <3>2. From(-l) = 0 - From(l)
      BY <3>1
    <3>3. From(-l) = -From(l)
      BY <3>2, <2>2
    <3>4. \A x \in Int : From(x) \in Int
      BY FromFacts
    <3> QED BY <3>3, <3>4, <2>3
  <2>5. From(-l) <= From(q - N) /\ From(q - N) <= From(l)
    <3> DEFINE m == -l
               d == q - N
    <3>1. m \in Int /\ d \in Int /\ m <= d /\ d <= l /\ l \in Int
      BY <2>3
    <3> HIDE DEF m, d
    <3>2. From(m) <= From(d) /\ From(d) <= From(l)
      BY <3>1, FromFacts
    <3> QED BY <3>2 DEF m, d
  <2>6. -Half <= From(q - N) /\ From(q - N) < Half
    BY <2>2, <2>4, <2>5, SizeFacts
  <2> QED BY <2>1, <2>6, Between
<1>9. Placed(i) = EntryFor(current, q)
  <2>1. headers[current].tail = Pos(current, N) /\ headers[current].index[headers[current].tail] = EntryFor(current, N)
    BY <1>1 DEF Tailed, EntryFor, N
  <2>2. (Pos(current, N) + (q - N)) % Size(current) = Pos(current, N + (q - N))
    <3>1. q - N \in Int
      BY <1>1, <1>2
    <3> QED BY <3>1, <1>1, PosFacts, ZenonT(40)
  <2>3. N + (q - N) = q
    BY <1>1, <1>2
  <2> HIDE DEF i
  <2> QED BY <1>6, <1>7, <1>8, <2>1, <2>2, <2>3 DEF Placed, PlaceOf, Size, EntryFor
<1> QED BY <1>2, <1>3, <1>4, <1>9 DEF q, u, l

\* The block of an index between its bounds.
LEMMA BlockOf ==
  ASSUME NEW i \in Int, NEW q \in Int
  PROVE  From(q) <= i /\ i < From(q + 1) => Num(i) = q
BY NumIs

\* What a call has taken and not yet done with is stored, and where it looks.
LEMMA HeldStands ==
  ASSUME Types, Claims, Found, NEW c \in Consumers, NEW q \in Int, Held(c, q)
  PROVE  /\ q \in Num(Start)..TailNumber /\ q \in Nat /\ ~Done(q) /\ Standing(q)
         /\ call[c].pc \in {"front", "key", "fetch", "empty", "clear", "free"} =>
              /\ EntryFor(call[c].header, q) = EntryFor(current, q)
              /\ EntryFor(current, q) \in Entries /\ call[c].header \in 1..current
<1>0. /\ Taking(c) /\ Looking(c) /\ Rows /\ Numbered /\ Present /\ current \in 1..current
      /\ Start \in Nat /\ Num(Start) \in Nat /\ From(Num(Start)) = Start
      /\ head \in Nat /\ End \in Nat /\ head <= End /\ TailNumber \in Int /\ place[c] \in Nat
      /\ call[c].n \in Nat /\ call[c].k \in Nat
      /\ Start <= Low(c) /\ High(c) <= head
      /\ BLOCK_SIZE \in Nat \ {0} /\ From(q) \in Int /\ From(q + 1) = From(q) + BLOCK_SIZE
  BY StartFacts, ClaimsFacts, NewestFacts, CallFacts, TailPlaces, SizeFacts, FromFacts
     DEF Held, Found, Located, Indexed, Intervals
<1>1. ~Done(q)
  BY DEF Done
<1>h. call[c].pc \in {"front", "key", "fetch", "empty", "clear", "free"} => call[c].header \in 1..current
  BY DEF Types, CallTypes
<1>n. call[c].pc \in {"front", "key", "fetch", "empty", "clear", "free"} => number[EntryFor(call[c].header, q)] = q
  BY <1>0 DEF Looking
<1>2. From(q) < End => q <= TailNumber
  <2>1. Num(End - 1) >= q <=> From(q) <= End - 1
    <3>1. End - 1 \in Int
      BY <1>0
    <3> QED BY <3>1, NumIs
  <2> QED BY <2>1, <1>0 DEF TailNumber
<1>3. q \in Num(Start)..TailNumber
  <2>1. CASE Low(c) < High(c) /\ From(q) < High(c) /\ Low(c) < From(q + 1)
    <3>1. Low(c) \in Int /\ High(c) \in Int
      BY <1>0 DEF Low, High
    <3>2. From(q) < End /\ Start < From(q + 1)
      BY <1>0, <2>1, <3>1
    <3>3. Num(Start) <= q
      <4>1. Start \in Int
        BY <1>0
      <4> QED BY <3>2, <4>1, NumIs
    <3> QED BY <1>0, <1>2, <3>2, <3>3
  <2>2. CASE At(c, "clear") /\ q = Num(place[c] - 1)
    <3> DEFINE e == EntryFor(call[c].header, q)
    <3>1. call[c].header \in 1..current /\ number[e] = q /\ value[e] = call[c].block /\ call[c].block \in Blocks
          /\ Counted(q) = Offsets
      BY <2>2, <1>0, <1>h, <1>n DEF Looking, At, Types, CallTypes
    <3>2. e \in Entries /\ value[e] # Null
      BY <3>1, <1>0, PosFacts, NullAssumption
    <3>3. q >= Num(Start)
      BY <3>1, <3>2, <1>0, LiveNumbers
    <3>4. From(q) < head
      <4>1. 0 \in Offsets
        BY <1>0 DEF Offsets
      <4>2. From(q) + 0 < head
        BY <3>1, <4>1 DEF Counted
      <4> QED BY <4>2, <1>0
    <3> QED BY <1>0, <1>2, <3>3, <3>4
  <2> QED BY <2>1, <2>2 DEF Held
<1>4. Standing(q)
  BY <1>0, <1>1, <1>3 DEF Present
<1>5. q \in Nat
  BY <1>0, <1>3
<1>6. EntryFor(current, q) \in Entries
  BY <1>0, PosFacts
<1>7. ASSUME call[c].pc \in {"front", "key", "fetch", "empty", "clear", "free"}
      PROVE  EntryFor(call[c].header, q) = EntryFor(current, q)
  <2> DEFINE e == EntryFor(call[c].header, q)
  <2>1. e \in Entries /\ number[e] = q /\ number[e] # -1
    <3>1. call[c].header \in 1..current /\ number[EntryFor(call[c].header, q)] = q
      BY <1>7, <1>h, <1>n
    <3>2. EntryFor(call[c].header, q) \in Entries
      BY <3>1, <1>0, PosFacts
    <3>3. q # -1
      BY <1>5
    <3> QED BY <3>1, <3>2, <3>3
  <2>2. EntryFor(current, number[e]) = e
    BY <2>1, <1>0 DEF Numbered
  <2> QED BY <2>1, <2>2
<1> QED BY <1>1, <1>3, <1>4, <1>5, <1>6, <1>7, <1>h

\* The block of a call's next element, and of the last it moved out.
LEMMA HeldNext ==
  ASSUME Types, Found, NEW c \in Consumers
  PROVE  /\ call[c].pc \in {"header", "front", "key", "fetch"} => Held(c, Num(place[c])) /\ call[c].n \in Nat \ {0}
         /\ At(c, "empty") => Held(c, Num(place[c] - 1))
         /\ At(c, "clear") => Held(c, Num(place[c] - 1))
         /\ Num(place[c]) \in Int /\ Num(place[c] - 1) \in Int /\ place[c] \in Nat /\ place[c] - 1 \in Int
<1>0. /\ Looking(c) /\ place[c] \in Nat /\ call[c].n \in Nat /\ call[c].k \in Nat /\ BLOCK_SIZE \in Nat \ {0}
  BY CallFacts, SizeFacts DEF Found
<1>1. place[c] \in Int /\ place[c] - 1 \in Int
  BY <1>0
<1> DEFINE p == Num(place[c])
           r == Num(place[c] - 1)
<1>2. /\ p \in Int /\ From(p) <= place[c] /\ place[c] < From(p) + BLOCK_SIZE
      /\ r \in Int /\ From(r) <= place[c] - 1 /\ place[c] - 1 < From(r) + BLOCK_SIZE
  BY <1>1, NumFacts
<1> HIDE DEF p, r
<1>3. From(p) \in Int /\ From(p + 1) = From(p) + BLOCK_SIZE /\ From(r) \in Int /\ From(r + 1) = From(r) + BLOCK_SIZE
  BY <1>2, FromFacts
<1>4. ASSUME call[c].pc \in {"header", "front", "key", "fetch"} PROVE Held(c, p) /\ call[c].n \in Nat \ {0}
  <2>1. call[c].n \in Nat \ {0} /\ Low(c) = place[c] /\ High(c) = place[c] + call[c].n /\ Taking(c)
    BY <1>0, <1>4 DEF Looking, Low, High, At, Taking
  <2> QED BY <2>1, <1>0, <1>2, <1>3 DEF Held
<1>5. ASSUME At(c, "empty") PROVE Held(c, r)
  <2>1. call[c].k \in 1..BLOCK_SIZE /\ Low(c) = place[c] - call[c].k /\ High(c) = place[c] + call[c].n /\ Taking(c)
    BY <1>0, <1>5 DEF Looking, Low, High, At, Taking
  <2> QED BY <2>1, <1>0, <1>2, <1>3 DEF Held
<1>6. At(c, "clear") => Held(c, r)
  BY DEF Held, At, Taking, r
<1> QED BY <1>0, <1>1, <1>2, <1>4, <1>5, <1>6 DEF p, r

\* The indexes stay as they are, but for where the tail is.
LEMMA RowsKept ==
  ASSUME Types, Rows, Kept, current' = current, first' = first
  PROVE  /\ Rows'
         /\ \A h \in 1..current, q \in Int : Pos(h, q)' = Pos(h, q) /\ EntryFor(h, q)' = EntryFor(h, q)
         /\ \A q \in Int : Pos(current, q)' = Pos(current, q) /\ EntryFor(current, q)' = EntryFor(current, q)
         /\ Size(current)' = Size(current)
<1>0. current \in 1..current
  <2>1. current >= 1 /\ headers \in Seq(Header)
    BY DEF Types, IndexTypes
  <2>2. current \in Nat
    BY <2>1, LenProperties DEF current
  <2> QED BY <2>1, <2>2
<1>1. \A h \in 1..current : Size(h)' = Size(h) /\ headers'[h].index = headers[h].index
  BY DEF Kept
<1>2. \A h \in 1..current, q \in Int : Pos(h, q)' = Pos(h, q)
  <2> SUFFICES ASSUME NEW h \in 1..current, NEW q \in Int PROVE Pos(h, q)' = Pos(h, q)
    OBVIOUS
  <2>1. Pos(h, q)' = (q - first'[h]) % Size(h)'
    BY DEF Pos
  <2> QED BY <2>1, <1>1 DEF Pos
<1>3. \A h \in 1..current, q \in Int : EntryFor(h, q)' = EntryFor(h, q)
  <2> SUFFICES ASSUME NEW h \in 1..current, NEW q \in Int PROVE EntryFor(h, q)' = EntryFor(h, q)
    OBVIOUS
  <2>1. EntryFor(h, q)' = headers'[h].index[Pos(h, q)']
    BY DEF EntryFor
  <2> QED BY <2>1, <1>1, <1>2 DEF EntryFor
<1>4. Size(current)' = Size(current)
  <2>1. Size(current)' = Capacity(headers'[current'])
    BY DEF Size
  <2>2. ASSUME NEW h \in 1..current PROVE Capacity(headers'[h]) = Capacity(headers[h])
    BY <1>1 DEF Size
  <2> QED BY <2>1, <2>2, <1>0 DEF Size
<1>5. \A q \in Int : Pos(current, q)' = Pos(current, q) /\ EntryFor(current, q)' = EntryFor(current, q)
  <2> SUFFICES ASSUME NEW q \in Int PROVE Pos(current, q)' = Pos(current, q) /\ EntryFor(current, q)' = EntryFor(current, q)
    OBVIOUS
  <2>1. Pos(current, q)' = (q - first'[current']) % Size(current)'
    BY DEF Pos
  <2>2. Pos(current, q)' = Pos(current, q)
    BY <2>1, <1>4 DEF Pos
  <2>3. EntryFor(current, q)' = headers'[current'].index[Pos(current, q)']
    BY DEF EntryFor
  <2> QED BY <2>2, <2>3, <1>0, <1>1 DEF EntryFor
<1>6. Rows'
  <2>1. Len(first') = current'
    BY DEF Rows
  <2>2. ASSUME NEW h \in 1..current'
        PROVE  /\ Size(h)' <= Size(current)'
               /\ headers'[h].index \in [0..(Size(h)' - 1) -> 0..(Size(h)' - 1)]
               /\ \A x, y \in 0..(Size(h)' - 1) : headers'[h].index[x] = headers'[h].index[y] => x = y
               /\ \A q \in Int : EntryFor(current, q)' < Size(h)' => EntryFor(h, q)' = EntryFor(current, q)'
    <3>1. h \in 1..current /\ Size(h)' = Size(h) /\ headers'[h].index = headers[h].index
      BY <2>2, <1>1
    <3>2. /\ Size(h) <= Size(current)
          /\ headers[h].index \in [0..(Size(h) - 1) -> 0..(Size(h) - 1)]
          /\ \A x, y \in 0..(Size(h) - 1) : headers[h].index[x] = headers[h].index[y] => x = y
          /\ \A q \in Int : EntryFor(current, q) < Size(h) => EntryFor(h, q) = EntryFor(current, q)
      BY <3>1 DEF Rows
    <3>3. \A q \in Int : EntryFor(h, q)' = EntryFor(h, q)
      BY <3>1, <1>3
    <3> QED BY <3>1, <3>2, <3>3, <1>4, <1>5
  <2> QED BY <2>1, <2>2 DEF Rows
<1> QED BY <1>2, <1>3, <1>4, <1>5, <1>6

\* What makes the primed tail of the enqueue.
LEMMA NewestNext ==
  /\ Newest' = TailNumber' + Len(producer'.chain) - producer'.undone
                 + (IF producer'.pc = "requisition" THEN 1 ELSE 0)
  /\ Newest = TailNumber + Len(producer.chain) - producer.undone
                 + (IF producer.pc = "requisition" THEN 1 ELSE 0)
BY DEF Newest, Producing

-------------------------------------------------------------------------------
(* The block index is kept right *)

\* An enqueue that has an entry and no block for it; the numbers in use.
Entering == {"advance", "requisition"}
InUse == Num(Start)..TailNumber
           \cup (TailNumber + producer.undone + 1)..(TailNumber + Len(producer.chain))

\* Numbered, with the numbers in use by name.
LEMMA NumberedIs ==
  Numbered <=> \A e \in Entries :
    /\ number[e] >= -1 /\ number[e] <= TailNumber + Size(current)
    /\ key[e] = IF number[e] = -1 THEN INVALID_BLOCK_BASE ELSE From(number[e]) % W
    /\ number[e] # -1 => EntryFor(current, number[e]) = e
    /\ value[e] # Null => number[e] \in InUse
BY DEF Numbered, InUse

\* The primed sizes and numbers are integers, too.
LEMMA NextFacts ==
  ASSUME Types'
  PROVE  /\ TailNumber' \in Int /\ Len(producer'.chain) \in Nat /\ producer'.undone \in Nat
         /\ producer'.undone <= Len(producer'.chain) /\ Newest' \in Int /\ TailNumber' <= Newest'
         /\ producer'.chain \in Seq(Blocks) /\ -1 <= TailNumber'
<1>1. StoreTypes' /\ ProducerTypes'
  BY DEF Types
<1>2. End' \in Nat /\ Start \in Nat
  BY EndNext, SizesFit
<1>3. TailNumber' = Num(End' - 1)
  BY DEF TailNumber
<1> DEFINE i == End' - 1
<1>0. \A x \in Nat : x - 1 \in Int /\ x - 1 >= -1
  OBVIOUS
<1>4. i \in Int /\ i >= -1
  BY <1>2, <1>0
<1> HIDE DEF i
<1>5. TailNumber' \in Int /\ -1 <= TailNumber'
  <2>1. Num(i) \in Int
    BY <1>4, NumFacts
  <2>2. BLOCK_SIZE \in Nat \ {0} /\ From(-1) = -BLOCK_SIZE
    BY SizeFacts DEF From
  <2>3. From(-1) <= i
    BY <2>2, <1>4
  <2>4. Num(i) >= -1
    BY <1>4, <2>3, NumIs
  <2> QED BY <1>3, <2>1, <2>4 DEF i
<1>6. producer'.chain \in Seq(Blocks) /\ producer'.undone \in Nat /\ producer'.undone <= Len(producer'.chain)
  BY <1>1 DEF ProducerTypes
<1>7. Len(producer'.chain) \in Nat
  BY <1>6, LenProperties
<1> DEFINE l == Len(producer'.chain)
           u == producer'.undone
           t == TailNumber'
           x == IF producer'.pc = "requisition" THEN 1 ELSE 0
<1>8. Newest' = t + l - u + x /\ x \in {0, 1} /\ t \in Int /\ l \in Nat /\ u \in Nat /\ u <= l
  BY <1>5, <1>6, <1>7, NewestNext
<1> HIDE DEF l, u, t, x
<1>9. Newest' \in Int /\ t <= Newest'
  BY <1>8
<1> QED BY <1>5, <1>6, <1>7, <1>9 DEF t

\* The index is as it was, or has lost blocks.
LEMMA IndexCopied ==
  ASSUME Types, Types', Indexed, Kept, current' = current, first' = first, number' = number, key' = key,
         TailNumber' >= TailNumber, Tailed', Chained',
         \/ Newest' <= Newest
         \/ Newest' = Newest + 1 /\ number[EntryFor(current, Newest + 1)] = Newest + 1,
         \A e \in Entries : value'[e] # Null => value[e] # Null /\ number[e] \in InUse'
  PROVE  Indexed'
<1>0. Rows /\ Numbered /\ Spread /\ Reached
  BY DEF Indexed
<1>1. /\ Rows' /\ Size(current)' = Size(current)
      /\ \A q \in Int : EntryFor(current, q)' = EntryFor(current, q)
  BY <1>0, RowsKept
<1>2. TailNumber \in Int /\ TailNumber' \in Int /\ Newest \in Int /\ Newest' \in Int
      /\ \A e \in Entries : number[e] \in Int
  BY NewestFacts, NextFacts, EntryFacts
<1>3. Size(current) \in Nat
  BY <1>0, TailPlaces, FirstFacts DEF Indexed
<1>4. Numbered'
  <2> SUFFICES ASSUME NEW e \in Entries
               PROVE  /\ number'[e] >= -1 /\ number'[e] <= TailNumber' + Size(current)'
                      /\ key'[e] = IF number'[e] = -1 THEN INVALID_BLOCK_BASE ELSE From(number'[e]) % W
                      /\ number'[e] # -1 => EntryFor(current, number[e])' = e
                      /\ value'[e] # Null => number'[e] \in InUse'
    BY DEF Numbered, InUse
  <2>1. /\ number[e] >= -1 /\ number[e] <= TailNumber + Size(current)
        /\ key[e] = IF number[e] = -1 THEN INVALID_BLOCK_BASE ELSE From(number[e]) % W
        /\ number[e] # -1 => EntryFor(current, number[e]) = e
    BY <1>0 DEF Numbered
  <2>2. number[e] <= TailNumber' + Size(current)
    BY <2>1, <1>2, <1>3
  <2>3. EntryFor(current, number[e])' = EntryFor(current, number[e])
    <3>1. \A q \in Int : q = number'[e] => EntryFor(current, number[e])' = EntryFor(current, q)'
      BY DEF EntryFor, Pos
    <3> QED BY <3>1, <1>1, <1>2
  <2> QED BY <2>1, <2>2, <2>3, <1>1
<1>5. Spread'
  BY <1>0, <1>1 DEF Spread
<1>6. Reached'
  <2> SUFFICES ASSUME NEW q \in Int, NEW e \in Entries, value'[e] # Null, number'[e] <= q, q <= Newest'
               PROVE  number'[EntryFor(current, q)'] >= q
    BY DEF Reached
  <2>1. value[e] # Null /\ number[e] <= q
    BY <1>2
  <2>2. number[EntryFor(current, q)] >= q
    <3>1. CASE q <= Newest
      BY <3>1, <2>1, <1>0, ReachedAt
    <3>2. CASE q > Newest
      <4>1. q = Newest + 1 /\ number[EntryFor(current, Newest + 1)] = Newest + 1
        BY <3>2, <1>2
      <4> QED BY <4>1, <1>2
    <3> QED BY <3>1, <3>2, <1>2
  <2> QED BY <2>2, <1>1
<1> QED BY <1>1, <1>4, <1>5, <1>6 DEF Indexed

\* The chain's entries, when the chain only loses blocks.
LEMMA ChainedKept ==
  ASSUME Types, Types', Indexed, Kept, current' = current, first' = first, number' = number,
         TailNumber' = TailNumber, producer'.chain = producer.chain, producer'.undone >= producer.undone,
         \A j \in 1..Len(producer.chain) : j > producer'.undone =>
           value'[EntryFor(current, TailNumber + j)] = value[EntryFor(current, TailNumber + j)],
         producer'.pc \in Entering =>
           /\ producer.pc \in Entering
           /\ value'[EntryFor(current, TailNumber + Len(producer.chain) + 1)] = Null
  PROVE  Chained'
<1>0. /\ Rows /\ Chained /\ TailNumber \in Int /\ Len(producer.chain) \in Nat /\ producer.undone \in Nat
      /\ producer'.undone \in Nat
  BY NewestFacts, NextFacts DEF Indexed
<1>1. \A q \in Int : EntryFor(current, q)' = EntryFor(current, q)
  BY <1>0, RowsKept
<1>2. ASSUME NEW j \in 1..Len(producer'.chain)
      PROVE  /\ number'[EntryFor(current, TailNumber + j)'] = TailNumber' + j
             /\ j > producer'.undone => value'[EntryFor(current, TailNumber + j)'] = producer'.chain[j]
  <2>1. j \in 1..Len(producer.chain) /\ TailNumber + j \in Int
    BY <1>0
  <2>2. EntryFor(current, TailNumber + j)' = EntryFor(current, TailNumber + j)
    <3>1. \A q \in Int : q = TailNumber' + j => EntryFor(current, TailNumber + j)' = EntryFor(current, q)'
      BY DEF EntryFor, Pos
    <3> QED BY <3>1, <1>1, <2>1
  <2>3. /\ number[EntryFor(current, TailNumber + j)] = TailNumber + j
        /\ j > producer.undone => value[EntryFor(current, TailNumber + j)] = producer.chain[j]
    BY <1>0, <2>1 DEF Chained
  <2>4. j > producer'.undone => j > producer.undone
    BY <1>0, <2>1
  <2> QED BY <2>1, <2>2, <2>3, <2>4
<1>3. ASSUME producer'.pc \in Entering
      PROVE  /\ number'[EntryFor(current, TailNumber + Len(producer.chain) + 1)'] = TailNumber' + Len(producer'.chain) + 1
             /\ value'[EntryFor(current, TailNumber + Len(producer.chain) + 1)'] = Null
  <2> DEFINE r == TailNumber + Len(producer.chain) + 1
  <2>1. r \in Int
    BY <1>0
  <2>2. EntryFor(current, TailNumber + Len(producer.chain) + 1)' = EntryFor(current, r)
    <3>1. \A q \in Int : q = TailNumber' + Len(producer'.chain) + 1
            => EntryFor(current, TailNumber + Len(producer.chain) + 1)' = EntryFor(current, q)'
      BY DEF EntryFor, Pos
    <3> QED BY <3>1, <1>1, <2>1
  <2>3. number[EntryFor(current, r)] = r
    BY <1>0, <1>3 DEF Chained, Entering
  <2>4. value'[EntryFor(current, r)] = Null
    BY <1>3
  <2> HIDE DEF r
  <2>5. r = TailNumber' + Len(producer'.chain) + 1
    BY DEF r
  <2> QED BY <2>2, <2>3, <2>4, <2>5
<1> QED BY <1>2, <1>3 DEF Chained, Entering

\* An empty chain has no entries.
LEMMA ChainedEmpty ==
  ASSUME producer'.chain = <<>>, producer'.pc \notin Entering
  PROVE  Chained'
<1>1. Len(producer'.chain) = 0
  BY LenProperties
<1>2. 1..Len(producer'.chain) = {}
  BY <1>1
<1> QED BY <1>2 DEF Chained, Entering

\* An entry's number tells which entry it is.
LEMMA OneEntry ==
  ASSUME Types, Numbered, NEW e \in Entries, NEW f \in Entries, number[e] = number[f], number[e] # -1
  PROVE  e = f
BY DEF Numbered

\* GoTo moves the place of the enqueue only.
LEMMA GoToFacts ==
  ASSUME Types, NEW p, GoTo(p)
  PROVE  /\ producer'.pc = p /\ producer'.chain = producer.chain
         /\ producer'.undone = producer.undone /\ producer'.count = producer.count
<1>1. producer \in [pc : ProducerPlaces, count : Nat, chain : Seq(Blocks), undone : Nat]
  BY DEF Types, ProducerTypes
<1> QED BY <1>1 DEF GoTo

\* No index, no tail is changed.
LEMMA HeadersSame ==
  ASSUME Types, headers' = headers
  PROVE  Kept /\ current' = current /\ headers'[current].tail = headers[current].tail
BY DEF Kept, current, Size, Types, IndexTypes

\* Where the tail is, if q is the newest block.
LEMMA TailedIs ==
  ASSUME Types, Rows, Kept, current' = current, first' = first, NEW q \in Int,
         Newest' = q, headers'[current].tail = Pos(current, q)
  PROVE  Tailed'
<1>1. Pos(current, q)' = Pos(current, q)
  BY RowsKept
<1>2. Tailed' <=> headers'[current'].tail = Pos(current, Newest)'
  BY DEF Tailed
<1>3. Pos(current, Newest)' = Pos(current, q)'
  BY DEF Pos
<1> QED BY <1>1, <1>2, <1>3

\* The tail is right while the newest block is the same.
LEMMA TailedKept ==
  ASSUME Types, Indexed, headers' = headers, first' = first, Newest' = Newest
  PROVE  Tailed'
<1>1. Kept /\ current' = current /\ headers'[current].tail = headers[current].tail /\ Rows /\ Tailed
  BY HeadersSame DEF Indexed
<1>2. Newest \in Int /\ headers[current].tail = Pos(current, Newest)
  BY <1>1, NewestFacts DEF Tailed
<1> DEFINE q == Newest
<1>3. q \in Int /\ Newest' = q /\ headers'[current].tail = Pos(current, q)
  BY <1>1, <1>2
<1> HIDE DEF q
<1> QED BY <1>1, <1>3, TailedIs

\* Nothing that the index says is changed.
LEMMA IndexQuiet ==
  ASSUME Types, Types', Indexed, UNCHANGED <<headers, first, number, key, value>>,
         TailNumber' = TailNumber, producer'.chain = producer.chain, producer'.undone = producer.undone,
         producer'.pc = "requisition" <=> producer.pc = "requisition",
         producer'.pc \in Entering => producer.pc \in Entering
  PROVE  Indexed'
<1>1. Kept /\ current' = current /\ Rows /\ Chained /\ Numbered
  BY HeadersSame DEF Indexed
<1>2. Newest' = Newest
  BY NewestNext
<1>3. Tailed'
  BY <1>2, TailedKept
<1>4. Chained'
  <2>1. producer'.pc \in Entering => value'[EntryFor(current, TailNumber + Len(producer.chain) + 1)] = Null
    BY <1>1 DEF Chained, Entering
  <2>2. producer'.undone >= producer.undone
    BY NextFacts
  <2> QED BY <1>1, <2>1, <2>2, ChainedKept
<1>5. \A e \in Entries : value'[e] # Null => value[e] # Null /\ number[e] \in InUse'
  BY <1>1, NumberedIs DEF InUse
<1>6. TailNumber' >= TailNumber /\ Newest' <= Newest
  BY <1>2, NewestFacts
<1> QED BY <1>1, <1>3, <1>4, <1>5, <1>6, IndexCopied

\* The histories that only two steps of an enqueue change.
LEMMA NumbersSame ==
  ASSUME HistNext
  PROVE  /\ ~(producer.pc = "insert" /\ producer'.pc = "advance") => number' = number
         /\ headers' = headers => first' = first
<1>1. ~(producer.pc = "insert" /\ producer'.pc = "advance") => number' = number
  BY DEF HistNext, Producing
<1>2. first' = IF Len(headers') > current THEN Append(first, Newest - Size(current) + 1) ELSE first
  BY DEF HistNext
<1>3. ASSUME headers' = headers PROVE ~(Len(headers') > Len(headers))
  BY <1>3
<1> QED BY <1>1, <1>2, <1>3 DEF current

\* An enqueue begins, or goes on, or ends.
LEMMA IndexBegin ==
  ASSUME Types, Types', Claims, Indexed, HistNext, NEW count \in Counts, BeginEnqueue(count)
  PROVE  Indexed'
<1>1. /\ producer = NoEnqueue /\ producer'.pc = "insert" /\ producer'.chain = <<>> /\ sent' = sent
      /\ UNCHANGED <<headers, key, value>>
  BY ProducerRecord, ZenonT(30) DEF BeginEnqueue, blockIndex
<1>2. producer'.undone = 0 /\ producer.undone = 0 /\ producer.chain = <<>> /\ producer.pc = "idle"
  BY <1>1 DEF BeginEnqueue, NoEnqueue
<1>3. TailNumber' = TailNumber
  BY <1>1, TailSame
<1>4. number' = number /\ first' = first
  BY <1>1, <1>2, NumbersSame
<1> QED BY <1>1, <1>2, <1>3, <1>4, IndexQuiet DEF Entering

\* The check for room keeps the index.
LEMMA IndexRoom ==
  ASSUME Types, Types', Claims, Indexed, HistNext, CheckRoom
  PROVE  Indexed'
<1>1. /\ producer.pc = "room" /\ UNCHANGED <<headers, key, value>> /\ sent' = sent
  BY ProducerRecord DEF CheckRoom, blockIndex, Producing
<1>2. PICK p \in {"undo", "insert"} : GoTo(p)
  BY DEF CheckRoom
<1>3. producer'.pc = p /\ producer'.chain = producer.chain /\ producer'.undone = producer.undone
  BY <1>2, GoToFacts
<1>4. TailNumber' = TailNumber /\ number' = number /\ first' = first
  BY <1>1, TailSame, NumbersSame
<1> QED BY <1>1, <1>3, <1>4, IndexQuiet DEF Entering

\* An enqueue that gets no entry keeps the index.
LEMMA IndexRefused ==
  ASSUME Types, Types', Claims, Indexed, HistNext, Producing("insert"), GoTo("undo"),
         UNCHANGED <<headers, key, value, sent>>
  PROVE  Indexed'
<1>1. producer.pc = "insert" /\ producer'.pc = "undo"
      /\ producer'.chain = producer.chain /\ producer'.undone = producer.undone
  BY GoToFacts DEF Producing
<1>2. TailNumber' = TailNumber /\ number' = number /\ first' = first
  BY <1>1, TailSame, NumbersSame
<1> QED BY <1>1, <1>2, IndexQuiet DEF Entering

\* The blocks of the chain are the tail's now.
LEMMA IndexPublish ==
  ASSUME Types, Types', Claims, Indexed, HistNext, Publish
  PROVE  Indexed'
<1>1. producer.pc = "publish" /\ producer' = NoEnqueue /\ UNCHANGED <<headers, key, value>>
      /\ sent' = sent + producer.count /\ producer.count \in Counts
  BY DEF Publish, Producing, Construct, blockIndex, Types, ProducerTypes
<1>2. producer'.pc = "idle" /\ producer'.chain = <<>> /\ producer'.undone = 0
  BY <1>1 DEF NoEnqueue
<1>3. TailNumber' = TailNumber + Needs(producer.count) /\ Needs(producer.count) \in Nat
  BY <1>1, TailMoves
<1>4. Needs(producer.count) = Len(producer.chain)
  BY <1>1 DEF Claims, Enqueuing, Producing
<1>5. producer.undone = 0 /\ Newest = TailNumber + Len(producer.chain) /\ TailNumber \in Int
      /\ Len(producer.chain) \in Nat
  BY <1>1, NewestFacts DEF Producing
<1>6. Len(producer'.chain) = 0
  BY <1>2
<1>7. TailNumber' = Newest /\ Newest' = Newest /\ TailNumber' >= TailNumber
  BY <1>2, <1>3, <1>4, <1>5, <1>6, NewestNext
<1>8. number' = number /\ first' = first /\ Kept /\ current' = current
  BY <1>1, NumbersSame, HeadersSame
<1>9. Tailed' /\ Chained'
  BY <1>1, <1>2, <1>7, <1>8, TailedKept, ChainedEmpty DEF Entering
<1>10. ASSUME NEW e \in Entries, value'[e] # Null PROVE value[e] # Null /\ number[e] \in InUse'
  <2>1. value[e] # Null /\ number[e] \in InUse
    BY <1>1, <1>10, NumberedIs DEF Indexed
  <2>2. Num(Start) \in Int
    BY StartFacts
  <2>3. number[e] \in Nat /\ number[e] >= Num(Start) /\ number[e] <= TailNumber + Len(producer.chain)
    BY <2>1, LiveNumbers DEF Indexed
  <2>4. number[e] \in Num(Start)..TailNumber'
    BY <2>2, <2>3, <1>5, <1>7
  <2> QED BY <2>1, <2>4 DEF InUse
<1>11. Newest' <= Newest
  BY <1>7, NewestFacts
<1> QED BY <1>1, <1>7, <1>8, <1>9, <1>10, <1>11, IndexCopied

\* An enqueue that needs no block keeps the index.
LEMMA IndexAppend ==
  ASSUME Types, Types', Claims, Indexed, HistNext, AppendToTail
  PROVE  Indexed'
<1>1. PICK count \in Counts : BlocksNeeded(count) = 0 /\ Construct(count, <<>>)
  BY DEF AppendToTail
<1>2. UNCHANGED <<headers, key, value, producer>> /\ producer.pc = "idle" /\ sent' = sent + count
  BY <1>1 DEF AppendToTail, Construct, Producing, blockIndex
<1>3. Needs(count) = 0
  BY <1>1, NeedFacts DEF Claims
<1>4. TailNumber' = TailNumber
  BY <1>2, <1>3, TailMoves, NewestFacts
<1>5. number' = number /\ first' = first
  BY <1>2, NumbersSame
<1> QED BY <1>2, <1>4, <1>5, IndexQuiet

\* No block was to be had.
LEMMA IndexFail ==
  ASSUME Types, Types', Claims, Indexed, HistNext, FailBlock
  PROVE  Indexed'
<1>1. /\ producer.pc = "requisition" /\ GoTo("undo") /\ UNCHANGED <<key, sent>> /\ RewindBlockIndexTail
      /\ value' = [value EXCEPT ![TailEntry(headers[current])] = Null]
  BY DEF FailBlock, Producing, base, stored
<1>2. producer'.pc = "undo" /\ producer'.chain = producer.chain /\ producer'.undone = producer.undone
  BY <1>1, GoToFacts
<1>3. TailNumber' = TailNumber
  BY <1>1, TailSame
<1>4. Rows /\ Tailed /\ Chained /\ Numbered /\ IndexTypes
  BY DEF Indexed, Types
<1>5. /\ (headers[current].tail - 1) % Size(current) = Pos(current, Newest - 1)
      /\ TailEntry(headers[current]) = EntryFor(current, Newest)
      /\ Newest \in Int /\ Newest - 1 \in Int /\ current \in 1..current
  BY <1>4, TailPlaces
<1>6. Newest = TailNumber + Len(producer.chain) + 1 /\ producer.undone = 0 /\ TailNumber \in Int /\ Len(producer.chain) \in Nat
  BY <1>1, NewestFacts DEF Producing
<1>7. value[EntryFor(current, Newest)] = Null
  BY <1>1, <1>4, <1>6 DEF Chained
<1>8. value' = value
  BY <1>1, <1>5, <1>7, EntryFacts
<1>9. Pos(current, Newest - 1) \in 0..(Size(current) - 1)
  BY <1>4, <1>5, PosFacts
<1>10. headers' = [headers EXCEPT ![current].tail = Pos(current, Newest - 1)]
  BY <1>1, <1>5 DEF RewindBlockIndexTail, Size
<1>11. current' = current /\ Kept /\ headers'[current].tail = Pos(current, Newest - 1)
  BY <1>4, <1>9, <1>10, TailStored
<1>12. number' = number
  BY <1>1, NumbersSame
<1>13. first' = first
  <2>1. first' = IF Len(headers') > current THEN Append(first, Newest - Size(current) + 1) ELSE first
    BY DEF HistNext
  <2>2. Len(headers') = current /\ current \in Nat
    BY <1>5, <1>11 DEF current
  <2> QED BY <2>1, <2>2
<1>14. Newest' = Newest - 1
  <2>1. producer'.pc # "requisition" /\ Len(producer'.chain) = Len(producer.chain)
    BY <1>2
  <2> QED BY <2>1, <1>1, <1>2, <1>3, <1>6, NewestNext
<1>15. Tailed'
  <2> DEFINE q == Newest - 1
  <2>1. q \in Int /\ Newest' = q /\ headers'[current].tail = Pos(current, q)
    BY <1>5, <1>11, <1>14
  <2> HIDE DEF q
  <2> QED BY <2>1, <1>4, <1>11, <1>13, TailedIs
<1>16. Chained'
  <2>1. producer'.undone >= producer.undone /\ producer'.pc \notin Entering
    BY <1>2, <1>6, NextFacts DEF Entering
  <2> QED BY <2>1, <1>2, <1>3, <1>8, <1>11, <1>12, <1>13, ChainedKept
<1>17. \A e \in Entries : value'[e] # Null => value[e] # Null /\ number[e] \in InUse'
  BY <1>2, <1>3, <1>4, <1>8, NumberedIs DEF InUse
<1>18. TailNumber' >= TailNumber /\ Newest' <= Newest
  BY <1>3, <1>5, <1>6, <1>14
<1> QED BY <1>1, <1>11, <1>12, <1>13, <1>15, <1>16, <1>17, <1>18, IndexCopied

\* A block of the chain leaves the index.
LEMMA IndexUndo ==
  ASSUME Types, Types', Claims, Indexed, HistNext, UndoBlock
  PROVE  Indexed'
<1> DEFINE q == TailNumber + producer.undone + 1
           x == Placed(Plus(Base(Minus(tailIndex, 1)), BLOCK_SIZE * (producer.undone + 1)))
<1>1. /\ producer.pc = "undo" /\ producer.undone < Len(producer.chain) /\ RewindBlockIndexTail
      /\ value' = [value EXCEPT ![x] = Null] /\ UNCHANGED <<key, sent>>
  BY DEF UndoBlock, Producing, base, stored
<1>2. /\ x = EntryFor(current, q) /\ q \in Nat /\ q > TailNumber
      /\ EntryFor(current, q) \in Entries /\ number[EntryFor(current, q)] = q
  BY <1>1, UndoFacts DEF Producing
<1>3. producer'.pc = "undo" /\ producer'.chain = producer.chain /\ producer'.undone = producer.undone + 1
  BY ProducerRecord DEF UndoBlock
<1>4. TailNumber' = TailNumber
  BY <1>1, TailSame
<1>5. Rows /\ Tailed /\ Chained /\ Numbered /\ IndexTypes
  BY DEF Indexed, Types
<1>6. /\ (headers[current].tail - 1) % Size(current) = Pos(current, Newest - 1)
      /\ Newest \in Int /\ Newest - 1 \in Int /\ current \in 1..current
  BY <1>5, TailPlaces
<1>7. /\ Newest = TailNumber + Len(producer.chain) - producer.undone /\ producer.undone \in Nat /\ TailNumber \in Int
      /\ Len(producer.chain) \in Nat
  BY <1>1, NewestFacts DEF Producing
<1>8. Pos(current, Newest - 1) \in 0..(Size(current) - 1)
  BY <1>5, <1>6, PosFacts
<1>9. headers' = [headers EXCEPT ![current].tail = Pos(current, Newest - 1)]
  BY <1>1, <1>6 DEF RewindBlockIndexTail, Size
<1>10. current' = current /\ Kept /\ headers'[current].tail = Pos(current, Newest - 1)
  BY <1>5, <1>8, <1>9, TailStored
<1>11. number' = number
  BY <1>1, NumbersSame
<1>12. first' = first
  <2>1. first' = IF Len(headers') > current THEN Append(first, Newest - Size(current) + 1) ELSE first
    BY DEF HistNext
  <2>2. Len(headers') = current /\ current \in Nat
    BY <1>6, <1>10 DEF current
  <2> QED BY <2>1, <2>2
<1>13. Newest' = Newest - 1
  <2>1. producer'.pc # "requisition" /\ Len(producer'.chain) = Len(producer.chain)
    BY <1>3
  <2> QED BY <2>1, <1>3, <1>4, <1>7, NewestNext
<1>14. Tailed'
  <2> DEFINE n == Newest - 1
  <2>1. n \in Int /\ Newest' = n /\ headers'[current].tail = Pos(current, n)
    BY <1>6, <1>10, <1>13
  <2> HIDE DEF n
  <2> QED BY <2>1, <1>5, <1>10, <1>12, TailedIs
<1>15. value' = [value EXCEPT ![EntryFor(current, q)] = Null]
  BY <1>1, <1>2
<1> HIDE DEF q, x
<1>16. Chained'
  <2>1. producer'.undone >= producer.undone /\ producer'.pc \notin Entering
    BY <1>3, <1>7 DEF Entering
  <2>2. ASSUME NEW j \in 1..Len(producer.chain), j > producer'.undone
        PROVE  value'[EntryFor(current, TailNumber + j)] = value[EntryFor(current, TailNumber + j)]
    <3>1. number[EntryFor(current, TailNumber + j)] = TailNumber + j
      BY <1>5 DEF Chained
    <3>2. TailNumber + j # q /\ TailNumber + j \in Int
      BY <2>2, <1>3, <1>7 DEF q
    <3>3. EntryFor(current, TailNumber + j) # EntryFor(current, q) /\ EntryFor(current, TailNumber + j) \in Entries
      BY <3>1, <3>2, <1>2, <1>5, <1>6, PosFacts
    <3> QED BY <3>3, <1>15, EntryFacts
  <2> QED BY <2>1, <2>2, <1>3, <1>4, <1>10, <1>11, <1>12, ChainedKept
<1>17. ASSUME NEW e \in Entries, value'[e] # Null PROVE value[e] # Null /\ number[e] \in InUse'
  <2>1. e # EntryFor(current, q)
    BY <1>2, <1>15, <1>17, EntryFacts
  <2>2. value[e] # Null
    BY <2>1, <1>15, <1>17, EntryFacts
  <2>3. number[e] \in InUse /\ number[e] # -1 /\ number[e] \in Int
    BY <2>2, <1>5, NumberedIs, LiveNumbers
  <2>4. number[e] # q
    BY <2>1, <2>3, <1>2, <1>5, OneEntry
  <2>5. Num(Start) \in Int
    BY StartFacts
  <2>6. number[e] \in Num(Start)..TailNumber
          \cup (TailNumber + (producer.undone + 1) + 1)..(TailNumber + Len(producer.chain))
    BY <2>3, <2>4, <2>5, <1>7 DEF InUse, q
  <2> QED BY <2>2, <2>6, <1>3, <1>4 DEF InUse
<1>18. TailNumber' >= TailNumber /\ Newest' <= Newest
  BY <1>4, <1>6, <1>7, <1>13
<1> QED BY <1>1, <1>10, <1>11, <1>12, <1>14, <1>16, <1>17, <1>18, IndexCopied

\* The enqueue has failed; its blocks have left the index.
LEMMA IndexFreed ==
  ASSUME Types, Types', Claims, Indexed, HistNext, FreeChain
  PROVE  Indexed'
<1>1. /\ producer.pc = "undo" /\ producer.undone = Len(producer.chain) /\ producer' = NoEnqueue
      /\ UNCHANGED <<headers, key, value, sent>>
  BY DEF FreeChain, Producing, blockIndex
<1>2. producer'.pc = "idle" /\ producer'.chain = <<>> /\ producer'.undone = 0 /\ Len(producer'.chain) = 0
  BY <1>1 DEF NoEnqueue
<1>3. TailNumber' = TailNumber
  BY <1>1, TailSame
<1>4. /\ Newest = TailNumber + Len(producer.chain) - producer.undone /\ producer.undone \in Nat /\ TailNumber \in Int
      /\ Len(producer.chain) \in Nat
  BY <1>1, NewestFacts DEF Producing
<1>5. Newest' = Newest /\ Newest = TailNumber
  BY <1>1, <1>2, <1>3, <1>4, NewestNext
<1>6. number' = number /\ first' = first /\ Kept /\ current' = current
  BY <1>1, NumbersSame, HeadersSame
<1>7. Tailed' /\ Chained'
  BY <1>1, <1>2, <1>5, <1>6, TailedKept, ChainedEmpty DEF Entering
<1>8. ASSUME NEW e \in Entries, value'[e] # Null PROVE value[e] # Null /\ number[e] \in InUse'
  <2>1. value[e] # Null /\ number[e] \in InUse
    BY <1>1, <1>8, NumberedIs DEF Indexed
  <2>2. number[e] \in Num(Start)..TailNumber'
    <3>1. (TailNumber + producer.undone + 1)..(TailNumber + Len(producer.chain)) = {}
      BY <1>1, <1>4
    <3> QED BY <2>1, <3>1, <1>3 DEF InUse
  <2> QED BY <2>1, <2>2 DEF InUse
<1>9. TailNumber' >= TailNumber /\ Newest' <= Newest
  BY <1>3, <1>4, <1>5
<1> QED BY <1>1, <1>6, <1>7, <1>8, <1>9, IndexCopied

\* A consumer only takes a block out of the index.
LEMMA IndexConsume ==
  ASSUME Types, Types', Claims, Found, HistNext, NEW c \in Consumers, Consume(c)
  PROVE  Indexed'
<1>0. Indexed /\ Rows /\ Tailed /\ Chained /\ Numbered
  BY DEF Found, Indexed
<1>1. UNCHANGED <<producer, key, headers, sent>>
  BY ConsumerKeeps
<1>2. TailNumber' = TailNumber /\ first' = first
  BY <1>1, TailSame, NumbersSame
<1>3. number' = number
  BY <1>1, NumbersSame
<1>4. CASE value' = value
  BY <1>0, <1>1, <1>2, <1>3, <1>4, IndexQuiet
<1>5. CASE ClearEntry(c)
  <2> DEFINE q == Num(place[c] - 1)
             e == EntryFor(current, q)
  <2>1. At(c, "clear") /\ Held(c, q) /\ q \in Int
    BY <1>5, HeldNext DEF ClearEntry
  <2>2. /\ q \in Num(Start)..TailNumber /\ Standing(q)
        /\ EntryFor(call[c].header, q) = EntryFor(current, q) /\ EntryFor(current, q) \in Entries
    BY <2>1, HeldStands DEF At
  <2>3. EntryOf(c) = EntryFor(current, q)
    <3>1. call[c].pos = Pos(call[c].header, q)
      BY <2>1 DEF Found, Looking, At
    <3> QED BY <3>1, <2>2 DEF EntryOf, EntryFor
  <2>4. value' = [value EXCEPT ![e] = Null] /\ number[e] = q /\ e \in Entries
    BY <1>5, <2>2, <2>3 DEF ClearEntry, Standing
  <2>5. q <= TailNumber /\ TailNumber \in Int /\ Len(producer.chain) \in Nat /\ producer.undone \in Nat
    BY <2>1, <2>2, NewestFacts, StartFacts
  <2> HIDE DEF q, e
  <2>6. Kept /\ current' = current
    BY <1>1, HeadersSame
  <2>7. Newest' = Newest
    BY <1>1, <1>2, NewestNext
  <2>8. Tailed'
    BY <1>0, <1>1, <1>2, <2>7, TailedKept
  <2>9. ASSUME NEW f \in Entries, value'[f] # Null
        PROVE  value[f] # Null /\ number[f] \in InUse'
    <3>1. value[f] # Null
      BY <2>4, <2>9, EntryFacts
    <3> QED BY <3>1, <1>0, <1>1, <1>2, NumberedIs DEF InUse
  <2>10. Chained'
    <3>1. ASSUME NEW j \in Int, j >= 1, number[EntryFor(current, TailNumber + j)] = TailNumber + j
          PROVE  value'[EntryFor(current, TailNumber + j)] = value[EntryFor(current, TailNumber + j)]
      <4>1. TailNumber + j # number[e] /\ TailNumber + j \in Int
        BY <2>1, <2>4, <2>5, <3>1 DEF q
      <4>2. EntryFor(current, TailNumber + j) # e /\ EntryFor(current, TailNumber + j) \in Entries
        BY <4>1, <3>1, <1>0, TailPlaces, PosFacts
      <4> QED BY <4>2, <2>4, EntryFacts
    <3>2. ASSUME NEW j \in 1..Len(producer.chain)
          PROVE  value'[EntryFor(current, TailNumber + j)] = value[EntryFor(current, TailNumber + j)]
      BY <3>1, <1>0 DEF Chained
    <3>3. ASSUME producer'.pc \in Entering
          PROVE  value'[EntryFor(current, TailNumber + Len(producer.chain) + 1)] = Null
      <4> DEFINE j == Len(producer.chain) + 1
      <4>1. j \in Int /\ j >= 1 /\ TailNumber + Len(producer.chain) + 1 = TailNumber + j
        BY <2>5
      <4>2. number[EntryFor(current, TailNumber + j)] = TailNumber + j /\ value[EntryFor(current, TailNumber + j)] = Null
        BY <4>1, <3>3, <1>0, <1>1 DEF Chained, Entering
      <4> HIDE DEF j
      <4> QED BY <4>1, <4>2, <3>1
    <3>4. producer'.undone >= producer.undone
      BY <1>1, <2>5
    <3> QED BY <3>2, <3>3, <3>4, <1>0, <1>1, <1>2, <1>3, <2>6, ChainedKept
  <2>11. TailNumber' >= TailNumber /\ Newest' <= Newest
    BY <1>2, <2>5, <2>7, NewestFacts
  <2> QED BY <1>0, <1>1, <1>2, <1>3, <2>6, <2>8, <2>9, <2>10, <2>11, IndexCopied
<1>6. value' = value \/ ClearEntry(c)
  BY DEF Consume, dequeue_bulk, LoadHeader, LoadTail, LoadKey, Fetch, SetManyEmpty, FreeBlock, blockIndex
<1> QED BY <1>4, <1>5, <1>6

\* The next entry is the new block's.
LEMMA IndexInsert ==
  ASSUME Types, Types', Claims, Indexed, HistNext, InsertBlockIndexEntry
  PROVE  Indexed'
<1> DEFINE q == Newest + 1
           e == EntryFor(current, q)
<1>0. Rows /\ Tailed /\ Numbered /\ Spread /\ Reached /\ Chained
  BY DEF Indexed
<1>1. /\ Producing("insert") /\ producer.pc = "insert" /\ Reusable(NextEntry(headers[current])) /\ GoTo("advance")
      /\ key' = [key EXCEPT ![NextEntry(headers[current])] = NewBase] /\ UNCHANGED <<value, headers, sent>>
  BY DEF InsertBlockIndexEntry, Producing, base, stored
<1>2. /\ e \in Entries /\ value[e] = Null /\ q <= TailNumber + Size(current) /\ q \in Nat
      /\ q = TailNumber + Len(producer.chain) + 1
      /\ \A f \in Entries : value[f] # Null => q < number[f] + Size(current)
  BY <1>1, InsertFacts
<1>3. NextEntry(headers[current]) = e /\ current \in 1..current
  BY <1>0, TailPlaces
<1>4. producer'.pc = "advance" /\ producer'.chain = producer.chain /\ producer'.undone = producer.undone
  BY <1>1, GoToFacts
<1>5. key' = [key EXCEPT ![e] = From(q) % W]
  <2>1. NewBase = From(TailNumber + Len(producer.chain) + 1) % W
    BY NewBaseIs DEF Claims
  <2> QED BY <2>1, <1>1, <1>2, <1>3
<1>6. number' = [number EXCEPT ![e] = q]
  BY <1>1, <1>3, <1>4 DEF HistNext
<1>7. TailNumber' = TailNumber /\ Newest' = Newest
  <2>1. TailNumber' = TailNumber
    BY <1>1, TailSame
  <2> QED BY <2>1, <1>1, <1>4, NewestNext
<1>8. first' = first /\ Kept /\ current' = current
  BY <1>1, NumbersSame, HeadersSame
<1>9. /\ Rows' /\ Size(current)' = Size(current)
      /\ \A p \in Int : EntryFor(current, p)' = EntryFor(current, p)
  BY <1>0, <1>8, RowsKept
<1>10. Tailed'
  BY <1>1, <1>7, <1>8, TailedKept
<1>11. /\ TailNumber \in Int /\ Newest \in Int /\ producer.undone = 0 /\ Len(producer.chain) \in Nat
       /\ Newest = TailNumber + Len(producer.chain) /\ producer.chain \in Seq(Blocks)
  BY <1>1, NewestFacts DEF Producing
<1>12. /\ \A f \in Entries : number[f] \in Int /\ key[f] \in Indexes
       /\ number \in [Entries -> Int] /\ key \in [Entries -> Indexes] /\ Null \notin Blocks
  BY EntryFacts
<1>13. Size(current) \in Nat
  BY <1>0, <1>3, FirstFacts
<1>e. q \in Int /\ EntryFor(current, q) = e /\ q >= -1 /\ q # -1 /\ q = Newest + 1
  BY <1>2
<1> HIDE DEF q, e
<1>14. \A f \in Entries : /\ f # e => number'[f] = number[f] /\ key'[f] = key[f]
                          /\ f = e => number'[f] = q /\ key'[f] = From(q) % W
  BY <1>2, <1>5, <1>6, <1>12
<1>15. Numbered'
  <2> SUFFICES ASSUME NEW f \in Entries
               PROVE  /\ number'[f] >= -1 /\ number'[f] <= TailNumber' + Size(current)'
                      /\ key'[f] = IF number'[f] = -1 THEN INVALID_BLOCK_BASE ELSE From(number'[f]) % W
                      /\ number'[f] # -1 => EntryFor(current, number[f])' = f
                      /\ value'[f] # Null => number'[f] \in InUse'
    BY DEF Numbered, InUse
  <2>1. \A p \in Int : p = number'[f] => EntryFor(current, number[f])' = EntryFor(current, p)
    <3>1. \A p \in Int : p = number'[f] => EntryFor(current, number[f])' = EntryFor(current, p)'
      BY DEF EntryFor, Pos
    <3> QED BY <3>1, <1>9
  <2>2. CASE f = e
    BY <2>1, <2>2, <1>1, <1>2, <1>7, <1>9, <1>14, <1>e
  <2>3. CASE f # e
    BY <2>1, <2>3, <1>0, <1>1, <1>4, <1>7, <1>9, <1>12, <1>14, NumberedIs DEF InUse
  <2> QED BY <2>2, <2>3
<1>16. Spread'
  <2> SUFFICES ASSUME NEW g \in Entries, NEW f \in Entries, value'[g] # Null
               PROVE  number'[f] < number'[g] + Size(current)'
    BY DEF Spread
  <2>1. g # e /\ value[g] # Null
    BY <1>1, <1>2
  <2>2. number'[g] = number[g]
    BY <2>1, <1>14
  <2>3. number'[f] < number[g] + Size(current)
    BY <2>1, <1>0, <1>2, <1>14 DEF Spread
  <2> QED BY <2>2, <2>3, <1>9
<1>17. Reached'
  <2> SUFFICES ASSUME NEW p \in Int, NEW g \in Entries, value'[g] # Null, number'[g] <= p, p <= Newest'
               PROVE  number'[EntryFor(current, p)'] >= p
    BY DEF Reached
  <2>1. g # e /\ value[g] # Null
    BY <1>1, <1>2
  <2>2. number[g] <= p /\ p <= Newest
    BY <2>1, <1>7, <1>14
  <2>3. number[EntryFor(current, p)] >= p /\ EntryFor(current, p) \in Entries
    BY <2>1, <2>2, <1>0, <1>3, ReachedAt, PosFacts
  <2>4. number'[EntryFor(current, p)] >= p
    BY <2>2, <2>3, <1>11, <1>14, <1>e
  <2> QED BY <2>4, <1>9
<1>18. Chained'
  <2>1. ASSUME NEW j \in 1..Len(producer'.chain)
        PROVE  /\ number'[EntryFor(current, TailNumber + j)'] = TailNumber' + j
               /\ j > producer'.undone => value'[EntryFor(current, TailNumber + j)'] = producer'.chain[j]
    <3>1. j \in 1..Len(producer.chain) /\ TailNumber + j \in Int /\ j > producer.undone
      BY <1>4, <1>11
    <3>2. EntryFor(current, TailNumber + j)' = EntryFor(current, TailNumber + j)
      <4>1. \A p \in Int : p = TailNumber' + j => EntryFor(current, TailNumber + j)' = EntryFor(current, p)'
        BY DEF EntryFor, Pos
      <4> QED BY <4>1, <3>1, <1>7, <1>9
    <3>3. /\ number[EntryFor(current, TailNumber + j)] = TailNumber + j
          /\ value[EntryFor(current, TailNumber + j)] = producer.chain[j]
          /\ EntryFor(current, TailNumber + j) \in Entries
      BY <3>1, <1>0, <1>3, PosFacts DEF Chained
    <3>4. producer.chain[j] # Null
      BY <3>1, <1>11, <1>12, ElementOfSeq
    <3>5. EntryFor(current, TailNumber + j) # e
      BY <3>3, <3>4, <1>2
    <3> QED BY <3>2, <3>3, <3>5, <1>1, <1>4, <1>7, <1>14
  <2>2. /\ number'[EntryFor(current, TailNumber + Len(producer.chain) + 1)'] = TailNumber' + Len(producer'.chain) + 1
        /\ value'[EntryFor(current, TailNumber + Len(producer.chain) + 1)'] = Null
    <3>1. EntryFor(current, TailNumber + Len(producer.chain) + 1)' = e
      <4>1. \A p \in Int : p = TailNumber' + Len(producer'.chain) + 1
              => EntryFor(current, TailNumber + Len(producer.chain) + 1)' = EntryFor(current, p)'
        BY DEF EntryFor, Pos
      <4>2. q = TailNumber' + Len(producer'.chain) + 1
        BY <1>2, <1>4, <1>7
      <4> QED BY <4>1, <4>2, <1>9, <1>e
    <3>2. q = TailNumber' + Len(producer'.chain) + 1
      BY <1>2, <1>4, <1>7
    <3> QED BY <3>1, <3>2, <1>1, <1>2, <1>14
  <2> QED BY <2>1, <2>2 DEF Chained
<1> QED BY <1>9, <1>10, <1>15, <1>16, <1>17, <1>18 DEF Indexed

\* The tail moves on to the entry of the new block.
LEMMA IndexAdvance ==
  ASSUME Types, Types', Claims, Indexed, HistNext, AdvanceIndexTail
  PROVE  Indexed'
<1>0. Rows /\ Tailed /\ Numbered /\ Chained /\ IndexTypes
  BY DEF Indexed, Types
<1>1. /\ producer.pc = "advance" /\ GoTo("requisition") /\ UNCHANGED <<key, value, sent>>
      /\ headers' = [headers EXCEPT ![current].tail = NextTail(headers[current])]
  BY DEF AdvanceIndexTail, Producing, base, stored
<1>2. producer'.pc = "requisition" /\ producer'.chain = producer.chain /\ producer'.undone = producer.undone
  BY <1>1, GoToFacts
<1>3. TailNumber' = TailNumber /\ number' = number
  BY <1>1, TailSame, NumbersSame
<1>4. /\ NextTail(headers[current]) = Pos(current, Newest + 1)
      /\ Newest \in Int /\ Newest + 1 \in Int /\ current \in 1..current
  BY <1>0, TailPlaces
<1>5. Newest = TailNumber + Len(producer.chain) /\ producer.undone = 0 /\ TailNumber \in Int /\ Len(producer.chain) \in Nat
  BY <1>1, NewestFacts DEF Producing
<1>6. Pos(current, Newest + 1) \in 0..(Size(current) - 1)
  BY <1>0, <1>4, PosFacts
<1>7. current' = current /\ Kept /\ headers'[current].tail = Pos(current, Newest + 1)
  BY <1>0, <1>1, <1>4, <1>6, TailStored
<1>8. first' = first
  <2>1. first' = IF Len(headers') > current THEN Append(first, Newest - Size(current) + 1) ELSE first
    BY DEF HistNext
  <2>2. Len(headers') = current /\ current \in Nat
    BY <1>4, <1>7 DEF current
  <2> QED BY <2>1, <2>2
<1>9. Newest' = Newest + 1
  BY <1>1, <1>2, <1>3, <1>5, NewestNext
<1>10. Tailed'
  <2> DEFINE q == Newest + 1
  <2>1. q \in Int /\ Newest' = q /\ headers'[current].tail = Pos(current, q)
    BY <1>4, <1>7, <1>9
  <2> HIDE DEF q
  <2> QED BY <2>1, <1>0, <1>7, <1>8, TailedIs
<1>11. Chained'
  <2>1. value[EntryFor(current, TailNumber + Len(producer.chain) + 1)] = Null
    BY <1>0, <1>1 DEF Chained
  <2>2. producer'.undone >= producer.undone
    BY <1>2, <1>5
  <2> QED BY <2>1, <2>2, <1>1, <1>2, <1>3, <1>7, <1>8, ChainedKept DEF Entering
<1>12. number[EntryFor(current, Newest + 1)] = Newest + 1
  <2>1. Newest + 1 = TailNumber + Len(producer.chain) + 1
    BY <1>5
  <2>2. number[EntryFor(current, TailNumber + Len(producer.chain) + 1)] = TailNumber + Len(producer.chain) + 1
    BY <1>0, <1>1 DEF Chained
  <2> QED BY <2>1, <2>2
<1>13. \A e \in Entries : value'[e] # Null => value[e] # Null /\ number[e] \in InUse'
  BY <1>0, <1>1, <1>2, <1>3, NumberedIs DEF InUse
<1>14. TailNumber' >= TailNumber
  BY <1>3, <1>5
<1> QED BY <1>1, <1>3, <1>7, <1>8, <1>9, <1>10, <1>11, <1>12, <1>13, <1>14, IndexCopied

\* What a new block does to the index.
LEMMA EnterFacts ==
  ASSUME Types, Indexed, Producing("requisition"), NEW b \in free, EnterBlock(b),
         UNCHANGED <<sent, headers>>, HistNext
  PROVE  LET q == TailNumber + Len(producer.chain) + 1
             e == EntryFor(current, q)
         IN /\ q \in Int /\ e \in Entries /\ number[e] = q /\ value[e] = Null
            /\ value' = [value EXCEPT ![e] = b] /\ b \in Blocks
            /\ q = Newest /\ Newest' = Newest /\ TailNumber' = TailNumber /\ producer.undone = 0
            /\ number' = number /\ first' = first /\ Kept /\ current' = current
            /\ producer'.pc \notin Entering
<1>1. producer.pc = "requisition" /\ Rows /\ Tailed /\ Chained
  BY DEF Producing, Indexed
<1>2. /\ Newest = TailNumber + Len(producer.chain) + 1 /\ Newest \in Int /\ producer.undone = 0
      /\ TailNumber \in Int /\ Len(producer.chain) \in Nat
  BY <1>1, NewestFacts DEF Producing
<1>3. TailEntry(headers[current]) = EntryFor(current, Newest) /\ current \in 1..current
  BY <1>1, TailPlaces
<1>4. EntryFor(current, Newest) \in Entries
  BY <1>1, <1>2, <1>3, PosFacts
<1>5. value' = [value EXCEPT ![EntryFor(current, Newest)] = b]
  BY <1>3 DEF EnterBlock
<1>6. number[EntryFor(current, Newest)] = Newest /\ value[EntryFor(current, Newest)] = Null
  BY <1>1, <1>2 DEF Chained
<1>7. b \in Blocks
  BY DEF Types, StoreTypes
<1>8. /\ producer'.undone = producer.undone /\ Len(producer'.chain) = Len(producer.chain) + 1
      /\ producer'.pc \in {"room", "publish"}
  BY ChainRecord
<1>9. TailNumber' = TailNumber
  BY TailSame
<1>10. Newest' = Newest
  <2>1. producer'.pc # "requisition"
    BY <1>8
  <2> QED BY <2>1, <1>1, <1>2, <1>8, <1>9, NewestNext
<1>11. number' = number /\ first' = first /\ Kept /\ current' = current
  BY <1>1, NumbersSame, HeadersSame
<1> QED BY <1>2, <1>4, <1>5, <1>6, <1>7, <1>8, <1>9, <1>10, <1>11 DEF Entering

\* A block enters the entry that waits for it.
LEMMA IndexRequisition ==
  ASSUME Types, Types', Claims, Indexed, HistNext, RequisitionBlock
  PROVE  Indexed'
<1> DEFINE q == TailNumber + Len(producer.chain) + 1
           e == EntryFor(current, q)
<1>0. Rows /\ Tailed /\ Numbered /\ Spread /\ Reached /\ Chained
  BY DEF Indexed
<1>1. Producing("requisition") /\ UNCHANGED <<key, headers, sent>>
  BY DEF RequisitionBlock
<1>2. PICK b \in free : EnterBlock(b)
  BY DEF RequisitionBlock
<1>3. /\ q \in Int /\ e \in Entries /\ number[e] = q /\ value[e] = Null
      /\ value' = [value EXCEPT ![e] = b] /\ b \in Blocks
      /\ q = Newest /\ Newest' = Newest /\ TailNumber' = TailNumber /\ producer.undone = 0
      /\ number' = number /\ first' = first /\ Kept /\ current' = current
      /\ producer'.pc \notin Entering
  BY <1>1, <1>2, EnterFacts
<1>4. /\ producer'.undone = producer.undone /\ Len(producer'.chain) = Len(producer.chain) + 1
      /\ \A j \in 1..Len(producer.chain) : producer'.chain[j] = producer.chain[j]
      /\ producer'.chain[Len(producer.chain) + 1] = b
  BY <1>2, ChainRecord
<1>5. /\ Rows' /\ Size(current)' = Size(current)
      /\ \A p \in Int : EntryFor(current, p)' = EntryFor(current, p)
  BY <1>0, <1>3, RowsKept
<1>6. Tailed'
  BY <1>1, <1>3, TailedKept
<1>7. TailNumber \in Int /\ Len(producer.chain) \in Nat /\ Newest \in Int /\ TailNumber <= Newest
  BY NewestFacts
<1>8. /\ \A f \in Entries : number[f] \in Int
      /\ value \in [Entries -> Blocks \cup {Null}]
  BY EntryFacts
<1>9. Size(current) \in Nat /\ current \in 1..current
  BY <1>0, TailPlaces, FirstFacts
<1>q. q = TailNumber + Len(producer.chain) + 1 /\ e = EntryFor(current, q)
  OBVIOUS
<1> HIDE DEF q, e
<1>10. \A f \in Entries : /\ f # e => value'[f] = value[f]
                          /\ f = e => value'[f] = b
  BY <1>3, <1>8
<1>11. Numbered'
  <2> SUFFICES ASSUME NEW f \in Entries
               PROVE  /\ number'[f] >= -1 /\ number'[f] <= TailNumber' + Size(current)'
                      /\ key'[f] = IF number'[f] = -1 THEN INVALID_BLOCK_BASE ELSE From(number'[f]) % W
                      /\ number'[f] # -1 => EntryFor(current, number[f])' = f
                      /\ value'[f] # Null => number'[f] \in InUse'
    BY DEF Numbered, InUse
  <2>1. \A p \in Int : p = number'[f] => EntryFor(current, number[f])' = EntryFor(current, p)
    <3>1. \A p \in Int : p = number'[f] => EntryFor(current, number[f])' = EntryFor(current, p)'
      BY DEF EntryFor, Pos
    <3> QED BY <3>1, <1>5
  <2>2. /\ number[f] >= -1 /\ number[f] <= TailNumber + Size(current)
        /\ key[f] = IF number[f] = -1 THEN INVALID_BLOCK_BASE ELSE From(number[f]) % W
        /\ number[f] # -1 => EntryFor(current, number[f]) = f
        /\ value[f] # Null => number[f] \in InUse
    BY <1>0, NumberedIs
  <2>3. value'[f] # Null => number'[f] \in InUse'
    <3>1. InUse' = Num(Start)..TailNumber \cup (TailNumber + 1)..q
      BY <1>3, <1>4, <1>7, <1>q DEF InUse
    <3>2. InUse = Num(Start)..TailNumber \cup (TailNumber + 1)..(TailNumber + Len(producer.chain))
      BY <1>3, <1>7 DEF InUse
    <3>3. CASE f = e
      BY <3>1, <3>3, <1>3, <1>7, <1>q
    <3>4. CASE f # e
      <4>1. value'[f] # Null => number[f] \in InUse
        BY <3>4, <2>2, <1>10
      <4> QED BY <4>1, <3>1, <3>2, <1>3, <1>7, <1>q
    <3> QED BY <3>3, <3>4
  <2> QED BY <2>1, <2>2, <2>3, <1>1, <1>3, <1>5, <1>8
<1>12. Spread'
  <2> SUFFICES ASSUME NEW g \in Entries, NEW f \in Entries, value'[g] # Null
               PROVE  number'[f] < number'[g] + Size(current)'
    BY DEF Spread
  <2>1. CASE g = e
    <3>1. number[f] <= TailNumber + Size(current)
      BY <1>0 DEF Numbered
    <3>2. q > TailNumber
      BY <1>7, <1>q
    <3> QED BY <2>1, <3>1, <3>2, <1>3, <1>5, <1>7, <1>8, <1>9
  <2>2. CASE g # e
    BY <2>2, <1>0, <1>3, <1>5, <1>10 DEF Spread
  <2> QED BY <2>1, <2>2
<1>13. Reached'
  <2> SUFFICES ASSUME NEW p \in Int, NEW g \in Entries, value'[g] # Null, number'[g] <= p, p <= Newest'
               PROVE  number'[EntryFor(current, p)'] >= p
    BY DEF Reached
  <2>1. number[EntryFor(current, p)] >= p
    <3>1. CASE g = e
      <4>1. p = q
        BY <3>1, <1>3
      <4> QED BY <4>1, <1>3, <1>q
    <3>2. CASE g # e
      BY <3>2, <1>0, <1>3, <1>10, ReachedAt
    <3> QED BY <3>1, <3>2
  <2> QED BY <2>1, <1>3, <1>5
<1>14. Chained'
  <2>1. ASSUME NEW j \in 1..Len(producer'.chain)
        PROVE  /\ number'[EntryFor(current, TailNumber + j)'] = TailNumber' + j
               /\ j > producer'.undone => value'[EntryFor(current, TailNumber + j)'] = producer'.chain[j]
    <3>1. TailNumber + j \in Int /\ j \in 1..(Len(producer.chain) + 1)
      BY <1>4, <1>7
    <3>2. EntryFor(current, TailNumber + j)' = EntryFor(current, TailNumber + j)
      <4>1. \A p \in Int : p = TailNumber' + j => EntryFor(current, TailNumber + j)' = EntryFor(current, p)'
        BY DEF EntryFor, Pos
      <4> QED BY <4>1, <3>1, <1>3, <1>5
    <3>3. CASE j = Len(producer.chain) + 1
      <4>1. TailNumber + j = q
        BY <3>3, <1>7, <1>q
      <4> QED BY <4>1, <3>2, <3>3, <1>3, <1>4, <1>10, <1>q
    <3>4. CASE j \in 1..Len(producer.chain)
      <4>1. /\ number[EntryFor(current, TailNumber + j)] = TailNumber + j
            /\ j > producer.undone => value[EntryFor(current, TailNumber + j)] = producer.chain[j]
            /\ EntryFor(current, TailNumber + j) \in Entries
        BY <3>1, <3>4, <1>0, <1>9, PosFacts DEF Chained
      <4>2. TailNumber + j # q
        BY <3>4, <1>7, <1>q
      <4>3. EntryFor(current, TailNumber + j) # e
        BY <4>1, <4>2, <1>3
      <4> QED BY <4>1, <4>3, <3>2, <3>4, <1>3, <1>4, <1>10
    <3> QED BY <3>1, <3>3, <3>4, <1>7
  <2> QED BY <2>1, <1>3 DEF Chained, Entering
<1> QED BY <1>5, <1>6, <1>11, <1>12, <1>13, <1>14 DEF Indexed

\* The larger index: the old entries from the oldest block on, then new ones.
LEMMA GrownFacts ==
  ASSUME Types, Types', Indexed, HistNext, Producing("insert"), ~Reusable(NextEntry(headers[current])),
         AllocateIndex(headers[current]),
         NEW s, s = Size(current), NEW n, n = current + 1, NEW m, m = Newest, NEW low, low = m - s + 1
  PROVE  /\ current' = n /\ Kept /\ n \in 1..n /\ s \in Nat \ {0} /\ low \in Int
         /\ first' = Append(first, low) /\ Len(first') = n /\ first'[n] = low
         /\ \A h \in 1..current : first'[h] = first[h] /\ headers'[h] = headers[h]
         /\ Size(n)' = 2 * s /\ headers'[n].tail = s - 1
         /\ headers'[n].index \in [0..(2 * s - 1) -> 0..(2 * s - 1)]
         /\ \A i \in 0..(s - 1) : headers'[n].index[i] = EntryFor(current, low + i)
         /\ \A i \in s..(2 * s - 1) : headers'[n].index[i] = i
<1>0. Rows /\ Tailed /\ IndexTypes
  BY DEF Indexed, Types
<1>1. current \in 1..current /\ m \in Int /\ current \in Nat
  BY <1>0, TailPlaces
<1>2. s \in Nat \ {0} /\ headers[current].index \in [0..(s - 1) -> 0..(s - 1)]
  BY <1>0, <1>1, FirstFacts
<1>3. low \in Int
  BY <1>1, <1>2
<1>4. /\ current' = n /\ Kept /\ Capacity(headers'[n]) = 2 * s
      /\ \A h \in 1..current : headers'[h] = headers[h]
      /\ headers'[n] = [tail |-> s - 1, index |-> Rotated(headers[current])]
  BY <1>0, IndexAdded
<1>5. first' = Append(first, low)
  <2>1. first' = IF Len(headers') > current THEN Append(first, Newest - Size(current) + 1) ELSE first
    BY DEF HistNext
  <2>2. Len(headers') = n
    BY <1>4 DEF current
  <2> QED BY <2>1, <2>2, <1>1
<1>6. first \in Seq(Int) /\ Len(first) = current
  BY <1>0 DEF Rows, Types, HistTypes
<1>7. /\ Len(first') = n /\ first'[n] = low
      /\ \A h \in 1..current : first'[h] = first[h]
  BY <1>3, <1>5, <1>6
<1>8. headers'[n].tail = s - 1 /\ headers'[n].index = Rotated(headers[current])
  BY <1>4
<1>9. Size(n)' = 2 * s
  BY <1>4 DEF Size
<1>10. Rotated(headers[current]) = [i \in 0..(2 * s - 1) |->
          IF i < s THEN headers[current].index[(headers[current].tail + 1 + i) % s] ELSE i]
  BY DEF Rotated, Size
<1>11. headers[current].tail = Pos(current, m)
  BY <1>0 DEF Tailed
<1>12. ASSUME NEW i \in 0..(s - 1)
       PROVE  headers[current].index[(headers[current].tail + 1 + i) % s] = EntryFor(current, low + i)
  <2>1. i \in Int /\ 1 + i \in Int /\ low + i \in Int
    BY <1>2, <1>3
  <2>2. Pos(current, m) \in Int
    BY <1>0, <1>1, <1>2, PosFacts
  <2>3. (Pos(current, m) + (1 + i)) % s = Pos(current, m + (1 + i))
    BY <2>1, <1>0, <1>1, PosFacts
  <2>4. Pos(current, (low + i) + s * 1) = Pos(current, low + i)
    BY <2>1, <1>0, <1>1, PosFacts
  <2>5. m + (1 + i) = (low + i) + s * 1
    <3>1. m \in Int /\ s \in Int /\ i \in Int /\ low = m - s + 1
      BY <2>1, <1>1, <1>2
    <3> QED BY <3>1
  <2>6. headers[current].tail + 1 + i = Pos(current, m) + (1 + i)
    BY <2>1, <2>2, <1>11
  <2>7. (headers[current].tail + 1 + i) % s = Pos(current, low + i)
    BY <2>3, <2>4, <2>5, <2>6
  <2> QED BY <2>7 DEF EntryFor
<1>13. ASSUME NEW i \in 0..(s - 1) PROVE EntryFor(current, low + i) \in 0..(s - 1)
  <2>1. low + i \in Int
    BY <1>2, <1>3
  <2> QED BY <2>1, <1>0, <1>1, PosFacts
<1>14. \A i \in 0..(s - 1) : headers'[n].index[i] = EntryFor(current, low + i)
  <2> SUFFICES ASSUME NEW i \in 0..(s - 1) PROVE headers'[n].index[i] = EntryFor(current, low + i)
    OBVIOUS
  <2>1. i \in 0..(2 * s - 1) /\ i < s
    BY <1>2
  <2> QED BY <2>1, <1>8, <1>10, <1>12
<1>15. \A i \in s..(2 * s - 1) : headers'[n].index[i] = i
  <2> SUFFICES ASSUME NEW i \in s..(2 * s - 1) PROVE headers'[n].index[i] = i
    OBVIOUS
  <2>1. i \in 0..(2 * s - 1) /\ ~(i < s)
    BY <1>2, SMTT(40)
  <2> QED BY <2>1, <1>8, <1>10
<1>16. headers'[n].index \in [0..(2 * s - 1) -> 0..(2 * s - 1)]
  <2>1. ASSUME NEW i \in 0..(2 * s - 1)
        PROVE  (IF i < s THEN headers[current].index[(headers[current].tail + 1 + i) % s] ELSE i) \in 0..(2 * s - 1)
    <3>1. CASE i < s
      <4>1. i \in 0..(s - 1)
        BY <3>1, <1>2
      <4>2. EntryFor(current, low + i) \in 0..(s - 1)
        BY <4>1, <1>13
      <4> QED BY <4>1, <4>2, <3>1, <1>2, <1>12
    <3>2. CASE ~(i < s)
      BY <3>2
    <3> QED BY <3>1, <3>2
  <2> QED BY <2>1, <1>8, <1>10
<1>17. n \in 1..n
  BY <1>1
<1> QED BY <1>2, <1>3, <1>4, <1>5, <1>7, <1>8, <1>9, <1>14, <1>15, <1>16, <1>17

\* Where a block is in the larger index.
LEMMA GrownPlaces ==
  ASSUME Types, Types', Indexed, HistNext, Producing("insert"), ~Reusable(NextEntry(headers[current])),
         AllocateIndex(headers[current]),
         NEW s, s = Size(current), NEW n, n = current + 1, NEW m, m = Newest, NEW low, low = m - s + 1
  PROVE  /\ \A q \in Int : EntryFor(n, q)' < s => EntryFor(n, q)' = EntryFor(current, q)
         /\ \A q \in low..m : EntryFor(n, q)' = EntryFor(current, q)
         /\ Pos(n, m)' = s - 1
         /\ \A i, j \in 0..(2 * s - 1) : headers'[n].index[i] = headers'[n].index[j] => i = j
<1> DEFINE index == headers'[n].index
<1>0. Rows
  BY DEF Indexed
<1>1. /\ s \in Nat \ {0} /\ low \in Int /\ first'[n] = low /\ Size(n)' = 2 * s
      /\ \A i \in 0..(s - 1) : index[i] = EntryFor(current, low + i)
      /\ \A i \in s..(2 * s - 1) : index[i] = i
  BY GrownFacts
<1>2. current \in 1..current /\ m \in Int /\ current \in Nat
  BY <1>0, TailPlaces DEF Indexed
<1>3. low + s = m + 1
  BY <1>1, <1>2
<1>4. 2 * s \in Nat \ {0}
  BY <1>1
<1>5. ASSUME NEW q \in Int PROVE Pos(n, q)' = (q - low) % (2 * s)
  <2>1. Pos(n, q)' = (q - first'[n]) % Size(n)'
    BY DEF Pos
  <2> QED BY <2>1, <1>1
<1>6. ASSUME NEW q \in Int PROVE EntryFor(n, q)' = index[(q - low) % (2 * s)]
  <2>1. EntryFor(n, q)' = headers'[n].index[Pos(n, q)']
    BY DEF EntryFor
  <2> QED BY <2>1, <1>5
<1>7. ASSUME NEW q \in Int PROVE EntryFor(n, q)' < s => EntryFor(n, q)' = EntryFor(current, q)
  <2> DEFINE x == q - low
             i == x % (2 * s)
             k == x \div (2 * s)
  <2>1. x \in Int /\ q = low + x
    BY <1>1
  <2>2. i \in 0..(2 * s - 1) /\ k \in Int /\ x = (2 * s) * k + i
    <3> HIDE DEF x
    <3> QED BY <2>1, <1>4, Division
  <2>3. EntryFor(n, q)' = index[i]
    BY <1>6
  <2> HIDE DEF x, i, k
  <2>4. CASE i < s
    <3>1. i \in 0..(s - 1) /\ low + i \in Int /\ 2 * k \in Int
      BY <2>2, <2>4, <1>1
    <3>2. q = (low + i) + s * (2 * k)
      <4>1. (2 * s) * k = s * (2 * k)
        BY <2>2, <1>1
      <4>2. s * (2 * k) \in Int
        BY <2>2, <1>1
      <4> QED BY <4>1, <4>2, <2>1, <2>2, <1>1
    <3>3. Pos(current, (low + i) + s * (2 * k)) = Pos(current, low + i)
      <4> QED BY <3>1, <1>0, <1>2, PosFacts
    <3>4. EntryFor(current, q) = EntryFor(current, low + i)
      BY <3>2, <3>3 DEF EntryFor
    <3> QED BY <3>1, <3>4, <2>3, <1>1
  <2>5. CASE ~(i < s)
    <3>1. i \in s..(2 * s - 1)
      BY <2>2, <2>5, <1>1
    <3>2. index[i] = i
      BY <3>1, <1>1
    <3> QED BY <3>1, <3>2, <2>3, <2>5
  <2> QED BY <2>4, <2>5
<1>8. ASSUME NEW q \in low..m PROVE EntryFor(n, q)' = EntryFor(current, q)
  <2> DEFINE x == q - low
  <2>1. x \in 0..(s - 1) /\ q = low + x /\ q \in Int /\ x \in Int /\ 0 <= x /\ x < 2 * s
    BY <1>1, <1>2, <1>3
  <2>2. x % (2 * s) = x
    <3> HIDE DEF x
    <3> QED BY <2>1, <1>4, ModSmall
  <2>3. EntryFor(n, q)' = index[x]
    BY <2>1, <2>2, <1>6
  <2> HIDE DEF x
  <2> QED BY <2>1, <2>3, <1>1
<1>9. Pos(n, m)' = s - 1
  <2>1. m - low = s - 1 /\ s - 1 \in Int /\ 0 <= s - 1 /\ s - 1 < 2 * s
    BY <1>1, <1>2, <1>3
  <2>2. (s - 1) % (2 * s) = s - 1
    BY <2>1, <1>4, ModSmall
  <2> QED BY <2>1, <2>2, <1>2, <1>5
<1>10. ASSUME NEW i \in 0..(2 * s - 1), NEW j \in 0..(2 * s - 1), index[i] = index[j]
       PROVE  i = j
  <2>1. ASSUME NEW x \in 0..(s - 1) PROVE index[x] \in 0..(s - 1) /\ index[x] = EntryFor(current, low + x) /\ low + x \in Int
    <3>1. low + x \in Int /\ index[x] = EntryFor(current, low + x)
      BY <1>1
    <3> QED BY <3>1, <1>0, <1>2, PosFacts
  <2>2. CASE i < s /\ j < s
    <3>1. i \in 0..(s - 1) /\ j \in 0..(s - 1)
      BY <2>2, <1>1
    <3>2. EntryFor(current, low + i) = EntryFor(current, low + j) /\ low + i \in Int /\ low + j \in Int
      BY <3>1, <2>1, <1>10
    <3>3. low + i < (low + j) + s /\ low + j < (low + i) + s
      BY <3>1, <1>1
    <3>4. low + i = low + j
      <4> QED BY <3>2, <3>3, <1>0, <1>2, PosApart
    <3> QED BY <3>1, <3>4, <1>1
  <2>3. CASE i < s /\ ~(j < s)
    <3>1. i \in 0..(s - 1) /\ j \in s..(2 * s - 1)
      BY <2>3, <1>1
    <3>2. index[j] = j /\ index[i] \in 0..(s - 1)
      BY <3>1, <2>1, <1>1
    <3> QED BY <3>1, <3>2, <1>1, <1>10
  <2>4. CASE ~(i < s) /\ j < s
    <3>1. j \in 0..(s - 1) /\ i \in s..(2 * s - 1)
      BY <2>4, <1>1
    <3>2. index[i] = i /\ index[j] \in 0..(s - 1)
      BY <3>1, <2>1, <1>1
    <3> QED BY <3>1, <3>2, <1>1, <1>10
  <2>5. CASE ~(i < s) /\ ~(j < s)
    <3>1. j \in s..(2 * s - 1) /\ i \in s..(2 * s - 1)
      BY <2>5, <1>1
    <3> QED BY <3>1, <1>1, <1>10
  <2> QED BY <2>2, <2>3, <2>4, <2>5
<1> QED BY <1>7, <1>8, <1>9, <1>10

\* The larger index has the old one's blocks where they are looked for.
LEMMA IndexGrow ==
  ASSUME Types, Types', Claims, Indexed, HistNext, Producing("insert"), ~Reusable(NextEntry(headers[current])),
         AllocateIndex(headers[current]), UNCHANGED <<key, value, producer, sent>>
  PROVE  Indexed'
<1>0. Rows /\ Tailed /\ Numbered /\ Spread /\ Reached /\ Chained
  BY DEF Indexed
<1>n. PICK s, n, m, low : s = Size(current) /\ n = current + 1 /\ m = Newest /\ low = m - s + 1
  OBVIOUS
<1>1. /\ current' = n /\ Kept /\ n \in 1..n /\ s \in Nat \ {0} /\ low \in Int
      /\ Len(first') = n /\ first'[n] = low
      /\ \A h \in 1..current : first'[h] = first[h] /\ headers'[h] = headers[h]
      /\ Size(n)' = 2 * s /\ headers'[n].tail = s - 1
      /\ headers'[n].index \in [0..(2 * s - 1) -> 0..(2 * s - 1)]
  BY <1>n, GrownFacts
<1>2. /\ \A q \in Int : EntryFor(n, q)' < s => EntryFor(n, q)' = EntryFor(current, q)
      /\ \A q \in low..m : EntryFor(n, q)' = EntryFor(current, q)
      /\ Pos(n, m)' = s - 1
      /\ \A i, j \in 0..(2 * s - 1) : headers'[n].index[i] = headers'[n].index[j] => i = j
  BY <1>n, GrownPlaces
<1>3. /\ low <= m
      /\ \A f \in Entries : value[f] # Null => low <= number[f]
      /\ \A f \in Entries : number[f] # -1 => number[f] \in low..m
      /\ low <= TailNumber + 1
  BY <1>n, GrowFacts
<1>4. producer.pc = "insert" /\ m \in Int /\ TailNumber \in Int /\ m = TailNumber + Len(producer.chain)
      /\ Len(producer.chain) \in Nat
  BY <1>n, NewestFacts DEF Producing
<1>5. TailNumber' = TailNumber /\ Newest' = m /\ number' = number
  <2>1. TailNumber' = TailNumber /\ number' = number
    BY <1>4, TailSame, NumbersSame
  <2> QED BY <2>1, <1>n, NewestNext
<1>t. s \in Nat /\ s >= 1 /\ low \in Int /\ m \in Int /\ current' = n /\ low + s = m + 1
  <2>1. s \in Nat \ {0} /\ low \in Int /\ current' = n
    BY <1>1
  <2>2. m \in Int /\ low = m - s + 1
    BY <1>n, <1>4
  <2> QED BY <2>1, <2>2
<1>6. ASSUME NEW q \in Int PROVE Pos(current, q)' = Pos(n, q)' /\ EntryFor(current, q)' = EntryFor(n, q)'
  <2>1. Pos(current, q)' = (q - first'[current']) % Size(current)' /\ Pos(n, q)' = (q - first'[n]) % Size(n)'
    BY DEF Pos
  <2>2. Size(current)' = Size(n)'
    BY <1>1 DEF Size
  <2>3. Pos(current, q)' = Pos(n, q)'
    BY <2>1, <2>2, <1>1
  <2>4. EntryFor(current, q)' = headers'[current'].index[Pos(current, q)'] /\ EntryFor(n, q)' = headers'[n].index[Pos(n, q)']
    BY DEF EntryFor
  <2> QED BY <2>3, <2>4, <1>1
<1>7. Size(current)' = 2 * s
  <2>1. Size(current)' = Size(n)'
    BY <1>1 DEF Size
  <2> QED BY <2>1, <1>1
<1>8. ASSUME NEW h \in 1..current, NEW q \in Int
      PROVE  EntryFor(h, q)' = EntryFor(h, q) /\ Size(h)' = Size(h) /\ headers'[h] = headers[h]
  <2>1. headers'[h] = headers[h] /\ first'[h] = first[h]
    BY <1>1
  <2>2. Size(h)' = Size(h)
    BY <2>1 DEF Size
  <2>3. Pos(h, q)' = (q - first'[h]) % Size(h)'
    BY DEF Pos
  <2>4. EntryFor(h, q)' = headers'[h].index[Pos(h, q)']
    BY DEF EntryFor
  <2> QED BY <2>1, <2>2, <2>3, <2>4 DEF EntryFor, Pos
<1>9. Rows'
  <2>1. Len(first') = current'
    BY <1>1
  <2>2. ASSUME NEW h \in 1..current'
        PROVE  /\ Size(h)' <= Size(current)'
               /\ headers'[h].index \in [0..(Size(h)' - 1) -> 0..(Size(h)' - 1)]
               /\ \A x, y \in 0..(Size(h)' - 1) : headers'[h].index[x] = headers'[h].index[y] => x = y
               /\ \A q \in Int : EntryFor(current, q)' < Size(h)' => EntryFor(h, q)' = EntryFor(current, q)'
    <3>1. CASE h = n
      <4>1. Size(h)' = 2 * s /\ headers'[h].index = headers'[n].index
        BY <3>1, <1>1
      <4>2. \A q \in Int : EntryFor(h, q)' = EntryFor(current, q)'
        BY <3>1, <1>6
      <4>3. 2 * s \in Nat /\ 2 * s <= 2 * s
        BY <1>t
      <4> QED BY <4>1, <4>2, <4>3, <1>1, <1>2, <1>7
    <3>2. CASE h # n
      <4>1. h \in 1..current
        <5>1. current \in Nat
        BY <1>0, TailPlaces
      <5> QED BY <5>1, <2>2, <3>2, <1>n, <1>t
      <4>2. Size(h)' = Size(h) /\ headers'[h] = headers[h]
        BY <4>1, <1>8
      <4>3. /\ Size(h) <= s /\ Size(h) \in Nat
            /\ headers[h].index \in [0..(Size(h) - 1) -> 0..(Size(h) - 1)]
            /\ \A x, y \in 0..(Size(h) - 1) : headers[h].index[x] = headers[h].index[y] => x = y
            /\ \A q \in Int : EntryFor(current, q) < Size(h) => EntryFor(h, q) = EntryFor(current, q)
        BY <4>1, <1>n, <1>0, FirstFacts DEF Rows
      <4>4. Size(h)' <= Size(current)'
        BY <4>2, <4>3, <1>1, <1>7
      <4>5. ASSUME NEW q \in Int, EntryFor(current, q)' < Size(h)' PROVE EntryFor(h, q)' = EntryFor(current, q)'
        <5>1. EntryFor(n, q)' \in Int
          <6>1. Pos(n, q)' = (q - low) % (2 * s) /\ q - low \in Int /\ 2 * s \in Nat \ {0}
            BY <1>1 DEF Pos
          <6>2. (q - low) % (2 * s) \in 0..(2 * s - 1)
            BY <6>1, Division
          <6>3. EntryFor(n, q)' = headers'[n].index[Pos(n, q)']
            BY DEF EntryFor
          <6>4. EntryFor(n, q)' \in 0..(2 * s - 1)
            BY <6>1, <6>2, <6>3, <1>1
          <6> QED BY <6>4
        <5>2. EntryFor(n, q)' < Size(h) /\ EntryFor(n, q)' < s
          BY <4>2, <4>3, <4>5, <5>1, <1>1, <1>6
        <5>3. EntryFor(current, q) = EntryFor(n, q)'
          BY <5>2, <1>2
        <5>4. EntryFor(h, q) = EntryFor(current, q)
          BY <5>2, <5>3, <4>3
        <5> QED BY <5>3, <5>4, <4>1, <1>6, <1>8
      <4> QED BY <4>2, <4>3, <4>4, <4>5
    <3> QED BY <3>1, <3>2
  <2> QED BY <2>1, <2>2 DEF Rows
<1>10. Tailed'
  <2>1. Tailed' <=> headers'[current'].tail = Pos(current, Newest)'
    BY DEF Tailed
  <2>2. Pos(current, Newest)' = Pos(current, m)'
    BY <1>5 DEF Pos
  <2> QED BY <2>1, <2>2, <1>1, <1>2, <1>4, <1>6
<1>11. ASSUME NEW q \in low..m PROVE EntryFor(current, q)' = EntryFor(current, q)
  <2>1. q \in Int
    BY <1>1, <1>4
  <2> QED BY <2>1, <1>2, <1>6
<1>12. Numbered'
  <2> SUFFICES ASSUME NEW e \in Entries
               PROVE  /\ number'[e] >= -1 /\ number'[e] <= TailNumber' + Size(current)'
                      /\ key'[e] = IF number'[e] = -1 THEN INVALID_BLOCK_BASE ELSE From(number'[e]) % W
                      /\ number'[e] # -1 => EntryFor(current, number[e])' = e
                      /\ value'[e] # Null => number'[e] \in InUse'
    BY DEF Numbered, InUse
  <2>1. /\ number[e] >= -1 /\ number[e] <= TailNumber + s
        /\ key[e] = IF number[e] = -1 THEN INVALID_BLOCK_BASE ELSE From(number[e]) % W
        /\ number[e] # -1 => EntryFor(current, number[e]) = e
        /\ value[e] # Null => number[e] \in InUse
    BY <1>0, <1>n, NumberedIs
  <2>2. number'[e] <= TailNumber' + Size(current)'
    <3>1. number[e] \in Int
      BY EntryFacts
    <3> QED BY <3>1, <2>1, <1>t, <1>4, <1>5, <1>7
  <2>3. ASSUME number[e] # -1 PROVE EntryFor(current, number[e])' = e
    <3>1. number[e] \in low..m
      BY <2>3, <1>3
    <3>2. \A q \in Int : q = number'[e] => EntryFor(current, number[e])' = EntryFor(current, q)'
      BY DEF EntryFor, Pos
    <3>3. \A q \in low..m : q = number'[e] => EntryFor(current, number[e])' = EntryFor(current, q)
      BY <3>2, <1>1, <1>4, <1>11
    <3> QED BY <3>1, <3>3, <2>1, <2>3, <1>5
  <2>4. InUse' = InUse
    BY <1>5 DEF InUse
  <2> QED BY <2>1, <2>2, <2>3, <2>4, <1>5
<1>13. Spread'
  <2> SUFFICES ASSUME NEW e \in Entries, NEW f \in Entries, value'[e] # Null
               PROVE  number'[f] < number'[e] + Size(current)'
    BY DEF Spread
  <2>1. number[f] < number[e] + s /\ number[f] \in Int /\ number[e] \in Int
    BY <1>0, <1>n, EntryFacts DEF Spread
  <2> QED BY <2>1, <1>t, <1>5, <1>7
<1>14. Reached'
  <2> SUFFICES ASSUME NEW q \in Int, NEW e \in Entries, value'[e] # Null, number'[e] <= q, q <= Newest'
               PROVE  number'[EntryFor(current, q)'] >= q
    BY DEF Reached
  <2>1. number[e] \in Int /\ low <= number[e] /\ number[e] <= q /\ q <= m
    BY <1>3, <1>5, EntryFacts
  <2>2. q \in low..m
    BY <2>1, <1>t
  <2>3. number[EntryFor(current, q)] >= q
    BY <2>1, <1>0, <1>n, ReachedAt
  <2> QED BY <2>2, <2>3, <1>5, <1>11
<1>15. Chained'
  <2>1. ASSUME NEW j \in 1..Len(producer'.chain)
        PROVE  /\ number'[EntryFor(current, TailNumber + j)'] = TailNumber' + j
               /\ j > producer'.undone => value'[EntryFor(current, TailNumber + j)'] = producer'.chain[j]
    <3>1. TailNumber + j \in low..m /\ j \in 1..Len(producer.chain)
      BY <1>t, <1>3, <1>4
    <3>2. \A q \in Int : q = TailNumber' + j => EntryFor(current, TailNumber + j)' = EntryFor(current, q)'
      BY DEF EntryFor, Pos
    <3>3. \A q \in low..m : q = TailNumber' + j => EntryFor(current, TailNumber + j)' = EntryFor(current, q)
      BY <3>2, <1>1, <1>4, <1>11
    <3>4. EntryFor(current, TailNumber + j)' = EntryFor(current, TailNumber + j)
      BY <3>1, <3>3, <1>5
    <3> QED BY <3>1, <3>4, <1>0, <1>5 DEF Chained
  <2> QED BY <2>1, <1>4 DEF Chained
<1> QED BY <1>9, <1>10, <1>12, <1>13, <1>14, <1>15 DEF Indexed

\* Every step keeps the block index right.
LEMMA IndexedStep ==
  ASSUME Types, Types', Claims, Found, Next, HistNext
  PROVE  Indexed'
<1>0. Indexed
  BY DEF Found
<1>1. CASE NewBlockIndex
  <2>1. CASE AllocateIndex(headers[current]) /\ UNCHANGED producer
    BY <2>1, <1>0, <1>1, IndexGrow DEF NewBlockIndex, base, stored
  <2>2. CASE GoTo("undo") /\ UNCHANGED headers
    BY <2>2, <1>0, <1>1, IndexRefused DEF NewBlockIndex, base, stored
  <2> QED BY <2>1, <2>2, <1>1 DEF NewBlockIndex
<1>2. ASSUME NEW c \in Consumers, Consume(c) PROVE Indexed'
  BY <1>2, IndexConsume
<1>3. CASE Produce
  BY <1>0, <1>1, <1>3, IndexBegin, IndexRoom, IndexInsert, IndexAdvance, IndexRequisition, IndexFail, IndexUndo,
     IndexFreed, IndexAppend, IndexPublish DEF Produce, enqueue, enqueue_bulk
<1> QED BY <1>2, <1>3 DEF Next

-------------------------------------------------------------------------------
(* What the calls hold *)

\* What the steps of a call that has taken do to it.
LEMMA NextBlockIs ==
  ASSUME Types, NEW c \in Consumers, OnToNext(c)
  PROVE  /\ call[c].n = 0 => call'[c] = NoCall
         /\ call[c].n # 0 => /\ call'[c].pc = "fetch" /\ call'[c].header = call[c].header /\ call'[c].n = call[c].n
                             /\ call'[c].k = 0 /\ call'[c].pos = (call[c].pos + 1) % Size(call[c].header)
<1>1. call \in [Consumers -> CallSet] /\ call[c] \in CallSet
  BY DEF Types, CallTypes
<1> QED BY <1>1 DEF OnToNext, NextBlock, CallSet, Size

\* What the steps of a lookup do to the call.
LEMMA LookSteps ==
  ASSUME Types, NEW c \in Consumers
  PROVE  /\ LoadHeader(c) => /\ At(c, "header") /\ call'[c].pc = "front" /\ call'[c].header = current
                             /\ call'[c].n = call[c].n
         /\ LoadTail(c) => /\ At(c, "front") /\ call'[c].pc = "key" /\ call'[c].header = call[c].header
                           /\ call'[c].pos = headers[call[c].header].tail /\ call'[c].n = call[c].n
         /\ LoadKey(c) => /\ At(c, "key") /\ call'[c].pc = "fetch" /\ call'[c].header = call[c].header
                          /\ call'[c].pos = PlaceOf(headers[call[c].header], call[c].pos, call[c].at)
                          /\ call'[c].n = call[c].n
         /\ ClearEntry(c) => /\ At(c, "clear") /\ call'[c].pc = "free" /\ call'[c].header = call[c].header
                             /\ call'[c].pos = call[c].pos /\ call'[c].n = call[c].n
                             /\ call'[c].block = call[c].block
         /\ SetManyEmpty(c) => /\ At(c, "empty")
                               /\ \/ /\ call'[c].pc = "clear" /\ call'[c].header = call[c].header
                                     /\ call'[c].pos = call[c].pos /\ call'[c].n = call[c].n
                                     /\ call'[c].block = call[c].block
                                     /\ emptied[call[c].block] + call[c].k = BLOCK_SIZE
                                  \/ OnToNext(c)
         /\ FreeBlock(c) => At(c, "free") /\ OnToNext(c)
<1>1. call \in [Consumers -> CallSet] /\ call[c] \in CallSet
  BY DEF Types, CallTypes
<1> QED BY <1>1 DEF LoadHeader, LoadTail, LoadKey, ClearEntry, SetManyEmpty, FreeBlock, CallSet, At

\* As much as there is of the elements in the block.
LEMMA FetchStep ==
  ASSUME Types, Claims, HistNext, NEW c \in Consumers, Looking(c), Fetch(c)
  PROVE  /\ At(c, "fetch") /\ call'[c].pc = "empty" /\ call'[c].header = call[c].header
         /\ call'[c].pos = call[c].pos /\ call'[c].block = value[EntryOf(c)] /\ value[EntryOf(c)] \in Blocks
         /\ call'[c].k \in 1..BLOCK_SIZE /\ call'[c].n = call[c].n - call'[c].k /\ call'[c].n \in Nat
         /\ place'[c] = place[c] + call'[c].k
         /\ Num(place'[c] - 1) = Num(place[c])
         /\ call'[c].n > 0 => place'[c] % BLOCK_SIZE = 0
<1> DEFINE from == call[c].at % BLOCK_SIZE
           k == Lesser(call[c].n, BLOCK_SIZE - from)
<1>1. call \in [Consumers -> CallSet] /\ call[c] \in CallSet /\ At(c, "fetch")
  BY DEF Types, CallTypes, Fetch
<1>2. /\ call'[c].pc = "empty" /\ call'[c].header = call[c].header
      /\ call'[c].pos = call[c].pos /\ call'[c].block = value[EntryOf(c)] /\ value[EntryOf(c)] \in Blocks
      /\ call'[c].k = k /\ call'[c].n = call[c].n - k
  BY <1>1 DEF Fetch, MoveOut, CallSet
<1>3. place[c] \in Nat /\ call[c].n \in Nat \ {0} /\ BLOCK_SIZE \in Nat \ {0} /\ place[c] \in Int
  BY <1>1, CallFacts, SizeFacts DEF Looking, At
<1>4. from = place[c] % BLOCK_SIZE
  <2>1. call[c].at = place[c] % W
    BY <1>1 DEF Claims, Phase, Taking, At
  <2> QED BY <2>1, <1>3, WrappedBase
<1>5. place[c] % BLOCK_SIZE \in 0..(BLOCK_SIZE - 1) /\ place[c] = From(Num(place[c])) + (place[c] % BLOCK_SIZE)
      /\ Num(place[c]) \in Int
  BY <1>3, NumFacts DEF Offsets
<1> DEFINE f == place[c] % BLOCK_SIZE
           q == Num(place[c])
<1>6. From(q) \in Int /\ From(q + 1) = From(q) + BLOCK_SIZE
  BY <1>5, FromFacts
<1>7. k = Lesser(call[c].n, BLOCK_SIZE - f)
  BY <1>4
<1> HIDE DEF from, k, f, q
<1>8. f \in 0..(BLOCK_SIZE - 1) /\ place[c] = From(q) + f /\ q \in Int
  BY <1>5 DEF f, q
<1>9. k \in 1..BLOCK_SIZE /\ call[c].n - k \in Nat /\ k <= BLOCK_SIZE - f
  BY <1>3, <1>7, <1>8 DEF Lesser
<1>10. place'[c] = place[c] + k
  <2>1. place'[c] = place[c] + call[c].n - call'[c].n
    BY <1>1, HistCalls
  <2> QED BY <2>1, <1>2, <1>3, <1>9
<1>11. Num(place'[c] - 1) = q
  <2> DEFINE i == place'[c] - 1
  <2>1. i \in Int /\ From(q) <= i /\ i < From(q) + BLOCK_SIZE
    BY <1>3, <1>6, <1>8, <1>9, <1>10
  <2> HIDE DEF i
  <2>2. Num(i) = q
    BY <2>1, <1>6, <1>8, NumIs
  <2> QED BY <2>2 DEF i
<1>12. ASSUME call'[c].n > 0 PROVE place'[c] % BLOCK_SIZE = 0
  <2>1. k = BLOCK_SIZE - f
    BY <1>2, <1>3, <1>7, <1>8, <1>9, <1>12 DEF Lesser
  <2>2. place'[c] = From(q + 1) + 0
    BY <2>1, <1>3, <1>6, <1>8, <1>10
  <2>3. 0 \in Offsets /\ q + 1 \in Int
    BY <1>3, <1>8 DEF Offsets
  <2>4. (From(q + 1) + 0) % BLOCK_SIZE = 0
    BY <2>3, NumFacts
  <2> QED BY <2>2, <2>4
<1> QED BY <1>1, <1>2, <1>9, <1>10, <1>11, <1>12 DEF q

\* A call that another's step leaves alone holds what it held.
LEMMA SameHeld ==
  ASSUME Types, HistNext, NEW d \in Consumers, Same(d)
  PROVE  /\ Taking(d)' <=> Taking(d)
         /\ Taking(d) => place'[d] = place[d] /\ Low(d)' = Low(d) /\ High(d)' = High(d)
         /\ \A q \in Int : Held(d, q)' <=> Held(d, q)
<1>1. Taking(d)' <=> Taking(d)
  BY DEF Same, Taking
<1>2. Taking(d) => place'[d] = place[d]
  BY HistCalls DEF Same, Taking, At
<1>3. Taking(d) => Low(d)' = Low(d) /\ High(d)' = High(d)
  BY <1>2 DEF Same, Low, High, At
<1>4. \A q \in Int : Held(d, q)' <=> Held(d, q)
  BY <1>1, <1>2, <1>3 DEF Held, Same, At
<1> QED BY <1>1, <1>2, <1>3, <1>4

\* c has taken element x and not counted it.
In(c, x) == Taking(c) /\ Low(c) <= x /\ x < High(c)

\* A call that has not taken yet holds nothing.
LEMMA ClaimOnly ==
  ASSUME Types, NEW c \in Consumers,
         (\E m \in Sizes \cup {1} : Begin(c, m)) \/ ReadOvercommit(c) \/ Look(c)
         \/ Claim(c) \/ Settle(c) \/ GiveBack(c)
  PROVE  ~Taking(c) /\ ~Taking(c)' /\ headIndex' = headIndex
<1>1. call \in [Consumers -> CallSet] /\ call[c] \in CallSet
  BY DEF Types, CallTypes
<1>2. (\E m \in Sizes \cup {1} : Begin(c, m)) => ~Taking(c) /\ ~Taking(c)' /\ headIndex' = headIndex
  <2>1. ASSUME NEW m \in Sizes \cup {1}, Begin(c, m)
        PROVE  call[c].pc = "idle" /\ call'[c].pc = "overcommit" /\ headIndex' = headIndex
    BY <2>1, <1>1, ZenonT(40) DEF Begin, At, counters, NoCall
  <2> QED BY <2>1, SMTT(40) DEF Taking
<1>3. ReadOvercommit(c) => ~Taking(c) /\ ~Taking(c)' /\ headIndex' = headIndex
  BY <1>1 DEF ReadOvercommit, Taking, At, counters, CallSet
<1>4. Look(c) => ~Taking(c) /\ ~Taking(c)' /\ headIndex' = headIndex
  <2>1. Look(c) => At(c, "look") /\ call'[c].pc \in {"idle", "claim"} /\ headIndex' = headIndex
    BY <1>1 DEF Look, counters, CallSet, NoCall
  <2> QED BY <2>1 DEF Taking, At
<1>5. Settle(c) => ~Taking(c) /\ ~Taking(c)' /\ headIndex' = headIndex
  <2>1. Settle(c) => At(c, "settle") /\ call'[c].pc \in {"giveback", "take"} /\ headIndex' = headIndex
    BY <1>1 DEF Settle, counters, CallSet
  <2> QED BY <2>1 DEF Taking, At
<1>6. Claim(c) => ~Taking(c) /\ ~Taking(c)' /\ headIndex' = headIndex
  BY <1>1 DEF Claim, Taking, At, CallSet
<1>7. GiveBack(c) => ~Taking(c) /\ ~Taking(c)' /\ headIndex' = headIndex
  <2>1. GiveBack(c) => At(c, "giveback") /\ call'[c].pc \in {"idle", "take"} /\ headIndex' = headIndex
    BY <1>1 DEF GiveBack, CallSet, NoCall
  <2> QED BY <2>1 DEF Taking, At
<1> QED BY <1>2, <1>3, <1>4, <1>5, <1>6, <1>7

\* The head moves past what is taken.
LEMMA TakeHeld ==
  ASSUME Types, Types', Claims, HistNext, NEW c \in Consumers, Consume(c), Take(c)
  PROVE  /\ ~Taking(c) /\ Taking(c)' /\ call'[c].pc = "header" /\ call'[c].n = call[c].n /\ call[c].n >= 1
         /\ Low(c)' = head /\ High(c)' = head' /\ head' = head + call[c].n
<1>1. call \in [Consumers -> CallSet] /\ call[c] \in CallSet /\ At(c, "take") /\ call[c].n \in Nat
  BY CallFacts DEF Types, CallTypes, Take
<1>2. call'[c].pc = "header" /\ call'[c].n = call[c].n
  BY <1>1 DEF Take, CallSet
<1>3. call[c].n >= 1
  BY <1>1, SizeFacts DEF Claims, Phase, At
<1>4. head' = head + call[c].n /\ place'[c] = head
  BY <1>1, TakeStep, HistCalls
<1> QED BY <1>1, <1>2, <1>3, <1>4 DEF Taking, Low, High, At

\* Where an index is, by the block before it.
LEMMA BlockBefore ==
  ASSUME NEW p \in Int, NEW q \in Int
  PROVE  /\ Num(p - 1) = q <=> From(q) < p /\ p <= From(q + 1)
         /\ p % BLOCK_SIZE = 0 => (From(q) < p <=> From(q + 1) <= p)
         /\ p % BLOCK_SIZE = 0 => Num(p) = Num(p - 1) + 1
         /\ Num(p - 1) >= q <=> From(q) < p
         /\ From(q) \in Int /\ From(q + 1) \in Int /\ From(q + 1) = From(q) + BLOCK_SIZE
<1>1. From(q) \in Int /\ From(q + 1) = From(q) + BLOCK_SIZE /\ BLOCK_SIZE \in Nat \ {0} /\ p - 1 \in Int
  <2>1. BLOCK_SIZE \in Nat \ {0} /\ p - 1 \in Int
    BY SizeFacts
  <2>2. From(q) \in Int /\ From(q + 1) = From(q) + BLOCK_SIZE
    BY FromFacts
  <2> QED BY <2>1, <2>2
<1>2. From(q + 1) \in Int
  BY <1>1
<1>3. (Num(p - 1) = q <=> From(q) <= p - 1 /\ p - 1 < From(q + 1)) /\ (Num(p - 1) >= q <=> From(q) <= p - 1)
  <2> DEFINE i == p - 1
  <2>1. i \in Int
    BY <1>1
  <2> HIDE DEF i
  <2>2. (Num(i) = q <=> From(q) <= i /\ i < From(q + 1)) /\ (Num(i) >= q <=> From(q) <= i)
    BY <2>1, NumIs
  <2> QED BY <2>2 DEF i
<1>4. ASSUME p % BLOCK_SIZE = 0
      PROVE  (From(q) < p <=> From(q + 1) <= p) /\ Num(p) = Num(p - 1) + 1
  <2> DEFINE m == Num(p)
  <2>1. m \in Int /\ p = From(m)
    <3>1. m \in Int /\ p = From(m) + (p % BLOCK_SIZE)
      BY NumFacts
    <3>2. From(m) \in Int
      BY <3>1, FromFacts
    <3> QED BY <3>1, <3>2, <1>4
  <2> HIDE DEF m
  <2>2. (q < m <=> From(q) < From(m)) /\ (q < m => From(q) + BLOCK_SIZE <= From(m)) /\ From(m) \in Int
    BY <2>1, FromFacts
  <2>3. From(q) < p <=> From(q + 1) <= p
    BY <2>1, <2>2, <1>1
  <2>4. Num(p - 1) = m - 1
    <3>1. m - 1 \in Int /\ (m - 1) + 1 = m
      BY <2>1
    <3>2. From(m - 1) \in Int /\ From((m - 1) + 1) = From(m - 1) + BLOCK_SIZE
      BY <3>1, FromFacts
    <3>3. From(m - 1) <= p - 1 /\ p - 1 < From((m - 1) + 1)
      BY <3>1, <3>2, <2>1, <2>2, <1>1
    <3> DEFINE i == p - 1
               r == m - 1
    <3>4. i \in Int /\ r \in Int /\ From(r) <= i /\ i < From(r + 1)
      BY <3>1, <3>3, <1>1
    <3> HIDE DEF i, r
    <3>5. Num(i) = r
      BY <3>4, NumIs
    <3> QED BY <3>5 DEF i, r
  <2> QED BY <2>1, <2>3, <2>4 DEF m
<1> QED BY <1>1, <1>2, <1>3, <1>4

\* A call that has taken counts elements, and lets blocks go.
LEMMA LaterHeld ==
  ASSUME Types, Types', Claims, HistNext, NEW c \in Consumers, Looking(c), Later(c)
  PROVE  /\ Taking(c) /\ Low(c) \in Int /\ High(c) \in Int
         /\ Taking(c)' => Low(c)' \in Int /\ Low(c) <= Low(c)' /\ High(c)' = High(c)
         /\ \A q \in Int : Held(c, q)' => Held(c, q)
         /\ \A q \in Int : ClearEntry(c) /\ q = Num(place[c] - 1) => ~Held(c, q)'
         /\ \A x \in Int : In(c, x)' <=>
              In(c, x) /\ ~(SetManyEmpty(c) /\ place[c] - call[c].k <= x /\ x < place[c])
<1> DEFINE p == place[c]
           n == call[c].n
           k == call[c].k
<1>0. p \in Nat /\ n \in Nat /\ k \in Nat /\ p \in Int /\ BLOCK_SIZE \in Nat \ {0}
  BY CallFacts, SizeFacts
<1>1. CASE LoadHeader(c) \/ LoadTail(c) \/ LoadKey(c)
  <2>1. /\ call[c].pc \in {"header", "front", "key"} /\ call'[c].pc \in {"front", "key", "fetch"} /\ call'[c].n = n
    BY <1>1, LookSteps DEF At
  <2>2. place'[c] = p
    BY <2>1, HistCalls DEF At
  <2>3. ~SetManyEmpty(c) /\ ~ClearEntry(c)
    BY <2>1 DEF SetManyEmpty, ClearEntry, At
  <2> QED BY <2>1, <2>2, <2>3, <1>0 DEF Taking, Low, High, Held, In, At
<1>2. CASE Fetch(c)
  <2>1. /\ At(c, "fetch") /\ call'[c].pc = "empty" /\ call'[c].k \in 1..BLOCK_SIZE
        /\ call'[c].n = n - call'[c].k /\ place'[c] = p + call'[c].k
    BY <1>2, FetchStep
  <2>2. Low(c)' = p /\ High(c)' = p + n /\ Low(c) = p /\ High(c) = p + n /\ Taking(c) /\ Taking(c)'
    BY <2>1, <1>0 DEF Low, High, Taking, At
  <2>3. ~SetManyEmpty(c) /\ ~ClearEntry(c)
    BY <2>1 DEF SetManyEmpty, ClearEntry, At
  <2> QED BY <2>1, <2>2, <2>3, <1>0 DEF Held, In, At
<1>3. CASE SetManyEmpty(c)
  <2>1. /\ At(c, "empty") /\ k \in 1..BLOCK_SIZE /\ Num(p - k) = Num(p - 1) /\ (n > 0 => p % BLOCK_SIZE = 0)
        /\ ~ClearEntry(c)
    BY <1>3, LookSteps DEF Looking, At, ClearEntry
  <2>2. Low(c) = p - k /\ High(c) = p + n /\ Taking(c)
    BY <2>1 DEF Low, High, Taking, At
  <2>3. CASE call'[c].pc = "clear" /\ call'[c].n = n
    <3>1. place'[c] = p /\ Low(c)' = p /\ High(c)' = p + n /\ Taking(c)'
      <4>1. place'[c] = p
        BY <2>1, <2>3, HistCalls DEF At
      <4> QED BY <4>1, <2>3 DEF Low, High, Taking, At
    <3>2. ASSUME NEW q \in Int, Held(c, q)' PROVE Held(c, q)
      <4>1. \/ From(q) < p + n /\ p < From(q + 1)
            \/ q = Num(p - 1)
        BY <3>1, <3>2 DEF Held
      <4>2. q = Num(p - 1) => From(q) < p /\ p <= From(q + 1)
        BY <1>0, BlockBefore
      <4>3. From(q) \in Int /\ From(q + 1) \in Int
        BY <1>0, BlockBefore
      <4> QED BY <4>1, <4>2, <4>3, <2>1, <2>2, <1>0 DEF Held
    <3> QED BY <2>1, <2>2, <3>1, <3>2, <1>0, <1>3 DEF In
  <2>4. CASE OnToNext(c)
    <3>1. n = 0 => call'[c] = NoCall
      BY <2>4, NextBlockIs
    <3>2. ASSUME n # 0
          PROVE  place'[c] = p /\ Low(c)' = p /\ High(c)' = p + n /\ Taking(c)' /\ ~At(c, "clear")'
      <4>1. call'[c].pc = "fetch" /\ call'[c].n = n
        BY <2>4, <3>2, NextBlockIs
      <4>2. place'[c] = p
        BY <2>1, <4>1, HistCalls DEF At
      <4> QED BY <4>1, <4>2 DEF Low, High, Taking, At
    <3>3. n = 0 => ~Taking(c)'
      BY <3>1 DEF NoCall, Taking
    <3>4. ASSUME NEW q \in Int, Held(c, q)' PROVE Held(c, q)
      <4>1. n # 0 /\ From(q) < p + n /\ p < From(q + 1)
        BY <3>2, <3>3, <3>4 DEF Held
      <4>2. From(q) \in Int /\ From(q + 1) \in Int
        BY <1>0, BlockBefore
      <4> QED BY <4>1, <4>2, <2>1, <2>2, <1>0 DEF Held
    <3> QED BY <2>1, <2>2, <3>2, <3>3, <3>4, <1>0, <1>3 DEF In
  <2> QED BY <2>3, <2>4, <1>3, LookSteps
<1>4. CASE ClearEntry(c)
  <2>1. /\ At(c, "clear") /\ call'[c].pc = "free" /\ call'[c].n = n /\ (n > 0 => p % BLOCK_SIZE = 0)
        /\ ~SetManyEmpty(c)
    BY <1>4, LookSteps DEF Looking, At, SetManyEmpty
  <2>2. place'[c] = p
    BY <2>1, HistCalls DEF At
  <2>3. Low(c) = p /\ High(c) = p + n /\ Taking(c) /\ Low(c)' = p /\ High(c)' = p + n /\ Taking(c)'
    BY <2>1, <2>2 DEF Low, High, Taking, At
  <2>4. ASSUME NEW q \in Int, Held(c, q)' PROVE Held(c, q) /\ q # Num(p - 1)
    <3>1. From(q) < p + n /\ p < From(q + 1) /\ p < p + n
      BY <2>1, <2>3, <2>4 DEF Held, At
    <3>2. n > 0
      BY <3>1, <1>0
    <3>3. From(q) < p <=> From(q + 1) <= p
      BY <3>2, <2>1, <1>0, BlockBefore
    <3>4. q = Num(p - 1) => From(q) < p
      BY <1>0, BlockBefore
    <3>5. From(q) \in Int /\ From(q + 1) \in Int
      BY <1>0, BlockBefore
    <3> QED BY <3>1, <3>3, <3>4, <3>5, <2>3, <1>0 DEF Held
  <2> QED BY <2>1, <2>3, <2>4, <1>0 DEF In
<1>5. CASE FreeBlock(c)
  <2>1. At(c, "free") /\ OnToNext(c) /\ ~SetManyEmpty(c) /\ ~ClearEntry(c)
    BY <1>5, LookSteps DEF At, SetManyEmpty, ClearEntry
  <2>2. Low(c) = p /\ High(c) = p + n /\ Taking(c)
    BY <2>1 DEF Low, High, Taking, At
  <2>3. n = 0 => ~Taking(c)'
    <3>1. n = 0 => call'[c] = NoCall
      BY <2>1, NextBlockIs
    <3> QED BY <3>1 DEF NoCall, Taking
  <2>4. ASSUME n # 0
        PROVE  Low(c)' = p /\ High(c)' = p + n /\ Taking(c)' /\ ~At(c, "clear")'
    <3>1. call'[c].pc = "fetch" /\ call'[c].n = n
      BY <2>1, <2>4, NextBlockIs
    <3>2. place'[c] = p
      BY <2>1, <3>1, HistCalls DEF At
    <3> QED BY <3>1, <3>2 DEF Low, High, Taking, At
  <2>5. \A q \in Int : Held(c, q)' => Held(c, q)
    BY <2>2, <2>3, <2>4 DEF Held
  <2> QED BY <2>1, <2>2, <2>3, <2>4, <2>5, <1>0 DEF In
<1> QED BY <1>1, <1>2, <1>3, <1>4, <1>5 DEF Later

\* At most one call makes a step.
LEMMA Movers ==
  ASSUME Types, Next
  PROVE  /\ \A c, d \in Consumers : Same(c) \/ Same(d) \/ c = d
         /\ \A c \in Consumers : Same(c) \/ Consume(c)
<1>1. CASE Produce
  <2>1. UNCHANGED <<call, out>>
    BY <1>1, ProducerSteps
  <2> QED BY <2>1 DEF Same
<1>2. ASSUME NEW c \in Consumers, Consume(c)
      PROVE  \A d \in Consumers : d # c => Same(d)
  BY <1>2, OthersSame
<1> QED BY <1>1, <1>2 DEF Next

\* What kinds of step a call makes.
LEMMA StepsOf ==
  ASSUME Types, Types', Claims, Found, Next, HistNext, NEW d \in Consumers
  PROVE  \/ Same(d)
         \/ Consume(d) /\ ~Taking(d) /\ ~Taking(d)'
         \/ Consume(d) /\ Take(d)
         \/ Consume(d) /\ Later(d)
BY Movers, Claiming, ClaimOnly

\* What a step does to what is taken.
LEMMA Spans ==
  ASSUME Types, Types', Claims, Found, Next, HistNext
  PROVE  /\ \A d \in Consumers : Taking(d)' =>
              \/ Taking(d) /\ Low(d)' \in Int /\ Low(d) <= Low(d)' /\ High(d)' = High(d)
              \/ ~Taking(d) /\ Low(d)' = head /\ High(d)' = head'
         /\ \A c, d \in Consumers : ~Taking(c) /\ Taking(c)' /\ ~Taking(d) /\ Taking(d)' => c = d
         /\ \A c \in Consumers : Taking(c) => Low(c) \in Int /\ High(c) \in Int
         /\ head' \in Nat /\ head' >= head /\ head \in Nat
<1>1. ASSUME NEW c \in Consumers, Taking(c) PROVE Low(c) \in Int /\ High(c) \in Int
  BY CallFacts DEF Low, High
<1>2. ASSUME NEW d \in Consumers, Taking(d)'
      PROVE  \/ Taking(d) /\ Low(d)' \in Int /\ Low(d) <= Low(d)' /\ High(d)' = High(d)
             \/ ~Taking(d) /\ Low(d)' = head /\ High(d)' = head'
  <2>1. CASE Same(d)
    BY <2>1, <1>1, <1>2, SameHeld
  <2>2. CASE Consume(d) /\ Take(d)
    BY <2>2, TakeHeld
  <2>3. CASE Consume(d) /\ Later(d)
    BY <2>3, <1>2, LaterHeld DEF Found
  <2> QED BY <2>1, <2>2, <2>3, <1>2, StepsOf
<1>3. \A c, d \in Consumers : ~Taking(c) /\ Taking(c)' /\ ~Taking(d) /\ Taking(d)' => c = d
  BY Movers, SameHeld
<1> QED BY <1>1, <1>2, <1>3, HeadGrows, HistFacts

\* Calls never take the same element.
LEMMA IntervalsStep ==
  ASSUME Types, Types', Claims, Found, Next, HistNext
  PROVE  Intervals'
<1>1. /\ Start <= head /\ Start \in Nat
      /\ \A c \in Consumers : Taking(c) => Start <= Low(c) /\ High(c) <= head
      /\ \A c, d \in Consumers : Taking(c) /\ Taking(d) /\ c # d => High(c) <= Low(d) \/ High(d) <= Low(c)
  BY SizeFacts DEF Found, Intervals
<1>2. ASSUME NEW c \in Consumers, Taking(c)' PROVE Start <= Low(c)' /\ High(c)' <= head'
  <2>1. CASE Taking(c) /\ Low(c)' \in Int /\ Low(c) <= Low(c)' /\ High(c)' = High(c)
    BY <2>1, <1>1, Spans
  <2>2. CASE Low(c)' = head /\ High(c)' = head'
    BY <2>2, <1>1, Spans
  <2> QED BY <2>1, <2>2, <1>2, Spans
<1>3. ASSUME NEW c \in Consumers, NEW d \in Consumers, Taking(c)', Taking(d)', c # d
      PROVE  High(c)' <= Low(d)' \/ High(d)' <= Low(c)'
  <2>1. CASE Taking(c) /\ Taking(d)
    <3>1. Low(c)' \in Int /\ Low(c) <= Low(c)' /\ High(c)' = High(c) /\ Low(d)' \in Int /\ Low(d) <= Low(d)' /\ High(d)' = High(d)
          /\ Low(c) \in Int /\ Low(d) \in Int /\ High(c) \in Int /\ High(d) \in Int
      BY <2>1, <1>3, Spans
    <3> QED BY <2>1, <3>1, <1>1, <1>3
  <2>2. CASE Taking(c) /\ ~Taking(d)
    <3>1. High(c)' = High(c) /\ Low(d)' = head
      BY <2>2, <1>3, Spans
    <3> QED BY <2>2, <3>1, <1>1
  <2>3. CASE ~Taking(c) /\ Taking(d)
    <3>1. High(d)' = High(d) /\ Low(c)' = head
      BY <2>3, <1>3, Spans
    <3> QED BY <2>3, <3>1, <1>1
  <2>4. CASE ~Taking(c) /\ ~Taking(d)
    BY <2>4, <1>3, Spans
  <2> QED BY <2>1, <2>2, <2>3, <2>4
<1>4. Start <= head'
  BY <1>1, Spans
<1> QED BY <1>2, <1>3, <1>4 DEF Intervals

\* Nobody takes from a block again that is done with.
LEMMA HeldStep ==
  ASSUME Types, Types', Claims, Found, Next, HistNext, NEW q \in Int
  PROVE  /\ \A d \in Consumers : Held(d, q)' => Held(d, q) \/ head < From(q + 1)
         /\ Done(q) => Done(q)'
<1>1. ASSUME NEW d \in Consumers, Held(d, q)' PROVE Held(d, q) \/ head < From(q + 1)
  <2>1. Taking(d)'
    BY <1>1 DEF Held
  <2>2. CASE Same(d)
    BY <2>2, <1>1, SameHeld
  <2>3. CASE Consume(d) /\ Take(d)
    <3>1. Low(d)' = head /\ ~At(d, "clear")'
      BY <2>3, TakeHeld DEF At
    <3> QED BY <3>1, <1>1 DEF Held
  <2>4. CASE Consume(d) /\ Later(d)
    BY <2>4, <1>1, LaterHeld DEF Found
  <2> QED BY <2>1, <2>2, <2>3, <2>4, StepsOf
<1>2. ASSUME Done(q) PROVE Done(q)'
  <2>1. From(q + 1) <= head /\ \A c \in Consumers : ~Held(c, q)
    BY <1>2 DEF Done
  <2>2. From(q + 1) \in Int
    <3>1. 0 \in Int
      OBVIOUS
    <3> QED BY <3>1, BlockBefore
  <2>3. From(q + 1) <= head'
    BY <2>1, <2>2, Spans
  <2>4. \A c \in Consumers : ~Held(c, q)'
    BY <2>1, <2>2, <1>1, Spans
  <2> QED BY <2>3, <2>4 DEF Done, From
<1> QED BY <1>1, <1>2

-------------------------------------------------------------------------------
(* The entries and their blocks *)

\* An entry's number changes when a new block gets the entry.
LEMMA NumberFrame ==
  ASSUME Types, Types', Claims, Found, Next, HistNext
  PROVE  \A e \in Entries :
           /\ number'[e] \in Int /\ number[e] \in Int /\ number'[e] >= number[e]
           /\ value[e] # Null => number'[e] = number[e]
<1>1. \A e \in Entries : number[e] \in Int
  BY EntryFacts
<1>2. CASE number' = number
  BY <1>1, <1>2
<1>3. CASE producer.pc = "insert" /\ producer'.pc = "advance"
  <2>1. InsertBlockIndexEntry
    <3>1. ASSUME NEW c \in Consumers, Consume(c) PROVE FALSE
      BY <3>1, <1>3, ConsumerKeeps
    <3>2. ASSUME CheckRoom \/ AdvanceIndexTail \/ RequisitionBlock \/ FailBlock \/ UndoBlock \/ FreeChain
                 \/ AppendToTail \/ Publish \/ \E count \in Counts : BeginEnqueue(count)
          PROVE  FALSE
      BY <3>2, <1>3 DEF CheckRoom, AdvanceIndexTail, RequisitionBlock, FailBlock, UndoBlock, FreeChain,
         AppendToTail, Publish, BeginEnqueue, Producing
    <3>3. ASSUME NewBlockIndex PROVE FALSE
      BY <3>3, <1>3, ProducerRecord
    <3> QED BY <3>1, <3>2, <3>3 DEF Next, Produce, enqueue, enqueue_bulk
  <2>2. Producing("insert") /\ Reusable(NextEntry(headers[current])) /\ Rows /\ Tailed
    BY <2>1 DEF InsertBlockIndexEntry, Found, Indexed
  <2> DEFINE q == Newest + 1
             e == EntryFor(current, q)
  <2>3. e \in Entries /\ value[e] = Null /\ number[e] <= q /\ q \in Nat
    BY <2>2, InsertFacts DEF Found
  <2>4. NextEntry(headers[current]) = e
    BY <2>2, TailPlaces
  <2>5. number' = [number EXCEPT ![e] = q]
    BY <2>2, <2>4, <1>3 DEF HistNext
  <2> HIDE DEF q, e
  <2>6. \A f \in Entries : f # e => number'[f] = number[f]
    BY <2>5, EntryFacts
  <2>7. number'[e] = q
    BY <2>3, <2>5, EntryFacts
  <2> QED BY <2>3, <2>6, <2>7, <1>1
<1> QED BY <1>2, <1>3, NumbersSame

\* Nobody else holds a block that a call has found empty.
LEMMA ClearAlone ==
  ASSUME Types, Found, NEW d \in Consumers, At(d, "clear"), NEW c \in Consumers, c # d,
         NEW q \in Int, q = Num(place[d] - 1)
  PROVE  ~Held(c, q) /\ From(q + 1) <= head
<1>1. Counted(q) = Offsets /\ (At(c, "clear") => Num(place[c] - 1) # q)
  BY DEF Found, Looking, At
<1>2. From(q) \in Int /\ From(q + 1) = From(q) + BLOCK_SIZE /\ BLOCK_SIZE \in Nat \ {0} /\ head \in Nat
  BY FromFacts, SizeFacts, HistFacts
<1>3. \A o \in Offsets : /\ From(q) + o < head
                         /\ Taking(c) => ~(Low(c) <= From(q) + o /\ From(q) + o < High(c))
  BY <1>1 DEF Counted
<1>4. From(q + 1) <= head
  <2>1. BLOCK_SIZE - 1 \in Offsets
    BY <1>2 DEF Offsets
  <2>2. From(q) + (BLOCK_SIZE - 1) < head
    BY <2>1, <1>3
  <2> QED BY <2>2, <1>2
<1>5. ASSUME Taking(c), Low(c) < High(c), From(q) < High(c), Low(c) < From(q + 1)
      PROVE  FALSE
  <2>1. Low(c) \in Int /\ High(c) \in Int
    BY CallFacts DEF Low, High
  <2>2. CASE Low(c) <= From(q)
    <3>1. 0 \in Offsets /\ From(q) + 0 = From(q)
      BY <1>2 DEF Offsets
    <3> QED BY <3>1, <2>2, <1>3, <1>5
  <2>3. CASE Low(c) > From(q)
    <3>1. Low(c) - From(q) \in Offsets /\ From(q) + (Low(c) - From(q)) = Low(c)
      BY <2>1, <2>3, <1>2, <1>5 DEF Offsets
    <3>2. Low(c) <= Low(c)
      BY <2>1
    <3> DEFINE o == Low(c) - From(q)
    <3>3. o \in Offsets /\ From(q) + o = Low(c)
      BY <3>1
    <3> HIDE DEF o
    <3> QED BY <3>2, <3>3, <1>3, <1>5
  <2> QED BY <2>1, <2>2, <2>3, <1>2
<1> QED BY <1>1, <1>4, <1>5 DEF Held

\* How an entry gets and loses its block.
LEMMA ClearIs ==
  ASSUME Types, Claims, Found, NEW c \in Consumers, ClearEntry(c), NEW q, q = Num(place[c] - 1)
  PROVE  /\ At(c, "clear") /\ q \in Int /\ q <= TailNumber /\ Held(c, q)
         /\ EntryFor(current, q) \in Entries /\ number[EntryFor(current, q)] = q
         /\ value[EntryFor(current, q)] = call[c].block /\ value[EntryFor(current, q)] # Null
         /\ value' = [value EXCEPT ![EntryFor(current, q)] = Null]
<1>1. At(c, "clear") /\ Held(c, q) /\ q \in Int
  BY HeldNext DEF ClearEntry
<1>2. /\ q \in Num(Start)..TailNumber /\ Standing(q)
      /\ EntryFor(call[c].header, q) = EntryFor(current, q) /\ EntryFor(current, q) \in Entries
  BY <1>1, HeldStands DEF At
<1>3. call[c].pos = Pos(call[c].header, q) /\ value[EntryFor(call[c].header, q)] = call[c].block
  BY <1>1 DEF Found, Looking, At
<1>4. EntryOf(c) = EntryFor(current, q)
  BY <1>2, <1>3 DEF EntryOf, EntryFor
<1>5. q <= TailNumber
  BY <1>1, <1>2, NewestFacts, StartFacts
<1> QED BY <1>1, <1>2, <1>3, <1>4, <1>5 DEF ClearEntry, Standing

\* The block that an undoing enqueue takes out of the index.
LEMMA UndoIs ==
  ASSUME Types, Claims, Found, UndoBlock, NEW q, q = TailNumber + producer.undone + 1
  PROVE  /\ q \in Int /\ q > TailNumber /\ producer.undone + 1 \in 1..Len(producer.chain)
         /\ EntryFor(current, q) \in Entries /\ number[EntryFor(current, q)] = q
         /\ value[EntryFor(current, q)] = producer.chain[producer.undone + 1]
         /\ value' = [value EXCEPT ![EntryFor(current, q)] = Null]
         /\ producer'.chain = producer.chain /\ producer'.undone = producer.undone + 1
<1>1. Producing("undo") /\ producer.undone < Len(producer.chain)
  BY DEF UndoBlock
<1>2. /\ Placed(Plus(Base(Minus(tailIndex, 1)), BLOCK_SIZE * (producer.undone + 1))) = EntryFor(current, q)
      /\ q \in Nat /\ q > TailNumber
      /\ EntryFor(current, q) \in Entries /\ number[EntryFor(current, q)] = q
      /\ value[EntryFor(current, q)] = producer.chain[producer.undone + 1]
  BY <1>1, UndoFacts DEF Found
<1>3. value' = [value EXCEPT ![EntryFor(current, q)] = Null]
  BY <1>2 DEF UndoBlock
<1>4. producer'.chain = producer.chain /\ producer'.undone = producer.undone + 1
  BY ProducerRecord
<1>5. producer.undone + 1 \in 1..Len(producer.chain)
  BY <1>1, NewestFacts
<1> QED BY <1>2, <1>3, <1>4, <1>5

\* The steps that change an entry's block.
LEMMA ValueStep ==
  ASSUME Types, Types', Claims, Found, Next, HistNext
  PROVE  \/ value' = value
         \/ \E c \in Consumers : ClearEntry(c) /\ Consume(c)
         \/ UndoBlock
         \/ RequisitionBlock
<1>1. ASSUME NEW c \in Consumers, Consume(c) PROVE value' = value \/ ClearEntry(c)
  BY <1>1 DEF Consume, dequeue_bulk, LoadHeader, LoadTail, LoadKey, Fetch, SetManyEmpty, FreeBlock, blockIndex
<1>2. CASE FailBlock
  <2>1. Producing("requisition") /\ Rows /\ Tailed /\ Chained
        /\ value' = [value EXCEPT ![TailEntry(headers[current])] = Null]
    BY <1>2 DEF FailBlock, Found, Indexed
  <2>2. TailEntry(headers[current]) = EntryFor(current, Newest)
    BY <2>1, TailPlaces
  <2>3. Newest = TailNumber + Len(producer.chain) + 1
    BY <2>1, NewestFacts
  <2>4. value[EntryFor(current, Newest)] = Null
    BY <2>1, <2>3 DEF Chained, Producing
  <2>5. value' = value
    BY <2>1, <2>2, <2>4, EntryFacts
  <2> QED BY <2>5
<1>3. CASE Produce
  BY <1>2, <1>3, ZenonT(30) DEF Produce, enqueue, enqueue_bulk, BeginEnqueue, CheckRoom, InsertBlockIndexEntry, AdvanceIndexTail,
     NewBlockIndex, FreeChain, AppendToTail, Publish, blockIndex
<1> QED BY <1>1, <1>3 DEF Next

\* A block that is held stays in its entry.
LEMMA HeldKept ==
  ASSUME Types, Types', Claims, Found, Next, HistNext, NEW c \in Consumers, NEW q \in Int, Held(c, q),
         ~(ClearEntry(c) /\ q = Num(place[c] - 1))
  PROVE  LET e == EntryFor(current, q)
         IN e \in Entries /\ value[e] # Null /\ value'[e] = value[e] /\ number[e] = q /\ number'[e] = q
<1> DEFINE e == EntryFor(current, q)
<1>1. q \in Num(Start)..TailNumber /\ Standing(q)
  BY HeldStands
<1>2. Rows /\ current \in 1..current /\ TailNumber \in Int /\ q <= TailNumber
  BY <1>1, TailPlaces, NewestFacts, StartFacts DEF Found, Indexed
<1>3. e \in Entries /\ number[e] = q /\ value[e] # Null
  BY <1>1, <1>2, PosFacts DEF Standing
<1> HIDE DEF e
<1>4. number'[e] = q
  BY <1>3, NumberFrame
<1>5. value'[e] = value[e]
  <2>1. ASSUME NEW d \in Consumers, ClearEntry(d), Consume(d) PROVE value'[e] = value[e]
    <3>1. PICK r : r = Num(place[d] - 1)
      OBVIOUS
    <3>2. /\ At(d, "clear") /\ r \in Int /\ EntryFor(current, r) \in Entries /\ number[EntryFor(current, r)] = r
          /\ value' = [value EXCEPT ![EntryFor(current, r)] = Null]
      BY <2>1, <3>1, ClearIs
    <3>3. r # q
      BY <2>1, <3>1, <3>2, ClearAlone
    <3> QED BY <3>2, <3>3, <1>3, EntryFacts
  <2>2. ASSUME UndoBlock PROVE value'[e] = value[e]
    <3>1. PICK r : r = TailNumber + producer.undone + 1
      OBVIOUS
    <3>2. /\ r > TailNumber /\ r \in Int /\ EntryFor(current, r) \in Entries /\ number[EntryFor(current, r)] = r
          /\ value' = [value EXCEPT ![EntryFor(current, r)] = Null]
      BY <2>2, <3>1, UndoIs
    <3>3. r # q
      BY <3>2, <1>2
    <3> QED BY <3>2, <3>3, <1>3, EntryFacts
  <2>3. ASSUME RequisitionBlock PROVE value'[e] = value[e]
    <3>1. PICK b \in free : EnterBlock(b)
      BY <2>3 DEF RequisitionBlock
    <3>2. PICK r : r = TailNumber + Len(producer.chain) + 1
      OBVIOUS
    <3>3. /\ EntryFor(current, r) \in Entries /\ value[EntryFor(current, r)] = Null
          /\ value' = [value EXCEPT ![EntryFor(current, r)] = b]
      BY <2>3, <3>1, <3>2, EnterFacts DEF RequisitionBlock, Found
    <3> QED BY <3>3, <1>3, EntryFacts
  <2> QED BY <2>1, <2>2, <2>3, ValueStep
<1> QED BY <1>3, <1>4, <1>5 DEF e

-------------------------------------------------------------------------------
(* The blocks are kept where they are found *)

\* The tail block is another when the new blocks are published.
LEMMA TailSteps ==
  ASSUME Types, Types', Claims, Next, HistNext
  PROVE  /\ TailNumber' = TailNumber \/ Publish
         /\ Publish => /\ TailNumber' = TailNumber + Len(producer.chain) /\ producer.undone = 0
                       /\ value' = value /\ number' = number
<1>1. ASSUME NEW c \in Consumers, Consume(c) PROVE TailNumber' = TailNumber
  BY <1>1, ConsumerKeeps, TailSame
<1>2. ASSUME AppendToTail PROVE TailNumber' = TailNumber
  <2>1. PICK count \in Counts : BlocksNeeded(count) = 0 /\ Construct(count, <<>>)
    BY <1>2 DEF AppendToTail
  <2>2. sent' = sent + count /\ Needs(count) = 0
    BY <2>1, NeedFacts DEF Construct, Claims
  <2> QED BY <2>2, TailMoves, NewestFacts
<1>3. ASSUME Publish
      PROVE  /\ TailNumber' = TailNumber + Len(producer.chain) /\ producer.undone = 0
             /\ value' = value /\ number' = number
  <2>1. producer.pc = "publish" /\ producer' = NoEnqueue /\ value' = value
        /\ sent' = sent + producer.count /\ producer.count \in Counts
    BY <1>3 DEF Publish, Producing, Construct, blockIndex, Types, ProducerTypes
  <2>2. TailNumber' = TailNumber + Needs(producer.count)
    BY <2>1, TailMoves
  <2>3. Needs(producer.count) = Len(producer.chain)
    BY <2>1 DEF Claims, Enqueuing, Producing
  <2>4. producer.undone = 0
    BY <2>1, NewestFacts DEF Producing
  <2>5. number' = number
    BY <2>1, NumbersSame
  <2> QED BY <2>1, <2>2, <2>3, <2>4, <2>5
<1>4. ASSUME Produce PROVE TailNumber' = TailNumber \/ Publish
  BY <1>2, <1>4, TailSame, ProducerCounters
<1> QED BY <1>1, <1>3, <1>4 DEF Next

\* A block stands where its entry is.
LEMMA StandsNext ==
  ASSUME Types', Indexed', NEW e \in Entries, NEW q \in Int, number'[e] = q, value'[e] # Null
  PROVE  Standing(q)'
<1>1. number'[e] # -1
  <2>1. Num(Start) \in Nat
    BY StartFacts
  <2>2. number'[e] \in InUse'
    BY DEF Indexed, Numbered, InUse
  <2>3. TailNumber' \in Int /\ TailNumber' >= -1 /\ producer'.undone \in Nat /\ Len(producer'.chain) \in Nat
    BY NextFacts
  <2>4. number'[e] >= 0
    BY <2>1, <2>2, <2>3 DEF InUse
  <2> QED BY <2>4
<1>2. EntryFor(current, number[e])' = e
  BY <1>1 DEF Indexed, Numbered
<1>3. EntryFor(current, q)' = EntryFor(current, number[e])'
  BY DEF EntryFor, Pos
<1> QED BY <1>2, <1>3 DEF Standing

\* A block that nobody is done with is in the index.
LEMMA PresentStep ==
  ASSUME Types, Types', Claims, Found, Next, HistNext, Indexed'
  PROVE  Present'
<1> SUFFICES ASSUME NEW q \in Num(Start)..TailNumber', ~Done(q)'
             PROVE  Standing(q)'
  BY DEF Present
<1>0. q \in Int /\ TailNumber \in Int /\ Len(producer.chain) \in Nat /\ TailNumber' \in Int /\ q >= Num(Start) /\ q <= TailNumber'
  BY StartFacts, NewestFacts, NextFacts
<1>r. Rows /\ Chained /\ current \in 1..current /\ Present
  BY TailPlaces DEF Found, Indexed, Located
<1> DEFINE e == EntryFor(current, q)
<1>1. CASE q <= TailNumber
  <2>1. ~Done(q)
    BY <1>0, HeldStep
  <2>2. Standing(q)
    BY <1>0, <1>1, <1>r, <2>1, StartFacts DEF Present
  <2>3. e \in Entries /\ number[e] = q /\ value[e] # Null
    BY <2>2, <1>0, <1>r, PosFacts DEF Standing
  <2> HIDE DEF e
  <2>4. number'[e] = q
    BY <2>3, NumberFrame
  <2>5. ASSUME NEW c \in Consumers, ClearEntry(c), Consume(c) PROVE value'[e] # Null
    <3>1. PICK r : r = Num(place[c] - 1)
      OBVIOUS
    <3>2. /\ At(c, "clear") /\ r \in Int /\ EntryFor(current, r) \in Entries /\ number[EntryFor(current, r)] = r
          /\ value' = [value EXCEPT ![EntryFor(current, r)] = Null]
      BY <2>5, <3>1, ClearIs
    <3>3. r # q
      <4> SUFFICES ASSUME r = q PROVE FALSE
        OBVIOUS
      <4>1. Counted(r) = Offsets
        BY <3>1, <3>2 DEF Found, Looking, At
      <4>2. From(q) \in Int /\ From(q + 1) = From(q) + BLOCK_SIZE /\ BLOCK_SIZE \in Nat \ {0} /\ head \in Nat
        BY <1>0, FromFacts, SizeFacts, HistFacts
      <4>3. From(q + 1) <= head
        <5>1. BLOCK_SIZE - 1 \in Offsets
          BY <4>2 DEF Offsets
        <5>2. From(q) + (BLOCK_SIZE - 1) < head
          BY <5>1, <4>1 DEF Counted
        <5> QED BY <5>2, <4>2
      <4>4. ~Held(c, q)'
        <5>1. Later(c) /\ Looking(c)
          BY <2>5 DEF Later, Found
        <5> QED BY <5>1, <2>5, <3>1, <1>0, LaterHeld
      <4>5. ASSUME NEW d \in Consumers PROVE ~Held(d, q)'
        <5>1. d # c => ~Held(d, q)
          BY <3>1, <3>2, <1>0, ClearAlone
        <5>2. ~(head < From(q + 1))
          BY <4>2, <4>3
        <5> QED BY <5>1, <5>2, <4>4, <1>0, HeldStep
      <4>6. From(q + 1) <= head'
        BY <4>2, <4>3, Spans
      <4> QED BY <4>5, <4>6 DEF Done, From
    <3> QED BY <3>2, <3>3, <2>3, EntryFacts
  <2>6. ASSUME UndoBlock PROVE value'[e] # Null
    <3>1. PICK r : r = TailNumber + producer.undone + 1
      OBVIOUS
    <3>2. /\ r > TailNumber /\ r \in Int /\ EntryFor(current, r) \in Entries /\ number[EntryFor(current, r)] = r
          /\ value' = [value EXCEPT ![EntryFor(current, r)] = Null]
      BY <2>6, <3>1, UndoIs
    <3>3. r # q
      BY <3>2, <1>0, <1>1
    <3> QED BY <3>2, <3>3, <2>3, EntryFacts
  <2>7. ASSUME RequisitionBlock PROVE value'[e] # Null
    <3>1. PICK b \in free : EnterBlock(b)
      BY <2>7 DEF RequisitionBlock
    <3>2. PICK r : r = TailNumber + Len(producer.chain) + 1
      OBVIOUS
    <3>3. /\ EntryFor(current, r) \in Entries /\ value[EntryFor(current, r)] = Null
          /\ value' = [value EXCEPT ![EntryFor(current, r)] = b]
      BY <2>7, <3>1, <3>2, EnterFacts DEF RequisitionBlock, Found
    <3> QED BY <3>3, <2>3, EntryFacts
  <2>8. value'[e] # Null
    BY <2>3, <2>5, <2>6, <2>7, ValueStep
  <2> QED BY <2>3, <2>4, <2>8, <1>0, StandsNext
<1>2. CASE q > TailNumber
  <2>1. /\ Publish /\ TailNumber' = TailNumber + Len(producer.chain) /\ producer.undone = 0
        /\ value' = value /\ number' = number
    BY <1>0, <1>2, TailSteps
  <2> DEFINE j == q - TailNumber
  <2>2. j \in 1..Len(producer.chain) /\ q = TailNumber + j /\ j > producer.undone
    BY <1>0, <1>2, <2>1
  <2> HIDE DEF j
  <2>3. number[e] = q /\ value[e] = producer.chain[j]
    BY <2>2, <1>r DEF Chained
  <2>4. producer.chain[j] # Null
    <3>1. producer.chain \in Seq(Blocks)
      BY NewestFacts
    <3>2. producer.chain[j] \in Blocks
      BY <3>1, <2>2, ElementOfSeq
    <3> QED BY <3>2, NullAssumption
  <2>5. e \in Entries
    BY <1>0, <1>r, PosFacts
  <2> QED BY <2>1, <2>3, <2>4, <2>5, <1>0, StandsNext
<1> QED BY <1>0, <1>1, <1>2

\* No block is in two entries.
LEMMA DistinctStep ==
  ASSUME Types, Types', Claims, Found, Next, HistNext
  PROVE  Distinct'
<1>0. /\ Distinct /\ \A b \in free : ~InEntry(b)
      /\ \A b \in free : b \in Blocks
  BY DEF Found, Located, Apart, Types, StoreTypes
<1>1. CASE value' = value
  BY <1>0, <1>1 DEF Distinct
<1>2. ASSUME NEW x, value' = [value EXCEPT ![x] = Null] PROVE Distinct'
  BY <1>0, <1>2, EntryFacts DEF Distinct
<1>3. CASE RequisitionBlock
  <2>1. PICK b \in free : EnterBlock(b)
    BY <1>3 DEF RequisitionBlock
  <2>2. \E x : value' = [value EXCEPT ![x] = b]
    BY <2>1 DEF EnterBlock
  <2>3. \A e \in Entries : value[e] # b
    BY <1>0 DEF InEntry
  <2> QED BY <2>2, <2>3, <1>0, EntryFacts DEF Distinct
<1>4. CASE UndoBlock
  BY <1>2, <1>4 DEF UndoBlock
<1>5. ASSUME NEW c \in Consumers, ClearEntry(c) PROVE Distinct'
  BY <1>2, <1>5 DEF ClearEntry
<1> QED BY <1>1, <1>3, <1>4, <1>5, ValueStep

\* Apart, of one block.
ApartAt(b) ==
  /\ b \in free => ~InEntry(b) /\ ~Undone(b) /\ \A c \in Consumers : ~AtFree(c, b)
  /\ InEntry(b) => ~Undone(b) /\ \A c \in Consumers : ~AtFree(c, b)
  /\ Undone(b) => \A c \in Consumers : ~AtFree(c, b)
  /\ \A c, d \in Consumers : AtFree(c, b) /\ AtFree(d, b) => c = d

\* A block that leaves its places goes to no other.
LEMMA Leaves ==
  ASSUME NEW b, ApartAt(b), b \in free' => b \in free, InEntry(b)' => InEntry(b), Undone(b)' => Undone(b),
         \A c \in Consumers : AtFree(c, b)' => AtFree(c, b)
  PROVE  ApartAt(b)'
BY DEF ApartAt

\* A call comes to free a block by clearing its entry.
LEMMA AtFreeStep ==
  ASSUME Types, Types', Claims, Found, Next, HistNext, NEW c \in Consumers, NEW b, AtFree(c, b)'
  PROVE  AtFree(c, b) \/ (ClearEntry(c) /\ Consume(c) /\ b = call[c].block)
<1>0. call'[c].pc = "free" /\ call'[c].block = b
  BY DEF AtFree, At
<1>1. CASE Same(c)
  BY <1>0, <1>1 DEF Same, AtFree, At
<1>2. CASE Consume(c) /\ ~Taking(c)'
  BY <1>0, <1>2 DEF Taking
<1>3. CASE Consume(c) /\ Take(c)
  <2>1. call'[c].pc = "header"
    BY <1>3, TakeHeld
  <2> QED BY <2>1, <1>0
<1>4. CASE Consume(c) /\ Later(c)
  <2>1. ~LoadHeader(c) /\ ~LoadTail(c) /\ ~LoadKey(c)
    BY <1>0, LookSteps
  <2>2. ~Fetch(c)
    BY <1>0, FetchStep DEF Found
  <2>3. OnToNext(c) => call'[c].pc \in {"idle", "fetch"}
    <3>1. call[c].n = 0 \/ call[c].n # 0
      OBVIOUS
    <3> QED BY <3>1, NextBlockIs DEF NoCall
  <2>4. ~SetManyEmpty(c) /\ ~FreeBlock(c)
    BY <1>0, <2>3, LookSteps
  <2>5. ClearEntry(c) => call'[c].block = call[c].block
    BY LookSteps
  <2> QED BY <2>1, <2>2, <2>4, <2>5, <1>0, <1>4 DEF Later
<1> QED BY <1>1, <1>2, <1>3, <1>4, StepsOf

\* The blocks of a failed enqueue that have left the index.
LEMMA UndoneStep ==
  ASSUME Types, Types', Claims, Next, NEW b, Undone(b)'
  PROVE  Undone(b) \/ UndoBlock
<1>1. PICK j \in 1..producer'.undone : producer'.chain[j] = b
  BY DEF Undone
<1>2. producer'.undone \in Nat /\ producer.undone \in Nat
  BY NextFacts, NewestFacts
<1>3. ASSUME NEW p, GoTo(p) PROVE Undone(b)
  BY <1>1, <1>3, GoToFacts DEF Undone
<1>4. producer' = NoEnqueue => FALSE
  BY <1>1, <1>2 DEF NoEnqueue
<1>5. producer' = producer => Undone(b)
  BY <1>1 DEF Undone
<1>6. \A count \in Counts : ~BeginEnqueue(count)
  <2> SUFFICES ASSUME NEW count \in Counts, BeginEnqueue(count) PROVE FALSE
    OBVIOUS
  <2>1. producer' = [pc |-> "insert", count |-> count, chain |-> <<>>, undone |-> 0]
    BY DEF BeginEnqueue, NoEnqueue
  <2>2. producer'.undone = 0
    BY <2>1
  <2>3. 1 <= j /\ j <= producer'.undone
    BY <1>1, <1>2
  <2> QED BY <2>2, <2>3, <1>1
<1>7. ASSUME NEW c \in Consumers, Consume(c) PROVE Undone(b)
  BY <1>5, <1>7, ConsumerKeeps
<1>8. ~RequisitionBlock
  <2> SUFFICES ASSUME RequisitionBlock PROVE FALSE
    OBVIOUS
  <2>1. producer'.undone = producer.undone
    BY ChainRecord DEF RequisitionBlock
  <2>2. producer.undone = 0
    BY NewestFacts DEF RequisitionBlock, Producing
  <2> QED BY <2>1, <2>2, <1>1
<1>9. CASE Produce
  BY <1>3, <1>4, <1>5, <1>6, <1>8, <1>9 DEF Produce, enqueue, enqueue_bulk, CheckRoom, InsertBlockIndexEntry,
     AdvanceIndexTail, NewBlockIndex, FailBlock, FreeChain, AppendToTail, Publish
<1> QED BY <1>7, <1>9 DEF Next

\* The steps that change the free blocks.
LEMMA FreeStep ==
  ASSUME Types, Next
  PROVE  \/ free' = free
         \/ RequisitionBlock
         \/ FreeChain
         \/ \E c \in Consumers : FreeBlock(c) /\ Consume(c)
<1>1. ASSUME NEW c \in Consumers, Consume(c) PROVE free' = free \/ FreeBlock(c)
  BY <1>1, ZenonT(30) DEF Consume, dequeue_bulk, ClaimElements, Begin, ReadOvercommit, Look, Claim, Settle, GiveBack, Take,
     LoadHeader, LoadTail, LoadKey, Fetch, MoveOut, SetManyEmpty, ClearEntry, stored
<1>2. CASE Produce
  BY <1>2, ZenonT(40) DEF Produce, enqueue, enqueue_bulk, BeginEnqueue, CheckRoom, InsertBlockIndexEntry, AdvanceIndexTail,
     NewBlockIndex, FailBlock, UndoBlock, AppendToTail, Publish, Construct, base, stored
<1> QED BY <1>1, <1>2, ZenonT(30) DEF Next

\* A block enters the index by being requisitioned.
LEMMA EntryStep ==
  ASSUME Types, Types', Claims, Found, Next, HistNext, NEW b \in Blocks, InEntry(b)'
  PROVE  InEntry(b) \/ RequisitionBlock
<1>1. PICK e \in Entries : value'[e] = b
  BY DEF InEntry
<1>2. b # Null
  BY NullAssumption
<1>3. ASSUME NEW x, value' = [value EXCEPT ![x] = Null] PROVE value[e] = b
  BY <1>1, <1>2, <1>3, EntryFacts
<1>4. value[e] = b \/ RequisitionBlock
  BY <1>1, <1>3, ValueStep DEF ClearEntry, UndoBlock
<1> QED BY <1>4 DEF InEntry

\* A block is free, in the index, undone or a call's to free: one of these only.
LEMMA ApartStep ==
  ASSUME Types, Types', Claims, Found, Next, HistNext
  PROVE  Apart'
<1> SUFFICES ASSUME NEW b \in Blocks PROVE ApartAt(b)'
  BY DEF Apart, ApartAt
<1>0. ApartAt(b) /\ Distinct
  BY DEF Found, Located, Apart, ApartAt
<1>n. b # Null
  BY NullAssumption
<1>1. CASE RequisitionBlock
  <2>1. PICK x \in free : EnterBlock(x)
    BY <1>1 DEF RequisitionBlock
  <2>2. free' = free \ {x} /\ \E y : value' = [value EXCEPT ![y] = x]
    BY <2>1 DEF EnterBlock
  <2>3. ~Undone(b)'
    <3>1. producer'.undone = producer.undone
      BY <2>1, ChainRecord
    <3>2. producer.undone = 0
      BY <1>1, NewestFacts DEF RequisitionBlock, Producing
    <3> QED BY <3>1, <3>2 DEF Undone
  <2>4. UNCHANGED call
    BY <1>1 DEF RequisitionBlock
  <2>5. \A c \in Consumers : AtFree(c, b)' <=> AtFree(c, b)
    BY <2>4 DEF AtFree, At
  <2>6. CASE b = x
    BY <2>1, <2>2, <2>3, <2>5, <2>6, <1>0 DEF ApartAt
  <2>7. CASE b # x
    <3>1. InEntry(b)' => InEntry(b)
      BY <2>2, <2>7, EntryFacts DEF InEntry
    <3> QED BY <3>1, <2>2, <2>3, <2>5, <1>0, Leaves
  <2> QED BY <2>6, <2>7
<1>2. CASE FreeChain
  <2>1. /\ free' = free \cup {producer.chain[j] : j \in DOMAIN producer.chain} /\ UNCHANGED <<call, value>>
        /\ producer.undone = Len(producer.chain) /\ producer'.undone = 0
    BY <1>2 DEF FreeChain, blockIndex, NoEnqueue
  <2>2. ~Undone(b)'
    BY <2>1 DEF Undone
  <2>3. b \in free' => b \in free \/ Undone(b)
    <3>1. producer.chain \in Seq(Blocks)
      BY NewestFacts
    <3>2. DOMAIN producer.chain = 1..Len(producer.chain)
      BY <3>1, LenProperties
    <3> QED BY <3>2, <2>1 DEF Undone
  <2>4. /\ InEntry(b)' <=> InEntry(b)
        /\ \A c \in Consumers : AtFree(c, b)' <=> AtFree(c, b)
    BY <2>1 DEF InEntry, AtFree, At
  <2> QED BY <2>2, <2>3, <2>4, <1>0 DEF ApartAt
<1>3. CASE UndoBlock
  <2>1. PICK q : q = TailNumber + producer.undone + 1
    OBVIOUS
  <2> DEFINE e == EntryFor(current, q)
             x == producer.chain[producer.undone + 1]
  <2>2. /\ e \in Entries /\ value[e] = x /\ value' = [value EXCEPT ![e] = Null]
        /\ producer'.chain = producer.chain /\ producer'.undone = producer.undone + 1
    BY <2>1, <1>3, UndoIs
  <2> HIDE DEF e
  <2>3. UNCHANGED <<free, call>>
    BY <1>3 DEF UndoBlock, base, stored
  <2>4. \A c \in Consumers : AtFree(c, b)' <=> AtFree(c, b)
    BY <2>3 DEF AtFree, At
  <2>5. InEntry(b)' => InEntry(b) /\ b # x
    <3>1. ASSUME NEW f \in Entries, value'[f] = b PROVE value[f] = b /\ f # e
      BY <3>1, <2>2, <1>n, EntryFacts
    <3> QED BY <3>1, <2>2, <1>0, <1>n DEF InEntry, Distinct
  <2>6. Undone(b)' => Undone(b) \/ b = x
    <3>1. producer.undone \in Nat
      BY NewestFacts
    <3>2. \A j \in 1..(producer.undone + 1) : j \in 1..producer.undone \/ j = producer.undone + 1
      BY <3>1
    <3> QED BY <3>2, <2>2 DEF Undone
  <2>7. b = x => InEntry(b)
    BY <2>2 DEF InEntry
  <2> QED BY <2>3, <2>4, <2>5, <2>6, <2>7, <1>0 DEF ApartAt
<1>4. ASSUME NEW c \in Consumers, Consume(c) PROVE ApartAt(b)'
  <2>0. producer' = producer
    BY <1>4, ConsumerKeeps
  <2>1. Undone(b)' <=> Undone(b)
    BY <2>0 DEF Undone
  <2>2. \A d \in Consumers : d # c => Same(d)
    BY <1>4, OthersSame
  <2>3. \A d \in Consumers : d # c => (AtFree(d, b)' <=> AtFree(d, b))
    BY <2>2 DEF Same, AtFree, At
  <2>4. CASE ClearEntry(c)
    <3>1. PICK q : q = Num(place[c] - 1)
      OBVIOUS
    <3> DEFINE e == EntryFor(current, q)
               x == call[c].block
    <3>2. e \in Entries /\ value[e] = x /\ value' = [value EXCEPT ![e] = Null] /\ At(c, "clear")
      BY <2>4, <3>1, ClearIs
    <3> HIDE DEF e
    <3>3. free' = free
      BY <2>4 DEF ClearEntry, stored
    <3>4. InEntry(b)' => InEntry(b) /\ b # x
      <4>1. ASSUME NEW f \in Entries, value'[f] = b PROVE value[f] = b /\ f # e
        BY <4>1, <3>2, <1>n, EntryFacts
      <4> QED BY <4>1, <3>2, <1>0, <1>n DEF InEntry, Distinct
    <3>5. AtFree(c, b)' => b = x
      BY <2>4, LookSteps DEF AtFree
    <3>6. b = x => InEntry(b)
      BY <3>2 DEF InEntry
    <3>7. CASE b = x
      BY <3>3, <3>4, <3>5, <3>6, <3>7, <2>1, <2>3, <1>0 DEF ApartAt
    <3>8. CASE b # x
      <4>1. \A d \in Consumers : AtFree(d, b)' => AtFree(d, b)
        BY <3>5, <3>8, <2>3
      <4> QED BY <4>1, <3>3, <3>4, <2>1, <1>0, Leaves
    <3> QED BY <3>7, <3>8
  <2>5. CASE FreeBlock(c)
    <3> DEFINE x == call[c].block
    <3>1. At(c, "free") /\ free' = free \cup {x} /\ value' = value
      BY <2>5 DEF FreeBlock, blockIndex
    <3>2. ~AtFree(c, b)'
      <4>1. OnToNext(c)
        BY <2>5 DEF FreeBlock
      <4>2. call'[c].pc \in {"idle", "fetch"}
        <5>1. call[c].n = 0 \/ call[c].n # 0
          OBVIOUS
        <5> QED BY <4>1, <5>1, NextBlockIs DEF NoCall
      <4> QED BY <4>2 DEF AtFree, At
    <3>3. InEntry(b)' <=> InEntry(b)
      BY <3>1 DEF InEntry
    <3>4. b = x => AtFree(c, b)
      BY <3>1 DEF AtFree
    <3>5. CASE b = x
      BY <3>1, <3>2, <3>3, <3>4, <3>5, <2>1, <2>3, <1>0 DEF ApartAt
    <3>6. CASE b # x
      <4>1. \A d \in Consumers : AtFree(d, b)' => AtFree(d, b)
        BY <3>2, <2>3
      <4> QED BY <4>1, <3>1, <3>3, <3>6, <2>1, <1>0, Leaves
    <3> QED BY <3>5, <3>6
  <2>6. CASE ~ClearEntry(c) /\ ~FreeBlock(c)
    <3>1. free' = free /\ value' = value
      BY <1>4, <2>6, ZenonT(30) DEF Consume, dequeue_bulk, ClaimElements, Begin, ReadOvercommit, Look, Claim, Settle, GiveBack, Take,
         LoadHeader, LoadTail, LoadKey, Fetch, MoveOut, SetManyEmpty, stored, blockIndex
    <3>2. InEntry(b)' <=> InEntry(b)
      BY <3>1 DEF InEntry
    <3>3. \A d \in Consumers : AtFree(d, b)' => AtFree(d, b)
      BY <2>3, <2>6, AtFreeStep
    <3> QED BY <3>1, <3>2, <3>3, <2>1, <1>0, Leaves, ZenonT(30)
  <2> QED BY <2>4, <2>5, <2>6
<1>5. CASE Produce /\ ~RequisitionBlock /\ ~FreeChain /\ ~UndoBlock
  <2>1. UNCHANGED call
    BY <1>5, ProducerSteps
  <2>2. \A c \in Consumers : AtFree(c, b)' <=> AtFree(c, b)
    BY <2>1, ZenonT(30) DEF AtFree, At
  <2>3. free' = free
    BY <1>5, ZenonT(30) DEF Produce, enqueue, enqueue_bulk, BeginEnqueue, CheckRoom, InsertBlockIndexEntry, AdvanceIndexTail,
       NewBlockIndex, FailBlock, AppendToTail, Publish, Construct, base, stored
  <2>4. InEntry(b)' => InEntry(b)
    BY <1>5, EntryStep
  <2>5. Undone(b)' => Undone(b)
    BY <1>5, UndoneStep
  <2> QED BY <2>2, <2>3, <2>4, <2>5, <1>0, Leaves
<1> QED BY <1>1, <1>2, <1>3, <1>4, <1>5 DEF Next

-------------------------------------------------------------------------------
(* The counts of the blocks *)

\* c counts element x as done with.
CountsNow(c, x) == SetManyEmpty(c) /\ place[c] - call[c].k <= x /\ x < place[c]

\* The counted offsets, by what the calls have taken.
LEMMA CountedIs ==
  ASSUME NEW q \in Int
  PROVE  /\ Counted(q) = {o \in Offsets : From(q) + o < head /\ \A c \in Consumers : ~In(c, From(q) + o)}
         /\ Counted(q)' = {o \in Offsets : From(q) + o < head' /\ \A c \in Consumers : ~In(c, From(q) + o)'}
         /\ Counted(q) \subseteq Offsets /\ \A o \in Offsets : From(q) + o \in Int /\ o \in Int
<1>1. \A o \in Offsets : From(q) + o \in Int /\ o \in Int
  <2>1. BLOCK_SIZE \in Nat \ {0} /\ From(q) \in Int
    BY SizeFacts, FromFacts
  <2> QED BY <2>1 DEF Offsets
<1>2. Counted(q) = {o \in Offsets : From(q) + o < head /\ \A c \in Consumers : ~In(c, From(q) + o)}
  BY Zenon DEF Counted, In
<1>3. Counted(q)' = {o \in Offsets : From(q) + o < head' /\ \A c \in Consumers : ~In(c, From(q) + o)'}
  <2>1. Offsets' = Offsets /\ From(q)' = From(q)
    BY DEF Offsets, From
  <2> QED BY <2>1, Zenon DEF Counted, In
<1>4. Counted(q) \subseteq Offsets
  BY <1>2
<1> QED BY <1>1, <1>2, <1>3, <1>4

\* How an element gets into a call and out of it.
LEMMA InStep ==
  ASSUME Types, Types', Claims, Found, Next, HistNext, NEW d \in Consumers, NEW x \in Int
  PROVE  /\ In(d, x)' => In(d, x) \/ (head <= x /\ x < head')
         /\ In(d, x) => x < head
         /\ In(d, x) /\ ~In(d, x)' => CountsNow(d, x)
         /\ CountsNow(d, x) => In(d, x) /\ ~In(d, x)'
         /\ Consume(d) /\ Take(d) => (In(d, x)' <=> head <= x /\ x < head')
<1>0. Taking(d) => Low(d) \in Int /\ High(d) \in Int /\ High(d) <= head
  BY Spans DEF Found, Intervals
<1>h. head \in Nat /\ head' \in Nat
  BY Spans
<1>1. In(d, x) => x < head
  BY <1>0, <1>h DEF In
<1>t. Consume(d) /\ Take(d) => ~Taking(d) /\ (In(d, x)' <=> head <= x /\ x < head')
  BY TakeHeld DEF In
<1>2. ASSUME CountsNow(d, x) PROVE In(d, x) /\ ~In(d, x)'
  <2>1. Later(d) /\ Looking(d)
    BY <1>2 DEF CountsNow, Later, Found
  <2>2. At(d, "empty")
    BY <1>2 DEF CountsNow, SetManyEmpty
  <2>3. place[d] \in Nat /\ call[d].n \in Nat /\ call[d].k \in Nat
    BY CallFacts
  <2>4. In(d, x)
    BY <1>2, <2>2, <2>3 DEF CountsNow, In, Low, High, Taking, At
  <2> QED BY <2>1, <2>4, <1>2, LaterHeld DEF CountsNow
<1>3. CASE Same(d)
  <2>1. In(d, x)' <=> In(d, x)
    BY <1>3, SameHeld DEF In
  <2> QED BY <2>1, <1>1, <1>2, <1>t
<1>4. CASE Consume(d) /\ ~Taking(d) /\ ~Taking(d)'
  <2>1. ~In(d, x) /\ ~In(d, x)'
    BY <1>4 DEF In
  <2> QED BY <2>1, <1>2, <1>t
<1>5. CASE Consume(d) /\ Take(d)
  <2>1. ~In(d, x)
    BY <1>5, <1>t DEF In
  <2> QED BY <2>1, <1>2, <1>5, <1>t
<1>6. CASE Consume(d) /\ Later(d)
  <2>1. In(d, x)' <=> In(d, x) /\ ~CountsNow(d, x)
    BY <1>6, LaterHeld DEF Found, CountsNow
  <2> QED BY <2>1, <1>1, <1>2, <1>t
<1> QED BY <1>3, <1>4, <1>5, <1>6, StepsOf

\* The head moves when a call takes.
LEMMA HeadSteps ==
  ASSUME Types, Types', Claims, Next, HistNext
  PROVE  head' = head \/ \E c \in Consumers : Consume(c) /\ Take(c)
<1>1. CASE Produce
  BY <1>1, ProducerQuiet
<1>2. ASSUME NEW c \in Consumers, Consume(c) PROVE head' = head \/ (Consume(c) /\ Take(c))
  <2>1. (\E m \in Sizes \cup {1} : Begin(c, m)) \/ ReadOvercommit(c) \/ Look(c) \/ Claim(c) \/ Settle(c) \/ GiveBack(c)
        => head' = head
    BY ClaimOnly, HistSame
  <2>2. Later(c) => head' = head
    BY <1>2, ConsumerQuiet
  <2> QED BY <2>1, <2>2, <1>2, Claiming
<1> QED BY <1>1, <1>2 DEF Next

\* What is counted of a block's elements grows by what a call counts.
LEMMA CountedStep ==
  ASSUME Types, Types', Claims, Found, Next, HistNext, NEW q \in Int
  PROVE  /\ Counted(q)' = Counted(q) \cup {o \in Offsets : \E c \in Consumers : CountsNow(c, From(q) + o)}
         /\ \A o \in Counted(q), c \in Consumers : ~CountsNow(c, From(q) + o)
<1>h. head \in Nat /\ head' \in Nat /\ head <= head'
  BY Spans
<1>1. ASSUME NEW o \in Counted(q)', \A c \in Consumers : ~CountsNow(c, From(q) + o) PROVE o \in Counted(q)
  <2>1. o \in Offsets /\ From(q) + o < head' /\ \A c \in Consumers : ~In(c, From(q) + o)'
    BY <1>1, CountedIs
  <2>2. PICK x \in Int : x = From(q) + o
    BY <2>1, CountedIs
  <2>3. \A c \in Consumers : ~In(c, x)
    BY <2>1, <2>2, <1>1, InStep
  <2>4. x < head
    <3> SUFFICES ASSUME head <= x PROVE FALSE
      BY <1>h
    <3>1. head' # head
      BY <2>1, <2>2, <1>h
    <3>2. PICK c \in Consumers : Consume(c) /\ Take(c)
      BY <3>1, HeadSteps
    <3>3. In(c, x)'
      BY <3>2, <2>1, <2>2, InStep
    <3> QED BY <3>3, <2>1, <2>2
  <2> QED BY <2>1, <2>2, <2>3, <2>4, CountedIs
<1>2. ASSUME NEW o \in Counted(q)
      PROVE  o \in Counted(q)' /\ \A c \in Consumers : ~CountsNow(c, From(q) + o)
  <2>1. o \in Offsets /\ From(q) + o < head /\ \A c \in Consumers : ~In(c, From(q) + o)
    BY <1>2, CountedIs
  <2>2. PICK x \in Int : x = From(q) + o
    BY <2>1, CountedIs
  <2>3. \A c \in Consumers : ~In(c, x)' /\ ~CountsNow(c, x)
    BY <2>1, <2>2, <1>h, InStep
  <2>4. x < head'
    BY <2>1, <2>2, <1>h
  <2> QED BY <2>1, <2>2, <2>3, <2>4, CountedIs
<1>3. ASSUME NEW o \in Offsets, NEW c \in Consumers, CountsNow(c, From(q) + o) PROVE o \in Counted(q)'
  <2>2. PICK x \in Int : x = From(q) + o
    BY CountedIs
  <2>3. In(c, x) /\ ~In(c, x)' /\ x < head
    BY <1>3, <2>2, InStep
  <2>4. ASSUME NEW d \in Consumers, d # c PROVE ~In(d, x)'
    <3>1. ~In(d, x)
      <4>1. High(c) <= Low(d) \/ High(d) <= Low(c) \/ ~Taking(c) \/ ~Taking(d)
        BY <2>4 DEF Found, Intervals
      <4>2. Taking(c) => Low(c) \in Int /\ High(c) \in Int
        BY Spans
      <4>3. Taking(d) => Low(d) \in Int /\ High(d) \in Int
        BY Spans
      <4> QED BY <4>1, <4>2, <4>3, <2>3 DEF In
    <3> QED BY <3>1, <2>3, <1>h, InStep
  <2> QED BY <2>2, <2>3, <2>4, <1>h, CountedIs
<1>4. Counted(q)' \subseteq Offsets
  BY CountedIs
<1> QED BY <1>1, <1>2, <1>3, <1>4

\* The offsets of block q that are counted in this step.
NowCounted(q) == {o \in Offsets : \E c \in Consumers : CountsNow(c, From(q) + o)}

\* One call counts at a time.
LEMMA OneCounts ==
  ASSUME Types, Next, NEW c \in Consumers, SetManyEmpty(c), NEW d \in Consumers, SetManyEmpty(d)
  PROVE  c = d
<1>1. ASSUME NEW b \in Consumers, SetManyEmpty(b) PROVE ~Same(b)
  <2>1. At(b, "empty") /\ (call'[b].pc = "clear" \/ OnToNext(b))
    BY <1>1, LookSteps
  <2>2. OnToNext(b) => call'[b].pc \in {"idle", "fetch"}
    <3>1. call[b].n = 0 \/ call[b].n # 0
      OBVIOUS
    <3> QED BY <3>1, NextBlockIs DEF NoCall
  <2> QED BY <2>1, <2>2 DEF Same, At
<1> QED BY <1>1, Movers

\* What set_many_empty counts.
LEMMA CountsIs ==
  ASSUME Types, Types', Claims, Found, Next, HistNext, NEW c \in Consumers, SetManyEmpty(c),
         NEW p \in Int, p = Num(place[c] - 1)
  PROVE  /\ call[c].k \in 1..BLOCK_SIZE /\ call[c].block \in Blocks /\ Held(c, p)
         /\ EntryFor(current, p) \in Entries /\ number[EntryFor(current, p)] = p
         /\ value[EntryFor(current, p)] = call[c].block
         /\ \A q \in Int : q # p => NowCounted(q) = {}
         /\ IsFiniteSet(NowCounted(p)) /\ Cardinality(NowCounted(p)) = call[c].k
<1> DEFINE k == call[c].k
           x == place[c]
<1>1. /\ At(c, "empty") /\ k \in 1..BLOCK_SIZE /\ Num(x - k) = p
      /\ value[EntryFor(call[c].header, p)] = call[c].block
  BY DEF Found, Looking, SetManyEmpty, At
<1>2. Held(c, p)
  BY <1>1, HeldNext DEF Found
<1>3. /\ EntryFor(current, p) \in Entries /\ number[EntryFor(current, p)] = p
      /\ value[EntryFor(current, p)] = call[c].block /\ call[c].block \in Blocks
  <2>1. /\ EntryFor(call[c].header, p) = EntryFor(current, p)
        /\ EntryFor(current, p) \in Entries /\ Standing(p)
    BY <1>1, <1>2, HeldStands DEF At
  <2> QED BY <2>1, <1>1, EntryFacts DEF Standing
<1>4. x \in Int /\ k \in Int /\ x - k \in Int /\ BLOCK_SIZE \in Nat
  BY <1>1, CallFacts, SizeFacts
<1>5. From(p) <= x - k /\ x <= From(p + 1) /\ From(p) \in Int /\ From(p + 1) = From(p) + BLOCK_SIZE
  <2>1. From(p) <= x - k
    BY <1>1, <1>4, NumIs
  <2>2. x <= From(p + 1) /\ From(p + 1) = From(p) + BLOCK_SIZE /\ From(p) \in Int
    BY <1>4, BlockBefore
  <2> QED BY <2>1, <2>2
<1>6. ASSUME NEW q \in Int
      PROVE  NowCounted(q) = {o \in Offsets : x - k <= From(q) + o /\ From(q) + o < x}
  <2>1. \A d \in Consumers, y \in Int : CountsNow(d, y) <=> d = c /\ x - k <= y /\ y < x
    BY OneCounts DEF CountsNow
  <2>2. \A o \in Offsets : From(q) + o \in Int
    BY CountedIs
  <2>3. \A o \in Offsets : (\E d \in Consumers : CountsNow(d, From(q) + o)) <=> x - k <= From(q) + o /\ From(q) + o < x
    BY <2>1, <2>2
  <2> QED BY <2>3 DEF NowCounted
<1>7. ASSUME NEW q \in Int, q # p PROVE NowCounted(q) = {}
  <2> SUFFICES ASSUME NEW o \in Offsets, x - k <= From(q) + o, From(q) + o < x PROVE FALSE
    BY <1>6
  <2>1. PICK y \in Int : y = From(q) + o
    BY CountedIs
  <2>2. Num(y) = q
    BY <2>1, NumFacts
  <2>3. From(p) <= y /\ y < From(p + 1)
    BY <2>1, <1>4, <1>5
  <2>4. Num(y) = p
    BY <2>3, NumIs
  <2> QED BY <2>2, <2>4, <1>7
<1>8. NowCounted(p) = ((x - k) - From(p))..((x - 1) - From(p))
  <2>1. NowCounted(p) = {o \in Offsets : x - k <= From(p) + o /\ From(p) + o < x}
    BY <1>6
  <2> DEFINE f == From(p)
  <2>2. f \in Int /\ f <= x - k /\ x <= f + BLOCK_SIZE
    BY <1>5
  <2>3. NowCounted(p) = {o \in Offsets : x - k <= f + o /\ f + o < x}
    BY <2>1
  <2> HIDE DEF f, x, k
  <2>4. \A o \in Offsets : o \in Int
    BY SizeFacts DEF Offsets
  <2>5. \A o \in Offsets : x - k <= f + o /\ f + o < x => o \in ((x - k) - f)..((x - 1) - f)
    BY <2>2, <2>4, <1>4
  <2>6. \A o \in ((x - k) - f)..((x - 1) - f) : o \in Offsets /\ x - k <= f + o /\ f + o < x
    BY <2>2, <1>4 DEF Offsets
  <2>7. NowCounted(p) = ((x - k) - f)..((x - 1) - f)
    BY <2>3, <2>5, <2>6
  <2> QED BY <2>7 DEF f
<1>9. IsFiniteSet(NowCounted(p)) /\ Cardinality(NowCounted(p)) = k
  <2> DEFINE a == (x - k) - From(p)
             b == (x - 1) - From(p)
  <2>1. a \in Int /\ b \in Int /\ ~(a > b) /\ b - a + 1 = k
    BY <1>1, <1>4, <1>5
  <2>2. NowCounted(p) = a..b
    BY <1>8
  <2> HIDE DEF a, b
  <2> QED BY <2>1, <2>2, FS_Interval
<1> QED BY <1>1, <1>2, <1>3, <1>7, <1>9

\* The counted offsets are finitely many; all of them is BLOCK_SIZE.
LEMMA CountedSizes ==
  ASSUME NEW q \in Int
  PROVE  /\ IsFiniteSet(Counted(q)) /\ Cardinality(Counted(q)) \in Nat
         /\ IsFiniteSet(Offsets) /\ Cardinality(Offsets) = BLOCK_SIZE
         /\ IsFiniteSet(Counted(q)') /\ Cardinality(Counted(q)') \in Nat /\ Cardinality(Counted(q)') <= BLOCK_SIZE
         /\ Counted(q)' \subseteq Offsets
         /\ Cardinality(Counted(q)') = BLOCK_SIZE => Counted(q)' = Offsets
<1>1. IsFiniteSet(Offsets) /\ Cardinality(Offsets) = BLOCK_SIZE
  <2>1. BLOCK_SIZE - 1 \in Int /\ ~(0 > BLOCK_SIZE - 1) /\ (BLOCK_SIZE - 1) - 0 + 1 = BLOCK_SIZE
    BY SizeFacts
  <2> QED BY <2>1, FS_Interval DEF Offsets
<1>2. Counted(q) \subseteq Offsets /\ Counted(q)' \subseteq Offsets
  BY CountedIs
<1>3. \A S \in SUBSET Offsets : /\ IsFiniteSet(S) /\ Cardinality(S) \in Nat /\ Cardinality(S) <= BLOCK_SIZE
                                /\ Cardinality(S) = BLOCK_SIZE => S = Offsets
  BY <1>1, FS_Subset, FS_CardinalityType
<1> QED BY <1>1, <1>2, <1>3

\* A block's count goes along with what is counted of its elements.
LEMMA CountsMore ==
  ASSUME Types, Types', Claims, Found, Next, HistNext, NEW c \in Consumers, SetManyEmpty(c),
         NEW p \in Int, p = Num(place[c] - 1)
  PROVE  /\ emptied' = [emptied EXCEPT ![call[c].block] = Cardinality(Counted(p)')]
         /\ emptied[call[c].block] + call[c].k = Cardinality(Counted(p)')
         /\ \A q \in Int : q # p => Counted(q)' = Counted(q)
<1>1. Counted(p)' = Counted(p) \cup NowCounted(p) /\ Counted(p) \cap NowCounted(p) = {}
  BY CountedStep DEF NowCounted
<1>2. ASSUME NEW q \in Int, q # p PROVE Counted(q)' = Counted(q)
  <2>1. Counted(q)' = Counted(q) \cup NowCounted(q)
    BY CountedStep DEF NowCounted
  <2>2. NowCounted(q) = {}
    BY <1>2, CountsIs
  <2> QED BY <2>1, <2>2
<1>3. emptied[call[c].block] = Cardinality(Counted(p))
  <2>1. EntryFor(current, p) \in Entries /\ number[EntryFor(current, p)] = p
        /\ value[EntryFor(current, p)] = call[c].block /\ call[c].block # Null
    BY CountsIs, NullAssumption
  <2> QED BY <2>1 DEF Found, Located, Emptied
<1>4. Cardinality(Counted(p)') = Cardinality(Counted(p)) + call[c].k
  <2>1. IsFiniteSet(Counted(p)) /\ Cardinality(Counted(p)) \in Nat
    BY CountedSizes
  <2>2. IsFiniteSet(NowCounted(p)) /\ Cardinality(NowCounted(p)) = call[c].k /\ call[c].k \in Nat
    BY CountsIs, CallFacts
  <2>3. Cardinality(Counted(p) \cup NowCounted(p)) = Cardinality(Counted(p)) + call[c].k - Cardinality({})
    BY <2>1, <2>2, <1>1, FS_Union
  <2>4. Cardinality({}) = 0
    BY FS_EmptySet
  <2> QED BY <1>1, <2>1, <2>2, <2>3, <2>4
<1>5. emptied' = [emptied EXCEPT ![call[c].block] = emptied[call[c].block] + call[c].k]
  BY DEF SetManyEmpty
<1> QED BY <1>2, <1>3, <1>4, <1>5

\* The steps that change a count.
LEMMA EmptiedFrame ==
  ASSUME Next
  PROVE  \/ emptied' = emptied
         \/ RequisitionBlock
         \/ \E c \in Consumers : SetManyEmpty(c)
<1>1. ASSUME NEW c \in Consumers, Consume(c) PROVE emptied' = emptied \/ SetManyEmpty(c)
  BY <1>1 DEF Consume, dequeue_bulk, LoadHeader, LoadTail, LoadKey, Fetch, ClearEntry, FreeBlock
<1>2. CASE Produce
  BY <1>2, ZenonT(30) DEF Produce, enqueue, enqueue_bulk, BeginEnqueue, CheckRoom, InsertBlockIndexEntry, AdvanceIndexTail,
     NewBlockIndex, FailBlock, UndoBlock, FreeChain, AppendToTail, Publish
<1> QED BY <1>1, <1>2 DEF Next

\* An entry that keeps its block keeps its number.
LEMMA EntrySame ==
  ASSUME Types, Types', Claims, Found, Next, HistNext, ~RequisitionBlock, NEW e \in Entries, value'[e] # Null
  PROVE  value'[e] = value[e] /\ value[e] \in Blocks /\ number'[e] = number[e] /\ number[e] \in Int
<1>1. value'[e] = value[e]
  <2>1. ASSUME NEW x, value' = [value EXCEPT ![x] = Null] PROVE value'[e] = value[e]
    BY <2>1, EntryFacts
  <2> QED BY <2>1, ValueStep DEF ClearEntry, UndoBlock
<1> QED BY <1>1, EntryFacts, NumberFrame

\* Emptied after a step.
LEMMA EmptiedIs ==
  ASSUME \A e \in Entries : value'[e] # Null =>
           \E q \in Int : q = number'[e] /\ emptied'[value'[e]] = Cardinality(Counted(q)'),
         \A b \in Blocks : emptied'[b] <= BLOCK_SIZE
  PROVE  Emptied'
<1> SUFFICES ASSUME NEW e \in Entries, value'[e] # Null
             PROVE  (emptied[value[e]] = Cardinality(Counted(number[e])))'
  BY DEF Emptied
<1>1. PICK q \in Int : q = number'[e] /\ emptied'[value'[e]] = Cardinality(Counted(q)')
  OBVIOUS
<1> QED BY <1>1

\* Every step keeps the counts equal to the elements counted.
LEMMA EmptiedStep ==
  ASSUME Types, Types', Claims, Found, Next, HistNext
  PROVE  Emptied'
<1>0. /\ \A e \in Entries : value[e] # Null => emptied[value[e]] = Cardinality(Counted(number[e]))
      /\ \A b \in Blocks : emptied[b] <= BLOCK_SIZE
      /\ emptied \in [Blocks -> Nat]
  BY DEF Found, Located, Emptied, Types, IndexTypes
<1>1. ASSUME NEW c \in Consumers, SetManyEmpty(c) PROVE Emptied'
  <2>1. PICK p \in Int : p = Num(place[c] - 1)
    BY HeldNext DEF Found
  <2>2. /\ emptied' = [emptied EXCEPT ![call[c].block] = Cardinality(Counted(p)')]
        /\ \A q \in Int : q # p => Counted(q)' = Counted(q)
    BY <1>1, <2>1, CountsMore
  <2>3. /\ EntryFor(current, p) \in Entries /\ number[EntryFor(current, p)] = p
        /\ value[EntryFor(current, p)] = call[c].block /\ call[c].block \in Blocks
    BY <1>1, <2>1, CountsIs
  <2>4. ~RequisitionBlock
    <3>1. call'[c].pc # call[c].pc
      <4>1. At(c, "empty") /\ (call'[c].pc = "clear" \/ OnToNext(c))
        BY <1>1, LookSteps
      <4>2. OnToNext(c) => call'[c].pc \in {"idle", "fetch"}
        <5>1. call[c].n = 0 \/ call[c].n # 0
          OBVIOUS
        <5> QED BY <5>1, NextBlockIs DEF NoCall
      <4> QED BY <4>1, <4>2 DEF At
    <3> QED BY <3>1 DEF RequisitionBlock
  <2>5. ASSUME NEW e \in Entries, value'[e] # Null 
             PROVE \E q \in Int : q = number'[e] /\ emptied'[value'[e]] = Cardinality(Counted(q)')
    <3>1. value'[e] = value[e] /\ value[e] \in Blocks /\ number'[e] = number[e] /\ number[e] \in Int
      BY <2>4, <2>5, EntrySame
    <3>2. CASE value[e] = call[c].block
      <4>1. e = EntryFor(current, p)
        BY <2>3, <3>2, <2>5, <3>1 DEF Found, Located, Distinct
      <4>2. number[e] = p
        BY <4>1, <2>3
      <4>3. emptied'[value'[e]] = Cardinality(Counted(p)')
        BY <3>1, <3>2, <2>2, <2>3, <1>0
      <4> QED BY <4>2, <4>3, <3>1
    <3>3. CASE value[e] # call[c].block
      <4>1. number[e] # p
        <5> SUFFICES ASSUME number[e] = p PROVE FALSE
          OBVIOUS
        <5>1. value[e] # Null /\ Numbered
          BY <2>5, <3>1 DEF Found, Indexed
        <5>2. p # -1
          BY <5>1, LiveNumbers
        <5>3. e = EntryFor(current, p)
          BY <5>1, <5>2, <2>3, OneEntry
        <5> QED BY <5>3, <2>3, <3>3
      <4>2. Counted(number[e])' = Counted(number[e])
        BY <4>1, <3>1, <2>2
      <4>3. emptied'[value[e]] = emptied[value[e]]
        BY <3>3, <3>1, <2>2, <1>0
      <4>4. emptied'[value'[e]] = Cardinality(Counted(number[e])')
        BY <4>2, <4>3, <3>1, <2>5, <1>0
      <4> QED BY <4>4, <3>1
    <3> QED BY <3>2, <3>3
  <2>6. ASSUME NEW b \in Blocks PROVE emptied'[b] <= BLOCK_SIZE
    <3>1. Cardinality(Counted(p)') <= BLOCK_SIZE
      BY CountedSizes
    <3> QED BY <3>1, <2>2, <1>0
  <2> QED BY <2>5, <2>6, EmptiedIs
<1>2. ASSUME \A c \in Consumers : ~SetManyEmpty(c), NEW q \in Int PROVE Counted(q)' = Counted(q)
  <2>1. \A o \in Offsets, c \in Consumers : ~CountsNow(c, From(q) + o)
    BY <1>2 DEF CountsNow
  <2> QED BY <2>1, CountedStep
<1>3. CASE RequisitionBlock
  <2>1. \A c \in Consumers : ~SetManyEmpty(c)
    <3> SUFFICES ASSUME NEW c \in Consumers, SetManyEmpty(c) PROVE FALSE
      OBVIOUS
    <3>1. At(c, "empty") /\ (call'[c].pc = "clear" \/ OnToNext(c))
      BY LookSteps
    <3>2. OnToNext(c) => call'[c].pc \in {"idle", "fetch"}
      <4>1. call[c].n = 0 \/ call[c].n # 0
        OBVIOUS
      <4> QED BY <4>1, NextBlockIs DEF NoCall
    <3> QED BY <3>1, <3>2, <1>3 DEF RequisitionBlock, At
  <2>2. PICK b \in free : EnterBlock(b) /\ emptied' = [emptied EXCEPT ![b] = 0]
    BY <1>3 DEF RequisitionBlock
  <2>3. b \in Blocks /\ \A e \in Entries : value[e] # b
    <3>1. b \in Blocks
      BY <2>2 DEF Types, StoreTypes
    <3> QED BY <3>1, <2>2 DEF Found, Located, Apart, InEntry
  <2>4. PICK f : f = TailEntry(headers[current])
    OBVIOUS
  <2>5. value' = [value EXCEPT ![f] = b]
    BY <2>2, <2>4 DEF EnterBlock
  <2>6. number' = number
    BY <1>3 DEF RequisitionBlock, HistNext, Producing
  <2>7. ASSUME f \in Entries PROVE number[f] \in Int /\ Counted(number[f]) = {}
    <3>1. Rows /\ Tailed /\ Chained /\ Producing("requisition")
      BY <1>3 DEF Found, Indexed, RequisitionBlock
    <3>2. f = EntryFor(current, Newest) /\ Newest = TailNumber + Len(producer.chain) + 1
      BY <3>1, <2>4, TailPlaces, NewestFacts
    <3>3. number[f] = TailNumber + Len(producer.chain) + 1
      BY <3>1, <3>2 DEF Chained, Producing
    <3>4. PICK q \in Int : q = TailNumber + Len(producer.chain) + 1 /\ q >= TailNumber + 1
      BY NewestFacts
    <3>5. From(q) >= head
      <4>1. head <= End /\ head \in Nat /\ End \in Nat
        BY ClaimsFacts
      <4>2. End <= From(TailNumber + 1) /\ TailNumber + 1 \in Int
        BY EndFacts DEF Types
      <4>3. From(TailNumber + 1) <= From(q) /\ From(q) \in Int /\ From(TailNumber + 1) \in Int
        BY <4>2, <3>4, FromFacts
      <4> QED BY <4>1, <4>2, <4>3
    <3>6. \A o \in Offsets : ~(From(q) + o < head)
      <4>1. \A o \in Offsets : o >= 0 /\ o \in Int
        BY SizeFacts DEF Offsets
      <4>2. From(q) \in Int /\ head \in Int
        <5>1. head \in Nat
          BY ClaimsFacts
        <5>2. \A y \in Int : From(y) \in Int
          BY FromFacts
        <5> QED BY <5>1, <5>2, <3>4
      <4> QED BY <4>1, <4>2, <3>5
    <3>7. Counted(q) = {}
      BY <3>6, CountedIs
    <3> QED BY <3>3, <3>4, <3>7
  <2>8. ASSUME NEW e \in Entries, value'[e] # Null 
             PROVE \E q \in Int : q = number'[e] /\ emptied'[value'[e]] = Cardinality(Counted(q)')
    <3>1. CASE e = f
      <4>1. value'[e] = b /\ number'[e] = number[f] /\ number[f] \in Int
        BY <3>1, <2>5, <2>6, <2>7, <2>8, EntryFacts
      <4>2. Counted(number[f])' = {}
        BY <4>1, <3>1, <2>7, <2>8, <2>1, <1>2
      <4>3. emptied'[b] = 0
        BY <2>2, <2>3, <1>0
      <4>4. Cardinality({}) = 0
        BY FS_EmptySet
      <4>5. emptied'[value'[e]] = Cardinality(Counted(number[f])')
        BY <4>1, <4>2, <4>3, <4>4
      <4> QED BY <4>1, <4>5, <3>1, <2>6
    <3>2. CASE e # f
      <4>1. value'[e] = value[e] /\ number'[e] = number[e] /\ number[e] \in Int /\ value[e] # b /\ value[e] \in Blocks
        BY <3>2, <2>5, <2>6, <2>8, <2>3, EntryFacts
      <4>2. Counted(number[e])' = Counted(number[e])
        BY <4>1, <2>1, <1>2
      <4>3. emptied'[value[e]] = emptied[value[e]]
        BY <4>1, <2>2, <1>0
      <4> QED BY <4>1, <4>2, <4>3, <2>8, <1>0
    <3> QED BY <3>1, <3>2
  <2>9. \A x \in Blocks : emptied'[x] <= BLOCK_SIZE
    BY <2>2, <1>0, SizeFacts
  <2> QED BY <2>8, <2>9, EmptiedIs
<1>4. CASE emptied' = emptied /\ ~RequisitionBlock /\ \A c \in Consumers : ~SetManyEmpty(c)
  <2>1. ASSUME NEW e \in Entries, value'[e] # Null 
             PROVE \E q \in Int : q = number'[e] /\ emptied'[value'[e]] = Cardinality(Counted(q)')
    <3>1. value'[e] = value[e] /\ value[e] \in Blocks /\ number'[e] = number[e] /\ number[e] \in Int
      BY <1>4, <2>1, EntrySame
    <3>2. Counted(number[e])' = Counted(number[e])
      BY <1>4, <3>1, <1>2
    <3> QED BY <3>1, <3>2, <1>4, <2>1, <1>0
  <2> QED BY <2>1, <1>0, <1>4, EmptiedIs
<1> QED BY <1>1, <1>3, <1>4, EmptiedFrame

-------------------------------------------------------------------------------
(* The lookup is kept right *)

\* The steps that change an index.
LEMMA HeaderSteps ==
  ASSUME Next
  PROVE  \/ headers' = headers
         \/ \E t : headers' = [headers EXCEPT ![current].tail = t]
         \/ AllocateIndex(headers[current])
<1>1. ASSUME NEW c \in Consumers, Consume(c) PROVE headers' = headers
  BY <1>1 DEF Consume, dequeue_bulk, LoadHeader, LoadTail, LoadKey, Fetch, SetManyEmpty, ClearEntry, FreeBlock, blockIndex
<1>2. CASE Produce
  <2>1. RewindBlockIndexTail => \E t : headers' = [headers EXCEPT ![current].tail = t]
    BY DEF RewindBlockIndexTail
  <2> QED BY <2>1, <1>2, ZenonT(30) DEF Produce, enqueue, enqueue_bulk, BeginEnqueue, CheckRoom, InsertBlockIndexEntry,
     AdvanceIndexTail, NewBlockIndex, RequisitionBlock, FailBlock, UndoBlock, FreeChain, AppendToTail, Publish, blockIndex
<1> QED BY <1>1, <1>2 DEF Next

\* The places of an index stay, and its tail, unless it is the current one.
LEMMA PlacesKept ==
  ASSUME Types, Types', Found, Next, HistNext, NEW h \in 1..current
  PROVE  /\ h \in 1..current' /\ headers'[h].index = headers[h].index /\ Size(h)' = Size(h)
         /\ \A q \in Int : Pos(h, q)' = Pos(h, q) /\ EntryFor(h, q)' = EntryFor(h, q)
         /\ headers'[h].tail = headers[h].tail \/ (h = current /\ current' = current)
<1>1. Kept
  BY IndexTypesStep
<1>2. h \in 1..current' /\ headers'[h].index = headers[h].index /\ Size(h)' = Size(h)
  BY <1>1 DEF Kept
<1>3. first'[h] = first[h]
  <2>1. first \in Seq(Int) /\ Len(first) = current
    BY DEF Types, HistTypes, Found, Indexed, Rows
  <2>2. first' = first \/ \E x : first' = Append(first, x)
    BY DEF HistNext
  <2>3. \A x : Append(first, x)[h] = first[h]
    BY <2>1, AppendProperties
  <2> QED BY <2>2, <2>3
<1>4. \A q \in Int : Pos(h, q)' = Pos(h, q)
  BY <1>2, <1>3 DEF Pos
<1>5. \A q \in Int : EntryFor(h, q)' = EntryFor(h, q)
  BY <1>4, <1>2 DEF EntryFor
<1>6. headers'[h].tail = headers[h].tail \/ (h = current /\ current' = current)
  <2>i. IndexTypes /\ headers \in Seq(Header) /\ current \in Nat
    BY HeadersFacts DEF Types, IndexTypes
  <2>1. ASSUME NEW t, headers' = [headers EXCEPT ![current].tail = t]
        PROVE  headers'[h].tail = headers[h].tail \/ (h = current /\ current' = current)
    <3>1. DOMAIN headers = 1..current
      BY <2>i DEF current
    <3>2. h # current => headers'[h] = headers[h]
      BY <2>1, <3>1
    <3>3. current' = current
      <4>1. DOMAIN headers' = DOMAIN headers
        BY <2>1
      <4>2. headers' \in Seq(Header) /\ DOMAIN headers' = 1..current'
        BY DEF Types, IndexTypes, current
      <4>3. current' \in Nat
        BY <4>2 DEF current
      <4> QED BY <3>1, <4>1, <4>2, <4>3, <2>i
    <3> QED BY <3>2, <3>3
  <2>2. CASE AllocateIndex(headers[current])
    BY <2>2, <2>i, IndexAdded
  <2> QED BY <2>1, <2>2, HeaderSteps
<1> QED BY <1>2, <1>4, <1>5, <1>6

\* What is held is where the call looks for it.
LEMMA HeldNumbers ==
  ASSUME Types, Types', Claims, Found, Next, HistNext, NEW c \in Consumers, Same(c) \/ Later(c),
         NEW h \in 1..current,
         \/ At(c, "header") /\ h = current
         \/ call[c].pc \in {"front", "key", "fetch", "empty", "clear", "free"} /\ h = call[c].header
  PROVE  \A q \in Int : Held(c, q)' =>
           /\ Held(c, q) /\ (number[EntryFor(h, q)])' = q
           /\ EntryFor(h, q)' = EntryFor(current, q) /\ EntryFor(h, q) = EntryFor(current, q)
           /\ EntryFor(current, q) \in Entries /\ q \in Nat
           /\ number[EntryFor(current, q)] = q
           /\ value[EntryFor(current, q)] # Null
           /\ value'[EntryFor(current, q)] = value[EntryFor(current, q)]
<1> SUFFICES ASSUME NEW q \in Int, Held(c, q)'
             PROVE  /\ Held(c, q) /\ (number[EntryFor(h, q)])' = q
                    /\ EntryFor(h, q)' = EntryFor(current, q) /\ EntryFor(h, q) = EntryFor(current, q)
                    /\ EntryFor(current, q) \in Entries /\ q \in Nat
                    /\ number[EntryFor(current, q)] = q
                    /\ value[EntryFor(current, q)] # Null
                    /\ value'[EntryFor(current, q)] = value[EntryFor(current, q)]
  OBVIOUS
<1>1. Held(c, q) /\ ~(ClearEntry(c) /\ q = Num(place[c] - 1))
  <2>1. CASE Same(c)
    <3>1. ~ClearEntry(c)
      BY <2>1, LookSteps DEF Same, At
    <3> QED BY <2>1, <3>1, SameHeld
  <2>2. CASE Later(c)
    BY <2>2, LaterHeld DEF Found
  <2> QED BY <2>1, <2>2
<1>2. EntryFor(h, q) = EntryFor(current, q)
  BY <1>1, HeldStands
<1>3. q \in Nat
  BY <1>1, HeldStands
<1>4. EntryFor(h, q)' = EntryFor(h, q)
  BY PlacesKept
<1> DEFINE e == EntryFor(current, q)
<1>5. e \in Entries /\ value[e] # Null /\ value'[e] = value[e] /\ number[e] = q /\ number'[e] = q
  BY <1>1, HeldKept
<1>6. (number[EntryFor(h, q)])' = number'[e]
  BY <1>2, <1>4
<1> QED BY <1>1, <1>2, <1>3, <1>4, <1>5, <1>6

\* A call that has not taken looks for nothing.
LEMMA LookNothing ==
  ASSUME NEW c \in Consumers, ~Taking(c)' \/ (call'[c].pc = "header" /\ call'[c].n >= 1)
  PROVE  Looking(c)'
BY DEF Looking, Taking

\* All of a block's elements stay counted.
LEMMA CountedAll ==
  ASSUME Types, Types', Claims, Found, Next, HistNext, NEW q \in Int, Counted(q) = Offsets
  PROVE  Counted(q)' = Offsets
BY CountedStep, CountedIs, ZenonT(40)

\* Where the tail of an index leads: to a block at least as new.
LEMMA FrontKept ==
  ASSUME Types, Types', Claims, Found, Next, HistNext, Indexed', NEW h \in 1..current,
         NEW q \in Int, q <= TailNumber,
         number[EntryFor(current, q)] = q, EntryFor(current, q) \in Entries,
         value[EntryFor(current, q)] # Null, value'[EntryFor(current, q)] = value[EntryFor(current, q)],
         number[headers[h].index[headers[h].tail]] >= q
  PROVE  (number[headers[h].index[headers[h].tail]])' >= q
<1> DEFINE e == EntryFor(current, q)
<1>1. e \in Entries /\ value'[e] # Null /\ number'[e] = q
  BY NumberFrame
<1> HIDE DEF e
<1>2. CASE headers'[h].tail = headers[h].tail
  <2>1. PICK f : f = headers[h].index[headers[h].tail]
    OBVIOUS
  <2>2. f \in Entries
    <3>1. headers[h].tail \in 0..(Size(h) - 1) /\ headers[h].index \in [0..(Size(h) - 1) -> Entries]
      BY HeadersFacts DEF Types
    <3> QED BY <2>1, <3>1
  <2>3. number'[f] >= number[f] /\ number'[f] \in Int /\ number[f] \in Int
    BY <2>2, NumberFrame
  <2>4. (headers[h].index[headers[h].tail])' = f
    BY <1>2, <2>1, PlacesKept
  <2> QED BY <2>1, <2>3, <2>4
<1>3. CASE h = current /\ current' = current
  <2>1. (headers[h].index[headers[h].tail])' = EntryFor(current, Newest)'
    <3>1. headers'[current'].tail = Pos(current, Newest)'
      BY DEF Indexed, Tailed
    <3> QED BY <3>1, <1>3 DEF EntryFor
  <2>2. TailNumber' \in Int /\ Newest' \in Int /\ TailNumber' <= Newest' /\ TailNumber \in Int
    BY NextFacts, NewestFacts
  <2>3. TailNumber <= TailNumber'
    <3>1. Publish => TailNumber' = TailNumber + Len(producer.chain) /\ Len(producer.chain) \in Nat
      BY TailSteps, NewestFacts
    <3> QED BY <3>1, TailSteps, <2>2
  <2>4. q <= Newest'
    BY <2>2, <2>3
  <2>5. number'[EntryFor(current, Newest)'] >= Newest'
    <3>1. Reached'
      BY DEF Indexed
    <3>2. PICK n \in Int : n = Newest'
      BY <2>2
    <3>3. number'[e] <= n /\ n <= Newest'
      BY <1>1, <2>4, <3>2
    <3>4. (number[EntryFor(current, n)])' >= n
      BY <3>1, <3>2, <3>3, <1>1 DEF Reached
    <3> QED BY <3>2, <3>4
  <2>6. number'[EntryFor(current, Newest)'] \in Int
    <3>1. Rows'
      BY DEF Indexed
    <3>2. headers'[h].tail \in 0..(Size(h)' - 1) /\ headers'[h].index \in [0..(Size(h)' - 1) -> Entries]
      <4>1. headers' \in Seq(Header) /\ h \in 1..Len(headers')
        <5>1. h \in 1..current'
          BY PlacesKept
        <5> QED BY <5>1 DEF Types, IndexTypes, current
      <4>2. headers'[h] \in Header
        BY <4>1, ElementOfSeq
      <4>3. PICK g : g = headers'[h]
        OBVIOUS
      <4>4. g.tail \in 0..(Capacity(g) - 1) /\ g.index \in [0..(Capacity(g) - 1) -> Entries]
        BY <4>2, <4>3, HeaderFacts
      <4>5. Size(h)' = Capacity(g)
        BY <4>3 DEF Size
      <4> QED BY <4>3, <4>4, <4>5
    <3>3. (headers[h].index[headers[h].tail])' \in Entries
      BY <3>2
    <3> QED BY <3>3, <2>1, EntryFacts, NumberFrame
  <2> QED BY <2>1, <2>2, <2>4, <2>5, <2>6
<1> QED BY <1>2, <1>3, PlacesKept

\* The places of a call that has read the index, and that has read a block.
After == {"front", "key", "fetch", "empty", "clear", "free"}
Emptying == {"empty", "clear", "free"}

\* Two calls do not both find the same block empty.
LEMMA ClearOnce ==
  ASSUME Types, Types', Claims, Found, Next, HistNext, NEW c \in Consumers, At(c, "clear"), Same(c),
         NEW d \in Consumers, d # c, At(d, "clear")'
  PROVE  Num(place[d] - 1)' # Num(place[c] - 1)'
<1>1. place'[c] = place[c] /\ Looking(c)
  <2>1. Taking(c)
    BY DEF Taking, At
  <2> QED BY <2>1, SameHeld DEF Found
<1>2. CASE Same(d)
  <2>1. At(d, "clear") /\ Taking(d)
    BY <1>2 DEF Same, At, Taking
  <2>2. place'[d] = place[d]
    BY <1>2, <2>1, SameHeld
  <2> QED BY <1>1, <2>1, <2>2 DEF Looking, At, Num
<1>3. CASE Consume(d) /\ Later(d)
  <2>1. SetManyEmpty(d) /\ place'[d] = place[d]
    <3>1. call'[d].pc = "clear"
      BY DEF At
    <3>2. OnToNext(d) => call'[d].pc # "clear"
      <4>1. call[d].n = 0 \/ call[d].n # 0
        OBVIOUS
      <4> QED BY <4>1, NextBlockIs DEF NoCall
    <3>3. ~LoadHeader(d) /\ ~LoadTail(d) /\ ~LoadKey(d) /\ ~Fetch(d) /\ ~ClearEntry(d) /\ ~FreeBlock(d)
      BY <3>1, <3>2, LookSteps, FetchStep DEF Found
    <3>4. SetManyEmpty(d)
      BY <3>3, <1>3 DEF Later
    <3>5. call[d].pc = "empty"
      BY <3>4 DEF SetManyEmpty, At
    <3> QED BY <3>4, <3>5, HistCalls
  <2>2. PICK p \in Int : p = Num(place[d] - 1)
    BY <2>1, HeldNext DEF Found
  <2>3. Held(d, p)
    BY <2>1, <2>2, CountsIs
  <2>4. p # Num(place[c] - 1)
    BY <2>2, <2>3, ClearAlone
  <2> QED BY <2>4, <2>2, <2>1, <1>1 DEF Num
<1>4. CASE ~Taking(d)' \/ (Consume(d) /\ Take(d))
  <2>1. Taking(d)' /\ call'[d].pc # "header"
    BY DEF Taking, At
  <2> QED BY <2>1, <1>4, TakeHeld
<1> QED BY <1>2, <1>3, <1>4, StepsOf

\* Another's step does not lead a call astray.
LEMMA LookSame ==
  ASSUME Types, Types', Claims, Found, Next, HistNext, Indexed', NEW c \in Consumers, Same(c), Taking(c)
  PROVE  Looking(c)'
<1> DEFINE pc == call[c].pc
<1>1. Looking(c) /\ place'[c] = place[c]
  BY SameHeld DEF Found
<1>2. CASE pc = "header"
  <2>1. call'[c].pc = "header" /\ call'[c].n >= 1
    BY <1>1, <1>2 DEF Looking, Same
  <2> QED BY <2>1, LookNothing
<1>3. CASE pc \in After
  <2>1. PICK h \in 1..current : h = call[c].header
    BY <1>3 DEF Types, CallTypes, After
  <2>2. /\ call'[c].pc = pc /\ call'[c].header = h /\ call'[c].n = call[c].n /\ call'[c].pos = call[c].pos
        /\ call'[c].block = call[c].block /\ call'[c].k = call[c].k
    BY <2>1 DEF Same
  <2>3. \A q \in Int : Held(c, q)' =>
          /\ Held(c, q) /\ (number[EntryFor(h, q)])' = q
          /\ EntryFor(h, q)' = EntryFor(current, q) /\ EntryFor(h, q) = EntryFor(current, q)
          /\ EntryFor(current, q) \in Entries /\ q \in Nat /\ number[EntryFor(current, q)] = q
          /\ value[EntryFor(current, q)] # Null /\ value'[EntryFor(current, q)] = value[EntryFor(current, q)]
    BY <1>3, <2>1, HeldNumbers DEF After
  <2>4. pc \in {"header", "front", "key", "fetch"} => call[c].n >= 1
    BY <1>1 DEF Looking
  <2>5. ASSUME pc = "front", NEW q \in Int, Held(c, q)'
        PROVE  (number[headers[h].index[headers[h].tail]])' >= q
    <3>1. number[headers[h].index[headers[h].tail]] >= q
      BY <1>1, <2>1, <2>3, <2>5 DEF Looking
    <3>2. q <= TailNumber
      <4>1. q \in Num(Start)..TailNumber
        BY <2>3, <2>5, HeldStands
      <4> QED BY <4>1, NewestFacts, StartFacts
    <3> QED BY <3>1, <3>2, <2>3, <2>5, FrontKept
  <2>6. ASSUME pc = "key", NEW q \in Int, Held(c, q)' PROVE (number[headers[h].index[call[c].pos]])' >= q
    <3>1. PICK f : f = headers[h].index[call[c].pos]
      OBVIOUS
    <3>2. number[f] >= q
      BY <1>1, <2>1, <2>3, <2>6, <3>1 DEF Looking
    <3>3. f \in Entries
      <4>1. headers[h].index \in [0..(Size(h) - 1) -> Entries]
        BY HeadersFacts DEF Types
      <4>2. call[c].pos \in 0..(Size(h) - 1)
        BY <2>1, <2>6 DEF Types, CallTypes
      <4> QED BY <4>1, <4>2, <3>1
    <3>4. number'[f] >= number[f] /\ number'[f] \in Int /\ number[f] \in Int
      BY <3>3, NumberFrame
    <3>5. (headers[h].index[call[c].pos])' = f
      BY <3>1, <2>2, PlacesKept
    <3> QED BY <3>2, <3>4, <3>5
  <2>7. \A q \in Int : Pos(h, q)' = Pos(h, q) /\ EntryFor(h, q)' = EntryFor(h, q)
    BY PlacesKept
  <2>8. PICK p, r : p = Num(place[c]) /\ r = Num(place[c] - 1) /\ p \in Int /\ r \in Int
    BY HeldNext DEF Found
  <2>9. p = Num(place[c])' /\ r = Num(place[c] - 1)'
    BY <2>8, <1>1 DEF Num
  <2>a. /\ pc = "fetch" => call[c].pos = Pos(h, p)
        /\ pc \in Emptying => call[c].pos = Pos(h, r)
        /\ pc \in Emptying /\ call[c].n > 0 => place[c] % BLOCK_SIZE = 0
        /\ pc = "empty" => call[c].k \in 1..BLOCK_SIZE /\ Num(place[c] - call[c].k) = r
        /\ pc \in {"empty", "clear"} => value[EntryFor(h, r)] = call[c].block
        /\ pc = "clear" => Counted(r) = Offsets
    BY <1>1, <2>1, <2>8 DEF Looking, Emptying
  <2>b. pc \in {"empty", "clear"} => (value[EntryFor(h, r)])' = call[c].block
    <3> SUFFICES ASSUME pc \in {"empty", "clear"} PROVE (value[EntryFor(h, r)])' = call[c].block
      OBVIOUS
    <3>1. Held(c, r)
      BY <2>8, HeldNext DEF Found, At
    <3>2. Held(c, r)'
      BY <3>1, <2>8, SameHeld
    <3> QED BY <3>2, <2>3, <2>8, <2>a
  <2>c. pc = "clear" => Counted(r)' = Offsets
    BY <2>8, <2>a, CountedAll
  <2>d. ASSUME pc = "clear", NEW d \in Consumers, d # c, At(d, "clear")' PROVE Num(place[d] - 1)' # Num(place[c] - 1)'
    BY <2>d, ClearOnce DEF At
  <2>e. (Num(place[c] - call[c].k))' = Num(place[c] - call[c].k)
    BY <1>1, <2>2 DEF Num
  <2> HIDE DEF pc
  <2>f. /\ call'[c].pc \in {"header", "front", "key", "fetch"} => call'[c].n >= 1
        /\ call'[c].pc \in After => \A q \in Int : Held(c, q)' => (number[EntryFor(h, q)])' = q
        /\ call'[c].pc = "front" => \A q \in Int : Held(c, q)' => (number[headers[h].index[headers[h].tail]])' >= q
        /\ call'[c].pc = "key" => \A q \in Int : Held(c, q)' => (number[headers[h].index[call[c].pos]])' >= q
        /\ call'[c].pc = "fetch" => call'[c].pos = Pos(h, p)'
        /\ call'[c].pc \in Emptying => call'[c].pos = Pos(h, r)'
        /\ call'[c].pc \in Emptying /\ call'[c].n > 0 => place'[c] % BLOCK_SIZE = 0
        /\ call'[c].pc = "empty" => call'[c].k \in 1..BLOCK_SIZE /\ (Num(place[c] - call[c].k))' = r
        /\ call'[c].pc \in {"empty", "clear"} => (value[EntryFor(h, r)])' = call'[c].block
        /\ call'[c].pc = "clear" =>
             /\ Counted(r)' = Offsets
             /\ \A d \in Consumers : d # c /\ At(d, "clear")' => Num(place[d] - 1)' # Num(place[c] - 1)'
    BY <1>1, <2>2, <2>3, <2>4, <2>5, <2>6, <2>7, <2>8, <2>a, <2>b, <2>c, <2>d, <2>e
  <2> QED BY <2>f, <2>2, <2>9 DEF Looking, After, Emptying
<1> QED BY <1>2, <1>3 DEF Taking, After

\* What a step of a call's own leaves of the places.
LEMMA LaterFrame ==
  ASSUME Types, Types', Claims, Found, Next, HistNext, NEW c \in Consumers, Later(c), ~Fetch(c)
  PROVE  /\ place'[c] = place[c] /\ call[c].pc \in Places /\ number' = number /\ headers' = headers
         /\ Looking(c) /\ Taking(c)
<1>1. Taking(c) /\ Looking(c) /\ ~At(c, "fetch")
  BY LookSteps, LaterHeld DEF Found, Later, At
<1>2. place'[c] = place[c]
  BY <1>1, HistCalls DEF Taking, At
<1>3. producer' = producer
  BY LaterEffects
<1>4. number' = number
  BY <1>3, NumbersSame
<1>5. headers' = headers
  BY DEF Later, LoadHeader, LoadTail, LoadKey, Fetch, SetManyEmpty, ClearEntry, FreeBlock, blockIndex
<1> QED BY <1>1, <1>2, <1>4, <1>5, CallFacts

\* The current index has all that a call holds.
LEMMA LookHeader ==
  ASSUME Types, Types', Claims, Found, Next, HistNext, NEW c \in Consumers, LoadHeader(c)
  PROVE  Looking(c)'
<1>0. PICK h \in 1..current : h = current
  BY TailPlaces DEF Found, Indexed
<1>1. /\ At(c, "header") /\ call'[c].pc = "front" /\ call'[c].header = h /\ call'[c].n = call[c].n /\ Later(c)
      /\ ~Fetch(c)
  BY <1>0, LookSteps DEF Later, Fetch, At
<1>2. h \in 1..current /\ Looking(c) /\ headers' = headers /\ number' = number
  BY <1>0, <1>1, LaterFrame
<1>3. \A q \in Int : Held(c, q)' =>
          /\ Held(c, q) /\ (number[EntryFor(h, q)])' = q
          /\ EntryFor(h, q)' = EntryFor(current, q) /\ EntryFor(h, q) = EntryFor(current, q)
          /\ EntryFor(current, q) \in Entries /\ q \in Nat /\ number[EntryFor(current, q)] = q
          /\ value[EntryFor(current, q)] # Null /\ value'[EntryFor(current, q)] = value[EntryFor(current, q)]
  BY <1>0, <1>1, <1>2, HeldNumbers
<1>4. ASSUME NEW q \in Int, Held(c, q)' PROVE number[headers[h].index[headers[h].tail]] >= q
  <2>1. headers[h].tail = Pos(current, Newest)
    BY <1>0 DEF Found, Indexed, Tailed
  <2>2. headers[h].index[headers[h].tail] = EntryFor(current, Newest)
    BY <1>0, <2>1 DEF EntryFor
  <2>3. q \in Num(Start)..TailNumber
    BY <1>3, <1>4, HeldStands
  <2>4. q <= Newest /\ Newest \in Int
    BY <2>3, NewestFacts, StartFacts
  <2>5. PICK e \in Entries : e = EntryFor(current, q) /\ number[e] = q /\ value[e] # Null
    BY <1>3, <1>4
  <2>6. number[EntryFor(current, Newest)] >= Newest
    BY <2>4, <2>5, ReachedAt DEF Found, Indexed
  <2>7. number[EntryFor(current, Newest)] \in Int
    BY <2>4, <1>0, <1>2, PosFacts, EntryFacts DEF Found, Indexed
  <2> QED BY <2>2, <2>4, <2>6, <2>7
<1>5. call'[c].n >= 1
  BY <1>1, <1>2 DEF Looking, At
<1>6. \A q \in Int : Held(c, q)' => (number[headers[h].index[headers[h].tail]])' >= q
  BY <1>2, <1>4, ZenonT(30)
<1> QED BY <1>1, <1>3, <1>5, <1>6 DEF Looking

\* The tail's block is at least as new as those a call holds.
LEMMA LookTail ==
  ASSUME Types, Types', Claims, Found, Next, HistNext, NEW c \in Consumers, LoadTail(c)
  PROVE  Looking(c)'
<1>1. /\ At(c, "front") /\ call'[c].pc = "key" /\ call'[c].header = call[c].header
      /\ call'[c].pos = headers[call[c].header].tail /\ call'[c].n = call[c].n /\ Later(c) /\ ~Fetch(c)
  BY LookSteps DEF Later, Fetch, At
<1>2. PICK h \in 1..current : h = call[c].header
  BY <1>1 DEF Types, CallTypes, At
<1>3. Looking(c) /\ headers' = headers /\ number' = number
  BY <1>1, LaterFrame
<1>4. \A q \in Int : Held(c, q)' => Held(c, q) /\ (number[EntryFor(h, q)])' = q
  BY <1>1, <1>2, HeldNumbers DEF At
<1>5. ASSUME NEW q \in Int, Held(c, q)' PROVE number[headers[h].index[headers[h].tail]] >= q
  BY <1>1, <1>2, <1>3, <1>4, <1>5 DEF Looking, At
<1>6. call'[c].n >= 1
  BY <1>1, <1>3 DEF Looking, At
<1>7. \A q \in Int : Held(c, q)' => (number[headers[h].index[call[c].pos]])' >= q
  BY <1>1, <1>2, <1>3, <1>5
<1> QED BY <1>1, <1>2, <1>4, <1>6, <1>7 DEF Looking

\* From the tail's block back to the one that is looked for.
LEMMA PlaceIs ==
  ASSUME Types, Claims, Found, NEW c \in Consumers, At(c, "key"), NEW h, h = call[c].header,
         NEW q, q = Num(place[c])
  PROVE  PlaceOf(headers[h], call[c].pos, call[c].at) = Pos(h, q)
<1>1. h \in 1..current /\ call[c].pos \in 0..(Size(h) - 1)
  BY DEF Types, CallTypes, At
<1>2. Held(c, q) /\ q \in Int /\ Looking(c) /\ place[c] \in Nat /\ call[c].at = place[c] % W
  <2>1. Taking(c)
    BY DEF Taking, At
  <2> QED BY <2>1, HeldNext, HeldStands DEF Found, Claims, Phase, At
<1>r. Rows /\ Numbered /\ Spread
  BY DEF Found, Indexed
<1>3. PICK f : f = headers[h].index[call[c].pos]
  OBVIOUS
<1>4. f \in 0..(Size(h) - 1) /\ f \in Entries
  BY <1>1, <1>3, <1>r, FirstFacts, SMTT(40) DEF Entries
<1>5. PICK p \in Int : p = number[f]
  BY <1>4, EntryFacts
<1>6. q <= p /\ q \in Nat
  BY <1>2, <1>3, <1>5, HeldStands DEF Looking, At
<1>7. p < q + Size(current) /\ Size(current) \in Nat /\ Size(current) <= MaxIndexSize /\ MaxIndexSize \in Nat
  <2>1. PICK e : e = EntryFor(current, q)
    OBVIOUS
  <2>2. Standing(q) /\ current \in 1..current
    BY <1>2, <1>r, HeldStands, TailPlaces DEF Found, Indexed
  <2>3. e \in Entries /\ number[e] = q /\ value[e] # Null
    BY <2>1, <2>2, <1>2, <1>r, PosFacts DEF Standing
  <2>4. Size(current) \in Nat /\ Size(current) <= MaxIndexSize /\ MaxIndexSize \in Nat
    BY <2>2, <1>r, FirstFacts
  <2>5. number[f] < number[e] + Size(current)
    BY <2>3, <1>4, <1>r DEF Spread
  <2> QED BY <2>3, <2>4, <2>5, <1>5
<1>8. f = EntryFor(current, p) /\ p # -1 /\ key[f] = From(p) % W
  BY <1>4, <1>5, <1>6, <1>r DEF Numbered
<1>9. call[c].pos = Pos(h, p)
  <2>1. EntryFor(h, p) = f
    <3>1. f < Size(h)
      BY <1>1, <1>4, <1>r, FirstFacts
    <3> QED BY <3>1, <1>1, <1>5, <1>8, <1>r DEF Rows
  <2>2. Pos(h, p) \in 0..(Size(h) - 1)
    BY <1>1, <1>r, PosFacts
  <2>3. headers[h].index[Pos(h, p)] = headers[h].index[call[c].pos]
    BY <2>1, <1>3 DEF EntryFor
  <2> QED BY <2>2, <2>3, <1>1, <1>r DEF Rows
<1>a. BlocksBetween(key[f], call[c].at) = q - p
  <2>1. Num(From(p)) = p /\ From(p) \in Int
    <3>1. From(p) \in Int
      BY FromFacts
    <3>2. 0 \in Offsets
      BY SizeFacts DEF Offsets
    <3>3. Num(From(p) + 0) = p
      BY <3>2, NumFacts
    <3> QED BY <3>1, <3>3
  <2>2. -Half <= From(q - p) /\ From(q - p) < Half
    <3>1. From(MaxIndexSize) <= Half
      <4>1. MaxIndexSize * BLOCK_SIZE <= W \div 2
        BY IndexSizesFit
      <4> QED BY <4>1 DEF From, Half
    <3>2. Half \in Nat \ {0}
      BY SizeFacts
    <3>3. PICK a \in Int : a = q - p /\ a <= 0 /\ 0 - a < MaxIndexSize
      BY <1>6, <1>7
    <3>4. From(a) <= From(0)
      BY <3>3, FromFacts
    <3>5. From(0 - a) < From(MaxIndexSize) /\ From(0 - a) = From(0) - From(a)
      <4>1. 0 - a \in Int /\ MaxIndexSize \in Int
        BY <3>3, <1>7
      <4>2. From(0 - a) < From(MaxIndexSize)
        BY <4>1, <3>3, FromFacts
      <4>3. From(0 - a) = From(0) - From(a)
        BY <3>3, FromFacts
      <4> QED BY <4>2, <4>3
    <3>6. From(0) = 0 /\ From(a) \in Int /\ From(MaxIndexSize) \in Int
      <4>1. MaxIndexSize \in Int
        BY <1>7
      <4> QED BY <4>1, <3>3, FromFacts
    <3> QED BY <3>1, <3>2, <3>3, <3>4, <3>5, <3>6
  <2>3. BlocksBetween(From(p) % W, place[c] % W) = Num(place[c]) - Num(From(p))
    <3>1. place[c] \in Int
      BY <1>2
    <3>2. Num(place[c]) - Num(From(p)) = q - p
      BY <2>1
    <3> QED BY <3>1, <3>2, <2>1, <2>2, Between
  <2> QED BY <2>1, <2>3, <1>2, <1>8
<1>b. (Pos(h, p) + (q - p)) % Size(h) = Pos(h, p + (q - p))
  <2>1. q - p \in Int
    BY <1>2
  <2> QED BY <2>1, <1>1, <1>r, PosFacts
<1>c. p + (q - p) = q
  BY <1>2
<1> QED BY <1>3, <1>9, <1>a, <1>b, <1>c DEF PlaceOf, Size

\* The place that the lookup computes is that of the call's next block.
LEMMA LookKey ==
  ASSUME Types, Types', Claims, Found, Next, HistNext, NEW c \in Consumers, LoadKey(c)
  PROVE  Looking(c)'
<1>1. /\ At(c, "key") /\ call'[c].pc = "fetch" /\ call'[c].header = call[c].header
      /\ call'[c].pos = PlaceOf(headers[call[c].header], call[c].pos, call[c].at)
      /\ call'[c].n = call[c].n /\ Later(c) /\ ~Fetch(c)
  BY LookSteps DEF Later, Fetch, At
<1>2. PICK h \in 1..current : h = call[c].header
  BY <1>1 DEF Types, CallTypes, At
<1>3. Looking(c) /\ place'[c] = place[c]
  BY <1>1, LaterFrame
<1>4. \A q \in Int : Held(c, q)' => (number[EntryFor(h, q)])' = q
  BY <1>1, <1>2, HeldNumbers DEF At
<1>5. call'[c].n >= 1
  BY <1>1, <1>3 DEF Looking, At
<1>6. PICK q \in Int : q = Num(place[c])
  BY HeldNext DEF Found
<1>7. call'[c].pos = Pos(h, q)'
  BY <1>1, <1>2, <1>6, PlaceIs, PlacesKept
<1>8. q = Num(place[c])'
  BY <1>3, <1>6 DEF Num
<1> QED BY <1>1, <1>2, <1>4, <1>5, <1>7, <1>8 DEF Looking

\* The block found is the one whose elements are moved out.
LEMMA LookEmpty ==
  ASSUME Types, Types', Claims, Found, Next, HistNext, NEW c \in Consumers, Fetch(c)
  PROVE  Looking(c)'
<1>0. Looking(c) /\ Later(c)
  BY DEF Found, Later
<1>1. /\ At(c, "fetch") /\ call'[c].pc = "empty" /\ call'[c].header = call[c].header
      /\ call'[c].pos = call[c].pos /\ call'[c].block = value[EntryOf(c)] /\ value[EntryOf(c)] \in Blocks
      /\ call'[c].k \in 1..BLOCK_SIZE /\ call'[c].n = call[c].n - call'[c].k /\ call'[c].n \in Nat
      /\ place'[c] = place[c] + call'[c].k
      /\ Num(place'[c] - 1) = Num(place[c])
      /\ call'[c].n > 0 => place'[c] % BLOCK_SIZE = 0
  BY <1>0, FetchStep
<1>2. PICK h \in 1..current : h = call[c].header
  BY <1>1 DEF Types, CallTypes, At
<1>3. \A q \in Int : Held(c, q)' => (number[EntryFor(h, q)])' = q
  BY <1>0, <1>1, <1>2, HeldNumbers DEF At
<1>4. PICK p \in Int : p = Num(place[c])
  BY HeldNext DEF Found
<1>5. call'[c].pos = Pos(h, p)'
  <2>1. call[c].pos = Pos(h, p)
    BY <1>0, <1>1, <1>2, <1>4 DEF Looking, At
  <2> QED BY <2>1, <1>1, PlacesKept
<1>6. p = Num(place[c] - 1)'
  BY <1>1, <1>4 DEF Num
<1>7. Num(place[c] - call[c].k)' = p
  <2>1. place'[c] - call'[c].k = place[c]
    BY <1>1, CallFacts
  <2> QED BY <2>1, <1>4 DEF Num
<1>8. (value[EntryFor(h, p)])' = call'[c].block
  <2>1. EntryOf(c) = EntryFor(h, p)
    BY <1>0, <1>1, <1>2, <1>4 DEF EntryOf, EntryFor, Looking, At
  <2>2. value' = value
    BY DEF Fetch, blockIndex
  <2>3. EntryFor(h, p)' = EntryFor(h, p)
    BY PlacesKept
  <2> QED BY <1>1, <2>1, <2>2, <2>3, ZenonT(30)
<1> QED BY <1>1, <1>2, <1>3, <1>5, <1>6, <1>7, <1>8 DEF Looking

\* On to the next block of the call.
LEMMA LookOn ==
  ASSUME Types, Types', Claims, Found, Next, HistNext, NEW c \in Consumers, SetManyEmpty(c) \/ FreeBlock(c), OnToNext(c)
  PROVE  Looking(c)'
<1>1. call[c].pc \in {"empty", "free"} /\ Later(c) /\ ~Fetch(c)
  BY DEF SetManyEmpty, FreeBlock, At, Later, Fetch
<1>2. CASE call[c].n = 0
  <2>1. call'[c].pc = "idle"
    BY <1>2, NextBlockIs DEF NoCall
  <2> QED BY <2>1, LookNothing DEF Taking
<1>3. CASE call[c].n # 0
  <2>1. /\ call'[c].pc = "fetch" /\ call'[c].header = call[c].header /\ call'[c].n = call[c].n
        /\ call'[c].pos = (call[c].pos + 1) % Size(call[c].header)
    BY <1>3, NextBlockIs
  <2>2. PICK h \in 1..current : h = call[c].header
    BY <1>1 DEF Types, CallTypes
  <2>3. Looking(c) /\ place'[c] = place[c] /\ call[c].n \in Nat /\ call[c].n > 0 /\ place[c] \in Nat
    BY <1>1, <1>3, LaterFrame, CallFacts
  <2>4. \A q \in Int : Held(c, q)' => (number[EntryFor(h, q)])' = q
    BY <1>1, <2>2, HeldNumbers
  <2>5. PICK p, r : p = Num(place[c]) /\ r = Num(place[c] - 1) /\ p \in Int /\ r \in Int
    BY HeldNext DEF Found
  <2>6. p = r + 1
    <3>1. place[c] % BLOCK_SIZE = 0
      BY <1>1, <2>3 DEF Looking
    <3>2. place[c] \in Int
      BY <2>3
    <3> QED BY <3>1, <3>2, <2>5, BlockBefore
  <2>7. call'[c].pos = Pos(h, p)'
    <3>1. call[c].pos = Pos(h, r)
      BY <1>1, <2>2, <2>3, <2>5 DEF Looking
    <3>2. (Pos(h, r) + 1) % Size(h) = Pos(h, r + 1)
      BY <2>5, PosFacts DEF Found, Indexed
    <3>3. Pos(h, p)' = Pos(h, p)
      BY <2>5, PlacesKept
    <3> QED BY <3>1, <3>2, <3>3, <2>1, <2>2, <2>6
  <2>8. p = Num(place[c])'
    BY <2>3, <2>5 DEF Num
  <2>9. call'[c].n >= 1
    BY <2>1, <2>3
  <2> QED BY <2>1, <2>2, <2>4, <2>7, <2>8, <2>9 DEF Looking
<1> QED BY <1>2, <1>3

\* The call that empties the block.
LEMMA LookClear ==
  ASSUME Types, Types', Claims, Found, Next, HistNext, NEW c \in Consumers, SetManyEmpty(c), ~OnToNext(c)
  PROVE  Looking(c)'
<1>1. /\ At(c, "empty") /\ call'[c].pc = "clear" /\ call'[c].header = call[c].header
      /\ call'[c].pos = call[c].pos /\ call'[c].n = call[c].n /\ call'[c].block = call[c].block
      /\ emptied[call[c].block] + call[c].k = BLOCK_SIZE /\ Later(c) /\ ~Fetch(c)
  BY LookSteps DEF Later, Fetch, At
<1>2. PICK h \in 1..current : h = call[c].header
  BY <1>1 DEF Types, CallTypes, At
<1>3. Looking(c) /\ place'[c] = place[c]
  BY <1>1, LaterFrame
<1>4. \A q \in Int : Held(c, q)' => (number[EntryFor(h, q)])' = q
  BY <1>1, <1>2, HeldNumbers DEF At
<1>5. PICK r \in Int : r = Num(place[c] - 1)
  BY HeldNext DEF Found
<1>6. r = Num(place[c] - 1)'
  BY <1>3, <1>5 DEF Num
<1>7. call'[c].pos = Pos(h, r)'
  <2>1. call[c].pos = Pos(h, r)
    BY <1>1, <1>2, <1>3, <1>5 DEF Looking, At
  <2> QED BY <2>1, <1>1, PlacesKept
<1>8. (value[EntryFor(h, r)])' = call'[c].block
  <2>1. value[EntryFor(h, r)] = call[c].block
    BY <1>1, <1>2, <1>3, <1>5 DEF Looking, At
  <2>2. value' = value
    BY DEF SetManyEmpty, stored, blockIndex
  <2>3. EntryFor(h, r)' = EntryFor(h, r)
    BY PlacesKept
  <2> QED BY <1>1, <2>1, <2>2, <2>3
<1>9. Counted(r)' = Offsets
  <2>1. Cardinality(Counted(r)') = BLOCK_SIZE
    BY <1>1, <1>5, CountsMore
  <2> QED BY <2>1, CountedSizes
<1>a. ASSUME NEW d \in Consumers, d # c, At(d, "clear")' PROVE Num(place[d] - 1)' # r
  <2>1. Same(d)
    BY <1>1, <1>a, Movers DEF Same, At
  <2>2. At(d, "clear") /\ Taking(d)
    BY <2>1, <1>a DEF Same, At, Taking
  <2>3. place'[d] = place[d]
    BY <2>1, <2>2, SameHeld
  <2>4. PICK p \in Int : p = Num(place[d] - 1)
    BY HeldNext DEF Found
  <2>5. ~Held(c, p)
    BY <2>2, <2>4, <1>a, ClearAlone
  <2>6. Held(c, r)
    BY <1>1, <1>5, HeldNext DEF Found
  <2>7. p = Num(place[d] - 1)'
    BY <2>3, <2>4 DEF Num
  <2> QED BY <2>5, <2>6, <2>7
<1>b. call'[c].n > 0 => place'[c] % BLOCK_SIZE = 0
  BY <1>1, <1>3 DEF Looking, At
<1> QED BY <1>1, <1>2, <1>4, <1>6, <1>7, <1>8, <1>9, <1>a, <1>b DEF Looking

\* A call that has cleared its entry goes on to the next block.
LEMMA LookFree ==
  ASSUME Types, Types', Claims, Found, Next, HistNext, NEW c \in Consumers, ClearEntry(c)
  PROVE  Looking(c)'
<1>1. /\ At(c, "clear") /\ call'[c].pc = "free" /\ call'[c].header = call[c].header
      /\ call'[c].pos = call[c].pos /\ call'[c].n = call[c].n /\ Later(c) /\ ~Fetch(c)
  BY LookSteps DEF Later, Fetch, At
<1>2. PICK h \in 1..current : h = call[c].header
  BY <1>1 DEF Types, CallTypes, At
<1>3. Looking(c) /\ place'[c] = place[c]
  BY <1>1, LaterFrame
<1>4. \A q \in Int : Held(c, q)' => (number[EntryFor(h, q)])' = q
  BY <1>1, <1>2, HeldNumbers DEF At
<1>5. PICK r \in Int : r = Num(place[c] - 1)
  BY HeldNext DEF Found
<1>6. r = Num(place[c] - 1)'
  BY <1>3, <1>5 DEF Num
<1>7. call'[c].pos = Pos(h, r)'
  <2>1. call[c].pos = Pos(h, r)
    BY <1>1, <1>2, <1>3, <1>5 DEF Looking, At
  <2> QED BY <2>1, <1>1, PlacesKept
<1>8. call'[c].n > 0 => place'[c] % BLOCK_SIZE = 0
  BY <1>1, <1>3 DEF Looking, At
<1> QED BY <1>1, <1>2, <1>4, <1>6, <1>7, <1>8 DEF Looking

\* Every step keeps every call on its way to its blocks.
LEMMA LookingStep ==
  ASSUME Types, Types', Claims, Found, Next, HistNext, NEW c \in Consumers
  PROVE  Looking(c)'
<1>i. Indexed'
  BY IndexedStep
<1>1. CASE Same(c) /\ Taking(c)
  BY <1>1, <1>i, LookSame
<1>2. CASE ~Taking(c)'
  BY <1>2, LookNothing
<1>3. CASE Consume(c) /\ Take(c)
  BY <1>3, TakeHeld, CallFacts, LookNothing
<1>4. CASE Consume(c) /\ Later(c)
  BY <1>4, LookHeader, LookTail, LookKey, LookEmpty, LookOn, LookClear, LookFree DEF Later, FreeBlock
<1>5. Same(c) /\ ~Taking(c) => ~Taking(c)'
  BY DEF Same, Taking
<1> QED BY <1>1, <1>2, <1>3, <1>4, <1>5, StepsOf

\* Every step keeps all that is said of the blocks.
LEMMA FoundStep ==
  ASSUME Types, Types', Claims, Found, Next, HistNext
  PROVE  Found'
<1>1. Indexed' /\ Intervals'
  BY IndexedStep, IntervalsStep
<1>2. Located'
  BY <1>1, PresentStep, DistinctStep, ApartStep, EmptiedStep DEF Located
<1>3. \A c \in Consumers : Looking(c)'
  BY LookingStep
<1> QED BY <1>1, <1>2, <1>3 DEF Found

-------------------------------------------------------------------------------
(* The blocks are found *)

\* A step that changes nothing.
LEMMA FoundSame ==
  ASSUME Types, Found, UNCHANGED <<vars, hist>>
  PROVE  Found'
<1>1. UNCHANGED <<free, sent, call, key, value, headers, emptied, producer, head, place, number, first>>
  BY DEF vars, hist, base, counters, stored, blockIndex
<1>2. End' = End /\ TailNumber' = TailNumber
  BY <1>1, TailSame
<1>3. Newest' = Newest /\ current' = current
  BY <1>1, <1>2 DEF Newest, Producing, current
<1>4. \A h : Size(h)' = Size(h)
  BY <1>1 DEF Size
<1>5. \A h, q : Pos(h, q)' = Pos(h, q)
  BY <1>1, <1>4 DEF Pos
<1>6. \A h, q : EntryFor(h, q)' = EntryFor(h, q)
  BY <1>1, <1>5 DEF EntryFor
<1>7. \A c : (Taking(c)' <=> Taking(c)) /\ Low(c)' = Low(c) /\ High(c)' = High(c)
  BY <1>1 DEF Taking, Low, High, At
<1>8. \A c, q : Held(c, q)' <=> Held(c, q)
  BY <1>1, <1>7 DEF Held, At
<1>9. \A q : (Done(q)' <=> Done(q)) /\ Counted(q)' = Counted(q) /\ (Standing(q)' <=> Standing(q))
  <2>1. \A q : Done(q)' <=> Done(q)
    BY <1>1, <1>8 DEF Done
  <2>2. \A q : Counted(q)' = Counted(q)
    BY <1>1, <1>7 DEF Counted
  <2>3. \A q : Standing(q)' <=> Standing(q)
    BY <1>1, <1>3, <1>6 DEF Standing
  <2> QED BY <2>1, <2>2, <2>3
<1>10. Intervals'
  BY <1>1, <1>7 DEF Found, Intervals
<1>11. Indexed'
  <2>1. Rows'
    BY <1>1, <1>3, <1>4, <1>6 DEF Found, Indexed, Rows
  <2>2. Tailed'
    BY <1>1, <1>3, <1>5 DEF Found, Indexed, Tailed
  <2>3. Numbered'
    BY <1>1, <1>2, <1>3, <1>4, <1>6 DEF Found, Indexed, Numbered
  <2>4. Spread' /\ Reached'
    BY <1>1, <1>3, <1>4, <1>6 DEF Found, Indexed, Spread, Reached
  <2>5. Chained'
    BY <1>1, <1>2, <1>3, <1>6 DEF Found, Indexed, Chained
  <2> QED BY <2>1, <2>2, <2>3, <2>4, <2>5 DEF Indexed
<1>12. Located'
  <2>1. Present' /\ Distinct'
    BY <1>1, <1>2, <1>9 DEF Found, Located, Present, Distinct
  <2>2. Apart'
    BY <1>1 DEF Found, Located, Apart, InEntry, Undone, AtFree, At
  <2>3. Emptied'
    BY <1>1, <1>9, ZenonT(30) DEF Found, Located, Emptied
  <2> QED BY <2>1, <2>2, <2>3 DEF Located
<1>13. ASSUME NEW c \in Consumers PROVE Looking(c)'
  BY <1>1, <1>5, <1>6, <1>8, <1>9 DEF Found, Looking, At
<1> QED BY <1>10, <1>11, <1>12, <1>13 DEF Found

\* A producer at rest has its blocks where they are found.
LEMMA InitFound ==
  HInit => Found
<1> SUFFICES ASSUME HInit PROVE Found
  OBVIOUS
<1> DEFINE s == InitialIndexSize
           b == Start \div BLOCK_SIZE
<1>t. Types
  BY InitTypes
<1>0. s \in Nat \ {0} /\ s <= MaxIndexSize /\ MaxIndexSize \in Nat /\ BLOCK_SIZE \in Nat \ {0} /\ Start \in Nat
      /\ b \in Nat /\ Num(Start) = b
  <2>1. PICK k \in 1..MaxIndexSize : MaxIndexSize = k * s
    BY IndexSizesFit DEF Multiple
  <2>2. s \in Nat \ {0} /\ k \in Nat \ {0}
    BY IndexSizesFit
  <2>3. k * s >= s
    BY <2>2
  <2>4. Num(Start) = b
    BY DEF Num
  <2> QED BY <2>1, <2>2, <2>3, <2>4, IndexSizesFit, SizeFacts, StartFacts
<1>1. /\ sent = 0 /\ producer = NoEnqueue /\ head = Start /\ first = <<0>>
      /\ value = [e \in Entries |-> Null] /\ emptied = [x \in Blocks |-> 0]
      /\ \A c \in Consumers : call[c] = NoCall
      /\ headers = <<[tail |-> (b - 1) % s, index |-> [i \in 0..(s - 1) |-> i]]>>
  BY DEF HInit, Init, InitBase, HistInit
<1>2. current = 1 /\ Len(first) = 1 /\ first[1] = 0 /\ headers[1].index = [i \in 0..(s - 1) |-> i]
      /\ headers[1].tail = (b - 1) % s
  BY <1>1 DEF current
<1>3. Size(1) = s
  <2>1. DOMAIN headers[1].index = 0..(s - 1)
    BY <1>2
  <2>2. Cardinality(0..(s - 1)) = s
    <3>1. s - 1 \in Int /\ ~(0 > s - 1) /\ (s - 1) - 0 + 1 = s
      BY <1>0
    <3> HIDE DEF s
    <3> QED BY <3>1, FS_Interval
  <2> QED BY <2>1, <2>2 DEF Size, Capacity
<1>4. ASSUME NEW q \in Int PROVE Pos(1, q) = q % s /\ EntryFor(1, q) = q % s /\ q % s \in 0..(s - 1)
  <2>1. q % s \in 0..(s - 1)
    <3> HIDE DEF s
    <3> QED BY <1>0, Division
  <2>2. q - first[1] = q
    BY <1>2
  <2>3. Pos(1, q) = q % s
    BY <2>2, <1>3 DEF Pos
  <2> QED BY <2>1, <2>3, <1>2 DEF EntryFor
<1>5. End = Start /\ TailNumber = b - 1 /\ Newest = b - 1 /\ producer.chain = <<>> /\ producer.undone = 0
      /\ producer.pc = "idle"
  <2>1. producer.chain = <<>> /\ producer.undone = 0 /\ producer.pc = "idle" /\ Len(producer.chain) = 0
    BY <1>1 DEF NoEnqueue
  <2>2. End = Start
    BY <1>0, <1>1 DEF End
  <2>3. Num(Start - 1) = b - 1
    <3>1. From(b) = Start /\ From((b - 1) + 1) = From(b - 1) + BLOCK_SIZE /\ From(b - 1) \in Int
      <4>1. b - 1 \in Int /\ (b - 1) + 1 = b
        BY <1>0
      <4> HIDE DEF b
      <4> QED BY <4>1, <1>0, StartFacts, FromFacts
    <3>2. Start - 1 \in Int /\ b - 1 \in Int
      BY <1>0
    <3>3. From(b - 1) <= Start - 1 /\ Start - 1 < From((b - 1) + 1)
      <4>1. (b - 1) + 1 = b
        BY <1>0
      <4> HIDE DEF b
      <4> QED BY <4>1, <3>1, <1>0
    <3> HIDE DEF b
    <3> QED BY <3>2, <3>3, NumIs
  <2>4. TailNumber = b - 1
    BY <2>2, <2>3 DEF TailNumber
  <2>5. Newest = b - 1
    BY <2>1, <2>4, <1>0 DEF Newest, Producing
  <2> QED BY <2>1, <2>2, <2>4, <2>5
<1>6. \A e \in Entries : value[e] = Null
  BY <1>1
<1> HIDE DEF s, b
<1>7. Intervals
  <2>1. \A c \in Consumers : ~Taking(c)
    BY <1>1 DEF Taking, NoCall
  <2> QED BY <2>1, <1>0, <1>1 DEF Intervals
<1>8. Rows
  <2>1. 1..current = {1}
    BY <1>2
  <2>2. headers[1].index \in [0..(s - 1) -> 0..(s - 1)] /\ \A x \in 0..(s - 1) : headers[1].index[x] = x
    BY <1>2
  <2>3. s <= s
    BY <1>0
  <2>4. /\ Size(1) <= Size(1)
        /\ headers[1].index \in [0..(Size(1) - 1) -> 0..(Size(1) - 1)]
        /\ \A x, y \in 0..(Size(1) - 1) : headers[1].index[x] = headers[1].index[y] => x = y
    BY <2>2, <2>3, <1>3
  <2>5. \A h \in 1..current : h = 1
    BY <2>1
  <2>6. Len(first) = current /\ current = 1
    BY <1>2
  <2> QED BY <2>4, <2>5, <2>6 DEF Rows
<1>9. Tailed
  <2>1. Pos(1, b - 1) = (b - 1) % s
    BY <1>0, <1>4
  <2> QED BY <2>1, <1>2, <1>5 DEF Tailed
<1>10. Numbered
  <2> SUFFICES ASSUME NEW e \in Entries
               PROVE  /\ number[e] >= -1 /\ number[e] <= TailNumber + Size(current)
                      /\ key[e] = IF number[e] = -1 THEN INVALID_BLOCK_BASE ELSE From(number[e]) % W
                      /\ number[e] # -1 => EntryFor(current, number[e]) = e
                      /\ value[e] = Null
    BY DEF Numbered
  <2>1. CASE \E q \in LastUser(e) : TRUE
    <3>1. PICK q \in LastUser(e) : q = (CHOOSE x \in LastUser(e) : TRUE)
      BY <2>1
    <3>2. number[e] = q /\ key[e] = (q * BLOCK_SIZE) % W
      BY <2>1, <3>1 DEF HInit, Init, HistInit
    <3>3. q \in 0..(b - 1) /\ q % s = e
      BY <3>1 DEF LastUser, s, b
    <3>4. EntryFor(current, q) = e
      BY <3>3, <1>0, <1>2, <1>4
    <3>5. q \in Nat /\ q # -1 /\ q <= (b - 1) + s
      BY <3>3, <1>0
    <3> QED BY <3>2, <3>4, <3>5, <1>2, <1>3, <1>5, <1>6 DEF From
  <2>2. CASE ~\E q \in LastUser(e) : TRUE
    <3>1. number[e] = -1 /\ key[e] = INVALID_BLOCK_BASE
      BY <2>2 DEF HInit, Init, HistInit
    <3>2. -1 >= -1 /\ -1 <= (b - 1) + s
      BY <1>0
    <3> QED BY <3>1, <3>2, <1>2, <1>3, <1>5, <1>6
  <2> QED BY <2>1, <2>2
<1>11. Spread /\ Reached /\ Distinct
  BY <1>6 DEF Spread, Reached, Distinct
<1>12. Chained
  BY <1>5 DEF Chained
<1>13. Present
  BY <1>0, <1>5 DEF Present
<1>14. Apart
  <2>1. \A x \in Blocks : ~InEntry(x) /\ ~Undone(x) /\ \A c \in Consumers : ~AtFree(c, x)
    BY <1>1, <1>5, <1>6, NullAssumption DEF InEntry, Undone, AtFree, At, NoCall
  <2> QED BY <2>1 DEF Apart
<1>15. Emptied
  BY <1>0, <1>1, <1>6, SMTT(40) DEF Emptied
<1>16. \A c \in Consumers : Looking(c)
  <2>1. \A c \in Consumers : call[c].pc = "idle"
    BY <1>1 DEF NoCall
  <2> QED BY <2>1 DEF Looking
<1> QED BY <1>7, <1>8, <1>9, <1>10, <1>11, <1>12, <1>13, <1>14, <1>15, <1>16 DEF Found, Indexed, Located

\* What a step under Timely preserves, all together.
LEMMA HoldsStep ==
  ASSUME Types, Claims, Found, Timely, [HNext]_<<vars, hist>>
  PROVE  Types' /\ Claims' /\ Found'
<1>1. Types' /\ Claims'
  BY TypesStep, ClaimsStep
<1>2. Found'
  BY <1>1, FoundStep, FoundSame DEF HNext
<1> QED BY <1>1, <1>2

\* Every element that is claimed lies in the block its place belongs to: a
\* step keeps the entries of the index, the blocks they point to, the counts
\* of emptied places and what the lookups under way have read of them, for
\* any number of consumers, blocks and counter widths.
THEOREM BlocksFound == HSpec /\ []Timely => [](Types /\ Claims /\ Found)
<1>1. HInit => Types /\ Claims /\ Found
  BY InitTypes, InitClaims, InitFound
<1>2. Types /\ Claims /\ Found /\ Timely /\ [HNext]_<<vars, hist>> => Types' /\ Claims' /\ Found'
  BY HoldsStep
<1> QED BY <1>1, <1>2, PTL DEF HSpec

\* A consumer that has looked up the entry of its element reads, when it
\* fetches, the entry that was assigned to the block of its place.
LEMMA RightLookup == Types /\ Claims /\ Found => LookupRight
<1> SUFFICES ASSUME Types, Claims, Found, NEW c \in Consumers, At(c, "fetch")
             PROVE  key[EntryOf(c)] = Base(call[c].at) /\ value[EntryOf(c)] \in Blocks
  BY DEF LookupRight
<1>1. PICK q \in Int : q = Num(place[c])
  BY HeldNext DEF Found
<1>2. PICK h \in 1..current : h = call[c].header
  BY ZenonT(30) DEF Types, CallTypes, At
<1>3. Held(c, q) /\ place[c] \in Int
  BY <1>1, HeldNext DEF Found, At
<1>4. EntryOf(c) = EntryFor(h, q)
  BY <1>1, <1>2 DEF EntryOf, EntryFor, Found, Looking, At
<1>5. PICK e : e = EntryFor(current, q)
  OBVIOUS
<1>6. EntryFor(h, q) = e /\ Standing(q) /\ e \in Entries /\ q \in Nat
  BY <1>2, <1>3, <1>5, HeldStands DEF At
<1>7. number[e] = q /\ value[e] # Null
  BY <1>5, <1>6 DEF Standing
<1>8. key[e] = From(q) % W /\ value[e] \in Blocks
  <2>1. q # -1
    BY <1>6
  <2> QED BY <2>1, <1>6, <1>7, EntryFacts DEF Found, Indexed, Numbered
<1>9. Base(call[c].at) = From(q) % W
  <2>1. Taking(c)
    BY DEF Taking, At
  <2>2. call[c].at = place[c] % W
    BY <2>1 DEF Claims, Phase
  <2> QED BY <2>2, <1>1, <1>3, WrappedBase
<1> QED BY <1>4, <1>6, <1>8, <1>9

\* A dequeuer finds the block of the element it claimed: the index it read may
\* be an old one, its tail may have moved, the entry may be used again, and
\* the entry it computes still has the base of its block and points to one.
THEOREM LookupRightHolds == HSpec /\ []Timely => []LookupRight
BY BlocksFound, RightLookup, PTL

\* The type invariant of the model follows from the histories' invariants:
\* that no block counts more emptied places than it has needs the claims.
LEMMA RightTypes == Types /\ Claims /\ Found => TypeOK
<1> SUFFICES ASSUME Types, Claims, Found PROVE TypeOK
  OBVIOUS
<1>1. BaseTypeOK
  <2>1. CallSet \subseteq Calls
    BY SizeFacts DEF CallSet, Calls
  <2>2. Values = 1..MaxItems \cup {Null}
    BY DEF Values
  <2> QED BY <2>1, <2>2 DEF BaseTypeOK, Types, CounterTypes, StoreTypes, CallTypes
<1>2. ASSUME NEW h \in 1..current
      PROVE  /\ headers[h].tail \in DOMAIN headers[h].index
             /\ \A i \in DOMAIN headers[h].index : headers[h].index[i] \in Entries
  BY HeadersFacts DEF Types
<1>3. emptied \in [Blocks -> 0..BLOCK_SIZE]
  <2>1. emptied \in [Blocks -> Nat] /\ \A b \in Blocks : emptied[b] <= BLOCK_SIZE
    BY DEF Types, IndexTypes, Found, Located, Emptied
  <2> QED BY <2>1, SizeFacts
<1>4. key \in [Entries -> Indexes] /\ value \in [Entries -> Blocks \cup {Null}]
      /\ producer.chain \in Seq(Blocks) /\ producer.undone \in 0..Len(producer.chain)
  BY EntryFacts, NewestFacts
<1> QED BY <1>1, <1>2, <1>3, <1>4 DEF TypeOK

\* The variables keep their types: above all, no block is ever counted emptied
\* more often than it has places, and an index's tail stays inside it.
THEOREM TypeCorrect == HSpec /\ []Timely => []TypeOK
BY BlocksFound, RightTypes, PTL

-------------------------------------------------------------------------------
(* What the blocks hold *)

\* Element x is still to be moved out, by c or by a call to come.
Moving(c, x) == Taking(c) /\ place[c] <= x /\ x < High(c)
\* Element x is there: nobody took it, or its call has yet to move it out.
Unmoved(x) == x >= head \/ \E c \in Consumers : Moving(c, x)
\* What is in the place of index x.
ElementAt(x) == IF x < End /\ Unmoved(x) THEN x - Start + 1 ELSE Null

\* A block in the index holds the elements of its number that are there.
Filled == \A e \in Entries, o \in Offsets :
            value[e] # Null => elems[value[e]][o] = ElementAt(From(number[e]) + o)
\* A block outside the index holds nothing.
Vacant == \A b \in Blocks, o \in Offsets : ~InEntry(b) => elems[b][o] = Null
\* The index finds the tail's block by its number.
TailFound == \A e \in Entries : value[e] # Null /\ number[e] = TailNumber => value[e] = tailBlock
\* What the blocks hold.
Contents == Filled /\ Vacant /\ TailFound

\* c moves x out in this step.
MovesOut(c, x) == Fetch(c) /\ place[c] <= x /\ x < place'[c]

\* What each call is still to move out, by the kind of its step.
LEMMA MovingStep ==
  ASSUME Types, Types', Claims, Found, Next, HistNext, NEW d \in Consumers, NEW x \in Int
  PROVE  \/ ~(Consume(d) /\ Take(d)) /\ (Moving(d, x)' <=> Moving(d, x) /\ ~MovesOut(d, x))
         \/ Consume(d) /\ Take(d) /\ ~Moving(d, x) /\ (Moving(d, x)' <=> head <= x /\ x < head')
<1>1. CASE Same(d)
  <2>1. Moving(d, x)' <=> Moving(d, x)
    BY <1>1, SameHeld DEF Moving
  <2>2. Fetch(d) => ~Same(d)
    BY FetchStep DEF Found, Same, At
  <2>3. Take(d) /\ Consume(d) => ~Same(d)
    BY TakeHeld, SameHeld
  <2> QED BY <2>1, <2>2, <2>3, <1>1 DEF MovesOut
<1>2. CASE Consume(d) /\ ~Taking(d) /\ ~Taking(d)'
  <2>1. ~Fetch(d)
    BY <1>2 DEF Fetch, Taking, At
  <2>2. ~Take(d)
    BY <1>2, TakeHeld
  <2> QED BY <2>1, <2>2, <1>2 DEF Moving, MovesOut
<1>3. CASE Consume(d) /\ Take(d)
  <2>1. ~Taking(d) /\ Taking(d)' /\ Low(d)' = head /\ High(d)' = head' /\ call'[d].pc = "header"
    BY <1>3, TakeHeld
  <2>2. place'[d] = head
    BY <2>1 DEF Low, At
  <2> QED BY <2>1, <2>2, <1>3 DEF Moving
<1>4. CASE Consume(d) /\ Later(d)
  <2>1. Taking(d) /\ (Taking(d)' => High(d)' = High(d)) /\ Looking(d)
    BY <1>4, LaterHeld DEF Found
  <2>2. ~Take(d)
    BY <1>4, <2>1, TakeHeld
  <2>3. place[d] \in Nat /\ call[d].n \in Nat
    BY CallFacts
  <2>4. CASE Fetch(d)
    <3>1. Taking(d)' /\ place'[d] >= place[d] /\ place'[d] \in Int
      BY <2>1, <2>3, <2>4, FetchStep, SizeFacts DEF Taking, At
    <3> QED BY <2>1, <2>2, <2>3, <2>4, <3>1 DEF Moving, MovesOut
  <2>5. CASE ~Fetch(d)
    <3>1. place'[d] = place[d]
      BY <1>4, <2>5, LaterFrame
    <3>2. CASE Taking(d)'
      BY <3>1, <3>2, <2>1, <2>2, <2>5 DEF Moving, MovesOut
    <3>3. CASE ~Taking(d)'
      <4>1. call[d].n = 0
        BY <1>4, <2>5, <3>3, LookSteps, NextBlockIs DEF Later, Taking
      <4> QED BY <4>1, <3>3, <2>2, <2>3, <2>5 DEF Moving, MovesOut, High
    <3> QED BY <3>2, <3>3
  <2> QED BY <2>4, <2>5
<1> QED BY <1>1, <1>2, <1>3, <1>4, StepsOf

\* What is moved out was taken, and belongs to no other call.
LEMMA MovesOutFacts ==
  ASSUME Types, Types', Claims, Found, Next, HistNext, NEW c \in Consumers, NEW x \in Int, MovesOut(c, x)
  PROVE  /\ Moving(c, x) /\ ~Moving(c, x)' /\ x < head /\ head' = head
         /\ \A d \in Consumers : d # c => ~Moving(d, x) /\ ~Moving(d, x)'
<1>1. Fetch(c) /\ place[c] <= x /\ x < place'[c] /\ Looking(c)
  BY DEF MovesOut, Found
<1>2. /\ At(c, "fetch") /\ call'[c].k \in 1..BLOCK_SIZE /\ call'[c].n = call[c].n - call'[c].k
      /\ call'[c].n \in Nat /\ place'[c] = place[c] + call'[c].k
  BY <1>1, FetchStep
<1>3. place[c] \in Nat /\ call[c].n \in Nat /\ BLOCK_SIZE \in Nat
  BY CallFacts, SizeFacts
<1>4. Taking(c) /\ Low(c) = place[c] /\ High(c) = place[c] + call[c].n
  BY <1>2 DEF Taking, Low, High, At
<1>5. Moving(c, x)
  BY <1>1, <1>2, <1>3, <1>4 DEF Moving
<1>6. ~(Consume(c) /\ Take(c))
  BY <1>4, TakeHeld
<1>7. ~Moving(c, x)'
  BY <1>1, <1>6, MovingStep DEF MovesOut
<1>8. High(c) <= head /\ head \in Nat
  BY <1>4, HistFacts DEF Found, Intervals
<1>9. x < head
  BY <1>1, <1>2, <1>3, <1>4, <1>8
<1>10. head' = head
  <2>1. headIndex' = headIndex
    BY <1>1 DEF Fetch, MoveOut, counters
  <2> QED BY <2>1, HistSame, ZenonT(30)
<1>11. ASSUME NEW d \in Consumers, d # c PROVE ~Moving(d, x)
  <2> SUFFICES ASSUME Moving(d, x) PROVE FALSE
    OBVIOUS
  <2>1. Taking(d) /\ place[d] <= x /\ x < High(d) /\ place[d] \in Nat /\ Low(d) \in Int /\ High(d) \in Int
    BY Spans, CallFacts DEF Moving
  <2>2. Low(d) <= place[d]
    BY <2>1, CallFacts DEF Low
  <2>3. High(c) <= Low(d) \/ High(d) <= Low(c)
    BY <1>4, <1>11, <2>1 DEF Found, Intervals
  <2> QED BY <1>1, <1>2, <1>3, <1>4, <2>1, <2>2, <2>3
<1>12. ASSUME NEW d \in Consumers, d # c PROVE ~Moving(d, x)'
  <2>1. \/ Moving(d, x)' => Moving(d, x)
        \/ Moving(d, x)' => head <= x /\ x < head'
    BY MovingStep
  <2>2. ~Moving(d, x)
    BY <1>11, <1>12
  <2> QED BY <2>1, <2>2, <1>8, <1>9, <1>10
<1> QED BY <1>5, <1>7, <1>9, <1>10, <1>11, <1>12

\* An element is moved out once, by the call that took it.
LEMMA UnmovedStep ==
  ASSUME Types, Types', Claims, Found, Next, HistNext, NEW x \in Int
  PROVE  Unmoved(x)' <=> Unmoved(x) /\ \A c \in Consumers : ~MovesOut(c, x)
<1>0. head \in Nat /\ head' \in Nat /\ head' >= head
  BY Spans
<1>1. CASE \E c \in Consumers : MovesOut(c, x)
  <2>1. PICK c \in Consumers : MovesOut(c, x)
    BY <1>1
  <2>2. x < head /\ head' = head /\ \A d \in Consumers : ~Moving(d, x)'
    BY <2>1, MovesOutFacts
  <2> QED BY <1>0, <1>1, <2>2 DEF Unmoved
<1>2. CASE \A c \in Consumers : ~MovesOut(c, x)
  <2>1. ASSUME Unmoved(x)' PROVE Unmoved(x)
    <3>1. CASE x >= head'
      BY <3>1, <1>0 DEF Unmoved
    <3>2. CASE \E d \in Consumers : Moving(d, x)'
      <4>1. PICK d \in Consumers : Moving(d, x)'
        BY <3>2
      <4> QED BY <4>1, <1>0, MovingStep DEF Unmoved
    <3> QED BY <3>1, <3>2, <2>1 DEF Unmoved
  <2>2. ASSUME Unmoved(x) PROVE Unmoved(x)'
    <3>1. CASE x >= head
      <4>1. CASE x >= head'
        BY <4>1 DEF Unmoved
      <4>2. CASE x < head'
        <5>1. PICK c \in Consumers : Consume(c) /\ Take(c)
          BY <3>1, <4>2, <1>0, HeadSteps
        <5>2. Moving(c, x)'
          BY <5>1, <3>1, <4>2, MovingStep
        <5> QED BY <5>2 DEF Unmoved
      <4> QED BY <4>1, <4>2, <1>0
    <3>2. CASE \E d \in Consumers : Moving(d, x)
      <4>1. PICK d \in Consumers : Moving(d, x)
        BY <3>2
      <4>2. Moving(d, x)'
        BY <4>1, <1>2, MovingStep
      <4> QED BY <4>2 DEF Unmoved
    <3> QED BY <3>1, <3>2, <2>2 DEF Unmoved
  <2> QED BY <2>1, <2>2, <1>2
<1> QED BY <1>1, <1>2

\* The steps that construct or destroy elements.
LEMMA ElementSteps ==
  ASSUME Next
  PROVE  \/ elems' = elems /\ sent' = sent /\ tailBlock' = tailBlock
         \/ Publish
         \/ AppendToTail
         \/ \E c \in Consumers : Fetch(c)
<1>1. CASE \E c \in Consumers : Consume(c)
  <2>1. PICK c \in Consumers : Consume(c)
    BY <1>1
  <2>2. CASE Later(c)
    BY <2>2, ZenonT(30) DEF Later, LoadHeader, LoadTail, LoadKey, SetManyEmpty, ClearEntry, FreeBlock, stored
  <2>3. CASE ~Later(c)
    BY <2>1, <2>3, Claiming, ZenonT(30) DEF Begin, ReadOvercommit, Look, Claim, Settle, GiveBack, Take, stored
  <2> QED BY <2>2, <2>3
<1>2. CASE Produce
  <2>1. CASE enqueue \/ enqueue_bulk \/ CheckRoom
    BY <2>1, ZenonT(30) DEF enqueue, enqueue_bulk, BeginEnqueue, CheckRoom, base, stored
  <2>2. CASE InsertBlockIndexEntry \/ AdvanceIndexTail \/ NewBlockIndex
    BY <2>2 DEF InsertBlockIndexEntry, AdvanceIndexTail, NewBlockIndex, base, stored
  <2>3. CASE RequisitionBlock \/ FailBlock \/ UndoBlock \/ FreeChain
    BY <2>3, ZenonT(30) DEF RequisitionBlock, EnterBlock, FailBlock, UndoBlock, FreeChain, base, stored
  <2> QED BY <2>1, <2>2, <2>3, <1>2 DEF Produce
<1> QED BY <1>1, <1>2 DEF Next

\* A place that no call moves out of, and that no enqueue fills.
LEMMA ElementSame ==
  ASSUME Types, Types', Claims, Found, Next, HistNext, NEW x \in Int, sent' = sent,
         \A c \in Consumers : ~MovesOut(c, x)
  PROVE  ElementAt(x)' = ElementAt(x)
<1>1. End' = End /\ (Unmoved(x)' <=> Unmoved(x))
  BY EndSame, UnmovedStep
<1> QED BY <1>1 DEF ElementAt

\* The block and offset that an enqueue constructs its j-th element in.
Target(j, chain) ==
  LET n == BlocksBetween(Minus(tailIndex, 1), Plus(tailIndex, j))
  IN <<IF n = 0 THEN tailBlock ELSE chain[n], Plus(tailIndex, j) % BLOCK_SIZE>>

\* An enqueue that has its blocks: its elements' places are in the index.
LEMMA TargetIs ==
  ASSUME Types, Claims, Found, TailFound, NEW count \in Counts, NEW chain,
         Needs(count) = Len(chain), chain = producer.chain, producer.undone = 0,
         NEW j \in 0..(count - 1), NEW q, q = Num(End + j), NEW e, e = EntryFor(current, q)
  PROVE  /\ q \in Int /\ q \in Num(Start)..(TailNumber + Needs(count)) /\ e \in Entries
         /\ number[e] = q /\ value[e] # Null
         /\ Target(j, chain) = <<value[e], (End + j) % BLOCK_SIZE>>
<1> DEFINE x == End + j
<1>1. /\ End \in Nat /\ TailNumber \in Int /\ From(TailNumber + 1) = From(TailNumber) + BLOCK_SIZE
      /\ From(TailNumber) < End /\ End <= From(TailNumber + 1) /\ From(TailNumber) \in Int
      /\ Start \in Nat /\ BLOCK_SIZE \in Nat \ {0} /\ Half \in Nat \ {0}
  BY EndFacts, SizeFacts DEF Types
<1>2. /\ Needs(count) \in Nat /\ From(Needs(count)) < Half /\ count \in Nat \ {0} /\ count < Half
  BY NeedFacts DEF Claims
<1>m. PICK m \in Int : m = Needs(count) /\ m >= 0
  BY <1>2
<1>3. x \in Nat /\ x \in Int /\ x >= End /\ x <= End + count - 1 /\ j \in Nat
  BY <1>1, <1>2
<1> HIDE DEF x
<1>4. q = Num(x)
  BY DEF x
<1>5. q \in Int /\ From(q) <= x /\ x < From(q) + BLOCK_SIZE /\ From(q) \in Int /\ From(q + 1) = From(q) + BLOCK_SIZE
      /\ From(q + 1) \in Int
  <2>1. q \in Int /\ From(q) <= x /\ x < From(q) + BLOCK_SIZE
    BY <1>3, <1>4, NumFacts
  <2>2. q + 1 \in Int
    BY <2>1
  <2> QED BY <2>1, <2>2, FromFacts
<1>6. TailNumber <= q
  <2>1. Num(x) >= TailNumber <=> From(TailNumber) <= x
    BY <1>1, <1>3, NumIs
  <2> QED BY <2>1, <1>1, <1>3, <1>4
<1>7. q <= TailNumber + m
  <2>1. PICK y \in Int : y = End + count - 1
    BY <1>1, <1>2
  <2>2. Num(y) = TailNumber + m /\ Num(y) \in Int
    <3>1. Num(y) \in Int
      BY <2>1, NumFacts
    <3>2. m = Num(y) - TailNumber
      BY <2>1, <1>m DEF Needs
    <3> QED BY <3>1, <3>2, <1>1
  <2>3. x < From(Num(y) + 1)
    <3>1. y < From(Num(y)) + BLOCK_SIZE /\ From(Num(y) + 1) = From(Num(y)) + BLOCK_SIZE /\ From(Num(y)) \in Int
      BY <2>1, <2>2, NumFacts, FromFacts
    <3> QED BY <3>1, <2>1, <1>1, <1>3
  <2>4. Num(x) <= Num(y) <=> x < From(Num(y) + 1)
    BY <2>2, <1>1, <1>3, NumIs
  <2> QED BY <2>2, <2>3, <2>4, <1>4
<1>8. Start <= End /\ Num(Start) <= q /\ Num(Start) \in Int
  <2>1. Start <= head /\ head <= End /\ head \in Nat
    BY ClaimsFacts DEF Found, Intervals
  <2>2. Num(x) >= Num(Start) <=> From(Num(Start)) <= x
    <3>1. PICK r \in Int : r = Num(Start)
      BY StartFacts
    <3>2. Num(x) >= r <=> From(r) <= x
      BY <3>1, <1>3, NumIs
    <3> QED BY <3>1, <3>2
  <2>3. From(Num(Start)) = Start /\ Num(Start) \in Int
    BY StartFacts
  <2> QED BY <2>1, <2>2, <2>3, <1>1, <1>3, <1>4
<1>9. BlocksBetween(Minus(tailIndex, 1), Plus(tailIndex, j)) = q - TailNumber
  <2>1. tailIndex = End % W
    BY DEF Claims, Numbers
  <2>2. End - 1 \in Int /\ End \in Int /\ j \in Int
    BY <1>1, <1>3
  <2>3. Minus(tailIndex, 1) = (End - 1) % W /\ Plus(tailIndex, j) = x % W
    BY <2>1, <2>2, Wrapped DEF x
  <2>4. TailNumber = Num(End - 1)
    BY DEF TailNumber
  <2>5. q - TailNumber \in Int /\ 0 <= q - TailNumber /\ q - TailNumber <= m
    <3>1. q \in Int /\ TailNumber \in Int /\ m \in Int
      BY <1>1, <1>m, <1>5
    <3> QED BY ONLY <3>1, <1>6, <1>7
  <2>6. From(q - TailNumber) <= From(m) /\ From(0) <= From(q - TailNumber) /\ From(0) = 0
        /\ From(q - TailNumber) \in Int /\ From(m) \in Int
    <3>1. PICK d \in Int : d = q - TailNumber
      BY <2>5
    <3>2. d <= m /\ 0 <= d
      BY <3>1, <2>5
    <3>3. From(d) <= From(m) /\ From(0) <= From(d) /\ From(0) = 0 /\ From(d) \in Int /\ From(m) \in Int
      BY <3>2, <1>m, FromFacts
    <3> QED BY <3>1, <3>3
  <2>7. -Half <= From(q - TailNumber) /\ From(q - TailNumber) < Half
    BY <2>6, <1>1, <1>2, <1>m
  <2>8. BlocksBetween((End - 1) % W, x % W) = Num(x) - Num(End - 1)
    <3>1. Num(x) - Num(End - 1) = q - TailNumber
      BY <2>4, <1>4
    <3> QED BY <3>1, <2>2, <2>7, <1>3, Between
  <2> QED BY <2>3, <2>4, <2>8, <1>4
<1>10. Plus(tailIndex, j) % BLOCK_SIZE = x % BLOCK_SIZE
  <2>1. Plus(tailIndex, j) = x % W
    BY <1>1, <1>3, Wrapped DEF Claims, Numbers, x
  <2> QED BY <2>1, <1>3, WrappedBase
<1>11. e \in Entries
  BY <1>5, TailPlaces, PosFacts DEF Found, Indexed
<1>12. CASE q = TailNumber
  <2>1. ~Done(q)
    <3>1. From(q + 1) > End /\ head <= End /\ head \in Nat
      BY <1>1, <1>3, <1>5, ClaimsFacts, SMTT(40)
    <3> QED BY <3>1, <1>1, <1>5 DEF Done
  <2>2. Standing(q)
    BY <2>1, <1>8, <1>12, <1>1 DEF Found, Located, Present
  <2>3. number[e] = q /\ value[e] # Null /\ value[e] = tailBlock
    BY <2>2, <1>11, <1>12 DEF Standing, TailFound
  <2>4. q - TailNumber = 0
    BY <1>12, <1>1
  <2> QED BY <2>3, <2>4, <1>m, <1>5, <1>6, <1>7, <1>8, <1>9, <1>10, <1>11 DEF Target, x
<1>13. CASE q # TailNumber
  <2>1. PICK n \in Int : n = q - TailNumber
    BY <1>1, <1>5
  <2>2. n \in 1..Len(chain) /\ q = TailNumber + n /\ n # 0 /\ n > producer.undone
    <3>1. m = Len(chain) /\ producer.undone = 0
      BY <1>m
    <3>2. PICK t \in Int : t = TailNumber
      BY <1>1
    <3>3. q \in Int /\ t <= q /\ q <= t + m /\ q # t /\ n = q - t /\ m \in Int
      BY <3>2, <2>1, <1>m, <1>5, <1>6, <1>7, <1>13
    <3>4. n \in 1..m /\ q = t + n /\ n # 0 /\ n > 0
      BY <3>3
    <3> QED BY <3>1, <3>2, <3>4
  <2>3. number[e] = q /\ value[e] = chain[n]
    BY <2>2 DEF Found, Indexed, Chained
  <2>4. value[e] # Null
    <3>1. chain \in Seq(Blocks)
      BY NewestFacts
    <3> QED BY <3>1, <2>2, <2>3, EntryFacts
  <2> QED BY <2>1, <2>2, <2>3, <2>4, <1>m, <1>5, <1>6, <1>7, <1>8, <1>9, <1>10, <1>11 DEF Target, x
<1> QED BY <1>12, <1>13

\* The enqueue that fills places, and how many.
LEMMA ConstructIs ==
  ASSUME Types, Claims, Publish \/ AppendToTail
  PROVE  \E count \in Counts :
           /\ Construct(count, producer.chain) /\ Needs(count) = Len(producer.chain) /\ producer.undone = 0
           /\ sent' = sent + count /\ UNCHANGED <<value, key, headers, producer.undone, emptied>>
<1>1. producer.undone \in Nat /\ (~Producing("undo") => producer.undone = 0)
      /\ (Producing("idle") => producer = NoEnqueue) /\ (~Producing("idle") => producer.count \in Counts)
  BY NewestFacts DEF Types, ProducerTypes
<1>2. CASE Publish
  <2>1. Producing("publish") /\ producer.count \in Counts /\ producer.undone = 0
    BY <1>1, <1>2 DEF Publish, Producing
  <2>2. Needs(producer.count) = Len(producer.chain)
    BY <2>1 DEF Claims, Enqueuing
  <2> QED BY <2>1, <2>2, <1>2 DEF Publish, Construct, blockIndex, NoEnqueue
<1>3. CASE AppendToTail
  <2>1. PICK count \in Counts : BlocksNeeded(count) = 0 /\ Construct(count, <<>>)
    BY <1>3 DEF AppendToTail
  <2>2. producer = NoEnqueue /\ producer.chain = <<>>
    BY <1>1, <1>3 DEF AppendToTail, NoEnqueue
  <2>3. Needs(count) = 0
    BY <2>1, NeedFacts DEF Claims
  <2>4. producer.undone = 0 /\ Len(producer.chain) = 0 /\ UNCHANGED <<producer, value, key, headers, emptied>>
    BY <2>2, <1>3 DEF AppendToTail, NoEnqueue, blockIndex
  <2>5. sent' = sent + count
    BY <2>1 DEF Construct
  <2> QED BY <2>1, <2>2, <2>3, <2>4, <2>5
<1> QED BY <1>2, <1>3

\* What an enqueue leaves in each place.
LEMMA ConstructedIs ==
  ASSUME Types, NEW count, NEW chain, Construct(count, chain), NEW b \in Blocks, NEW o \in Offsets
  PROVE  elems'[b][o] = IF \E j \in 0..(count - 1) : Target(j, chain) = <<b, o>>
                          THEN sent + 1 + (CHOOSE j \in 0..(count - 1) : Target(j, chain) = <<b, o>>)
                          ELSE elems[b][o]
BY DEF Construct, Target

\* Which element goes to which place.
LEMMA FillsWhere ==
  ASSUME Types, Claims, Found, TailFound, NEW count \in Counts, NEW chain,
         Needs(count) = Len(chain), chain = producer.chain, producer.undone = 0,
         NEW e \in Entries, value[e] # Null, NEW o \in Offsets, NEW x, x = From(number[e]) + o
  PROVE  /\ x \in Int
         /\ \A j \in 0..(count - 1) : Target(j, chain) = <<value[e], o>> <=> End + j = x
<1>1. PICK q \in Int : q = number[e]
  BY EntryFacts
<1>2. x = From(q) + o /\ x \in Int /\ o \in Int /\ Num(x) = q /\ x % BLOCK_SIZE = o
  <2>1. From(q) \in Int /\ o \in Int
    BY FromFacts, SizeFacts DEF Offsets
  <2>2. Num(From(q) + o) = q /\ (From(q) + o) % BLOCK_SIZE = o
    BY NumFacts
  <2>3. x = From(q) + o
    BY <1>1
  <2> QED BY <2>1, <2>2, <2>3
<1>3. EntryFor(current, q) = e /\ q # -1
  BY <1>1, LiveNumbers DEF Found, Indexed
<1>4. End \in Nat /\ count \in Nat
  BY EndFacts, NeedFacts DEF Types, Claims
<1>5. ASSUME NEW j \in 0..(count - 1) PROVE Target(j, chain) = <<value[e], o>> <=> End + j = x
  <2>1. PICK y \in Int : y = End + j
    BY <1>4
  <2>2. PICK p : p = Num(End + j)
    OBVIOUS
  <2>3. PICK f : f = EntryFor(current, p)
    OBVIOUS
  <2>4. /\ p \in Int /\ f \in Entries /\ number[f] = p /\ value[f] # Null
        /\ Target(j, chain) = <<value[f], (End + j) % BLOCK_SIZE>>
    BY <2>2, <2>3, TargetIs
  <2>5. y = From(p) + (y % BLOCK_SIZE) /\ y % BLOCK_SIZE \in Offsets
    BY <2>1, <2>2, NumFacts
  <2>6. ASSUME Target(j, chain) = <<value[e], o>> PROVE y = x
    <3>1. value[f] = value[e] /\ y % BLOCK_SIZE = o
      BY <2>1, <2>4, <2>6
    <3>2. f = e
      BY <3>1, <2>4 DEF Found, Located, Distinct
    <3> QED BY <3>1, <3>2, <2>4, <2>5, <1>1, <1>2
  <2>7. ASSUME y = x PROVE Target(j, chain) = <<value[e], o>>
    <3>1. p = q
      BY <2>1, <2>2, <2>7, <1>2
    <3>2. f = e
      BY <3>1, <2>3, <1>3
    <3> QED BY <3>2, <2>1, <2>4, <2>7, <1>2
  <2> QED BY <2>1, <2>6, <2>7
<1> QED BY <1>2, <1>5

\* An enqueue's elements are where they will be looked for.
LEMMA ConstructStep ==
  ASSUME Types, Types', Claims, Found, Contents, Next, HistNext, Publish \/ AppendToTail
  PROVE  Contents'
<1>1. PICK count \in Counts :
        /\ Construct(count, producer.chain) /\ Needs(count) = Len(producer.chain) /\ producer.undone = 0
        /\ sent' = sent + count /\ value' = value
  BY ConstructIs
<1>2. PICK chain : chain = producer.chain
  OBVIOUS
<1>3. Construct(count, chain) /\ Needs(count) = Len(chain) /\ TailFound
  BY <1>1, <1>2 DEF Contents
<1>4. /\ End \in Nat /\ head \in Nat /\ head <= End /\ count \in Nat \ {0} /\ sent \in Nat
      /\ Start \in Nat /\ End = Start + sent /\ End' = End + count /\ TailNumber' = TailNumber + Needs(count)
      /\ TailNumber \in Int /\ Needs(count) \in Nat
  <2>1. count \in Nat \ {0} /\ Needs(count) \in Nat
    BY NeedFacts DEF Claims
  <2>2. End' = End + count /\ TailNumber' = TailNumber + Needs(count)
    BY <1>1, TailMoves
  <2>3. End \in Nat /\ head \in Nat /\ head <= End /\ sent \in Nat /\ TailNumber \in Int
    BY ClaimsFacts, EndFacts DEF Types
  <2> QED BY <2>1, <2>2, <2>3, SizeFacts DEF End
<1>5. \A x \in Int : Unmoved(x)' <=> Unmoved(x)
  <2>1. \A c \in Consumers, x \in Int : ~MovesOut(c, x)
    BY <1>1, <1>4 DEF MovesOut, Fetch, MoveOut
  <2> QED BY <2>1, UnmovedStep, ZenonT(30)
<1>6. \A e \in Entries : value[e] # Null => number'[e] = number[e]
  BY NumberFrame
<1>7. Filled'
  <2> SUFFICES ASSUME NEW e \in Entries, NEW o \in Offsets, value'[e] # Null
               PROVE  elems'[value'[e]][o] = ElementAt(From(number[e]) + o)'
    BY DEF Filled
  <2>1. PICK b : b = value[e]
    OBVIOUS
  <2>2. b \in Blocks /\ value[e] # Null /\ value'[e] = b /\ number'[e] = number[e]
    BY <2>1, <1>1, <1>6, EntryFacts
  <2>3. PICK x : x = From(number[e]) + o
    OBVIOUS
  <2>4. x \in Int /\ \A j \in 0..(count - 1) : Target(j, chain) = <<b, o>> <=> End + j = x
    BY <2>1, <2>2, <2>3, <1>1, <1>2, <1>3, FillsWhere
  <2>5. elems'[b][o] = IF \E j \in 0..(count - 1) : Target(j, chain) = <<b, o>>
                         THEN sent + 1 + (CHOOSE j \in 0..(count - 1) : Target(j, chain) = <<b, o>>)
                         ELSE elems[b][o]
    BY <2>2, <1>3, ConstructedIs
  <2>6. elems[b][o] = ElementAt(x)
    BY <2>1, <2>2, <2>3 DEF Contents, Filled
  <2>7. ElementAt(x)' = IF x < End + count /\ Unmoved(x) THEN x - Start + 1 ELSE Null
    BY <2>4, <1>4, <1>5 DEF ElementAt
  <2>8. CASE End <= x /\ x < End + count
    <3>1. x - End \in 0..(count - 1) /\ End + (x - End) = x
      BY <2>4, <2>8, <1>4
    <3>2. Target(x - End, chain) = <<b, o>>
      BY <3>1, <2>4
    <3>3. PICK j \in 0..(count - 1) : j = (CHOOSE i \in 0..(count - 1) : Target(i, chain) = <<b, o>>)
                                      /\ Target(j, chain) = <<b, o>>
      BY <3>1, <3>2
    <3>4. j = x - End
      BY <3>3, <2>4, <1>4
    <3>5. elems'[b][o] = sent + 1 + j
      BY <3>3, <2>5
    <3>6. Unmoved(x)
      BY <2>4, <2>8, <1>4 DEF Unmoved
    <3>7. sent + 1 + j = x - Start + 1
      BY <3>4, <2>4, <1>4
    <3> QED BY <3>5, <3>6, <3>7, <2>2, <2>3, <2>7, <2>8
  <2>9. CASE ~(End <= x /\ x < End + count)
    <3>1. ~\E j \in 0..(count - 1) : Target(j, chain) = <<b, o>>
      BY <2>4, <2>9, <1>4
    <3>2. elems'[b][o] = ElementAt(x)
      BY <3>1, <2>5, <2>6
    <3>3. x < End + count <=> x < End
      BY <2>4, <2>9, <1>4
    <3> QED BY <3>2, <3>3, <2>2, <2>3, <2>7 DEF ElementAt
  <2> QED BY <2>8, <2>9
<1>8. Vacant'
  <2> SUFFICES ASSUME NEW b \in Blocks, NEW o \in Offsets, ~InEntry(b)'
               PROVE  elems'[b][o] = Null
    BY DEF Vacant
  <2>1. ~InEntry(b)
    BY <1>1 DEF InEntry
  <2>2. ASSUME NEW j \in 0..(count - 1) PROVE Target(j, chain) # <<b, o>>
    <3>1. PICK q : q = Num(End + j)
      OBVIOUS
    <3>2. PICK e : e = EntryFor(current, q)
      OBVIOUS
    <3>3. e \in Entries /\ Target(j, chain) = <<value[e], (End + j) % BLOCK_SIZE>>
      BY <3>1, <3>2, <1>1, <1>2, <1>3, TargetIs
    <3> QED BY <3>3, <2>1 DEF InEntry
  <2>3. elems'[b][o] = elems[b][o]
    BY <2>2, <1>3, ConstructedIs
  <2> QED BY <2>1, <2>3 DEF Contents, Vacant
<1>9. TailFound'
  <2> SUFFICES ASSUME NEW e \in Entries, value'[e] # Null, number'[e] = TailNumber'
               PROVE  value'[e] = tailBlock'
    BY DEF TailFound
  <2>1. value[e] # Null /\ value'[e] = value[e] /\ number[e] = TailNumber + Len(chain)
    BY <1>1, <1>3, <1>4, <1>6
  <2>2. tailBlock' = IF chain = <<>> THEN tailBlock ELSE chain[Len(chain)]
    BY <1>3 DEF Construct
  <2>3. chain \in Seq(Blocks) /\ Len(chain) \in Nat
    BY <1>2, NewestFacts
  <2>4. CASE chain = <<>>
    <3>1. number[e] = TailNumber
      BY <2>1, <2>4, <1>4
    <3> QED BY <3>1, <2>1, <2>2, <2>4, <1>3 DEF TailFound
  <2>5. CASE chain # <<>>
    <3>1. Len(chain) \in 1..Len(chain) /\ Len(chain) > producer.undone
      BY <2>3, <2>5, <1>1
    <3>2. EntryFor(current, TailNumber + Len(chain)) = e
      BY <2>1, LiveNumbers DEF Found, Indexed
    <3>3. value[e] = chain[Len(chain)]
      BY <3>1, <3>2, <1>2 DEF Found, Indexed, Chained
    <3> QED BY <3>3, <2>1, <2>2, <2>5
  <2> QED BY <2>4, <2>5
<1> QED BY <1>7, <1>8, <1>9 DEF Contents

\* The block that is taken from, and what is left of it.
LEMMA FetchIs ==
  ASSUME Types, Claims, Found, HistNext, NEW c \in Consumers, Fetch(c),
         NEW q, q = Num(place[c]), NEW e, e = EntryFor(current, q)
  PROVE  /\ q \in Int /\ e \in Entries /\ number[e] = q /\ value[e] # Null
         /\ \A b \in Blocks, o \in Offsets :
              elems'[b][o] = IF b = value[e] /\ MovesOut(c, From(q) + o) THEN Null ELSE elems[b][o]
         /\ \A x \in Int : MovesOut(c, x) => Num(x) = q
<1>1. /\ At(c, "fetch") /\ place'[c] = place[c] + call'[c].k /\ call'[c].k \in 1..BLOCK_SIZE
      /\ Num(place'[c] - 1) = q
  BY FetchStep DEF Found
<1>2. place[c] \in Int /\ q \in Int /\ BLOCK_SIZE \in Nat
  BY HeldNext, CallFacts, NumFacts, SizeFacts
<1>3. PICK h \in 1..current : h = call[c].header
  BY <1>1 DEF Types, CallTypes, At
<1>4. Held(c, q)
  BY <1>1, HeldNext, ZenonT(30) DEF Found, At
<1>5. EntryOf(c) = EntryFor(h, q)
  BY <1>1, <1>3 DEF EntryOf, EntryFor, Found, Looking, At
<1>6. EntryOf(c) = e /\ Standing(q) /\ e \in Entries
  BY <1>1, <1>2, <1>3, <1>4, <1>5, HeldStands DEF At
<1>7. number[e] = q /\ value[e] # Null
  BY <1>6 DEF Standing
<1>8. PICK f \in Offsets : f = call[c].at % BLOCK_SIZE /\ place[c] = From(q) + f
  <2>1. Taking(c)
    BY <1>1 DEF Taking, At
  <2>2. call[c].at = place[c] % W
    BY <2>1 DEF Claims, Phase
  <2>3. call[c].at % BLOCK_SIZE = place[c] % BLOCK_SIZE
    BY <2>2, <1>2, WrappedBase
  <2> QED BY <2>3, <1>2, NumFacts
<1>9. PICK k \in 1..BLOCK_SIZE : k = call'[c].k
  BY <1>1
<1>10. elems' = [elems EXCEPT ![value[e]] = [o \in Offsets |-> IF o \in f..(f + k - 1) THEN Null ELSE elems[value[e]][o]]]
  <2> DEFINE m == Lesser(call[c].n, BLOCK_SIZE - (call[c].at % BLOCK_SIZE))
  <2>1. call' = [call EXCEPT ![c].block = value[e], ![c].k = m, ![c].n = @ - m,
                             ![c].at = Plus(@, m), ![c].pc = "empty"]
        /\ elems' = [elems EXCEPT ![value[e]] = [o \in Offsets |->
                       IF o \in f..(f + m - 1) THEN Null ELSE @[o]]]
    BY <1>6, <1>8, ZenonT(30) DEF Fetch, MoveOut
  <2>2. call \in [Consumers -> CallSet] /\ call[c] \in CallSet
    BY DEF Types, CallTypes
  <2> HIDE DEF m
  <2>3. m = k
    BY <2>1, <2>2, <1>9 DEF CallSet
  <2> QED BY <2>1, <2>3, ZenonT(30)
<1>11. ASSUME NEW b \in Blocks, NEW o \in Offsets
       PROVE  elems'[b][o] = IF b = value[e] /\ MovesOut(c, From(q) + o) THEN Null ELSE elems[b][o]
  <2>1. From(q) \in Int /\ o \in Int /\ f \in Int /\ k \in Int
    BY <1>2, FromFacts, SizeFacts DEF Offsets
  <2>2. o \in f..(f + k - 1) <=> place[c] <= From(q) + o /\ From(q) + o < place'[c]
    BY <2>1, <1>1, <1>8, <1>9
  <2>3. MovesOut(c, From(q) + o) <=> o \in f..(f + k - 1)
    BY <2>2 DEF MovesOut
  <2>4. elems \in [Blocks -> [Offsets -> Values]]
    BY DEF Types, StoreTypes
  <2> QED BY <2>3, <2>4, <1>10
<1>12. ASSUME NEW x \in Int, MovesOut(c, x) PROVE Num(x) = q
  <2>1. place[c] <= x /\ x <= place'[c] - 1 /\ place'[c] - 1 \in Int
    BY <1>1, <1>2, <1>12 DEF MovesOut
  <2>2. From(q) <= place[c] /\ place'[c] - 1 < From(q + 1) /\ From(q) \in Int /\ From(q + 1) \in Int
    <3>1. PICK y \in Int : y = place'[c] - 1
      BY <2>1
    <3>2. From(q) <= place[c] /\ y < From(q) + BLOCK_SIZE /\ From(q + 1) = From(q) + BLOCK_SIZE
          /\ From(q) \in Int
      BY <3>1, <1>1, <1>2, NumFacts, FromFacts
    <3> QED BY <3>1, <3>2, <1>2
  <2>3. From(q) <= x /\ x < From(q + 1)
    BY <2>1, <2>2, <1>2
  <2> QED BY <2>3, <1>2, BlockOf
<1> QED BY <1>2, <1>6, <1>7, <1>11, <1>12

\* Moving elements out leaves the others where they are.
LEMMA FetchContents ==
  ASSUME Types, Types', Claims, Found, Contents, Next, HistNext, NEW c \in Consumers, Fetch(c)
  PROVE  Contents'
<1>1. PICK q : q = Num(place[c])
  OBVIOUS
<1>2. PICK e : e = EntryFor(current, q)
  OBVIOUS
<1>3. /\ q \in Int /\ e \in Entries /\ number[e] = q /\ value[e] # Null
      /\ \A b \in Blocks, o \in Offsets :
           elems'[b][o] = IF b = value[e] /\ MovesOut(c, From(q) + o) THEN Null ELSE elems[b][o]
      /\ \A x \in Int : MovesOut(c, x) => Num(x) = q
  BY <1>1, <1>2, FetchIs, SMTT(40)
<1>4. value' = value /\ sent' = sent /\ tailBlock' = tailBlock
  BY DEF Fetch, MoveOut, blockIndex
<1>5. End' = End /\ TailNumber' = TailNumber
  BY <1>4, EndSame, TailSame
<1>6. \A f \in Entries : value[f] # Null => number'[f] = number[f]
  BY NumberFrame
<1>7. ASSUME NEW d \in Consumers, NEW x, MovesOut(d, x) PROVE d = c
  <2>1. ~Same(c) /\ ~Same(d)
    BY <1>7, FetchStep DEF MovesOut, Found, Same, At
  <2> QED BY <2>1, Movers
<1>8. ASSUME NEW x \in Int
      PROVE  ElementAt(x)' = IF MovesOut(c, x) THEN Null ELSE ElementAt(x)
  <2>1. Unmoved(x)' <=> Unmoved(x) /\ ~MovesOut(c, x)
    BY <1>7, UnmovedStep
  <2> QED BY <2>1, <1>5 DEF ElementAt
<1>9. Filled'
  <2> SUFFICES ASSUME NEW f \in Entries, NEW o \in Offsets, value'[f] # Null
               PROVE  elems'[value'[f]][o] = ElementAt(From(number[f]) + o)'
    BY DEF Filled
  <2>1. PICK p \in Int : p = number[f]
    BY EntryFacts
  <2>2. value'[f] = value[f] /\ value[f] # Null /\ value[f] \in Blocks /\ number'[f] = p
    BY <2>1, <1>4, <1>6, EntryFacts
  <2>3. PICK x \in Int : x = From(p) + o
    <3>1. From(p) \in Int /\ o \in Int
      BY FromFacts, SizeFacts DEF Offsets
    <3> QED BY <3>1
  <2>4. elems[value[f]][o] = ElementAt(x) /\ Num(x) = p
    <3>1. Num(From(p) + o) = p
      BY NumFacts
    <3> QED BY <3>1, <2>1, <2>2, <2>3 DEF Contents, Filled
  <2>5. CASE p = q
    <3>1. e = f
      BY <2>1, <2>2, <2>5, <1>2, LiveNumbers DEF Found, Indexed
    <3> QED BY <3>1, <2>2, <2>3, <2>4, <2>5, <1>3, <1>8
  <2>6. CASE p # q
    <3>1. ~MovesOut(c, x)
      BY <2>4, <2>6, <1>3
    <3>2. value[f] # value[e]
      BY <2>1, <2>2, <2>6, <1>3 DEF Found, Located, Distinct
    <3> QED BY <3>1, <3>2, <2>2, <2>3, <2>4, <1>3, <1>8
  <2> QED BY <2>5, <2>6
<1>10. Vacant'
  <2> SUFFICES ASSUME NEW b \in Blocks, NEW o \in Offsets, ~InEntry(b)'
               PROVE  elems'[b][o] = Null
    BY DEF Vacant
  <2>1. ~InEntry(b)
    BY <1>4 DEF InEntry
  <2>2. b # value[e] /\ elems[b][o] = Null
    BY <2>1, <1>3 DEF InEntry, Contents, Vacant
  <2> QED BY <2>2, <1>3
<1>11. TailFound'
  BY <1>4, <1>5, <1>6 DEF Contents, TailFound
<1> QED BY <1>9, <1>10, <1>11 DEF Contents

\* Places that no element has come to yet.
LEMMA Beyond ==
  ASSUME Types, NEW q \in Int, q > TailNumber, NEW o \in Offsets
  PROVE  ElementAt(From(q) + o) = Null
<1>1. PICK t \in Int : t = TailNumber /\ End <= From(t + 1) /\ End \in Nat
  BY EndFacts DEF Types
<1>2. t + 1 <= q /\ t + 1 \in Int
  BY <1>1
<1>3. From(t + 1) <= From(q) /\ From(t + 1) \in Int /\ From(q) \in Int
  BY <1>2, FromFacts
<1>4. o \in Nat
  BY SizeFacts DEF Offsets
<1>5. ~(From(q) + o < End)
  BY <1>1, <1>3, <1>4
<1> QED BY <1>5 DEF ElementAt

\* Places whose elements have all been counted.
LEMMA Counting ==
  ASSUME Types, Claims, Found, NEW q \in Int, Counted(q) = Offsets, NEW o \in Offsets
  PROVE  ElementAt(From(q) + o) = Null
<1>1. PICK x \in Int : x = From(q) + o
  BY CountedIs
<1>2. x < head /\ \A c \in Consumers : ~In(c, x)
  BY <1>1, CountedIs
<1>3. ASSUME NEW c \in Consumers PROVE ~Moving(c, x)
  <2>1. place[c] \in Nat /\ call[c].k \in Nat
    BY CallFacts
  <2>2. Low(c) <= place[c] /\ Low(c) \in Int
    BY <2>1 DEF Low
  <2>3. Moving(c, x) => Low(c) <= x
    BY <2>1, <2>2 DEF Moving
  <2> QED BY <2>3, <1>2 DEF Moving, In
<1>4. head \in Nat
  BY ClaimsFacts
<1> QED BY <1>1, <1>2, <1>3, <1>4 DEF ElementAt, Unmoved

\* A block leaves the index when there is nothing in it.
LEMMA LeavingContents ==
  ASSUME Types, Types', Found, Contents, NEW e \in Entries, NEW q, q = number[e],
         value[e] # Null, value' = [value EXCEPT ![e] = Null],
         \A o \in Offsets : ElementAt(From(q) + o) = Null,
         elems' = elems, tailBlock' = tailBlock, TailNumber' = TailNumber,
         \A f \in Entries : value[f] # Null => number'[f] = number[f],
         \A x \in Int : ElementAt(x)' = ElementAt(x)
  PROVE  Contents'
<1>1. ASSUME NEW f \in Entries, value'[f] # Null
      PROVE  value'[f] = value[f] /\ number'[f] = number[f] /\ number[f] \in Int
  BY <1>1, EntryFacts
<1>2. Filled'
  <2> SUFFICES ASSUME NEW f \in Entries, NEW o \in Offsets, value'[f] # Null
               PROVE  elems'[value'[f]][o] = ElementAt(From(number[f]) + o)'
    BY DEF Filled
  <2>1. PICK p \in Int : p = number[f]
    BY <1>1
  <2>2. PICK x \in Int : x = From(p) + o
    BY CountedIs
  <2>3. elems[value[f]][o] = ElementAt(x)
    BY <2>1, <2>2, <1>1 DEF Contents, Filled
  <2>4. number'[f] = p /\ value'[f] = value[f]
    BY <2>1, <1>1
  <2> QED BY <2>2, <2>3, <2>4
<1>3. Vacant'
  <2> SUFFICES ASSUME NEW b \in Blocks, NEW o \in Offsets, ~InEntry(b)'
               PROVE  elems'[b][o] = Null
    BY DEF Vacant
  <2>1. CASE InEntry(b)
    <3>1. PICK f \in Entries : value[f] = b
      BY <2>1 DEF InEntry
    <3>2. f = e
      BY <3>1, EntryFacts DEF InEntry
    <3>3. elems[b][o] = ElementAt(From(q) + o)
      BY <3>1, <3>2 DEF Contents, Filled
    <3> QED BY <3>3
  <2>2. CASE ~InEntry(b)
    BY <2>2 DEF Contents, Vacant
  <2> QED BY <2>1, <2>2
<1>4. TailFound'
  BY <1>1 DEF Contents, TailFound
<1> QED BY <1>2, <1>3, <1>4 DEF Contents

\* A new block has nothing in it.
LEMMA EnteringContents ==
  ASSUME Types, Types', Claims, Found, Contents, Next, HistNext, RequisitionBlock
  PROVE  Contents'
<1>1. PICK b \in free : EnterBlock(b)
  BY DEF RequisitionBlock
<1>2. PICK q : q = TailNumber + Len(producer.chain) + 1
  OBVIOUS
<1>3. PICK e : e = EntryFor(current, q)
  OBVIOUS
<1>4. UNCHANGED <<sent, headers, elems, tailBlock>> /\ Producing("requisition") /\ \A c \in Consumers : ~Fetch(c)
  <2>1. UNCHANGED <<sent, headers, elems, tailBlock, call>> /\ Producing("requisition")
    BY DEF RequisitionBlock
  <2>2. \A c \in Consumers : Fetch(c) => ~Same(c)
    BY FetchStep DEF Found, Same, At
  <2>3. \A c \in Consumers : Fetch(c) => call'[c].pc = "empty" /\ call[c].pc = "fetch"
    BY FetchStep DEF Found, At
  <2> QED BY <2>1, <2>3
<1>5. /\ q \in Int /\ e \in Entries /\ number[e] = q /\ value[e] = Null
      /\ value' = [value EXCEPT ![e] = b] /\ b \in Blocks /\ number' = number /\ TailNumber' = TailNumber
  BY <1>1, <1>2, <1>3, <1>4, EnterFacts DEF Found
<1>6. q > TailNumber
  <2>1. Len(producer.chain) \in Nat /\ TailNumber \in Int
    BY NewestFacts, EndFacts DEF Types
  <2> QED BY <2>1, <1>2
<1>7. \A x \in Int : ElementAt(x)' = ElementAt(x)
  BY <1>4, ElementSame DEF MovesOut
<1>8. ~InEntry(b)
  BY <1>5 DEF Found, Located, Apart
<1>9. Filled'
  <2> SUFFICES ASSUME NEW f \in Entries, NEW o \in Offsets, value'[f] # Null
               PROVE  elems'[value'[f]][o] = ElementAt(From(number[f]) + o)'
    BY DEF Filled
  <2>1. PICK p \in Int : p = number[f]
    BY EntryFacts
  <2>2. PICK x \in Int : x = From(p) + o
    BY CountedIs
  <2>3. elems[value'[f]][o] = ElementAt(x)
    <3>1. CASE f = e
      <4>1. value'[f] = b /\ p = q
        BY <3>1, <2>1, <1>5, EntryFacts
      <4>2. elems[b][o] = Null
        BY <1>5, <1>8 DEF Contents, Vacant
      <4>3. ElementAt(x) = Null
        BY <4>1, <2>2, <1>6, Beyond
      <4> QED BY <4>1, <4>2, <4>3
    <3>2. CASE f # e
      <4>1. value'[f] = value[f] /\ value[f] # Null
        BY <3>2, <1>5, EntryFacts
      <4> QED BY <4>1, <2>1, <2>2 DEF Contents, Filled
    <3> QED BY <3>1, <3>2
  <2>4. number'[f] = p /\ elems' = elems
    BY <2>1, <1>4, <1>5
  <2> QED BY <2>2, <2>3, <2>4, <1>7
<1>10. Vacant'
  <2> SUFFICES ASSUME NEW d \in Blocks, NEW o \in Offsets, ~InEntry(d)'
               PROVE  elems'[d][o] = Null
    BY DEF Vacant
  <2>1. ASSUME NEW f \in Entries, value[f] = d PROVE FALSE
    <3>1. f # e
      BY <2>1, <1>5, EntryFacts
    <3>2. value'[f] = d
      BY <3>1, <2>1, <1>5, EntryFacts
    <3> QED BY <3>2 DEF InEntry
  <2>2. ~InEntry(d)
    BY <2>1 DEF InEntry
  <2> QED BY <2>2, <1>4 DEF Contents, Vacant
<1>11. TailFound'
  <2> SUFFICES ASSUME NEW f \in Entries, value'[f] # Null, number'[f] = TailNumber'
               PROVE  value'[f] = tailBlock'
    BY DEF TailFound
  <2>1. number[f] = TailNumber /\ f # e
    <3>1. PICK t \in Int : t = TailNumber
      BY EndFacts DEF Types
    <3> QED BY <3>1, <1>5, <1>6
  <2>2. value'[f] = value[f]
    BY <2>1, <1>5, EntryFacts
  <2> QED BY <2>1, <2>2, <1>4 DEF Contents, TailFound
<1> QED BY <1>9, <1>10, <1>11 DEF Contents

\* The steps that neither construct nor destroy elements.
LEMMA OtherContents ==
  ASSUME Types, Types', Claims, Found, Contents, Next, HistNext,
         elems' = elems, sent' = sent, tailBlock' = tailBlock, \A c \in Consumers : ~Fetch(c)
  PROVE  Contents'
<1>1. TailNumber' = TailNumber
  BY TailSame
<1>2. \A x \in Int : ElementAt(x)' = ElementAt(x)
  BY ElementSame DEF MovesOut
<1>3. \A f \in Entries : value[f] # Null => number'[f] = number[f]
  BY NumberFrame
<1>4. CASE value' = value
  <2>1. Filled'
    <3> SUFFICES ASSUME NEW f \in Entries, NEW o \in Offsets, value'[f] # Null
                 PROVE  elems'[value'[f]][o] = ElementAt(From(number[f]) + o)'
      BY DEF Filled
    <3>1. PICK p \in Int : p = number[f]
      BY EntryFacts
    <3>2. PICK x \in Int : x = From(p) + o
      BY CountedIs
    <3>3. elems[value[f]][o] = ElementAt(x)
      BY <3>1, <3>2, <1>4 DEF Contents, Filled
    <3>4. number'[f] = p
      BY <3>1, <1>3, <1>4
    <3> QED BY <3>2, <3>3, <3>4, <1>2, <1>4
  <2>2. Vacant'
    BY <1>4 DEF Contents, Vacant, InEntry
  <2>3. TailFound'
    BY <1>1, <1>3, <1>4 DEF Contents, TailFound
  <2> QED BY <2>1, <2>2, <2>3 DEF Contents
<1>5. ASSUME NEW c \in Consumers, ClearEntry(c) PROVE Contents'
  <2>1. PICK q : q = Num(place[c] - 1)
    OBVIOUS
  <2>2. PICK e : e = EntryFor(current, q)
    OBVIOUS
  <2>3. /\ At(c, "clear") /\ q \in Int /\ e \in Entries /\ number[e] = q /\ value[e] # Null
        /\ value' = [value EXCEPT ![e] = Null]
    BY <2>1, <2>2, <1>5, ClearIs
  <2>4. Counted(q) = Offsets
    BY <2>1, <2>3 DEF Found, Looking, At
  <2>5. \A o \in Offsets : ElementAt(From(q) + o) = Null
    BY <2>3, <2>4, Counting
  <2> QED BY <2>3, <2>5, <1>1, <1>2, <1>3, LeavingContents
<1>6. CASE UndoBlock
  <2>1. PICK q : q = TailNumber + producer.undone + 1
    OBVIOUS
  <2>2. PICK e : e = EntryFor(current, q)
    OBVIOUS
  <2>3. /\ q \in Int /\ q > TailNumber /\ e \in Entries /\ number[e] = q
        /\ value[e] = producer.chain[producer.undone + 1] /\ producer.undone + 1 \in 1..Len(producer.chain)
        /\ value' = [value EXCEPT ![e] = Null]
    BY <2>1, <2>2, <1>6, UndoIs
  <2>4. value[e] # Null
    <3>1. producer.chain \in Seq(Blocks)
      BY NewestFacts
    <3> QED BY <3>1, <2>3, EntryFacts
  <2>5. \A o \in Offsets : ElementAt(From(q) + o) = Null
    BY <2>3, Beyond
  <2> QED BY <2>3, <2>4, <2>5, <1>1, <1>2, <1>3, LeavingContents
<1>7. CASE RequisitionBlock
  BY <1>7, EnteringContents
<1> QED BY <1>4, <1>5, <1>6, <1>7, ValueStep

\* A step keeps what the blocks hold.
LEMMA ContentsStep ==
  ASSUME Types, Types', Claims, Found, Contents, Next, HistNext
  PROVE  Contents'
<1>1. CASE Publish \/ AppendToTail
  BY <1>1, ConstructStep
<1>2. CASE \E c \in Consumers : Fetch(c)
  BY <1>2, FetchContents
<1>3. CASE ~(Publish \/ AppendToTail) /\ ~\E c \in Consumers : Fetch(c)
  BY <1>3, ElementSteps, OtherContents
<1> QED BY <1>1, <1>2, <1>3

\* So does a step that changes nothing.
LEMMA ContentsSame ==
  ASSUME Types, Contents, UNCHANGED <<vars, hist>>
  PROVE  Contents'
<1>1. UNCHANGED <<elems, sent, tailBlock, value, number, head, call, place>>
  BY DEF vars, hist, base, stored, blockIndex
<1>2. TailNumber' = TailNumber /\ End' = End
  BY <1>1, TailSame
<1>3. \A x : ElementAt(x)' = ElementAt(x)
  BY <1>1, <1>2 DEF ElementAt, Unmoved, Moving, Taking, High
<1>4. Filled'
  BY <1>1, <1>3 DEF Contents, Filled
<1>5. Vacant' /\ TailFound'
  BY <1>1, <1>2 DEF Contents, Vacant, TailFound, InEntry
<1> QED BY <1>4, <1>5 DEF Contents

\* At first the index and the blocks are empty.
LEMMA InitContents == HInit => Contents
<1> SUFFICES ASSUME HInit PROVE Contents
  OBVIOUS
<1>1. /\ \A e \in Entries : value[e] = Null
      /\ \A b \in Blocks, o \in Offsets : elems[b][o] = Null
  BY DEF HInit, Init, InitBase
<1> QED BY <1>1 DEF Contents, Filled, Vacant, TailFound

\* Every element lies where it will be looked for until it is moved out, once,
\* by the call that took it, and no block holds anything else.
THEOREM ContentsHold == HSpec /\ []Timely => [](Types /\ Claims /\ Found /\ Contents)
<1>1. HInit => Types /\ Claims /\ Found /\ Contents
  BY InitTypes, InitClaims, InitFound, InitContents
<1>2. Types /\ Claims /\ Found /\ Contents /\ Timely /\ [HNext]_<<vars, hist>>
        => Types' /\ Claims' /\ Found' /\ Contents'
  BY HoldsStep, ContentsStep, ContentsSame DEF HNext
<1> QED BY <1>1, <1>2, PTL DEF HSpec

-------------------------------------------------------------------------------
(* The sub-queue is a channel *)

\* n numbers, from a + 1 on.
Run(a, n) == [j \in 1..n |-> a + j]

\* The length and the members of a run of numbers.
LEMMA RunFacts ==
  ASSUME NEW a \in Int, NEW n \in Nat
  PROVE  /\ Run(a, n) \in Seq(Int) /\ Len(Run(a, n)) = n
         /\ \A j \in 1..n : Run(a, n)[j] = a + j
         /\ n = 0 => Run(a, n) = <<>>
<1>1. Run(a, n) \in [1..n -> Int]
  BY DEF Run
<1>2. Run(a, n) \in Seq(Int)
  BY <1>1
<1>3. Len(Run(a, n)) = n
  BY <1>1, <1>2, LenProperties
<1>4. n = 0 => Run(a, n) = <<>>
  BY <1>2, <1>3, EmptySeq
<1> QED BY <1>2, <1>3, <1>4 DEF Run

\* One run goes on where the other ends.
LEMMA RunJoin ==
  ASSUME NEW a \in Int, NEW b \in Int, NEW n \in Nat, NEW m \in Nat, b = a + n
  PROVE  Run(a, n) \o Run(b, m) = Run(a, n + m)
<1>0. PICK k \in Nat : k = n + m
  OBVIOUS
<1> DEFINE s == Run(a, n)
           t == Run(b, m)
           u == Run(a, k)
<1>1. /\ s \in Seq(Int) /\ Len(s) = n /\ \A j \in 1..n : s[j] = a + j
      /\ t \in Seq(Int) /\ Len(t) = m /\ \A j \in 1..m : t[j] = b + j
      /\ u \in Seq(Int) /\ Len(u) = k /\ \A j \in 1..k : u[j] = a + j
  BY RunFacts
<1> HIDE DEF s, t, u
<1>2. /\ s \o t \in Seq(Int) /\ Len(s \o t) = n + m
      /\ \A j \in 1..(n + m) : (s \o t)[j] = IF j <= n THEN s[j] ELSE t[j - n]
  <2>1. s \in Seq(Int) /\ t \in Seq(Int) /\ Len(s) = n /\ Len(t) = m
    BY <1>1
  <2> QED BY ONLY <2>1, ConcatProperties
<1>3. ASSUME NEW j \in 1..k PROVE (s \o t)[j] = u[j]
  <2>0. j \in Int /\ n \in Int /\ j \in 1..(n + m)
    BY <1>0
  <2>1. CASE j <= n
    <3>1. j \in 1..n
      BY <2>0, <2>1
    <3> QED BY <2>1, <2>0, <3>1, <1>1, <1>2
  <2>2. CASE ~(j <= n)
    <3>1. j - n \in 1..m /\ b + (j - n) = a + j
      BY <1>0, <2>0, <2>2
    <3> QED BY <2>0, <2>2, <3>1, <1>1, <1>2
  <2> QED BY <2>1, <2>2
<1>4. s \o t = u
  <2>1. PICK w : w = s \o t
    OBVIOUS
  <2>2. w \in Seq(Int) /\ u \in Seq(Int) /\ Len(w) = k /\ Len(u) = k
    BY <2>1, <1>0, <1>1, <1>2
  <2>3. \A j \in 1..k : w[j] = u[j]
    BY <2>1, <1>3
  <2>4. Len(w) = Len(u) /\ \A j \in 1..Len(w) : w[j] = u[j]
    BY <2>2, <2>3
  <2>5. w = u
    BY ONLY <2>2, <2>4, SeqEqual
  <2> QED BY <2>1, <2>5
<1> QED BY <1>0, <1>4 DEF s, t, u

\* The first k of a run, and the rest.
LEMMA RunCut ==
  ASSUME NEW a \in Int, NEW n \in Nat, NEW k \in 0..n
  PROVE  /\ SubSeq(Run(a, n), 1, k) = Run(a, k)
         /\ SubSeq(Run(a, n), k + 1, n) = Run(a + k, n - k)
<1> DEFINE s == Run(a, n)
<1>1. s \in Seq(Int) /\ Len(s) = n /\ \A j \in 1..n : s[j] = a + j
  BY RunFacts
<1> HIDE DEF s
<1>2. SubSeq(s, 1, k) = Run(a, k)
  <2> DEFINE f == SubSeq(s, 1, k)
             t == Run(a, k)
  <2>1. t \in Seq(Int) /\ Len(t) = k /\ \A j \in 1..k : t[j] = a + j
    BY RunFacts
  <2>2. \A j \in 1..k : s[j] \in Int
    BY <1>1
  <2>3. f \in Seq(Int) /\ Len(f) = (IF 1 <= k THEN k - 1 + 1 ELSE 0) /\ \A j \in 1..(k - 1 + 1) : f[j] = s[1 + j - 1]
    BY <2>2, SubSeqProperties
  <2> HIDE DEF f, t
  <2>4. Len(f) = k
    BY <2>3
  <2>5. \A j \in 1..k : f[j] = t[j]
    BY <2>1, <2>3, <1>1
  <2>6. f = t
    BY <2>1, <2>3, <2>4, <2>5, SeqEqual
  <2> QED BY <2>6 DEF f, t
<1>3. SubSeq(s, k + 1, n) = Run(a + k, n - k)
  <2> DEFINE f == SubSeq(s, k + 1, n)
             t == Run(a + k, n - k)
  <2>1. t \in Seq(Int) /\ Len(t) = n - k /\ \A j \in 1..(n - k) : t[j] = (a + k) + j
    <3>1. a + k \in Int /\ n - k \in Nat
      OBVIOUS
    <3> QED BY <3>1, RunFacts
  <2>2. \A j \in (k + 1)..n : s[j] \in Int
    BY <1>1
  <2>3. f \in Seq(Int) /\ Len(f) = (IF k + 1 <= n THEN n - (k + 1) + 1 ELSE 0)
        /\ \A j \in 1..(n - (k + 1) + 1) : f[j] = s[(k + 1) + j - 1]
    <3>1. k + 1 \in Int
      OBVIOUS
    <3> QED BY <2>2, <3>1, SubSeqProperties
  <2> HIDE DEF f, t
  <2>4. Len(f) = n - k
    BY <2>3
  <2>5. ASSUME NEW j \in 1..(n - k) PROVE f[j] = t[j]
    <3>1. j \in 1..(n - (k + 1) + 1) /\ (k + 1) + j - 1 = k + j /\ k + j \in 1..n /\ a + (k + j) = (a + k) + j
      OBVIOUS
    <3> QED BY <3>1, <2>1, <2>3, <1>1
  <2>6. f = t
    BY <2>1, <2>3, <2>4, <2>5, SeqEqual
  <2> QED BY <2>6 DEF f, t
<1> QED BY <1>2, <1>3 DEF s

\* The lookup from the tail leads to the block of an index, if it is stored.
LEMMA PlacedIs ==
  ASSUME Types, Claims, Found, NEW q \in Int, Standing(q), q <= Newest, NEW x \in Int, Num(x) = q
  PROVE  Placed(x % W) = EntryFor(current, q)
<1>1. PICK N \in Int : N = Newest
  BY NewestFacts
<1>r. Rows /\ Tailed /\ Numbered /\ Spread /\ Reached /\ current \in 1..current
  BY TailPlaces DEF Found, Indexed
<1>2. PICK f : f = EntryFor(current, N)
  OBVIOUS
<1>3. f \in Entries /\ headers[current].tail = Pos(current, N) /\ headers[current].index[headers[current].tail] = f
  BY <1>1, <1>2, <1>r, PosFacts DEF Tailed, EntryFor
<1>4. PICK p \in Int : p = number[f]
  BY <1>3, EntryFacts
<1>5. PICK e : e = EntryFor(current, q)
  OBVIOUS
<1>6. e \in Entries /\ number[e] = q /\ value[e] # Null /\ q \in Nat
  <2>1. e \in Entries /\ number[e] = q /\ value[e] # Null
    BY <1>5, <1>r, PosFacts DEF Standing
  <2> QED BY <2>1, <1>r, LiveNumbers
<1>7. N <= p
  <2>1. number[EntryFor(current, N)] >= N
    BY <1>1, <1>6, <1>r, ReachedAt
  <2> QED BY <2>1, <1>2, <1>4
<1>8. p < q + Size(current) /\ Size(current) \in Nat /\ Size(current) <= MaxIndexSize /\ MaxIndexSize \in Nat
  <2>1. Size(current) \in Nat /\ Size(current) <= MaxIndexSize /\ MaxIndexSize \in Nat
    BY <1>r, FirstFacts
  <2>2. number[f] < number[e] + Size(current)
    BY <1>3, <1>6, <1>r DEF Spread
  <2> QED BY <2>1, <2>2, <1>4, <1>6
<1>9. p = N /\ key[f] = From(N) % W
  <2>1. p # -1
    BY <1>1, <1>6, <1>7
  <2>2. EntryFor(current, p) = f /\ key[f] = From(p) % W
    BY <2>1, <1>3, <1>4, <1>r DEF Numbered
  <2>3. N < p => N + Size(current) <= p
    BY <2>2, <1>2, <1>r, PosApart
  <2>4. p = N
    BY <2>3, <1>1, <1>7, <1>8
  <2> QED BY <2>2, <2>4
<1>a. BlocksBetween(From(N) % W, x % W) = q - N
  <2>1. Num(From(N)) = N /\ From(N) \in Int
    <3>1. From(N) \in Int
      BY FromFacts
    <3>2. 0 \in Offsets
      BY SizeFacts DEF Offsets
    <3>3. Num(From(N) + 0) = N
      BY <3>2, NumFacts
    <3> QED BY <3>1, <3>3
  <2>2. -Half <= From(q - N) /\ From(q - N) < Half
    <3>1. From(MaxIndexSize) <= Half
      <4>1. MaxIndexSize * BLOCK_SIZE <= W \div 2
        BY IndexSizesFit
      <4> QED BY <4>1 DEF From, Half
    <3>2. Half \in Nat \ {0}
      BY SizeFacts
    <3>3. PICK a \in Int : a = q - N /\ a <= 0 /\ 0 - a < MaxIndexSize
      BY <1>1, <1>7, <1>8
    <3>4. From(a) <= From(0)
      BY <3>3, FromFacts
    <3>5. From(0 - a) < From(MaxIndexSize) /\ From(0 - a) = From(0) - From(a)
      <4>1. 0 - a \in Int /\ MaxIndexSize \in Int
        BY <3>3, <1>8
      <4>2. From(0 - a) < From(MaxIndexSize)
        BY <4>1, <3>3, FromFacts
      <4>3. From(0 - a) = From(0) - From(a)
        BY <3>3, FromFacts
      <4> QED BY <4>2, <4>3
    <3>6. From(0) = 0 /\ From(a) \in Int /\ From(MaxIndexSize) \in Int
      <4>1. MaxIndexSize \in Int
        BY <1>8
      <4> QED BY <4>1, <3>3, FromFacts
    <3> QED BY <3>1, <3>2, <3>3, <3>4, <3>5, <3>6
  <2>3. BlocksBetween(From(N) % W, x % W) = Num(x) - Num(From(N))
    <3>1. Num(x) - Num(From(N)) = q - N
      BY <2>1
    <3> QED BY <3>1, <2>1, <2>2, Between
  <2> QED BY <2>1, <2>3
<1>b. (Pos(current, N) + (q - N)) % Size(current) = Pos(current, N + (q - N))
  <2>1. q - N \in Int
    BY <1>1
  <2> QED BY <2>1, <1>r, PosFacts
<1>c. N + (q - N) = q
  BY <1>1
<1> QED BY <1>3, <1>9, <1>a, <1>b, <1>c DEF Placed, PlaceOf, Size, EntryFor

\* The block of an element that is still to be moved out is stored.
LEMMA UnmovedStands ==
  ASSUME Types, Claims, Found, NEW x \in Int, Unmoved(x), x < End
  PROVE  /\ Start <= x /\ Standing(Num(x)) /\ Num(x) \in Int /\ Num(x) <= TailNumber
<1>1. /\ From(Num(x)) <= x /\ x < From(Num(x) + 1) /\ Num(x) \in Int
      /\ head \in Int /\ Start \in Nat /\ Start <= head
  <2>1. From(Num(x)) <= x /\ x < From(Num(x)) + BLOCK_SIZE /\ Num(x) \in Int
    BY NumFacts
  <2>2. From(Num(x) + 1) = From(Num(x)) + BLOCK_SIZE
    BY <2>1, FromFacts
  <2> QED BY <2>1, <2>2, HistFacts, SizeFacts DEF Found, Intervals
<1>2. CASE \E c \in Consumers : Moving(c, x)
  <2>1. PICK c \in Consumers : Moving(c, x)
    BY <1>2
  <2>2. Taking(c) /\ place[c] <= x /\ x < High(c) /\ Start <= Low(c) /\ Low(c) <= place[c] /\ Low(c) \in Int /\ place[c] \in Int /\ High(c) \in Int
    <3>1. Taking(c) /\ place[c] <= x /\ x < High(c) /\ Start <= Low(c)
      BY <2>1 DEF Moving, Found, Intervals
    <3>2. place[c] \in Nat /\ call[c].k \in Nat /\ call[c].n \in Nat
      BY SizeFacts DEF Types, CallTypes, HistTypes, CallSet
    <3> QED BY <3>1, <3>2 DEF Low, High
  <2>3. Held(c, Num(x))
    <3>1. Low(c) < High(c) /\ From(Num(x)) < High(c) /\ Low(c) < From(Num(x) + 1)
      <4>1. From(Num(x)) \in Int /\ From(Num(x) + 1) \in Int
        BY <1>1, FromFacts
      <4> QED BY <1>1, <2>2, <4>1
    <3> QED BY <2>2, <3>1 DEF Held
  <2> QED BY <1>1, <2>2, <2>3, HeldStands
<1>3. CASE x >= head
  <2>1. Num(x) >= Num(Start)
    <3>1. From(Num(Start)) <= x /\ Num(Start) \in Int
      BY <1>1, <1>3, StartFacts
    <3> QED BY <3>1, NumIs
  <2>2. Num(x) <= TailNumber
    <3>1. x < From(TailNumber + 1) /\ TailNumber \in Int
      <4>1. End \in Nat /\ TailNumber \in Int /\ End <= From(TailNumber + 1)
        BY EndFacts DEF Types
      <4>2. From(TailNumber + 1) \in Int
        BY <4>1, FromFacts
      <4> QED BY <4>1, <4>2
    <3> QED BY <3>1, NumIs
  <2>3. ~Done(Num(x))
    <3>1. From(Num(x) + 1) \in Int
      BY <1>1, FromFacts
    <3> QED BY <1>1, <1>3, <3>1 DEF Done
  <2>4. Num(x) \in Num(Start)..TailNumber
    BY <1>1, <2>1, <2>2, StartFacts, EndFacts DEF Types
  <2>5. Standing(Num(x))
    BY <2>3, <2>4 DEF Found, Located, Present
  <2> QED BY <1>1, <1>3, <2>2, <2>5
<1> QED BY <1>2, <1>3 DEF Unmoved

\* What the destructor, or a call, finds at an index.
LEMMA StoredIs ==
  ASSUME Types, Claims, Found, Contents, NEW x \in Int, Unmoved(x), x < End
  PROVE  Stored(x % W) = x - Start + 1
<1>1. PICK q \in Int : q = Num(x)
  BY NumFacts
<1>2. Standing(q) /\ q <= TailNumber /\ TailNumber <= Newest /\ TailNumber \in Int /\ Newest \in Int
  BY <1>1, UnmovedStands, NewestFacts
<1>3. PICK e : e = EntryFor(current, q)
  OBVIOUS
<1>4. e \in Entries /\ number[e] = q /\ value[e] # Null /\ value[e] \in Blocks
  <2>1. current \in 1..current /\ Rows /\ Numbered
    BY TailPlaces DEF Found, Indexed
  <2>2. e \in Entries /\ number[e] = q /\ value[e] # Null
    BY <2>1, <1>2, <1>3, PosFacts DEF Standing
  <2> QED BY <2>1, <2>2, LiveNumbers
<1>5. Placed(x % W) = e
  BY <1>1, <1>2, <1>3, PlacedIs
<1>6. (x % W) % BLOCK_SIZE = x % BLOCK_SIZE /\ x % BLOCK_SIZE \in Offsets /\ x = From(q) + (x % BLOCK_SIZE)
  BY <1>1, WrappedBase, NumFacts
<1>7. elems[value[e]][x % BLOCK_SIZE] = ElementAt(From(number[e]) + (x % BLOCK_SIZE))
  BY <1>4, <1>6 DEF Contents, Filled
<1>8. ElementAt(x) = x - Start + 1
  BY DEF ElementAt
<1>9. elems[value[e]][x % BLOCK_SIZE] = x - Start + 1
  BY <1>4, <1>6, <1>7, <1>8
<1> QED BY <1>4, <1>5, <1>6, <1>9, EntryFacts DEF Stored

\* Elements that stand one after another, none of them moved out.
LEMMA StretchIs ==
  ASSUME Types, Claims, Found, Contents, NEW x \in Int, NEW n \in Nat, x + n <= End,
         \A j \in 1..n : Unmoved(x + (j - 1))
  PROVE  Stretch(x % W, n) = Run(x - Start, n)
<1>1. ASSUME NEW j \in 1..n PROVE Stored(Plus(x % W, j - 1)) = (x - Start) + j
  <2>1. PICK y \in Int : y = x + (j - 1)
    OBVIOUS
  <2>2. Unmoved(y) /\ y < End /\ (x - Start) + j = y - Start + 1
    <3>1. Unmoved(y)
      BY <2>1
    <3>2. End \in Nat /\ Start \in Nat
      BY HistFacts, SizeFacts
    <3> QED BY <2>1, <3>1, <3>2
  <2>3. Plus(x % W, j - 1) = y % W
    BY <2>1, Wrapped
  <2> QED BY <2>2, <2>3, StoredIs
<1> QED BY <1>1 DEF Stretch, Run

\* What c has taken from the channel: what it has moved out, and what it is
\* still to move out.
Taken(c) == out[c] \o (IF Taking(c) THEN Run(place[c] - Start, call[c].n) ELSE <<>>)

\* What the refinement mapping shows, in terms of the histories.
Mapped ==
  /\ head <= End
  /\ Stretch(headIndex, Minus(tailIndex, headIndex)) = Run(head - Start, End - head)
  /\ \A c \in Consumers :
       out[c] \o (IF Taking(c) THEN Stretch(call[c].at, call[c].n) ELSE <<>>) = Taken(c)

\* The elements that have been sent and not taken, and those that a call has
\* taken and not moved out, are where they are looked for.
LEMMA MappedIs ==
  ASSUME Types, Claims, Found, Contents
  PROVE  Mapped
<1>1. /\ head \in Nat /\ End \in Nat /\ head <= End /\ End - head < Half /\ Start \in Nat /\ W \in Nat \ {0}
      /\ Half \in Nat \ {0} /\ W = 2 * Half /\ End - head \in Nat /\ End - head < W
  <2>1. head \in Nat /\ End \in Nat /\ head <= End /\ End - head < Half
    BY ClaimsFacts
  <2>2. Half \in Nat \ {0} /\ W = 2 * Half /\ W \in Nat \ {0} /\ Start \in Nat
    BY SizeFacts
  <2> QED BY <2>1, <2>2
<1>2. Stretch(headIndex, Minus(tailIndex, headIndex)) = Run(head - Start, End - head)
  <2>1. Minus(tailIndex, headIndex) = End - head /\ headIndex = head % W
    <3>1. tailIndex = End % W /\ headIndex = head % W
      BY DEF Claims, Numbers
    <3>2. Minus(End % W, head % W) = (End - head) % W
      <4>1. head \in Int /\ End \in Int
        BY <1>1
      <4> QED BY <4>1, Wrapped
    <3>3. (End - head) % W = End - head
      BY <1>1, ModSmall
    <3> QED BY <3>1, <3>2, <3>3
  <2>2. PICK n \in Nat : n = End - head
    BY <1>1
  <2>3. \A j \in 1..n : Unmoved(head + (j - 1))
    BY <1>1 DEF Unmoved
  <2>4. head + n <= End /\ head \in Int
    BY <1>1, <2>2
  <2>5. Stretch(head % W, n) = Run(head - Start, n)
    BY <2>3, <2>4, StretchIs
  <2> QED BY <2>1, <2>2, <2>5
<1>3. ASSUME NEW c \in Consumers, Taking(c)
      PROVE  Stretch(call[c].at, call[c].n) = Run(place[c] - Start, call[c].n)
  <2>1. call[c].at = place[c] % W
    BY <1>3 DEF Claims, Phase
  <2>2. PICK n \in Nat : n = call[c].n
    BY CallFacts
  <2>3. place[c] \in Int /\ High(c) = place[c] + n /\ High(c) <= head
    BY <1>3, <2>2, CallFacts DEF High, Found, Intervals
  <2>4. \A j \in 1..n : Unmoved(place[c] + (j - 1))
    BY <1>3, <2>3 DEF Unmoved, Moving
  <2>5. place[c] + n <= End
    BY <1>1, <2>3
  <2>6. Stretch(place[c] % W, n) = Run(place[c] - Start, n)
    BY <2>3, <2>4, <2>5, StretchIs
  <2> QED BY <2>1, <2>2, <2>6
<1> QED BY <1>1, <1>2, <1>3 DEF Mapped, Taken

\* The elements that are moved out are those that were sent in these places.
LEMMA FetchPuts ==
  ASSUME Types, Claims, Found, Contents, HistNext, NEW c \in Consumers, Fetch(c), NEW k, k = call'[c].k
  PROVE  out'[c] = out[c] \o Run(place[c] - Start, k)
<1>1. PICK q \in Int : q = Num(place[c])
  BY HeldNext DEF Found
<1>2. PICK e : e = EntryFor(current, q)
  OBVIOUS
<1>3. e \in Entries /\ number[e] = q /\ value[e] # Null
  BY <1>1, <1>2, FetchIs
<1>4. /\ At(c, "fetch") /\ k \in 1..BLOCK_SIZE /\ call'[c].n = call[c].n - k /\ call'[c].n \in Nat
      /\ call'[c].block = value[EntryOf(c)] /\ value[EntryOf(c)] \in Blocks
      /\ Looking(c)
  BY FetchStep DEF Found
<1>5. place[c] \in Int /\ call[c].n \in Int /\ BLOCK_SIZE \in Nat /\ Start \in Nat /\ Taking(c)
  <2>1. Taking(c)
    BY <1>4 DEF Taking, At
  <2> QED BY <2>1, CallFacts, SizeFacts
<1>6. EntryOf(c) = e
  <2>1. PICK h \in 1..current : h = call[c].header
    BY <1>4 DEF Types, CallTypes, At
  <2>2. Held(c, q)
    BY <1>1, <1>4, HeldNext, ZenonT(30) DEF Found, At
  <2>3. EntryOf(c) = EntryFor(h, q)
    BY <1>1, <1>4, <2>1 DEF EntryOf, EntryFor, Looking, At
  <2> QED BY <1>2, <1>4, <2>1, <2>2, <2>3, HeldStands DEF At
<1>7. PICK f \in Offsets : f = call[c].at % BLOCK_SIZE /\ place[c] = From(q) + f
  <2>1. call[c].at = place[c] % W
    BY <1>5 DEF Claims, Phase
  <2>2. call[c].at % BLOCK_SIZE = place[c] % BLOCK_SIZE
    BY <2>1, <1>5, WrappedBase
  <2> QED BY <2>2, <1>1, <1>5, NumFacts
<1>8. PICK m : m = Lesser(call[c].n, BLOCK_SIZE - f)
  BY ZenonT(30)
<1>9. /\ call' = [call EXCEPT ![c].block = value[e], ![c].k = m, ![c].n = @ - m,
                              ![c].at = Plus(@, m), ![c].pc = "empty"]
      /\ out' = [out EXCEPT ![c] = @ \o [j \in 1..m |-> elems[value[e]][f + j - 1]]]
  BY <1>6, <1>7, <1>8, ZenonT(30) DEF Fetch, MoveOut
<1>10. m = k
  <2>1. call \in [Consumers -> CallSet] /\ call[c] \in CallSet
    BY DEF Types, CallTypes
  <2> QED BY <2>1, <1>9 DEF CallSet
<1>11. k <= BLOCK_SIZE - f /\ k <= call[c].n /\ f \in Int
  <2>1. f \in Int /\ call[c].n \in Int /\ BLOCK_SIZE - f \in Int
    BY <1>5, <1>7, SizeFacts DEF Offsets
  <2>2. k = Lesser(call[c].n, BLOCK_SIZE - f)
    BY <1>8, <1>10
  <2> QED BY <2>1, <2>2 DEF Lesser
<1>12. out'[c] = out[c] \o [j \in 1..k |-> elems[value[e]][f + j - 1]]
  <2>1. out \in [Consumers -> Seq(Values)]
    BY DEF Types, CallTypes
  <2> QED BY <2>1, <1>9, <1>10, ZenonT(30)
<1>13. ASSUME NEW j \in 1..k PROVE elems[value[e]][f + j - 1] = (place[c] - Start) + j
  <2>1. PICK o \in Offsets : o = f + j - 1
    <3>1. f \in 0..(BLOCK_SIZE - 1) /\ k \in Nat /\ j \in Nat /\ j <= k /\ 1 <= j
      BY <1>4, <1>5, <1>7 DEF Offsets
    <3>2. f + j - 1 \in 0..(BLOCK_SIZE - 1)
      BY <3>1, <1>5, <1>11
    <3> QED BY <3>2 DEF Offsets
  <2>2. PICK x \in Int : x = From(q) + o
    BY CountedIs
  <2>3. x = place[c] + (j - 1) /\ From(q) \in Int /\ j \in Int
    <3>1. From(q) \in Int
      BY FromFacts
    <3> QED BY <3>1, <1>7, <1>11, <2>1, <2>2
  <2>4. elems[value[e]][o] = ElementAt(x)
    BY <1>3, <2>2 DEF Contents, Filled
  <2>5. Moving(c, x) /\ x < End
    <3>1. High(c) = place[c] + call[c].n /\ High(c) <= head /\ head <= End /\ head \in Int /\ End \in Int
      BY <1>5, ClaimsFacts DEF High, Found, Intervals
    <3>2. place[c] <= x /\ x < place[c] + call[c].n
      BY <1>4, <1>5, <1>11, <2>3
    <3>3. Moving(c, x)
      BY <1>5, <3>1, <3>2 DEF Moving
    <3> QED BY <1>5, <3>1, <3>2, <3>3
  <2>6. ElementAt(x) = x - Start + 1
    BY <2>5 DEF ElementAt, Unmoved
  <2>7. x - Start + 1 = (place[c] - Start) + j
    BY <1>5, <2>3
  <2> QED BY <2>1, <2>4, <2>6, <2>7
<1> QED BY <1>12, <1>13 DEF Run

\* Moving elements out changes nothing in what a call has taken.
LEMMA FetchTaken ==
  ASSUME Types, Types', Claims, Found, Contents, HistNext, NEW c \in Consumers, Fetch(c)
  PROVE  Taken(c)' = Taken(c)
<1>1. PICK k : k = call'[c].k
  OBVIOUS
<1>2. /\ At(c, "fetch") /\ call'[c].pc = "empty" /\ k \in 1..BLOCK_SIZE /\ call'[c].n = call[c].n - k
      /\ call'[c].n \in Nat /\ place'[c] = place[c] + k
  BY <1>1, FetchStep DEF Found
<1>3. PICK a \in Int : a = place[c] - Start
  BY CallFacts, SizeFacts
<1>4. PICK n \in Nat : n = call[c].n
  BY CallFacts
<1>5. PICK m \in Nat : m = call'[c].n
  BY <1>2
<1>6. k \in Nat /\ n = k + m /\ a + k \in Int /\ place'[c] - Start = a + k
  <2>1. BLOCK_SIZE \in Nat /\ Start \in Nat /\ place[c] \in Nat
    BY CallFacts, SizeFacts
  <2>2. k \in Nat
    BY <1>2, <2>1
  <2> QED BY <1>2, <1>3, <1>4, <1>5, <2>1, <2>2
<1>7. Taking(c) /\ Taking(c)'
  BY <1>2 DEF Taking, At
<1>8. Taken(c) = out[c] \o Run(a, n)
  BY <1>3, <1>4, <1>7 DEF Taken
<1>9. Taken(c)' = out'[c] \o Run(a + k, m)
  BY <1>5, <1>6, <1>7 DEF Taken
<1>10. out'[c] = out[c] \o Run(a, k)
  BY <1>1, <1>3, FetchPuts
<1>11. Run(a, k) \o Run(a + k, m) = Run(a, n)
  <2>1. PICK b \in Int : b = a + k
    BY <1>6
  <2>2. n = k + m /\ k \in Nat /\ m \in Nat /\ n \in Nat /\ a \in Int /\ b \in Int
    BY <1>6
  <2>3. Run(a, k) \o Run(b, m) = Run(a, k + m)
    BY <2>1, <2>2, RunJoin
  <2> QED BY <2>1, <2>2, <2>3
<1>12. (out[c] \o Run(a, k)) \o Run(a + k, m) = out[c] \o (Run(a, k) \o Run(a + k, m))
  <2> DEFINE S == Values \cup Int
  <2>1. PICK s : s = out[c]
    OBVIOUS
  <2>2. s \in Seq(Values)
    BY <2>1 DEF Types, CallTypes
  <2>3. PICK t : t = Run(a, k)
    OBVIOUS
  <2>4. PICK u : u = Run(a + k, m)
    OBVIOUS
  <2>5. t \in Seq(Int) /\ u \in Seq(Int)
    BY <1>6, <2>3, <2>4, RunFacts
  <2>6. s \in Seq(S) /\ t \in Seq(S) /\ u \in Seq(S)
    BY <2>2, <2>5
  <2> HIDE DEF S
  <2>7. (s \o t) \o u = s \o (t \o u)
    BY ONLY <2>6, ConcatAssociative
  <2> QED BY <2>1, <2>3, <2>4, <2>7
<1> QED BY <1>8, <1>9, <1>10, <1>11, <1>12

\* A call that another's step leaves alone.
LEMMA SameTaken ==
  ASSUME Types, HistNext, NEW d \in Consumers, Same(d)
  PROVE  Taken(d)' = Taken(d)
<1>1. Taking(d)' <=> Taking(d)
  BY SameHeld
<1>2. Taking(d) => place'[d] = place[d]
  BY SameHeld
<1>3. out'[d] = out[d] /\ call'[d].n = call[d].n
  BY DEF Same
<1> QED BY <1>1, <1>2, <1>3 DEF Taken

\* What the steps of a call leave of what it has taken.
LEMMA TakenStep ==
  ASSUME Types, Types', Claims, Found, Contents, HistNext, NEW c \in Consumers, Consume(c)
  PROVE  \/ Taken(c)' = Taken(c) /\ head' = head
         \/ Taken(c)' = <<>> /\ head' = head
         \/ /\ Taken(c) = <<>> /\ Taken(c)' = Run(head - Start, call[c].n)
            /\ call[c].n \in Nat \ {0} /\ head' = head + call[c].n
<1>1. out[c] \in Seq(Values) /\ place[c] \in Nat /\ Start \in Nat
  BY CallFacts, SizeFacts DEF Types, CallTypes
<1>2. ~Taking(c) => Taken(c) = <<>>
  <2>1. ~Taking(c) => out[c] = <<>>
    BY DEF Claims, Phase
  <2> QED BY <2>1, <1>1, ConcatEmptySeq DEF Taken
<1>3. CASE Take(c)
  <2>1. /\ ~Taking(c) /\ Taking(c)' /\ call'[c].n = call[c].n /\ call[c].n >= 1 /\ head' = head + call[c].n
    BY <1>3, TakeHeld
  <2>2. place'[c] = head /\ out'[c] = <<>>
    <3>1. At(c, "take") /\ out' = out
      BY <1>3 DEF Take
    <3> QED BY <2>1, <3>1, HistCalls DEF Claims, Phase
  <2>3. Taken(c)' = out'[c] \o Run(head - Start, call[c].n)
    BY <2>1, <2>2 DEF Taken
  <2>4. Run(head - Start, call[c].n) \in Seq(Int) /\ call[c].n \in Nat
    <3>1. PICK n \in Nat : n = call[c].n
      BY CallFacts
    <3>2. PICK a \in Int : a = head - Start
      BY <1>1, HistFacts
    <3> QED BY <3>1, <3>2, RunFacts
  <2>5. Taken(c)' = Run(head - Start, call[c].n)
    <3>1. PICK s : s = Run(head - Start, call[c].n)
      OBVIOUS
    <3>2. s \in Seq(Int)
      BY <2>4, <3>1
    <3>3. <<>> \o s = s
      BY ONLY <3>2, ConcatEmptySeq
    <3> QED BY <2>2, <2>3, <3>1, <3>3
  <2> QED BY <1>2, <2>1, <2>4, <2>5
<1>4. CASE (\E m \in Sizes \cup {1} : Begin(c, m)) \/ ReadOvercommit(c) \/ Look(c)
           \/ Claim(c) \/ Settle(c) \/ GiveBack(c)
  <2>1. ~Taking(c) /\ ~Taking(c)' /\ headIndex' = headIndex
    BY <1>4, ClaimOnly, ZenonT(30)
  <2>2. out' = out
    BY <1>4, ZenonT(30) DEF Begin, ReadOvercommit, Look, Claim, Settle, GiveBack
  <2>3. head' = head
    BY <2>1, HistSame
  <2>4. Taken(c)' = Taken(c)
    BY <2>1, <2>2 DEF Taken
  <2> QED BY <2>3, <2>4
<1>5. CASE Fetch(c)
  <2>1. headIndex' = headIndex
    BY <1>5 DEF Fetch, MoveOut, counters
  <2> QED BY <2>1, <1>5, FetchTaken, HistSame
<1>6. CASE Later(c) /\ ~Fetch(c)
  <2>1. Taking(c) /\ headIndex' = headIndex
    BY <1>6, LaterEffects DEF counters
  <2>2. head' = head
    BY <2>1, HistSame
  <2>3. CASE call'[c] = NoCall /\ out'[c] = <<>>
    <3>1. ~Taking(c)'
      BY <2>3 DEF Taking, NoCall
    <3>2. Taken(c)' = <<>> \o <<>>
      BY <2>3, <3>1 DEF Taken
    <3>3. <<>> \o <<>> = <<>>
      OBVIOUS
    <3> QED BY <2>2, <3>2, <3>3
  <2>4. CASE Taking(c)' /\ out'[c] = out[c] /\ call'[c].n = call[c].n
    <3>1. call[c].pc # "claim" /\ call[c].pc # "take"
      BY <2>1 DEF Taking
    <3>2. place'[c] = place[c]
      BY <2>4, <3>1, HistCalls
    <3>3. Taken(c)' = Taken(c)
      BY <2>1, <2>4, <3>2 DEF Taken
    <3> QED BY <2>2, <3>3
  <2>5. \/ call'[c] = NoCall /\ out'[c] = <<>>
        \/ Taking(c)' /\ out'[c] = out[c] /\ call'[c].n = call[c].n
    <3>1. OnToNext(c) => \/ call'[c] = NoCall /\ out'[c] = <<>>
                         \/ Taking(c)' /\ out'[c] = out[c] /\ call'[c].n = call[c].n
      <4>1. out \in [Consumers -> Seq(Values)] /\ call \in [Consumers -> CallSet] /\ call[c] \in CallSet
        BY DEF Types, CallTypes
      <4> QED BY <4>1 DEF OnToNext, NextBlock, Taking, CallSet
    <3>2. LoadHeader(c) \/ LoadTail(c) \/ LoadKey(c) \/ ClearEntry(c) =>
            Taking(c)' /\ out'[c] = out[c] /\ call'[c].n = call[c].n
      <4>1. LoadHeader(c) \/ LoadTail(c) \/ LoadKey(c) \/ ClearEntry(c) => out' = out
        BY DEF LoadHeader, LoadTail, LoadKey, ClearEntry
      <4> QED BY <4>1, LookSteps DEF Taking
    <3>3. SetManyEmpty(c) => OnToNext(c) \/ (Taking(c)' /\ out'[c] = out[c] /\ call'[c].n = call[c].n)
      <4>1. call \in [Consumers -> CallSet] /\ call[c] \in CallSet
        BY DEF Types, CallTypes
      <4> QED BY <4>1 DEF SetManyEmpty, Taking, CallSet
    <3>4. FreeBlock(c) => OnToNext(c)
      BY DEF FreeBlock
    <3> QED BY <1>6, <3>1, <3>2, <3>3, <3>4 DEF Later
  <2> QED BY <2>3, <2>4, <2>5
<1> QED BY <1>3, <1>4, <1>5, <1>6 DEF Consume, dequeue_bulk, ClaimElements, Later

\* The elements that nobody has taken yet, and what each call has taken.
Waiting == Run(head - Start, End - head)
\* What the calls have taken.
AllTaken == [c \in Consumers |-> Taken(c)]

\* A step of the enqueue puts elements there, all of them at once, or none.
LEMMA ProduceMapped ==
  ASSUME Types, Types', Claims, Found, HistNext, Mapped, Produce
  PROVE  /\ AllTaken' = AllTaken
         /\ \/ Waiting' = Waiting /\ sent' = sent
            \/ \E k \in Counts : sent' = sent + k /\ Waiting' = Waiting \o [i \in 1..k |-> sent + i]
<1>1. UNCHANGED <<call, out>> /\ headIndex' = headIndex
  <2>1. headIndex' = headIndex
    BY ZenonT(30) DEF Produce, enqueue, enqueue_bulk, BeginEnqueue, CheckRoom, InsertBlockIndexEntry, AdvanceIndexTail,
       NewBlockIndex, RequisitionBlock, FailBlock, UndoBlock, FreeChain, AppendToTail, Publish, Construct,
       base, counters
  <2> QED BY <2>1, ProducerSteps
<1>2. head' = head
  BY <1>1, HistSame
<1>3. AllTaken' = AllTaken
  <2>1. ASSUME NEW d \in Consumers PROVE Taken(d)' = Taken(d)
    <3>1. Taking(d)' <=> Taking(d)
      BY <1>1 DEF Taking
    <3>2. Taking(d) => place'[d] = place[d]
      BY <1>1, HistCalls DEF Taking, At
    <3> QED BY <1>1, <3>1, <3>2 DEF Taken
  <2> QED BY <2>1 DEF AllTaken
<1>4. CASE Publish \/ AppendToTail
  <2>1. PICK k \in Counts : sent' = sent + k
    BY <1>4, ConstructIs
  <2>2. k \in Nat /\ End' = End + k
    <3>1. Counts \subseteq Nat /\ sent \in Nat /\ Start \in Nat
      BY SizesFit, EndFacts, SizeFacts DEF Types
    <3> QED BY <2>1, <3>1 DEF End
  <2>3. PICK a \in Int : a = head - Start
    BY HistFacts, SizeFacts
  <2>4. PICK n \in Nat : n = End - head
    BY HistFacts DEF Mapped
  <2>5. sent \in Int /\ sent = a + n /\ End' - head = n + k
    <3>1. Start \in Nat /\ sent \in Nat /\ End \in Nat /\ head \in Nat
      BY EndFacts, HistFacts, SizeFacts DEF Types
    <3> QED BY <3>1, <2>2, <2>3, <2>4 DEF End
  <2>6. Run(a, n) \o Run(sent, k) = Run(a, n + k)
    BY <2>2, <2>5, RunJoin
  <2>7. Waiting' = Run(a, n + k)
    BY <1>2, <2>3, <2>5 DEF Waiting
  <2>8. Waiting = Run(a, n)
    BY <2>3, <2>4 DEF Waiting
  <2>9. Waiting' = Waiting \o [i \in 1..k |-> sent + i]
    BY <2>6, <2>7, <2>8 DEF Run
  <2> QED BY <2>1, <2>9, <1>3
<1>5. CASE sent' = sent
  <2>1. End' = End
    BY <1>5 DEF End
  <2>2. Waiting' = Waiting
    BY <1>2, <2>1, ZenonT(30) DEF Waiting
  <2> QED BY <1>3, <1>5, <2>2
<1>6. Publish \/ AppendToTail \/ sent' = sent
  BY ElementSteps, ZenonT(30) DEF Next, Produce, enqueue, enqueue_bulk, BeginEnqueue, CheckRoom, InsertBlockIndexEntry,
     AdvanceIndexTail, NewBlockIndex, RequisitionBlock, FailBlock, UndoBlock, FreeChain, base, stored
<1> QED BY <1>4, <1>5, <1>6

\* A step of a dequeue takes elements from the front, or returns, or neither.
LEMMA ConsumeMapped ==
  ASSUME Types, Types', Claims, Found, Contents, HistNext, Mapped, Mapped', NEW c \in Consumers, Consume(c)
  PROVE  /\ sent' = sent
         /\ \/ Waiting' = Waiting /\ AllTaken' = AllTaken
            \/ Waiting' = Waiting /\ AllTaken' = [AllTaken EXCEPT ![c] = <<>>]
            \/ \E k \in 1..Len(Waiting) :
                 /\ AllTaken[c] = <<>> /\ AllTaken' = [AllTaken EXCEPT ![c] = SubSeq(Waiting, 1, k)]
                 /\ Waiting' = SubSeq(Waiting, k + 1, Len(Waiting))
<1>1. sent' = sent
  <2>1. Later(c) => sent' = sent
    BY LaterEffects
  <2> QED BY <2>1, ZenonT(30) DEF Consume, dequeue_bulk, ClaimElements, Later, Begin, ReadOvercommit, Look, Claim, Settle,
         GiveBack, Take, stored
<1>2. End' = End
  BY <1>1 DEF End
<1>3. \A d \in Consumers : d # c => Taken(d)' = Taken(d)
  BY OthersSame, SameTaken
<1>4. CASE Taken(c)' = Taken(c) /\ head' = head
  <2>1. Waiting' = Waiting
    BY <1>2, <1>4 DEF Waiting
  <2>2. AllTaken' = AllTaken
    BY <1>3, <1>4 DEF AllTaken
  <2> QED BY <1>1, <2>1, <2>2
<1>5. CASE Taken(c)' = <<>> /\ head' = head
  <2>1. Waiting' = Waiting
    BY <1>2, <1>5 DEF Waiting
  <2>2. AllTaken' = [AllTaken EXCEPT ![c] = <<>>]
    BY <1>3, <1>5 DEF AllTaken
  <2> QED BY <1>1, <2>1, <2>2
<1>6. CASE /\ Taken(c) = <<>> /\ Taken(c)' = Run(head - Start, call[c].n)
           /\ call[c].n \in Nat \ {0} /\ head' = head + call[c].n
  <2>1. PICK k \in Nat \ {0} : k = call[c].n
    BY <1>6
  <2>2. PICK a \in Int : a = head - Start
    BY HistFacts, SizeFacts
  <2>3. PICK n \in Nat : n = End - head
    BY HistFacts DEF Mapped
  <2>4. k \in 0..n /\ k \in 1..n /\ head' - Start = a + k /\ End' - head' = n - k
    <3>1. Start \in Nat /\ End \in Nat /\ head \in Nat /\ head' <= End'
      BY HistFacts, SizeFacts DEF Mapped
    <3> QED BY <3>1, <1>2, <1>6, <2>1, <2>2, <2>3
  <2>5. Waiting = Run(a, n) /\ Waiting' = Run(a + k, n - k) /\ Taken(c)' = Run(a, k)
    BY <1>6, <2>1, <2>2, <2>3, <2>4 DEF Waiting
  <2>6. Len(Run(a, n)) = n
    BY RunFacts
  <2>7. SubSeq(Run(a, n), 1, k) = Run(a, k) /\ SubSeq(Run(a, n), k + 1, n) = Run(a + k, n - k)
    BY <2>4, RunCut
  <2>8. AllTaken' = [AllTaken EXCEPT ![c] = SubSeq(Waiting, 1, k)] /\ AllTaken[c] = <<>>
    BY <1>3, <1>6, <2>5, <2>7 DEF AllTaken
  <2>9. Waiting' = SubSeq(Waiting, k + 1, Len(Waiting)) /\ k \in 1..Len(Waiting)
    BY <2>4, <2>5, <2>6, <2>7
  <2> QED BY <1>1, <2>8, <2>9
<1> QED BY <1>4, <1>5, <1>6, TakenStep, ZenonT(30)

\* The refinement mapping.
LEMMA ChannelIs ==
  ASSUME Mapped
  PROVE  /\ Stretch(headIndex, Minus(tailIndex, headIndex)) = Waiting
         /\ [c \in Consumers |->
              out[c] \o (IF Taking(c) THEN Stretch(call[c].at, call[c].n) ELSE <<>>)] = AllTaken
BY DEF Mapped, Waiting, AllTaken

\* Every step of the sub-queue is a step of the channel, or none.
LEMMA StepRefines ==
  ASSUME Types, Types', Claims, Found, Contents, Mapped, Mapped', [HNext]_<<vars, hist>>
  PROVE  [Channel!Next]_(Channel!vars)
<1>1. /\ Stretch(headIndex, Minus(tailIndex, headIndex)) = Waiting
      /\ [c \in Consumers |->
            out[c] \o (IF Taking(c) THEN Stretch(call[c].at, call[c].n) ELSE <<>>)] = AllTaken
  BY ChannelIs
<1>2. /\ Stretch(headIndex, Minus(tailIndex, headIndex))' = Waiting'
      /\ [c \in Consumers |->
            out[c] \o (IF Taking(c) THEN Stretch(call[c].at, call[c].n) ELSE <<>>)]' = AllTaken'
  BY DEF Mapped, Waiting, AllTaken
<1>3. ASSUME Waiting' = Waiting, AllTaken' = AllTaken, sent' = sent PROVE UNCHANGED Channel!vars
  BY <1>1, <1>2, <1>3 DEF Channel!vars
<1>4. CASE Next /\ HistNext /\ Produce
  <2>1. ASSUME NEW k \in Counts, sent' = sent + k, Waiting' = Waiting \o [i \in 1..k |-> sent + i],
               AllTaken' = AllTaken
        PROVE  Channel!Next
    <3>1. Channel!Put(k)
      BY <1>1, <1>2, <2>1 DEF Channel!Put
    <3> QED BY <3>1 DEF Channel!Next
  <2> QED BY <1>3, <1>4, <2>1, ProduceMapped
<1>5. ASSUME HistNext, NEW c \in Consumers, Consume(c) PROVE [Channel!Next]_(Channel!vars)
  <2>1. ASSUME sent' = sent, Waiting' = Waiting, AllTaken' = [AllTaken EXCEPT ![c] = <<>>]
        PROVE  Channel!Next
    <3>1. Channel!Return(c)
      BY <1>1, <1>2, <2>1 DEF Channel!Return
    <3> QED BY <3>1 DEF Channel!Next
  <2>2. ASSUME sent' = sent, NEW k \in 1..Len(Waiting), AllTaken[c] = <<>>,
               AllTaken' = [AllTaken EXCEPT ![c] = SubSeq(Waiting, 1, k)],
               Waiting' = SubSeq(Waiting, k + 1, Len(Waiting))
        PROVE  Channel!Next
    <3>1. Len(Waiting) \in Nat => k <= Len(Waiting)
      OBVIOUS
    <3>2. Len(Waiting) \in Nat
      <4>1. PICK a \in Int : a = head - Start
        BY HistFacts, SizeFacts
      <4>2. PICK n \in Nat : n = End - head
        BY HistFacts DEF Mapped
      <4> QED BY <4>1, <4>2, RunFacts DEF Waiting
    <3>3. Channel!Get(c, k) /\ k \in 1..Len(Stretch(headIndex, Minus(tailIndex, headIndex)))
      BY <1>1, <1>2, <2>2, <3>1, <3>2 DEF Channel!Get
    <3> QED BY <3>3 DEF Channel!Next
  <2> QED BY <1>3, <1>5, <2>1, <2>2, ConsumeMapped
<1>6. CASE UNCHANGED <<vars, hist>>
  <2>1. UNCHANGED <<tailIndex, headIndex, sent, call, out, head, place>>
    BY <1>6 DEF vars, hist, base, counters, stored
  <2>2. End' = End
    BY <2>1 DEF End
  <2>3. Waiting' = Waiting
    BY <2>1, <2>2 DEF Waiting
  <2>4. AllTaken' = AllTaken
    BY <2>1 DEF AllTaken, Taken, Taking
  <2> QED BY <1>3, <2>1, <2>3, <2>4
<1> QED BY <1>4, <1>5, <1>6 DEF HNext, Next

\* The first state is the channel's.
LEMMA InitMapped == HInit => Channel!Init
<1> SUFFICES ASSUME HInit PROVE Channel!Init
  OBVIOUS
<1>1. Mapped
  BY InitTypes, InitClaims, InitFound, InitContents, MappedIs
<1>2. /\ Stretch(headIndex, Minus(tailIndex, headIndex)) = Waiting
      /\ [c \in Consumers |->
            out[c] \o (IF Taking(c) THEN Stretch(call[c].at, call[c].n) ELSE <<>>)] = AllTaken
  BY <1>1, ChannelIs
<1>3. sent = 0 /\ head = Start /\ \A c \in Consumers : call[c] = NoCall /\ out[c] = <<>>
  BY DEF HInit, HistInit, Init, InitBase
<1>4. Waiting = <<>>
  <2>1. head - Start = 0 /\ End - head = 0
    BY <1>3, SizeFacts DEF End
  <2>2. Run(0, 0) = <<>>
    BY RunFacts
  <2> QED BY <2>1, <2>2 DEF Waiting
<1>5. AllTaken = [c \in Consumers |-> <<>>]
  <2>1. ASSUME NEW c \in Consumers PROVE Taken(c) = <<>>
    <3>1. ~Taking(c) /\ out[c] = <<>>
      BY <1>3 DEF Taking, NoCall
    <3>2. <<>> \o <<>> = <<>>
      OBVIOUS
    <3> QED BY <3>1, <3>2 DEF Taken
  <2> QED BY <2>1 DEF AllTaken
<1> QED BY <1>2, <1>3, <1>4, <1>5 DEF Channel!Init

\* The sub-queue is a channel: the elements that were enqueued, and that nobody
\* has taken, are a first-in first-out stream; an enqueue puts all of its
\* elements there or none, and what a call takes from the front is in its buffer
\* when it returns.
THEOREM Refinement == HSpec /\ []Timely => ImplementsSubQueue
<1>1. HInit => Channel!Init
  BY InitMapped
<1>2. Types /\ Claims /\ Found /\ Contents => Mapped
  BY MappedIs
<1>3. Types /\ Types' /\ Claims /\ Found /\ Contents /\ Mapped /\ Mapped' /\ [HNext]_<<vars, hist>>
        => [Channel!Next]_(Channel!vars)
  BY StepRefines
<1> QED BY <1>1, <1>2, <1>3, ContentsHold, PTL DEF HSpec, ImplementsSubQueue, Channel!Spec

-------------------------------------------------------------------------------
(* No block is lost *)

\* A block whose elements have all been counted is about to leave the index.
Cleared ==
  \A e \in Entries :
    value[e] # Null /\ Counted(number[e]) = Offsets =>
      \E c \in Consumers : At(c, "clear") /\ Num(place[c] - 1) = number[e]

\* No block is lost.
Owned ==
  \A b \in Blocks : b \in free \/ InEntry(b) \/ Undone(b) \/ \E c \in Consumers : AtFree(c, b)

\* A call that is to clear an entry stays there until it has.
LEMMA ClearStays ==
  ASSUME Types, Types', Claims, Found, Next, HistNext, NEW c \in Consumers, At(c, "clear")
  PROVE  ClearEntry(c) \/ (At(c, "clear")' /\ place'[c] = place[c])
<1>1. Taking(c)
  BY DEF At, Taking
<1>2. CASE Same(c)
  <2>1. At(c, "clear")'
    BY <1>2 DEF Same, At
  <2>2. place'[c] = place[c]
    BY <1>1, <1>2, SameHeld
  <2> QED BY <2>1, <2>2
<1>3. CASE Consume(c) /\ Later(c)
  BY <1>3 DEF Later, LoadHeader, LoadTail, LoadKey, Fetch, SetManyEmpty, FreeBlock, At
<1>4. CASE Consume(c) /\ Take(c)
  BY <1>4 DEF Take, At
<1> QED BY <1>1, <1>2, <1>3, <1>4, StepsOf

\* The count that makes a block's full, and who counted.
LEMMA LastCounted ==
  ASSUME Types, Types', Claims, Found, Next, HistNext, NEW e \in Entries, value[e] # Null,
         NEW q \in Int, q = number[e], Counted(q)' = Offsets, Counted(q) # Offsets
  PROVE  \E c \in Consumers : At(c, "clear")' /\ Num(place[c] - 1)' = q
<1>1. PICK c \in Consumers : SetManyEmpty(c)
  <2> SUFFICES ASSUME \A c \in Consumers : ~SetManyEmpty(c) PROVE FALSE
    OBVIOUS
  <2>1. \A o \in Offsets, c \in Consumers : ~CountsNow(c, From(q) + o)
    BY DEF CountsNow
  <2>2. Counted(q)' = Counted(q)
    BY <2>1, CountedStep
  <2> QED BY <2>2
<1>2. PICK p \in Int : p = Num(place[c] - 1)
  BY HeldNext DEF Found
<1>3. p = q /\ emptied[call[c].block] + call[c].k = Cardinality(Counted(p)')
  BY <1>1, <1>2, CountsMore
<1>4. Cardinality(Counted(q)') = BLOCK_SIZE
  BY CountedSizes
<1>5. emptied[call[c].block] + call[c].k = BLOCK_SIZE
  BY <1>3, <1>4
<1>6. At(c, "clear")'
  <2>1. call \in [Consumers -> CallSet] /\ call[c] \in CallSet
    BY DEF Types, CallTypes
  <2> QED BY <1>1, <1>5, <2>1 DEF SetManyEmpty, At, CallSet
<1>7. place'[c] = place[c]
  <2>1. At(c, "empty")
    BY <1>1 DEF SetManyEmpty
  <2> QED BY <2>1, HistCalls DEF At
<1>8. Num(place[c] - 1)' = q
  BY <1>2, <1>3, <1>7 DEF Num
<1> QED BY <1>6, <1>8

\* A new block has none of its elements counted.
LEMMA NewUncounted ==
  ASSUME Types, Types', Claims, Found, Next, HistNext, RequisitionBlock, NEW e \in Entries,
         value'[e] # Null, value[e] = Null
  PROVE  Counted(number[e])' # Offsets
<1>1. PICK b \in free : EnterBlock(b)
  BY DEF RequisitionBlock
<1>2. Rows /\ Tailed /\ Chained /\ Producing("requisition")
  BY DEF Found, Indexed, RequisitionBlock
<1>3. value' = [value EXCEPT ![TailEntry(headers[current])] = b]
  BY <1>1 DEF EnterBlock
<1>4. e = TailEntry(headers[current])
  BY <1>3, EntryFacts
<1>5. number' = number
  BY <1>2 DEF HistNext, Producing
<1>6. PICK q \in Int : q = TailNumber + Len(producer.chain) + 1 /\ q >= TailNumber + 1
  BY NewestFacts
<1>7. number[e] = q
  <2>1. e = EntryFor(current, Newest) /\ Newest = q
    BY <1>2, <1>4, <1>6, TailPlaces, NewestFacts
  <2> QED BY <2>1, <1>2, <1>6 DEF Chained, Producing
<1>8. head' = head
  <2>1. headIndex' = headIndex
    BY DEF RequisitionBlock, counters
  <2> QED BY <2>1, HistSame
<1>9. From(q) >= head /\ From(q) \in Int /\ head \in Int
  <2>1. head <= End /\ head \in Nat /\ End \in Nat
    BY ClaimsFacts
  <2>2. End <= From(TailNumber + 1) /\ TailNumber + 1 \in Int
    BY EndFacts DEF Types
  <2>3. From(TailNumber + 1) <= From(q) /\ From(q) \in Int /\ From(TailNumber + 1) \in Int
    BY <2>2, <1>6, FromFacts
  <2> QED BY <2>1, <2>2, <2>3
<1>10. 0 \in Offsets /\ ~(From(q) + 0 < head')
  BY <1>8, <1>9, SizeFacts DEF Offsets
<1>11. 0 \notin Counted(q)'
  BY <1>10, CountedIs
<1>12. Counted(number[e])' = Counted(q)'
  BY <1>5, <1>7 DEF Counted
<1> QED BY <1>10, <1>11, <1>12

\* A step leaves in the index no block whose elements have all been counted.
LEMMA ClearedStep ==
  ASSUME Types, Types', Claims, Found, Cleared, Next, HistNext
  PROVE  Cleared'
<1> SUFFICES ASSUME NEW e \in Entries, value'[e] # Null, Counted(number[e])' = Offsets'
             PROVE  \E c \in Consumers : At(c, "clear")' /\ Num(place[c] - 1)' = number'[e]
  BY DEF Cleared
<1>0. Offsets' = Offsets
  BY DEF Offsets
<1>1. value[e] # Null
  <2> SUFFICES ASSUME value[e] = Null PROVE FALSE
    OBVIOUS
  <2>1. RequisitionBlock
    BY EntrySame
  <2> QED BY <1>0, <2>1, NewUncounted
<1>2. PICK q \in Int : q = number[e] /\ number'[e] = q
  BY <1>1, NumberFrame
<1>3. Counted(q)' = Offsets
  BY <1>0, <1>2 DEF Counted
<1>4. CASE Counted(q) # Offsets
  BY <1>1, <1>2, <1>3, <1>4, LastCounted
<1>5. CASE Counted(q) = Offsets
  <2>1. PICK c \in Consumers : At(c, "clear") /\ Num(place[c] - 1) = q
    BY <1>1, <1>2, <1>5 DEF Cleared
  <2>2. ~ClearEntry(c)
    <3> SUFFICES ASSUME ClearEntry(c) PROVE FALSE
      OBVIOUS
    <3>1. EntryFor(current, q) \in Entries /\ value' = [value EXCEPT ![EntryFor(current, q)] = Null]
      BY <2>1, ClearIs
    <3>2. EntryFor(current, q) = e
      BY <1>1, <1>2, LiveNumbers DEF Found, Indexed
    <3> QED BY <3>1, <3>2, EntryFacts
  <2>3. At(c, "clear")' /\ place'[c] = place[c]
    BY <2>1, <2>2, ClearStays
  <2>4. Num(place[c] - 1)' = q
    BY <2>1, <2>3 DEF Num
  <2> QED BY <1>2, <2>3, <2>4
<1> QED BY <1>4, <1>5

\* Where block b is.
OwnedAt(b) == b \in free \/ InEntry(b) \/ Undone(b) \/ \E c \in Consumers : AtFree(c, b)

\* A new block goes from the pool to an entry that held none.
LEMMA RequisitionIs ==
  ASSUME Types, Claims, Found, RequisitionBlock
  PROVE  \E x \in free, e \in Entries :
           /\ free' = free \ {x} /\ value' = [value EXCEPT ![e] = x] /\ value[e] = Null
<1>1. PICK x \in free : EnterBlock(x)
  BY DEF RequisitionBlock
<1>2. Rows /\ Tailed /\ Chained /\ Producing("requisition")
  BY DEF Found, Indexed, RequisitionBlock
<1>3. PICK q \in Int : q = TailNumber + Len(producer.chain) + 1
  BY NewestFacts
<1>4. Newest = q
  BY <1>2, <1>3, NewestFacts
<1>5. PICK e : e = TailEntry(headers[current])
  OBVIOUS
<1>6. e = EntryFor(current, q) /\ current \in 1..current
  BY <1>2, <1>4, <1>5, TailPlaces
<1>7. e \in Entries
  BY <1>2, <1>6, PosFacts
<1>8. value[e] = Null
  BY <1>2, <1>3, <1>6 DEF Chained, Producing
<1>9. free' = free \ {x} /\ value' = [value EXCEPT ![e] = x]
  BY <1>1, <1>5 DEF EnterBlock
<1> QED BY <1>7, <1>8, <1>9

\* A block of the pool stays there, or gets an entry.
LEMMA FreeOwned ==
  ASSUME Types, Types', Claims, Found, Next, HistNext, NEW b \in free
  PROVE  b \in free' \/ InEntry(b)'
<1>1. CASE RequisitionBlock
  <2>1. PICK x \in free, e \in Entries : free' = free \ {x} /\ value' = [value EXCEPT ![e] = x]
    BY <1>1, RequisitionIs
  <2>2. b = x => value'[e] = b
    BY <2>1, EntryFacts
  <2> QED BY <2>1, <2>2 DEF InEntry
<1>2. CASE FreeChain
  BY <1>2 DEF FreeChain
<1>3. ASSUME NEW c \in Consumers, FreeBlock(c) PROVE b \in free'
  BY <1>3 DEF FreeBlock
<1> QED BY <1>1, <1>2, <1>3, FreeStep

\* A block that has an entry keeps it, or a call is to free it, or it is undone.
LEMMA EntryOwned ==
  ASSUME Types, Types', Claims, Found, Next, HistNext, NEW b \in Blocks, InEntry(b)
  PROVE  InEntry(b)' \/ Undone(b)' \/ \E c \in Consumers : AtFree(c, b)'
<1>1. PICK e \in Entries : value[e] = b
  BY DEF InEntry
<1>2. b # Null
  BY NullAssumption
<1>3. CASE value' = value
  BY <1>1, <1>3 DEF InEntry
<1>4. ASSUME NEW c \in Consumers, ClearEntry(c) PROVE InEntry(b)' \/ AtFree(c, b)'
  <2>1. PICK q : q = Num(place[c] - 1)
    OBVIOUS
  <2>2. PICK f : f = EntryFor(current, q)
    OBVIOUS
  <2>3. f \in Entries /\ value[f] = call[c].block /\ value' = [value EXCEPT ![f] = Null]
    BY <1>4, <2>1, <2>2, ClearIs
  <2>4. CASE e = f
    <3>1. call'[c].pc = "free" /\ call'[c].block = b
      BY <1>1, <1>4, <2>3, <2>4, LookSteps
    <3> QED BY <3>1 DEF AtFree, At
  <2>5. CASE e # f
    <3>1. value'[e] = b
      BY <1>1, <2>3, <2>5, EntryFacts
    <3> QED BY <3>1 DEF InEntry
  <2> QED BY <2>4, <2>5
<1>5. CASE UndoBlock
  <2>1. PICK q : q = TailNumber + producer.undone + 1
    OBVIOUS
  <2>2. PICK f : f = EntryFor(current, q)
    OBVIOUS
  <2>3. /\ f \in Entries /\ value[f] = producer.chain[producer.undone + 1] /\ value' = [value EXCEPT ![f] = Null]
        /\ producer'.chain = producer.chain /\ producer'.undone = producer.undone + 1
    BY <1>5, <2>1, <2>2, UndoIs
  <2>4. CASE e = f
    <3>1. producer.undone + 1 \in 1..producer'.undone
      BY <2>3, NewestFacts
    <3>2. producer'.chain[producer.undone + 1] = b
      BY <1>1, <2>3, <2>4
    <3> QED BY <3>1, <3>2 DEF Undone
  <2>5. CASE e # f
    <3>1. value'[e] = b
      BY <1>1, <2>3, <2>5, EntryFacts
    <3> QED BY <3>1 DEF InEntry
  <2> QED BY <2>4, <2>5
<1>6. CASE RequisitionBlock
  <2>1. PICK x \in free, f \in Entries : value' = [value EXCEPT ![f] = x] /\ value[f] = Null
    BY <1>6, RequisitionIs
  <2>2. value'[e] = b
    BY <1>1, <1>2, <2>1, EntryFacts
  <2> QED BY <2>2 DEF InEntry
<1> QED BY <1>3, <1>4, <1>5, <1>6, ValueStep

\* A block of a failed enqueue waits for the others.
LEMMA UndoneOwned ==
  ASSUME Types, Types', Claims, Found, Next, HistNext, NEW b \in Blocks, Undone(b)
  PROVE  b \in free' \/ Undone(b)'
<1>1. PICK j \in 1..producer.undone : producer.chain[j] = b
  BY DEF Undone
<1>2. producer.undone \in Nat /\ Producing("undo") /\ producer.undone <= Len(producer.chain)
      /\ Len(producer.chain) \in Nat /\ producer.chain \in Seq(Blocks)
  <2>1. producer.undone \in Nat
    BY NewestFacts
  <2>2. producer.undone # 0
    BY <1>1, <2>1
  <2> QED BY <2>1, <2>2, NewestFacts
<1>3. CASE FreeChain
  <2>1. DOMAIN producer.chain = 1..Len(producer.chain)
    BY <1>2, LenProperties
  <2>2. j \in 1..Len(producer.chain)
    BY <1>1, <1>2
  <2>3. free' = free \cup {producer.chain[i] : i \in DOMAIN producer.chain}
    BY <1>3 DEF FreeChain
  <2> QED BY <1>1, <2>1, <2>2, <2>3
<1>4. CASE UndoBlock
  <2>1. producer'.chain = producer.chain /\ producer'.undone = producer.undone + 1
    BY <1>4, UndoIs
  <2>2. j \in 1..producer'.undone
    BY <1>1, <1>2, <2>1
  <2> QED BY <1>1, <2>1, <2>2 DEF Undone
<1>5. ASSUME NEW c \in Consumers, Consume(c) PROVE Undone(b)'
  <2>1. producer' = producer
    BY <1>5, ConsumerKeeps
  <2> QED BY <1>1, <2>1 DEF Undone
<1>6. CASE Produce
  BY <1>2, <1>3, <1>4, <1>6 DEF Produce, Producing, enqueue, enqueue_bulk, BeginEnqueue, CheckRoom, InsertBlockIndexEntry,
     AdvanceIndexTail, NewBlockIndex, RequisitionBlock, FailBlock, AppendToTail, Publish
<1> QED BY <1>5, <1>6 DEF Next

\* A step loses no block.
LEMMA OwnedStep ==
  ASSUME Types, Types', Claims, Found, Owned, Next, HistNext
  PROVE  Owned'
<1> SUFFICES ASSUME NEW b \in Blocks PROVE OwnedAt(b)'
  BY DEF Owned, OwnedAt
<1>1. OwnedAt(b)
  BY DEF Owned, OwnedAt
<1>2. CASE b \in free
  BY <1>2, FreeOwned DEF OwnedAt
<1>3. CASE InEntry(b)
  BY <1>3, EntryOwned DEF OwnedAt
<1>4. CASE Undone(b)
  BY <1>4, UndoneOwned DEF OwnedAt
<1>5. ASSUME NEW c \in Consumers, AtFree(c, b) PROVE OwnedAt(b)'
  <2>1. At(c, "free") /\ call[c].block = b
    BY <1>5 DEF AtFree
  <2>2. CASE Same(c)
    BY <2>1, <2>2 DEF Same, AtFree, At, OwnedAt
  <2>3. CASE Consume(c) /\ ~Taking(c)
    BY <2>1, <2>3 DEF At, Taking
  <2>4. CASE Consume(c) /\ Take(c)
    BY <2>1, <2>4 DEF Take, At
  <2>5. CASE Consume(c) /\ Later(c)
    <3>1. FreeBlock(c)
      BY <2>1, <2>5 DEF Later, LoadHeader, LoadTail, LoadKey, Fetch, SetManyEmpty, ClearEntry, At
    <3>2. free' = free \cup {call[c].block}
      BY <3>1 DEF FreeBlock
    <3> QED BY <2>1, <3>2 DEF OwnedAt
  <2> QED BY <2>2, <2>3, <2>4, <2>5, StepsOf
<1> QED BY <1>1, <1>2, <1>3, <1>4, <1>5 DEF OwnedAt

\* Nor does a step that changes nothing.
LEMMA LossSame ==
  ASSUME Types, Cleared, Owned, UNCHANGED <<vars, hist>>
  PROVE  Cleared' /\ Owned'
<1>1. UNCHANGED <<free, value, number, head, call, place, producer>>
  BY DEF vars, hist, base, stored, blockIndex
<1>2. Cleared'
  <2>1. \A q : Counted(q)' = Counted(q)
    BY <1>1 DEF Counted, Taking, Low, High, At
  <2>2. Offsets' = Offsets
    BY DEF Offsets
  <2> QED BY <1>1, <2>1, <2>2 DEF Cleared, At, Num
<1>3. Owned'
  BY <1>1 DEF Owned, InEntry, Undone, AtFree, At
<1> QED BY <1>2, <1>3

\* At first every block is in the pool.
LEMMA InitLoss == HInit => Cleared /\ Owned
<1> SUFFICES ASSUME HInit PROVE Cleared /\ Owned
  OBVIOUS
<1>1. free = Blocks /\ \A e \in Entries : value[e] = Null
  BY DEF HInit, Init, InitBase
<1> QED BY <1>1 DEF Cleared, Owned

\* Every block is in the pool or the index, or about to go back, and leaves the
\* index when its elements have been counted.
THEOREM NothingLost == HSpec /\ []Timely => [](Types /\ Claims /\ Found /\ Contents /\ Cleared /\ Owned)
<1>1. HInit => Types /\ Claims /\ Found /\ Contents /\ Cleared /\ Owned
  BY InitTypes, InitClaims, InitFound, InitContents, InitLoss
<1>2. Types /\ Claims /\ Found /\ Contents /\ Cleared /\ Owned /\ Timely /\ [HNext]_<<vars, hist>>
        => Types' /\ Claims' /\ Found' /\ Contents' /\ Cleared' /\ Owned'
  <2> SUFFICES ASSUME Types, Claims, Found, Contents, Cleared, Owned, Timely, [HNext]_<<vars, hist>>
               PROVE  Types' /\ Claims' /\ Found' /\ Contents' /\ Cleared' /\ Owned'
    OBVIOUS
  <2>1. Types' /\ Claims' /\ Found'
    BY HoldsStep
  <2>2. CASE HNext
    BY <2>1, <2>2, ContentsStep, ClearedStep, OwnedStep DEF HNext
  <2>3. CASE UNCHANGED <<vars, hist>>
    BY <2>1, <2>3, ContentsSame, LossSame
  <2> QED BY <2>2, <2>3
<1> QED BY <1>1, <1>2, PTL DEF HSpec

\* When nobody is at work, the blocks from that of the head to that of the
\* tail, and no others, are in the index.
LEMMA QuietEntries ==
  ASSUME Types, Claims, Found, Cleared, Quiet
  PROVE  /\ \A c \in Consumers : ~Taking(c)
         /\ Num(head) \in Int /\ TailNumber \in Int /\ Newest = TailNumber
         /\ \A q \in Num(head)..TailNumber : Standing(q) /\ EntryFor(current, q) \in Entries
         /\ \A e \in Entries : value[e] # Null =>
              number[e] \in Num(head)..TailNumber /\ EntryFor(current, number[e]) = e
<1>1. \A c \in Consumers : ~Taking(c) /\ ~At(c, "clear")
  BY DEF Quiet, Taking, At
<1>2. producer.undone = 0 /\ Len(producer.chain) = 0 /\ Newest = TailNumber /\ TailNumber \in Int
  BY NewestFacts DEF Quiet, Producing
<1>3. head \in Nat /\ head >= Start /\ Start \in Nat
  BY HistFacts, SizeFacts DEF Found, Intervals
<1>4. PICK a \in Int : a = Num(head)
  BY <1>3, NumFacts
<1>5. PICK s \in Int : s = Num(Start) /\ s <= a
  <2>1. PICK s \in Int : s = Num(Start)
    BY StartFacts
  <2>2. From(s) <= Start
    BY <2>1, <1>3, StartFacts
  <2>3. From(s) \in Int
    BY <2>1, FromFacts
  <2>4. From(s) <= head
    BY <2>2, <2>3, <1>3
  <2>5. Num(head) >= s
    BY <1>3, <2>1, <2>4, NumIs
  <2> QED BY <2>1, <2>5, <1>4
<1>6. ASSUME NEW q \in a..TailNumber PROVE Standing(q) /\ EntryFor(current, q) \in Entries
  <2>1. q \in Int /\ q \in s..TailNumber /\ q >= a
    BY <1>2, <1>5, <1>6
  <2>2. head < From(q + 1)
    BY <1>3, <1>4, <2>1, NumIs
  <2>3. ~Done(q)
    <3>1. From(q + 1) \in Int /\ head \in Int
      BY <1>3, <2>1, FromFacts
    <3> QED BY <2>2, <3>1 DEF Done
  <2>4. Standing(q)
    BY <2>1, <2>3, <1>5 DEF Found, Located, Present
  <2>5. current \in 1..current
    BY TailPlaces DEF Found, Indexed
  <2> QED BY <2>1, <2>4, <2>5, PosFacts DEF Found, Indexed
<1>7. ASSUME NEW e \in Entries, value[e] # Null
      PROVE  number[e] \in a..TailNumber /\ EntryFor(current, number[e]) = e
  <2>1. PICK q \in Int : q = number[e]
    BY EntryFacts
  <2>2. q <= TailNumber /\ EntryFor(current, number[e]) = e
    <3>1. Numbered
      BY DEF Found, Indexed
    <3> QED BY <3>1, <2>1, <1>2, <1>7, LiveNumbers
  <2>3. Counted(q) # Offsets
    BY <1>1, <1>7, <2>1 DEF Cleared
  <2>4. PICK o \in Offsets : o \notin Counted(q)
    BY <2>3, CountedIs
  <2>5. ~(From(q) + o < head)
    BY <1>1, <2>4 DEF Counted
  <2>6. From(q) \in Int /\ From(q + 1) = From(q) + BLOCK_SIZE /\ o < BLOCK_SIZE /\ o \in Int /\ BLOCK_SIZE \in Int
    <3>1. From(q) \in Int /\ From(q + 1) = From(q) + BLOCK_SIZE
      BY <2>1, FromFacts
    <3> QED BY <3>1, SizeFacts DEF Offsets
  <2>7. head < From(q + 1)
    BY <1>3, <2>5, <2>6
  <2>8. a <= q
    BY <1>3, <1>4, <2>1, <2>7, NumIs
  <2> QED BY <1>2, <2>1, <2>2, <2>8
<1> QED BY <1>1, <1>2, <1>4, <1>6, <1>7

\* A one to one function counts the set that it maps onto.
LEMMA OneToOne ==
  ASSUME NEW S, IsFiniteSet(S), NEW f, f = [x \in S |-> f[x]],
         \A x, y \in S : f[x] = f[y] => x = y,
         NEW T, \A x \in S : f[x] \in T, \A t \in T : \E x \in S : f[x] = t
  PROVE  IsFiniteSet(T) /\ Cardinality(T) = Cardinality(S)
<1>1. f \in [S -> T]
  OBVIOUS
<1>2. f \in Bijection(S, T)
  BY <1>1 DEF Bijection, Injection, Surjection, IsInjective
<1>3. ExistsBijection(S, T)
  BY <1>2 DEF ExistsBijection
<1> QED BY <1>3, FS_Bijection

\* The counters of a queue at rest, and what they say of the blocks.
LEMMA QuietIndexes ==
  ASSUME Types, Claims, Found
  PROVE  /\ head \in Int /\ End \in Int /\ head <= End /\ 0 <= head /\ End - head < Half
         /\ Minus(tailIndex, headIndex) = End - head
         /\ \A j \in Int : Plus(headIndex, j) = (head + j) % W
         /\ headIndex # tailIndex <=> head < End
         /\ tailIndex = End % W /\ tailIndex % BLOCK_SIZE = End % BLOCK_SIZE
         /\ Num(head) \in Int /\ TailNumber \in Int /\ Num(End) \in Int
         /\ head < End => Num(head) <= TailNumber
         /\ Num(head) <= TailNumber + 1
         /\ End % BLOCK_SIZE = 0 => Num(End) = TailNumber + 1
         /\ End % BLOCK_SIZE # 0 => Num(End) = TailNumber
         /\ From(TailNumber) < End /\ From(TailNumber) \in Int
<1>1. head \in Nat /\ End \in Nat /\ head <= End /\ End - head < Half
  BY ClaimsFacts
<1>2. tailIndex = End % W /\ headIndex = head % W
  BY DEF Claims, Numbers
<1>3. W \in Nat \ {0} /\ W = 2 * Half /\ Half \in Nat \ {0} /\ BLOCK_SIZE \in Nat \ {0} /\ BLOCK_SIZE > 1
  BY SizeFacts
<1>4. Minus(tailIndex, headIndex) = End - head
  <2>1. Minus(tailIndex, headIndex) = (End - head) % W
    BY <1>1, <1>2, Wrapped
  <2>2. End - head \in Int /\ 0 <= End - head /\ End - head < W
    BY <1>1, <1>3
  <2>3. (End - head) % W = End - head
    BY <2>2, <1>3, ModSmall
  <2> QED BY <2>1, <2>3
<1>5. \A j \in Int : Plus(headIndex, j) = (head + j) % W
  BY <1>1, <1>2, Wrapped
<1>6. headIndex # tailIndex <=> head < End
  <2>1. headIndex = tailIndex => End - head = 0
    <3>1. tailIndex \in Int
      BY HistFacts, <1>3 DEF Indexes
    <3>2. tailIndex - tailIndex = 0
      BY <3>1
    <3>3. 0 % W = 0
      BY <1>3, ModSmall
    <3> QED BY <3>2, <3>3, <1>4 DEF Minus
  <2>2. head = End => headIndex = tailIndex
    BY <1>2
  <2> QED BY <2>1, <2>2, <1>1
<1>7. tailIndex % BLOCK_SIZE = End % BLOCK_SIZE
  BY <1>1, <1>2, WrappedBase
<1>8. /\ TailNumber \in Int /\ From(TailNumber) \in Int /\ From(TailNumber + 1) = From(TailNumber) + BLOCK_SIZE
      /\ From(TailNumber) < End /\ End <= From(TailNumber + 1)
  BY EndFacts DEF Types
<1>9. PICK t \in Int : t = TailNumber
  BY <1>8
<1>10. t + 1 \in Int /\ From(t) \in Int /\ From(t + 1) = From(t) + BLOCK_SIZE
       /\ From((t + 1) + 1) = From(t + 1) + BLOCK_SIZE /\ From(t + 1) \in Int
  <2>1. t + 1 \in Int
    BY <1>9
  <2> QED BY <1>9, <2>1, FromFacts
<1>11. Num(head) \in Int /\ Num(End) \in Int
  BY <1>1, NumFacts
<1>12. head < End => Num(head) <= t
  <2>1. head < End => head < From(t + 1)
    BY <1>1, <1>8, <1>9, <1>10
  <2> QED BY <2>1, <1>1, <1>9, NumIs
<1>13. Num(head) <= t + 1
  <2>1. head < From((t + 1) + 1)
    BY <1>1, <1>3, <1>8, <1>9, <1>10
  <2> QED BY <2>1, <1>1, <1>10, NumIs
<1>14. (End % BLOCK_SIZE = 0 => Num(End) = t + 1) /\ (End % BLOCK_SIZE # 0 => Num(End) = t)
  <2>1. End = From(Num(End)) + (End % BLOCK_SIZE)
    BY <1>1, NumFacts
  <2>2. CASE End = From(t + 1)
    <3>1. 0 \in Offsets /\ From(t + 1) + 0 = From(t + 1)
      BY <1>3, <1>10 DEF Offsets
    <3>2. Num(From(t + 1) + 0) = t + 1 /\ (From(t + 1) + 0) % BLOCK_SIZE = 0
      BY <3>1, <1>10, NumFacts
    <3> QED BY <2>2, <3>1, <3>2
  <2>3. CASE End # From(t + 1)
    <3>1. From(t) <= End /\ End < From(t + 1)
      BY <2>3, <1>1, <1>8, <1>9, <1>10
    <3>2. Num(End) = t
      BY <3>1, <1>1, <1>9, NumIs
    <3>3. End % BLOCK_SIZE # 0
      BY <2>1, <3>2, <1>8, <1>9, <1>10
    <3> QED BY <3>2, <3>3
  <2> QED BY <2>2, <2>3
<1> QED BY <1>1, <1>2, <1>4, <1>5, <1>6, <1>7, <1>8, <1>9, <1>11, <1>12, <1>13, <1>14

\* The keys that should be in the index are those of the blocks from that of
\* the head to that of the tail.
LEMMA LiveIs ==
  ASSUME Types, Claims, Found
  PROVE  Live = {From(q) % W : q \in Num(head)..TailNumber}
<1>0. /\ head \in Int /\ End \in Int /\ head <= End /\ Num(head) \in Int /\ TailNumber \in Int /\ Num(End) \in Int
      /\ Minus(tailIndex, headIndex) = End - head /\ From(TailNumber) < End /\ From(TailNumber) \in Int
      /\ Num(head) <= TailNumber + 1
  BY QuietIndexes
<1>1. PICK a \in Int : a = Num(head)
  BY <1>0
<1>2. PICK t \in Int : t = TailNumber
  BY <1>0
<1>3. Live = {Base(Plus(headIndex, j)) : j \in 0..((End - head) - 1)}
               \cup (IF tailIndex % BLOCK_SIZE = 0 THEN {} ELSE {Base(tailIndex)})
  BY <1>0 DEF Live
<1>4. ASSUME NEW j \in Int PROVE Base(Plus(headIndex, j)) = From(Num(head + j)) % W /\ head + j \in Int
  <2>1. head + j \in Int
    BY <1>0
  <2>2. Plus(headIndex, j) = (head + j) % W
    BY QuietIndexes
  <2> QED BY <2>1, <2>2, WrappedBase
<1>5. Base(tailIndex) = From(Num(End)) % W
  <2>1. tailIndex = End % W
    BY QuietIndexes
  <2> QED BY <2>1, <1>0, WrappedBase
<1>6. tailIndex % BLOCK_SIZE = 0 \/ Num(End) \in a..t
  <2>1. tailIndex % BLOCK_SIZE # 0 => Num(End) = t
    BY <1>2, QuietIndexes
  <2>2. a <= Num(End)
    <3>1. From(a) <= head
      BY <1>0, <1>1, NumIs
    <3>2. From(a) \in Int
      BY FromFacts
    <3>3. From(a) <= End
      BY <3>1, <3>2, <1>0
    <3> QED BY <3>3, <1>0, NumIs
  <2> QED BY <2>1, <2>2, <1>2
<1>7. ASSUME NEW j \in 0..((End - head) - 1) PROVE Num(head + j) \in a..t
  <2>1. j \in Int /\ 0 <= j /\ head + j \in Int /\ head <= head + j /\ head + j < End
    BY <1>0
  <2>2. PICK x \in Int : x = head + j
    BY <2>1
  <2>3. Num(x) \in Int
    BY NumFacts
  <2>4. From(a) <= head /\ From(a) \in Int
    <3>1. From(a) \in Int
      BY FromFacts
    <3> QED BY <3>1, <1>0, <1>1, NumIs
  <2>5. Num(x) >= a
    <3>1. From(a) <= x
      BY <2>1, <2>2, <2>4, <1>0
    <3> QED BY <3>1, NumIs
  <2>6. Num(x) <= t
    <3>1. End <= From(t + 1) /\ From(t + 1) \in Int
      <4>1. End <= From(TailNumber + 1) /\ From(TailNumber + 1) = From(TailNumber) + BLOCK_SIZE
        BY EndFacts DEF Types
      <4> QED BY <4>1, <1>0, <1>2, SizeFacts
    <3>2. x < From(t + 1)
      BY <3>1, <2>1, <2>2, <1>0
    <3> QED BY <3>2, NumIs
  <2> QED BY <2>2, <2>3, <2>5, <2>6
<1>8. Live \subseteq {From(q) % W : q \in a..t}
  <2> SUFFICES ASSUME NEW v \in Live PROVE \E q \in a..t : v = From(q) % W
    OBVIOUS
  <2>1. CASE \E j \in 0..((End - head) - 1) : v = Base(Plus(headIndex, j))
    <3>1. PICK j \in 0..((End - head) - 1) : v = Base(Plus(headIndex, j))
      BY <2>1
    <3>2. j \in Int
      BY <1>0
    <3> QED BY <3>1, <3>2, <1>4, <1>7
  <2>2. CASE tailIndex % BLOCK_SIZE # 0 /\ v = Base(tailIndex)
    BY <2>2, <1>5, <1>6
  <2> QED BY <2>1, <2>2, <1>3
<1>9. ASSUME NEW q \in a..t PROVE From(q) % W \in Live
  <2>1. q \in Int /\ a <= q /\ q <= t /\ From(q) \in Int
    <3>1. q \in Int /\ a <= q /\ q <= t
      OBVIOUS
    <3> QED BY <3>1, FromFacts
  <2>2. From(q) < End
    <3>1. From(q) <= From(t)
      BY <2>1, FromFacts
    <3> QED BY <3>1, <2>1, <1>0, <1>2
  <2>3. \A x \in Int : head <= x /\ x < End /\ Num(x) = q => From(q) % W \in Live
    <3> SUFFICES ASSUME NEW x \in Int, head <= x, x < End, Num(x) = q PROVE From(q) % W \in Live
      OBVIOUS
    <3>1. x - head \in 0..((End - head) - 1) /\ x - head \in Int /\ head + (x - head) = x
      BY <1>0
    <3>2. Base(Plus(headIndex, x - head)) = From(q) % W
      <4>1. PICK j \in Int : j = x - head /\ head + j = x
        BY <3>1
      <4>2. Base(Plus(headIndex, j)) = From(Num(head + j)) % W
        BY <1>4
      <4> QED BY <4>1, <4>2
    <3> QED BY <3>1, <3>2, <1>3
  <2>4. CASE head <= From(q)
    <3>1. Num(From(q)) = q
      <4>1. From(q) <= From(q) /\ From(q) < From(q + 1)
        <5>1. From(q + 1) = From(q) + BLOCK_SIZE
          BY <2>1, FromFacts
        <5> QED BY <5>1, <2>1, SizeFacts
      <4> QED BY <4>1, <2>1, NumIs
    <3> QED BY <3>1, <2>1, <2>2, <2>3, <2>4
  <2>5. CASE From(q) < head
    <3>1. q = a
      <4>1. Num(head) >= q
        BY <2>5, <2>1, <1>0, NumIs
      <4> QED BY <4>1, <2>1, <1>1
    <3>2. CASE head < End
      BY <3>1, <3>2, <2>3, <1>0, <1>1
    <3>3. CASE head = End
      <4>1. Num(End) = q /\ q <= t
        BY <3>1, <3>3, <2>1, <1>1
      <4>2. tailIndex % BLOCK_SIZE # 0
        <5> SUFFICES ASSUME tailIndex % BLOCK_SIZE = 0 PROVE FALSE
          OBVIOUS
        <5>1. Num(End) = TailNumber + 1
          BY QuietIndexes
        <5> QED BY <5>1, <4>1, <1>2, <2>1
      <4> QED BY <4>1, <4>2, <1>3, <1>5
    <3> QED BY <3>2, <3>3, <1>0
  <2> QED BY <2>1, <2>4, <2>5, <1>0
<1> QED BY <1>1, <1>2, <1>8, <1>9

\* Blocks that are in the index at the same time have different keys.
LEMMA KeysApart ==
  ASSUME Types, Claims, NEW p \in Num(head)..TailNumber, NEW q \in Num(head)..TailNumber,
         Num(head) \in Int, TailNumber \in Int, From(p) % W = From(q) % W
  PROVE  p = q
<1>0. p \in Int /\ q \in Int /\ Num(head) <= p /\ p <= TailNumber /\ Num(head) <= q /\ q <= TailNumber
  OBVIOUS
<1>1. head \in Int /\ From(TailNumber + 1) - head < Half /\ W = 2 * Half /\ Half \in Nat \ {0}
  BY ClaimsFacts, SizeFacts
<1>2. ASSUME NEW r \in Int, Num(head) <= r, r <= TailNumber
      PROVE  /\ From(r) \in Int /\ head - BLOCK_SIZE < From(r) /\ From(r) < head + Half - BLOCK_SIZE
             /\ BLOCK_SIZE \in Int
  <2>1. From(r) \in Int /\ From(r + 1) = From(r) + BLOCK_SIZE
    BY FromFacts
  <2>2. head < From(r + 1)
    BY <1>1, <1>2, NumIs
  <2>3. From(r + 1) <= From(TailNumber + 1) /\ From(TailNumber + 1) \in Int
    <3>1. r + 1 \in Int /\ TailNumber + 1 \in Int /\ r + 1 <= TailNumber + 1
      BY <1>2
    <3> QED BY <3>1, FromFacts
  <2>4. BLOCK_SIZE \in Int
    BY SizeFacts
  <2> QED BY <2>1, <2>2, <2>3, <2>4, <1>1
<1>3. PICK x \in Int, y \in Int : x = From(p) /\ y = From(q)
  BY <1>0, <1>2
<1>4. x - y < Half /\ y - x < Half
  BY <1>0, <1>1, <1>2, <1>3
<1>5. (x - y) % W = 0
  <2>1. W \in Nat \ {0} /\ x % W = y % W
    BY <1>1, <1>3
  <2>2. ((x % W) - (y % W)) % W = (x - y) % W
    BY <2>1, ModSum
  <2>3. x % W \in Int
    BY <2>1, Division
  <2>4. (y % W) - (y % W) = 0
    BY <2>1, <2>3
  <2>5. 0 % W = 0
    BY <2>1, ModSmall
  <2> QED BY <2>1, <2>2, <2>4, <2>5
<1>6. x = y
  <2>1. W \in Nat \ {0} /\ x - y \in Int
    BY <1>1
  <2>2. CASE 0 <= x - y
    <3>1. 0 <= x - y /\ x - y < W
      BY <2>2, <1>1, <1>4
    <3>2. (x - y) % W = x - y
      BY <2>1, <3>1, ModSmall
    <3> QED BY <3>2, <1>5
  <2>3. CASE x - y < 0
    <3>1. -W <= x - y /\ x - y < 0
      BY <2>3, <1>1, <1>4
    <3>2. (x - y) % W = (x - y) + W
      BY <2>1, <3>1, ModSmall
    <3> QED BY <3>2, <1>1, <1>4, <1>5
  <2> QED BY <2>1, <2>2, <2>3
<1>7. (p < q => From(p) < From(q)) /\ (q < p => From(q) < From(p))
  BY <1>0, FromFacts
<1> QED BY <1>0, <1>3, <1>6, <1>7

\* At rest the block index holds the blocks of the elements that are left.
LEMMA IndexIsExact ==
  ASSUME Types, Claims, Found, Cleared, Quiet
  PROVE  IndexExact
<1> DEFINE used == {e \in Entries : value[e] # Null}
<1>1. \A e \in used : /\ e \in Entries /\ number[e] \in Num(head)..TailNumber
                      /\ EntryFor(current, number[e]) = e /\ key[e] = From(number[e]) % W
  <2> SUFFICES ASSUME NEW e \in Entries, value[e] # Null
               PROVE  /\ number[e] \in Num(head)..TailNumber
                      /\ EntryFor(current, number[e]) = e /\ key[e] = From(number[e]) % W
    OBVIOUS
  <2>1. number[e] # -1
    BY LiveNumbers DEF Found, Indexed
  <2> QED BY <2>1, QuietEntries DEF Found, Indexed, Numbered
<1>2. \A q \in Num(head)..TailNumber : EntryFor(current, q) \in used /\ number[EntryFor(current, q)] = q
  BY QuietEntries DEF Standing
<1>3. Num(head) \in Int /\ TailNumber \in Int
  BY QuietEntries
<1>4. IsFiniteSet(used)
  <2>1. IsFiniteSet(Entries)
    BY IndexSizesFit, FS_Interval DEF Entries
  <2> QED BY <2>1, FS_Subset
<1>5. Live = {From(q) % W : q \in Num(head)..TailNumber}
  BY LiveIs
<1> HIDE DEF used
<1>6. \A e \in used : key[e] \in Live
  BY <1>1, <1>5
<1>7. \A v \in Live : \E e \in used : key[e] = v
  <2> SUFFICES ASSUME NEW q \in Num(head)..TailNumber PROVE \E e \in used : key[e] = From(q) % W
    BY <1>5
  <2>1. PICK e : e = EntryFor(current, q)
    OBVIOUS
  <2> QED BY <2>1, <1>1, <1>2
<1>8. {key[e] : e \in used} = Live
  BY <1>6, <1>7
<1>9. Cardinality(Live) = Cardinality(used)
  <2> DEFINE f == [e \in used |-> key[e]]
  <2>1. \A x, y \in used : f[x] = f[y] => x = y
    <3> SUFFICES ASSUME NEW x \in used, NEW y \in used, key[x] = key[y] PROVE x = y
      OBVIOUS
    <3>1. PICK p, q : p = number[x] /\ q = number[y]
      OBVIOUS
    <3>2. p \in Num(head)..TailNumber /\ q \in Num(head)..TailNumber /\ From(p) % W = From(q) % W
      BY <3>1, <1>1
    <3>3. p = q
      BY <3>2, <1>3, KeysApart
    <3> QED BY <3>1, <3>3, <1>1
  <2>2. \A x \in used : f[x] \in Live
    BY <1>6
  <2>3. \A v \in Live : \E x \in used : f[x] = v
    BY <1>7
  <2>4. f = [x \in used |-> f[x]]
    OBVIOUS
  <2> HIDE DEF f
  <2> QED BY <2>1, <2>2, <2>3, <2>4, <1>4, OneToOne
<1> QED BY <1>8, <1>9 DEF IndexExact, used

\* What the destructor finds at an index.
LEMMA ValueAt ==
  ASSUME Types, Claims, Found, Cleared, Quiet, NEW q \in Num(head)..TailNumber
  PROVE  /\ ValueOf(From(q) % W) = value[EntryFor(current, q)] /\ q \in Int
         /\ EntryFor(current, q) \in Entries /\ number[EntryFor(current, q)] = q
         /\ value[EntryFor(current, q)] # Null /\ value[EntryFor(current, q)] \in Blocks
<1>1. Num(head) \in Int /\ TailNumber \in Int /\ Newest = TailNumber
      /\ Standing(q) /\ EntryFor(current, q) \in Entries
  BY QuietEntries
<1>2. q \in Int /\ q <= Newest
  BY <1>1
<1>3. From(q) \in Int /\ Num(From(q)) = q
  <2>1. From(q) \in Int /\ From(q + 1) = From(q) + BLOCK_SIZE
    BY <1>2, FromFacts
  <2>2. From(q) <= From(q) /\ From(q) < From(q + 1)
    BY <2>1, SizeFacts
  <2> QED BY <2>1, <2>2, <1>2, NumIs
<1>4. Placed(From(q) % W) = EntryFor(current, q)
  BY <1>1, <1>2, <1>3, PlacedIs
<1>5. value[EntryFor(current, q)] \in Blocks
  BY <1>1, EntryFacts DEF Standing
<1> QED BY <1>1, <1>2, <1>4, <1>5 DEF ValueOf, Standing

\* The place of the j-th element that is left.
LEMMA DestructedIs ==
  ASSUME Types, Claims, Found, Cleared, Quiet, NEW x \in Int, head <= x, x < End
  PROVE  /\ Num(x) \in Num(head)..TailNumber
         /\ Destructed(x - head) = <<value[EntryFor(current, Num(x))], x % BLOCK_SIZE>>
<1>1. head \in Int /\ End \in Int
  BY QuietIndexes
<1>2. PICK q \in Int : q = Num(x)
  BY NumFacts
<1>3. q \in Num(head)..TailNumber
  <2>1. Num(head) \in Int /\ TailNumber \in Int
    BY QuietIndexes
  <2>2. From(Num(head)) <= head /\ From(Num(head)) \in Int
    <3>1. From(Num(head)) <= head
      BY <1>1, <2>1, NumIs
    <3> QED BY <3>1, <2>1, FromFacts
  <2>3. From(Num(head)) <= x
    BY <2>2, <1>1
  <2>4. Num(head) <= q
    BY <2>1, <2>3, <1>2, NumIs
  <2>5. End <= From(TailNumber + 1) /\ From(TailNumber + 1) \in Int
    <3>1. End <= From(TailNumber + 1) /\ From(TailNumber + 1) = From(TailNumber) + BLOCK_SIZE
          /\ From(TailNumber) \in Int
      BY EndFacts DEF Types
    <3> QED BY <3>1, SizeFacts
  <2>6. x < From(TailNumber + 1)
    BY <2>5, <1>1
  <2>7. q <= TailNumber
    BY <2>1, <2>6, <1>2, NumIs
  <2> QED BY <2>1, <2>4, <2>7
<1>4. PICK j \in Int : j = x - head /\ head + j = x
  BY <1>1
<1>5. Plus(headIndex, j) = x % W
  BY <1>4, QuietIndexes
<1>6. Base(x % W) = From(q) % W /\ (x % W) % BLOCK_SIZE = x % BLOCK_SIZE
  BY <1>2, WrappedBase
<1>7. ValueOf(From(q) % W) = value[EntryFor(current, q)]
  BY <1>3, ValueAt
<1>8. Destructed(j) = <<value[EntryFor(current, q)], x % BLOCK_SIZE>>
  BY <1>5, <1>6, <1>7 DEF Destructed
<1> QED BY <1>2, <1>3, <1>4, <1>8

\* The destructor destroys the elements that are left, and no others.
LEMMA DestroysRest ==
  ASSUME Types, Claims, Found, Contents, Cleared, Quiet
  PROVE  {p \in Blocks \X Offsets : elems[p[1]][p[2]] # Null} = {Destructed(j) : j \in 0..(Remaining - 1)}
<1>1. head \in Int /\ End \in Int /\ head <= End /\ Remaining = End - head
  BY QuietIndexes DEF Remaining
<1>2. ASSUME NEW b \in Blocks, NEW o \in Offsets, elems[b][o] # Null
      PROVE  \E j \in 0..(Remaining - 1) : Destructed(j) = <<b, o>>
  <2>1. PICK e \in Entries : value[e] = b
    BY <1>2 DEF Contents, Vacant, InEntry
  <2>2. b # Null
    BY NullAssumption
  <2>3. PICK q \in Int : q = number[e]
    BY EntryFacts
  <2>4. EntryFor(current, q) = e
    BY <2>1, <2>2, <2>3, QuietEntries
  <2>5. PICK x \in Int : x = From(q) + o /\ Num(x) = q /\ x % BLOCK_SIZE = o
    <3>1. From(q) + o \in Int
      BY CountedIs
    <3> QED BY <3>1, NumFacts
  <2>6. ElementAt(x) # Null
    BY <1>2, <2>1, <2>2, <2>3, <2>5 DEF Contents, Filled
  <2>7. x < End /\ Unmoved(x)
    BY <2>6 DEF ElementAt
  <2>8. head <= x
    <3>1. \A c \in Consumers : ~Taking(c)
      BY QuietEntries
    <3> QED BY <3>1, <2>7, <1>1 DEF Unmoved, Moving
  <2>9. Destructed(x - head) = <<b, o>>
    BY <2>1, <2>4, <2>5, <2>7, <2>8, DestructedIs
  <2>10. x - head \in 0..(Remaining - 1)
    BY <1>1, <2>7, <2>8
  <2> QED BY <2>9, <2>10
<1>3. ASSUME NEW j \in 0..(Remaining - 1)
      PROVE  \E b \in Blocks, o \in Offsets : Destructed(j) = <<b, o>> /\ elems[b][o] # Null
  <2>1. PICK x \in Int : x = head + j /\ x - head = j /\ head <= x /\ x < End
    <3>1. j \in Int /\ 0 <= j /\ j < End - head
      BY <1>1
    <3> QED BY <3>1, <1>1
  <2>2. PICK q : q = Num(x)
    OBVIOUS
  <2>3. PICK e : e = EntryFor(current, q)
    OBVIOUS
  <2>4. PICK o : o = x % BLOCK_SIZE
    OBVIOUS
  <2>5. q \in Num(head)..TailNumber /\ Destructed(j) = <<value[e], o>>
    BY <2>1, <2>2, <2>3, <2>4, DestructedIs
  <2>6. e \in Entries /\ number[e] = q /\ value[e] # Null /\ value[e] \in Blocks
    BY <2>3, <2>5, ValueAt
  <2>7. o \in Offsets /\ x = From(q) + o
    BY <2>2, <2>4, NumFacts
  <2>8. elems[value[e]][o] = ElementAt(x)
    BY <2>6, <2>7 DEF Contents, Filled
  <2>9. ElementAt(x) = x - Start + 1
    BY <2>1 DEF ElementAt, Unmoved
  <2>10. x - Start + 1 # Null
    <3>1. sent \in 0..MaxItems /\ MaxItems \in Nat /\ Start \in Nat /\ Start <= head
      BY SizesFit DEF Types, StoreTypes, Found, Intervals
    <3>2. x - Start + 1 \in 1..MaxItems
      BY <3>1, <2>1, <1>1 DEF End
    <3> QED BY <3>2, NullAssumption
  <2> QED BY <2>5, <2>6, <2>7, <2>8, <2>9, <2>10
<1> DEFINE D == {Destructed(j) : j \in 0..(Remaining - 1)}
<1>4. \A b \in Blocks, o \in Offsets : elems[b][o] # Null => <<b, o>> \in D
  BY <1>2
<1>5. \A p \in D : \E b \in Blocks, o \in Offsets : p = <<b, o>> /\ elems[b][o] # Null
  BY <1>3
<1> HIDE DEF D
<1>6. \A p \in Blocks \X Offsets : elems[p[1]][p[2]] # Null => p \in D
  BY <1>4
<1>7. \A p \in D : p \in Blocks \X Offsets /\ elems[p[1]][p[2]] # Null
  BY <1>5
<1>8. {p \in Blocks \X Offsets : elems[p[1]][p[2]] # Null} = D
  BY <1>6, <1>7
<1> QED BY <1>8 DEF D

\* All that the destructor gives back, in order.
Freed == FreedOnTheWay \o FreedLast

\* The blocks that the destructor gives back on its way are those before the
\* tail's.
LEMMA OnTheWay ==
  ASSUME Types, Claims, Found, Cleared, Quiet, NEW a \in Int, a = Num(head), NEW t \in Int, t = TailNumber
  PROVE  /\ FreedOnTheWay \in Seq(Blocks) /\ Len(FreedOnTheWay) = IF a <= t THEN t - a ELSE 0
         /\ \A n \in 1..(t - a) : FreedOnTheWay[n] = value[EntryFor(current, a + (n - 1))]
<1>1. head \in Int /\ End \in Int /\ a <= t + 1 /\ 0 <= head /\ head <= End
  BY QuietIndexes
<1>2. BlocksBetween(headIndex, Minus(tailIndex, 1)) = t - a
  <2>1. headIndex = head % W /\ Minus(tailIndex, 1) = (End - 1) % W
    <3>1. headIndex = head % W /\ tailIndex = End % W
      BY DEF Claims, Numbers
    <3> QED BY <3>1, <1>1, Wrapped
  <2>2. End - 1 \in Int /\ Num(End - 1) = t
    BY <1>1 DEF TailNumber
  <2>3. -Half <= From(t - a) /\ From(t - a) < Half
    <3>1. From(t - a) = From(t) - From(a) /\ From(t) \in Int /\ From(a) \in Int
          /\ From(t + 1) = From(t) + BLOCK_SIZE /\ From(a + 1) = From(a) + BLOCK_SIZE
      BY FromFacts
    <3>2. head < From(a + 1)
      BY <1>1, NumIs
    <3>3. From(t + 1) - head < Half
      BY ClaimsFacts
    <3>4. Half >= BLOCK_SIZE /\ BLOCK_SIZE \in Nat /\ Half \in Nat
      BY SizeFacts
    <3>5. From(a) <= From(t + 1)
      <4>1. t + 1 \in Int
        OBVIOUS
      <4> QED BY <4>1, <1>1, FromFacts
    <3> QED BY <3>1, <3>2, <3>3, <3>4, <3>5, <1>1
  <2>4. PICK z \in Int : z = End - 1 /\ Num(z) = t
    BY <2>2
  <2>5. BlocksBetween(head % W, z % W) = Num(z) - Num(head)
    <3>1. Num(z) - Num(head) = t - a
      BY <2>4
    <3> QED BY <3>1, <2>3, <2>4, <1>1, Between
  <2> QED BY <2>1, <2>4, <2>5
<1>3. FreedOnTheWay = [n \in 1..(t - a) |-> ValueOf(Plus(Base(headIndex), BLOCK_SIZE * (n - 1)))]
  BY <1>2 DEF FreedOnTheWay
<1>4. ASSUME NEW n \in 1..(t - a)
      PROVE  /\ ValueOf(Plus(Base(headIndex), BLOCK_SIZE * (n - 1))) = value[EntryFor(current, a + (n - 1))]
             /\ value[EntryFor(current, a + (n - 1))] \in Blocks
  <2>1. PICK q \in Int : q = a + (n - 1) /\ a <= q /\ q <= t
    <3>1. n \in Int /\ 1 <= n /\ n <= t - a
      OBVIOUS
    <3> QED BY <3>1
  <2>2. PICK i \in Int : i = n - 1
    OBVIOUS
  <2>3. Base(headIndex) = From(a) % W
    <3>1. headIndex = head % W
      BY DEF Claims, Numbers
    <3> QED BY <3>1, <1>1, WrappedBase
  <2>4. From(a) + From(i) = From(q) /\ From(i) = BLOCK_SIZE * i /\ From(a) \in Int /\ From(i) \in Int
    <3>1. a + i = q
      BY <2>1, <2>2
    <3> QED BY <3>1, FromFacts
  <2>5. Plus(From(a) % W, From(i)) = From(q) % W
    BY <2>4, Wrapped
  <2>6. Plus(Base(headIndex), BLOCK_SIZE * (n - 1)) = From(q) % W
    BY <2>2, <2>3, <2>4, <2>5
  <2>7. q \in Num(head)..TailNumber
    BY <2>1
  <2> QED BY <2>1, <2>6, <2>7, ValueAt
<1> DEFINE V(n) == value[EntryFor(current, a + (n - 1))]
<1>5. FreedOnTheWay = [n \in 1..(t - a) |-> V(n)] /\ \A n \in 1..(t - a) : V(n) \in Blocks
  BY <1>3, <1>4
<1> HIDE DEF V
<1>6. PICK k \in Nat : k = (IF a <= t THEN t - a ELSE 0) /\ 1..(t - a) = 1..k
  BY <1>1
<1>7. FreedOnTheWay \in [1..k -> Blocks] /\ \A n \in 1..(t - a) : FreedOnTheWay[n] = V(n)
  BY <1>5, <1>6
<1>8. FreedOnTheWay \in Seq(Blocks)
  BY <1>7
<1>9. Len(FreedOnTheWay) = k
  BY <1>7, <1>8, LenProperties
<1> QED BY <1>6, <1>7, <1>8, <1>9 DEF V

\* The last is the tail's, if it is in the index.
LEMMA LastIs ==
  ASSUME Types, Claims, Found, Contents, Cleared, Quiet, NEW a \in Int, a = Num(head), NEW t \in Int, t = TailNumber
  PROVE  /\ a <= t => FreedLast = <<value[EntryFor(current, t)]>>
         /\ ~(a <= t) => FreedLast = <<>>
<1> DEFINE some == headIndex # tailIndex
           part == tailIndex % BLOCK_SIZE # 0
<1>1. some \/ part <=> a <= t
  <2>1. /\ head \in Int /\ End \in Int /\ head <= End /\ (some <=> head < End)
        /\ head < End => a <= t
        /\ part <=> End % BLOCK_SIZE # 0
        /\ End % BLOCK_SIZE = 0 => Num(End) = t + 1
        /\ End % BLOCK_SIZE # 0 => Num(End) = t
    <3>1. some <=> head < End
      BY QuietIndexes
    <3>2. part <=> End % BLOCK_SIZE # 0
      BY QuietIndexes
    <3> HIDE DEF some, part
    <3> QED BY <3>1, <3>2, QuietIndexes
  <2> HIDE DEF some, part
  <2>2. CASE head < End
    BY <2>1, <2>2
  <2>3. CASE head = End /\ End % BLOCK_SIZE = 0
    <3>1. a = t + 1
      BY <2>1, <2>3
    <3>2. ~(a <= t)
      BY <3>1
    <3>3. ~some /\ ~part
      BY <2>1, <2>3
    <3> QED BY <3>2, <3>3
  <2>4. CASE head = End /\ End % BLOCK_SIZE # 0
    <3>1. a <= t
      BY <2>1, <2>4
    <3> QED BY <3>1, <2>1, <2>4
  <2>5. head < End \/ head = End
    BY <2>1
  <2> QED BY <2>2, <2>3, <2>4, <2>5
<1>2. ASSUME a <= t PROVE value[EntryFor(current, t)] = tailBlock /\ tailBlock # Null
  <2>1. t \in Num(head)..TailNumber
    BY <1>2
  <2>2. PICK e : e = EntryFor(current, t)
    OBVIOUS
  <2>3. e \in Entries /\ number[e] = t /\ value[e] # Null
    BY <2>1, <2>2, ValueAt
  <2> QED BY <2>2, <2>3 DEF Contents, TailFound
<1> QED BY <1>1, <1>2 DEF FreedLast, forceFreeLastBlock

\* All that it gives back, in the order of their numbers.
LEMMA FreedIs ==
  ASSUME Types, Claims, Found, Contents, Cleared, Quiet, NEW a \in Int, a = Num(head), NEW t \in Int, t = TailNumber
  PROVE  /\ Freed \in Seq(Blocks) /\ Len(Freed) = (t - a) + 1 /\ (t - a) + 1 \in Nat
         /\ \A n \in 1..((t - a) + 1) : Freed[n] = value[EntryFor(current, a + (n - 1))]
<1>1. a <= t + 1
  BY QuietIndexes
<1> DEFINE s == FreedOnTheWay
           l == FreedLast
<1>2. /\ s \in Seq(Blocks) /\ Len(s) = IF a <= t THEN t - a ELSE 0
      /\ \A n \in 1..(t - a) : s[n] = value[EntryFor(current, a + (n - 1))]
  BY OnTheWay
<1>3. CASE a <= t
  <2>1. t \in Num(head)..TailNumber
    BY <1>3
  <2>2. l = <<value[EntryFor(current, t)]>> /\ value[EntryFor(current, t)] \in Blocks
    BY <1>3, <2>1, LastIs, ValueAt
  <2>3. l \in Seq(Blocks) /\ Len(l) = 1 /\ l[1] = value[EntryFor(current, t)]
    BY <2>2
  <2> HIDE DEF s, l
  <2>4. PICK k \in Nat : k = t - a
    BY <1>3
  <2>5. /\ s \o l \in Seq(Blocks) /\ Len(s \o l) = k + 1
        /\ \A n \in 1..(k + 1) : (s \o l)[n] = IF n <= k THEN s[n] ELSE l[n - k]
    <3>1. Len(s) = k
      BY <2>4, <1>2, <1>3
    <3>2. /\ s \o l \in Seq(Blocks) /\ Len(s \o l) = Len(s) + Len(l)
          /\ \A n \in 1..(Len(s) + Len(l)) : (s \o l)[n] = IF n <= Len(s) THEN s[n] ELSE l[n - Len(s)]
      <4>1. s \in Seq(Blocks) /\ l \in Seq(Blocks)
        BY <2>3, <1>2
      <4> QED BY ONLY <4>1, ConcatProperties
    <3>3. Len(s) + Len(l) = k + 1
      BY <3>1, <2>3
    <3> QED BY ONLY <3>1, <3>2, <3>3
  <2>6. ASSUME NEW n \in 1..(k + 1) PROVE (s \o l)[n] = value[EntryFor(current, a + (n - 1))]
    <3>1. n \in Int /\ 1 <= n /\ n <= k + 1
      BY <2>4
    <3>2. CASE n <= k
      <4>1. n \in 1..(t - a)
        BY <3>1, <3>2, <2>4
      <4> QED BY <4>1, <3>2, <2>5, <2>6, <1>2
    <3>3. CASE ~(n <= k)
      <4>1. n - k = 1 /\ a + (n - 1) = t
        BY <3>1, <3>3, <2>4
      <4>2. (s \o l)[n] = l[1]
        BY <4>1, <3>3, <2>5, <2>6
      <4> QED BY <4>1, <4>2, <2>3
    <3> QED BY <3>2, <3>3
  <2> QED BY <2>4, <2>5, <2>6 DEF Freed, s, l
<1>4. CASE ~(a <= t)
  <2>1. (t - a) + 1 = 0
    BY <1>1, <1>4
  <2>2. l = <<>>
    BY <1>4, LastIs
  <2>3. Len(s) = 0
    BY <1>2, <1>4
  <2>4. s = <<>>
    <3> HIDE DEF s
    <3> QED BY <2>3, <1>2, EmptySeq
  <2>5. Freed \in Seq(Blocks) /\ Len(Freed) = 0
    <3>1. Freed = <<>> \o <<>>
      BY <2>2, <2>4 DEF Freed
    <3> QED BY <3>1, EmptySeq, ConcatEmptySeq
  <2> QED BY <2>1, <2>5
<1> QED BY <1>3, <1>4

\* At rest, a block that is not in the pool is in the index.
LEMMA QuietBlocks ==
  ASSUME Types, Found, Owned, Quiet, NEW b \in Blocks
  PROVE  b \notin free <=> InEntry(b)
<1>1. b \in free \/ InEntry(b) \/ Undone(b) \/ \E c \in Consumers : AtFree(c, b)
  BY DEF Owned
<1>2. ~Undone(b)
  <2>1. producer.undone = 0
    BY NewestFacts DEF Quiet, Producing
  <2> QED BY <2>1 DEF Undone
<1>3. \A c \in Consumers : ~AtFree(c, b)
  BY DEF Quiet, AtFree, At
<1>4. b \in free => ~InEntry(b)
  BY DEF Found, Located, Apart
<1> QED BY <1>1, <1>2, <1>3, <1>4

\* The destructor gives back the blocks that are not in the pool, each once.
LEMMA FreesRest ==
  ASSUME Types, Claims, Found, Contents, Cleared, Owned, Quiet
  PROVE  /\ {Freed[n] : n \in DOMAIN Freed} = Blocks \ free
         /\ Len(Freed) = Cardinality(Blocks \ free)
<1>1. PICK a \in Int, t \in Int : a = Num(head) /\ t = TailNumber
  BY QuietIndexes
<1>2. PICK m \in Nat : m = (t - a) + 1
  BY <1>1, FreedIs
<1>3. /\ Freed \in Seq(Blocks) /\ Len(Freed) = m
      /\ \A n \in 1..m : Freed[n] = value[EntryFor(current, a + (n - 1))]
  BY <1>1, <1>2, FreedIs
<1>4. DOMAIN Freed = 1..m
  BY <1>3, LenProperties
<1>5. ASSUME NEW n \in 1..m
      PROVE  /\ a + (n - 1) \in Num(head)..TailNumber /\ a + (n - 1) \in Int
             /\ EntryFor(current, a + (n - 1)) \in Entries
             /\ number[EntryFor(current, a + (n - 1))] = a + (n - 1)
             /\ Freed[n] = value[EntryFor(current, a + (n - 1))]
             /\ Freed[n] # Null /\ Freed[n] \in Blocks
  <2>1. PICK q \in Int : q = a + (n - 1) /\ a <= q /\ q <= t
    <3>1. n \in Int /\ 1 <= n /\ n <= (t - a) + 1
      BY <1>2
    <3> QED BY <3>1
  <2>2. q \in Num(head)..TailNumber
    BY <2>1, <1>1
  <2>3. Freed[n] = value[EntryFor(current, q)]
    BY <2>1, <1>3
  <2> QED BY <2>1, <2>2, <2>3, ValueAt
<1>6. \A n \in 1..m : Freed[n] \in Blocks \ free
  BY <1>5, QuietBlocks DEF InEntry
<1>7. \A b \in Blocks \ free : \E n \in 1..m : Freed[n] = b
  <2> SUFFICES ASSUME NEW b \in Blocks, b \notin free PROVE \E n \in 1..m : Freed[n] = b
    OBVIOUS
  <2>1. PICK e \in Entries : value[e] = b
    BY QuietBlocks DEF InEntry
  <2>2. b # Null
    BY NullAssumption
  <2>3. PICK q \in Int : q = number[e] /\ a <= q /\ q <= t /\ EntryFor(current, q) = e
    <3>1. number[e] \in a..t /\ EntryFor(current, number[e]) = e
      BY <2>1, <2>2, <1>1, QuietEntries
    <3> QED BY <3>1
  <2>4. PICK n \in Int : n = (q - a) + 1 /\ a + (n - 1) = q /\ n \in 1..m
    BY <2>3, <1>2
  <2>5. Freed[n] = b
    BY <2>1, <2>3, <2>4, <1>3
  <2> QED BY <2>4, <2>5
<1>8. \A x, y \in 1..m : Freed[x] = Freed[y] => x = y
  <2> SUFFICES ASSUME NEW x \in 1..m, NEW y \in 1..m, Freed[x] = Freed[y] PROVE x = y
    OBVIOUS
  <2>1. PICK p \in Int : p = a + (x - 1)
    BY <1>5
  <2>2. PICK q \in Int : q = a + (y - 1)
    BY <1>5
  <2>3. PICK e : e = EntryFor(current, p)
    OBVIOUS
  <2>4. PICK f : f = EntryFor(current, q)
    OBVIOUS
  <2>5. e \in Entries /\ number[e] = p /\ Freed[x] = value[e] /\ Freed[x] # Null
    BY <2>1, <2>3, <1>5
  <2>6. f \in Entries /\ number[f] = q /\ Freed[y] = value[f]
    BY <2>2, <2>4, <1>5
  <2>7. e = f
    BY <2>5, <2>6 DEF Found, Located, Distinct
  <2>8. p = q
    BY <2>5, <2>6, <2>7
  <2> QED BY <2>1, <2>2, <2>8
<1>9. Cardinality(Blocks \ free) = m
  <2> DEFINE T == Blocks \ free
  <2>1. IsFiniteSet(1..m) /\ Cardinality(1..m) = m
    <3>1. 1 \in Int /\ m \in Int /\ (1 > m => m = 0) /\ m - 1 + 1 = m
      OBVIOUS
    <3> QED BY <3>1, FS_Interval
  <2>2. Freed = [n \in 1..m |-> Freed[n]]
    BY <1>3, <1>4
  <2>3. (\A n \in 1..m : Freed[n] \in T) /\ \A b \in T : \E n \in 1..m : Freed[n] = b
    BY <1>6, <1>7
  <2> HIDE DEF T, Freed
  <2>4. IsFiniteSet(T) /\ Cardinality(T) = Cardinality(1..m)
    BY ONLY <2>1, <2>2, <2>3, <1>8, OneToOne
  <2> QED BY <2>1, <2>4 DEF T
<1>10. {Freed[n] : n \in 1..m} = Blocks \ free
  BY <1>6, <1>7
<1> QED BY <1>3, <1>4, <1>9, <1>10

\* At rest, what the invariant says of the blocks is BlocksReclaimed.
LEMMA AllReclaimed ==
  Types /\ Claims /\ Found /\ Contents /\ Cleared /\ Owned => BlocksReclaimed
<1> SUFFICES ASSUME Types, Claims, Found, Contents, Cleared, Owned, Quiet
             PROVE  IndexExact /\ DestructorExact
  BY DEF BlocksReclaimed
<1>1. IndexExact
  BY IndexIsExact
<1>2. {p \in Blocks \X Offsets : elems[p[1]][p[2]] # Null} = {Destructed(j) : j \in 0..(Remaining - 1)}
  BY DestroysRest
<1>3. {Freed[n] : n \in DOMAIN Freed} = Blocks \ free /\ Len(Freed) = Cardinality(Blocks \ free)
  BY FreesRest
<1>4. DestructorExact
  BY <1>2, <1>3 DEF DestructorExact, Freed
<1> QED BY <1>1, <1>4

\* No block and no element is lost: when nobody is at work, the index holds the
\* blocks of the elements that are left and no others, and the destructor
\* destroys those elements and gives back those blocks, each once.
THEOREM BlocksReclaimedHolds == HSpec /\ []Timely => []BlocksReclaimed
BY NothingLost, AllReclaimed, PTL

\* Emptied by one consumer at a time, as traft's queues are, a sub-queue is a
\* channel and keeps its promises however long the consumer sleeps.
THEOREM ServesOneConsumer ==
  ASSUME \A c, d \in Consumers : c = d
  PROVE  HSpec => /\ ImplementsSubQueue /\ AloneGetsAll
                  /\ [](TypeOK /\ LookupRight /\ BlocksReclaimed)
<1>1. Timely
  BY OneIsTimely
<1> QED BY <1>1, Refinement, AloneGetsAllHolds, TypeCorrect, LookupRightHolds,
           BlocksReclaimedHolds, PTL
===============================================================================
