-------------------------- MODULE ProducerHash_proofs --------------------------
(***************************************************************************)
(* TLAPS proofs about ProducerHash, for every set of fibers, every hash    *)
(* and every size of the first table.                                      *)
(***************************************************************************)
EXTENDS ProducerHash, FiniteSetTheorems, SequenceTheorems, TLAPS

-------------------------------------------------------------------------------
(* The parts of the inductive invariant *)

Live == Fibers \ ended

\* Where a fiber counts itself and makes room.
Making == {"count", "grow", "resize", "unlock", "abandon", "fit", "recycle"}
\* Where a fiber has a producer that is not in mine[f] yet.
Entering == {"insert", "discount"}
Pcs == {"idle", "probe", "readd"} \cup Making \cup Entering

Table == UNION {[key : [0..(c - 1) -> Keys], value : [0..(c - 1) -> 0..MaxProducers]] :
                c \in Nat \ {0}}
Calls == [pc : Pcs, main : Nat, table : Nat, index : Nat, newCount : Nat,
          producer : 0..MaxProducers]
Exits == [producer : 0..MaxProducers, id : Ids, table : Nat, index : Nat]

Types ==
  /\ tables \in Seq(Table) /\ current > 0
  /\ hashCount \in Nat /\ resizing \in BOOLEAN
  /\ created \in 0..MaxProducers /\ inactive \subseteq 1..created
  /\ subscriber \in [Producers -> Ids]
  /\ call \in [Fibers -> Calls] /\ mine \in [Fibers -> 0..MaxProducers]
  /\ ended \subseteq Ending /\ exiting \in Exits /\ failures \in 0..MaxFailures

SlotOK(t, i) == t \in 1..current /\ i \in 0..(Capacity(t) - 1)

\* What must hold of a fiber f whose call is c and which uses m. It is at a slot
\* of a table there is, and uses nothing once it has ended.
Place(f, c, m) ==
  /\ m <= created /\ c.producer <= created
  /\ c.main \in 0..current /\ c.table \in 0..current
  /\ c.pc = "probe" => c.main \in 1..current /\ c.table <= c.main
  /\ c.pc \in Making => c.main \in 1..current
  /\ c.pc \in {"probe", "readd"} \cup Entering => SlotOK(c.table, c.index)
  /\ f \in ended => c.pc = "idle" /\ m = None

\* A producer belongs to the fiber that asked for it last, and a fiber that asks
\* for one has none.
Own(f, c, m) ==
  /\ \A p \in Producers : subscriber[p] = f => m = p \/ (c.pc \in Entering /\ c.producer = p)
  /\ m # None => subscriber[m] = f
  /\ c.pc \in {"readd"} \cup Entering => c.producer # None /\ subscriber[c.producer] = f
  /\ c.pc \in Making \cup Entering => m = None

\* The slots a search from s has passed when it is at i, in a table of size c.
Passed(s, i, c) == IF s <= i THEN s..(i - 1) ELSE (s..(c - 1)) \cup (0..(i - 1))

\* The search for f in table t finds it before an empty slot.
InTable(f, t) ==
  \E i \in 0..(Capacity(t) - 1) :
    /\ tables[t].key[i] = f
    /\ \A j \in Passed(Slot(f, t), i, Capacity(t)) : tables[t].key[j] # invalid_fiber_id

Behind(f, c) == Passed(Slot(f, c.table), c.index, Capacity(c.table))

\* A search has passed neither what it looks for nor an empty slot, and a fiber
\* that has a producer is in a table it has yet to look at.
Seek(f, c, m) ==
  /\ c.pc \in {"probe", "readd", "insert"} =>
       \A j \in Behind(f, c) : tables[c.table].key[j] # invalid_fiber_id
  /\ c.pc = "probe" => \A j \in Behind(f, c) : tables[c.table].key[j] # f
  /\ m # None => \E t \in 1..(IF c.pc = "probe" THEN c.table ELSE current) : InTable(f, t)
  /\ c.pc = "discount" => InTable(f, c.table)

Sound(f, c, m) == Place(f, c, m) /\ (f \in Live => Own(f, c, m) /\ Seek(f, c, m))

FiberOK(f) == Sound(f, call[f], mine[f])

FibersOK == \A f \in Fibers : FiberOK(f)

\* Nobody owns what is inactive or was not created.
FreeOK ==
  /\ \A p \in inactive : subscriber[p] = Other
  /\ \A p \in Producers : subscriber[p] # Other => p <= created

\* The tables give a fiber that is there a producer of its own.
EntriesOK ==
  \A t \in 1..current : \A i \in 0..(Capacity(t) - 1) :
    /\ tables[t].value[i] <= created
    /\ tables[t].key[i] \in Live =>
         tables[t].value[i] # None /\ subscriber[tables[t].value[i]] = tables[t].key[i]

\* A thread's exit gives up the producer of a fiber that has ended.
ExitOK ==
  exiting # NoExit =>
    /\ exiting.producer \in 1..created /\ exiting.producer \notin inactive
    /\ subscriber[exiting.producer] \in ended
    /\ exiting.id \notin Live
    /\ exiting.table # 0 => SlotOK(exiting.table, exiting.index)

\* Those counted in implicitProducerHashCount: for sure, and at most.
Pending == {f \in Fibers : call[f].pc \in {"grow", "resize", "unlock", "fit", "recycle"} \cup Entering}
Counted == Pending \cup ended \cup {f \in Fibers : mine[f] # None}

CountOK == Cardinality(Pending) <= hashCount /\ hashCount <= Cardinality(Counted)

\* Every producer was created for another fiber.
Served == ended \cup {f \in Fibers : \E p \in Producers : subscriber[p] = f}

ServedOK == created <= Cardinality(Served)

\* The inductive invariant.
IInv == Types /\ FibersOK /\ FreeOK /\ EntriesOK /\ ExitOK /\ CountOK /\ ServedOK

-------------------------------------------------------------------------------
(* Numbers and tables *)

\* A hash is a slot of a table of any size, and the slot after the last is the
\* first.
LEMMA Modulo ==
  ASSUME NEW c \in Nat \ {0}
  PROVE  /\ \A a \in Nat : a % c \in 0..(c - 1)
         /\ \A i \in 0..(c - 1) : (i + 1) % c = IF i + 1 = c THEN 0 ELSE i + 1
OBVIOUS

\* A power of two is a positive number: it counts the subsets of a set.
LEMMA PowerOfTwo ==
  ASSUME NEW k \in Nat
  PROVE  2^k \in Nat \ {0}
<1>1. IsFiniteSet(1..k) /\ Cardinality(1..k) = IF 1 > k THEN 0 ELSE k - 1 + 1
  <2>1. 1 \in Int /\ k \in Int
    OBVIOUS
  <2> QED BY <2>1, FS_Interval
<1>2. Cardinality(1..k) = k
  BY <1>1
<1>3. IsFiniteSet(SUBSET (1..k)) /\ Cardinality(SUBSET (1..k)) = 2^Cardinality(1..k)
  BY <1>1, FS_SUBSET
<1>4. Cardinality(SUBSET (1..k)) \in Nat
  BY <1>3, FS_CardinalityType
<1>5. Cardinality(SUBSET (1..k)) # 0
  <2>1. SUBSET (1..k) # {}
    OBVIOUS
  <2> QED BY <1>3, <2>1, FS_EmptySet
<1> QED BY <1>2, <1>3, <1>4, <1>5

\* A table is a record of two functions on the slots below its capacity.
LEMMA TableShape ==
  ASSUME Types, NEW t \in 1..current
  PROVE  /\ Capacity(t) \in Nat \ {0}
         /\ tables[t] = [key |-> tables[t].key, value |-> tables[t].value]
         /\ tables[t].key \in [0..(Capacity(t) - 1) -> Keys]
         /\ tables[t].value \in [0..(Capacity(t) - 1) -> 0..MaxProducers]
         /\ DOMAIN tables[t].key = 0..(Capacity(t) - 1)
<1>1. tables[t] \in Table
  BY ElementOfSeq DEF Types, current
<1>2. PICK c \in Nat \ {0} :
        tables[t] \in [key : [0..(c - 1) -> Keys], value : [0..(c - 1) -> 0..MaxProducers]]
  BY <1>1 DEF Table
<1>3. DOMAIN tables[t].key = 0..(c - 1)
  BY <1>2
<1>4. Cardinality(0..(c - 1)) = IF 0 > c - 1 THEN 0 ELSE c - 1 - 0 + 1
  <2>1. 0 \in Int /\ c - 1 \in Int
    OBVIOUS
  <2> QED BY <2>1, FS_Interval
<1>5. Capacity(t) = c
  BY <1>3, <1>4 DEF Capacity
<1> QED BY <1>2, <1>3, <1>5

LEMMA Slots ==
  ASSUME Types, NEW t \in 1..current, NEW id \in Ids
  PROVE  /\ Slot(id, t) \in 0..(Capacity(t) - 1)
         /\ \A i \in 0..(Capacity(t) - 1) :
              After(i, t) = IF i + 1 = Capacity(t) THEN 0 ELSE i + 1
<1>1. Capacity(t) \in Nat \ {0}
  BY TableShape
<1>2. Hash[id] \in Nat
  BY HashAssumption
<1> QED BY <1>1, <1>2, Modulo DEF Slot, After

\* A new table is empty, whatever its size, and has a slot at least.
LEMMA NewTables ==
  ASSUME NEW c \in Nat \ {0}
  PROVE  /\ NewTable(c) \in Table
         /\ NewTable(c).key = [i \in 0..(c - 1) |-> invalid_fiber_id]
         /\ NewTable(c).value = [i \in 0..(c - 1) |-> None]
<1>1. /\ [i \in 0..(c - 1) |-> invalid_fiber_id] \in [0..(c - 1) -> Keys]
      /\ [i \in 0..(c - 1) |-> None] \in [0..(c - 1) -> 0..MaxProducers]
  BY BoundsAssumption DEF Keys, None
<1>2. NewTable(c) \in [key : [0..(c - 1) -> Keys], value : [0..(c - 1) -> 0..MaxProducers]]
  BY <1>1 DEF NewTable
<1> QED BY <1>2 DEF NewTable, Table

LEMMA NewSizes ==
  ASSUME Types, NEW n \in Nat, NEW t \in 1..current
  PROVE  NewSize(n, t) \in Nat \ {0} /\ Capacity(t) <= NewSize(n, t)
<1>1. Turns(n, t) \in Nat
  <2> DEFINE T == {j \in 0..n : n >= Capacity(t) * 2^j}
  <2>1. 0 \in Int /\ n \in Int
    OBVIOUS
  <2>2. IsFiniteSet(0..n)
    BY <2>1, FS_Interval
  <2>3. T \in SUBSET (0..n)
    OBVIOUS
  <2> HIDE DEF T
  <2>4. IsFiniteSet(T)
    BY <2>2, <2>3, FS_Subset
  <2> QED BY <2>4, FS_CardinalityType DEF Turns, T
<1>2. 2^(1 + Turns(n, t)) \in Nat \ {0}
  BY <1>1, PowerOfTwo
<1>3. \A a, b \in Nat \ {0} : a * b \in Nat \ {0} /\ a <= a * b
  OBVIOUS
<1> QED BY <1>2, <1>3, TableShape DEF NewSize

\* The distances of a search, slot by slot.
LEMMA PassedNext ==
  ASSUME NEW c \in Nat \ {0}, NEW s \in 0..(c - 1), NEW i \in 0..(c - 1)
  PROVE  /\ Passed(s, s, c) = {}
         /\ Passed(s, IF i + 1 = c THEN 0 ELSE i + 1, c) \subseteq Passed(s, i, c) \cup {i}
         /\ Passed(s, i, c) \subseteq 0..(c - 1)
BY DEF Passed

\* Of two slots, a search from s passes one before the other.
LEMMA PassedOrder ==
  ASSUME NEW c \in Nat \ {0}, NEW s \in 0..(c - 1), NEW i \in 0..(c - 1), NEW j \in 0..(c - 1)
  PROVE  i = j \/ i \in Passed(s, j, c) \/ j \in Passed(s, i, c)
BY DEF Passed

-------------------------------------------------------------------------------
(* What a step leaves alone *)

\* The tables stay, or grow, for fiber g: it is where it was, and no slot
\* becomes empty.
TablesKept(g) ==
  /\ current <= current' /\ current' \in Nat
  /\ \A t \in 1..current :
       /\ Capacity(t)' = Capacity(t)
       /\ \A i \in 0..(Capacity(t) - 1) :
            /\ g \in Live => ((tables'[t].key[i] = g) <=> (tables[t].key[i] = g))
            /\ tables[t].key[i] # invalid_fiber_id => tables'[t].key[i] # invalid_fiber_id

LEMMA CurrentType ==
  ASSUME Types
  PROVE  current \in Nat /\ current > 0
BY LenProperties DEF Types, current

LEMMA SameTablesKept ==
  ASSUME Types, tables' = tables, NEW g
  PROVE  TablesKept(g)
<1>1. current' = current /\ \A t : Capacity(t)' = Capacity(t)
  BY DEF current, Capacity
<1> QED BY <1>1, CurrentType DEF TablesKept

LEMMA InTableKept ==
  ASSUME Types, NEW g \in Live, TablesKept(g), NEW t \in 1..current, InTable(g, t)
  PROVE  InTable(g, t)' /\ t \in 1..current'
<1>1. /\ Capacity(t) \in Nat \ {0} /\ Slot(g, t) \in 0..(Capacity(t) - 1)
      /\ current \in Nat /\ current' \in Nat /\ current <= current'
  BY TableShape, Slots, CurrentType DEF TablesKept, Ids, Live
<1>2. PICK i \in 0..(Capacity(t) - 1) :
        /\ tables[t].key[i] = g
        /\ \A j \in Passed(Slot(g, t), i, Capacity(t)) : tables[t].key[j] # invalid_fiber_id
  BY DEF InTable
<1>3. /\ Capacity(t)' = Capacity(t)
      /\ Slot(g, t)' = Slot(g, t)
  BY DEF TablesKept, Slot
<1>4. tables'[t].key[i] = g
  BY <1>2 DEF TablesKept
<1>5. \A j \in Passed(Slot(g, t), i, Capacity(t)) : tables'[t].key[j] # invalid_fiber_id
  <2> TAKE j \in Passed(Slot(g, t), i, Capacity(t))
  <2>1. j \in 0..(Capacity(t) - 1)
    BY <1>1, PassedNext
  <2> QED BY <1>2, <2>1 DEF TablesKept
<1>6. InTable(g, t)'
  BY <1>3, <1>4, <1>5 DEF InTable
<1> QED BY <1>1, <1>6

\* A fiber that is not in a table it searched up to an empty slot.
LEMMA NotThere ==
  ASSUME Types, NEW g \in Fibers, NEW t \in 1..current, NEW i \in 0..(Capacity(t) - 1),
         tables[t].key[i] = invalid_fiber_id,
         \A j \in Passed(Slot(g, t), i, Capacity(t)) : tables[t].key[j] # g
  PROVE  ~InTable(g, t)
<1> SUFFICES ASSUME NEW e \in 0..(Capacity(t) - 1), tables[t].key[e] = g,
                    \A j \in Passed(Slot(g, t), e, Capacity(t)) : tables[t].key[j] # invalid_fiber_id
             PROVE  FALSE
  BY DEF InTable
<1>1. Capacity(t) \in Nat \ {0} /\ Slot(g, t) \in 0..(Capacity(t) - 1)
  BY TableShape, Slots DEF Ids
<1>2. i # e
  BY IdsAssumption DEF Ids
<1>3. i \in Passed(Slot(g, t), e, Capacity(t)) \/ e \in Passed(Slot(g, t), i, Capacity(t))
  BY <1>1, <1>2, PassedOrder
<1> QED BY <1>3

\* What a step does not touch of a fiber.
FiberKept(g) ==
  /\ call'[g] = call[g] /\ mine'[g] = mine[g]
  /\ TablesKept(g)
  /\ created <= created' /\ created' \in Nat
  /\ (g \in ended) <=> (g \in ended')
  /\ g \in Live => \A p \in Producers : (subscriber'[p] = g) <=> (subscriber[p] = g)

LEMMA CallType ==
  ASSUME Types, NEW f \in Fibers
  PROVE  /\ call[f].pc \in Pcs /\ call[f].main \in Nat /\ call[f].table \in Nat
         /\ call[f].index \in Nat /\ call[f].newCount \in Nat
         /\ call[f].producer \in 0..MaxProducers
         /\ call[f] = [pc |-> call[f].pc, main |-> call[f].main, table |-> call[f].table,
                       index |-> call[f].index, newCount |-> call[f].newCount,
                       producer |-> call[f].producer]
         /\ mine[f] \in 0..MaxProducers
<1>1. call[f] \in Calls /\ mine[f] \in 0..MaxProducers
  BY DEF Types
<1> QED BY <1>1 DEF Calls

LEMMA OthersKeep ==
  ASSUME Types, NEW g \in Fibers, FiberOK(g), FiberKept(g)
  PROVE  FiberOK(g)'
<1>1. /\ call'[g] = call[g] /\ mine'[g] = mine[g]
      /\ (g \in Live) <=> (g \in Live)'
      /\ created <= created' /\ created' \in Nat /\ created \in Nat /\ current \in Nat
      /\ current <= current' /\ current' \in Nat
      /\ TablesKept(g)
  <2>1. TablesKept(g) /\ ((g \in Live) <=> (g \in Live)')
    BY DEF FiberKept, Live
  <2>2. current <= current' /\ current' \in Nat
    BY <2>1 DEF TablesKept
  <2>3. created \in Nat
    BY BoundsAssumption DEF Types
  <2> QED BY <2>1, <2>2, <2>3, CurrentType DEF FiberKept
<1>2. ASSUME SlotOK(call[g].table, call[g].index)
      PROVE  /\ SlotOK(call[g].table, call[g].index)'
             /\ Behind(g, call[g])' = Behind(g, call[g])
             /\ Behind(g, call[g]) \subseteq 0..(Capacity(call[g].table) - 1)
             /\ call[g].table \in 1..current
             /\ Capacity(call[g].table)' = Capacity(call[g].table)
  <2> DEFINE t == call[g].table
  <2>1. t \in 1..current /\ call[g].index \in 0..(Capacity(t) - 1)
    BY <1>2 DEF SlotOK
  <2>2. Capacity(t)' = Capacity(t)
    <3>1. \A u \in 1..current : Capacity(u)' = Capacity(u)
      BY DEF FiberKept, TablesKept
    <3>2. t' = t
      BY <1>1
    <3>3. Capacity(t)' = Cardinality(DOMAIN tables'[t'].key) /\ \A u : Capacity(u)' = Cardinality(DOMAIN tables'[u].key)
      BY DEF Capacity
    <3> QED BY <2>1, <3>1, <3>2, <3>3
  <2>3. Capacity(t) \in Nat \ {0} /\ Slot(g, t) \in 0..(Capacity(t) - 1)
    BY <2>1, TableShape, Slots DEF Ids
  <2>4. Passed(Slot(g, t), call[g].index, Capacity(t)) \subseteq 0..(Capacity(t) - 1)
    BY <2>1, <2>3, PassedNext
  <2>5. Slot(g, t)' = Slot(g, t)
    BY <2>2 DEF Slot
  <2> QED BY <1>1, <2>1, <2>2, <2>4, <2>5 DEF SlotOK, Behind
<1>3. Place(g, call[g], mine[g])'
  <2>1. Place(g, call[g], mine[g])
    BY DEF FiberOK, Sound
  <2>2. mine[g] \in Nat /\ call[g].producer \in Nat /\ call[g].main \in Nat /\ call[g].table \in Nat
    <3>1. /\ mine[g] \in 0..MaxProducers /\ call[g].producer \in 0..MaxProducers
          /\ call[g].main \in Nat /\ call[g].table \in Nat
      BY CallType
    <3> QED BY <3>1, BoundsAssumption
  <2>3. mine'[g] <= created' /\ call'[g].producer <= created'
    BY <1>1, <2>1, <2>2 DEF Place
  <2>4. call'[g].main \in 0..current' /\ call'[g].table \in 0..current'
        /\ (call[g].main \in 1..current => call'[g].main \in 1..current')
    BY <1>1, <2>1, <2>2 DEF Place
  <2>5. (g \in ended') => (g \in ended)
    BY DEF FiberKept
  <2> QED BY <1>1, <1>2, <2>1, <2>3, <2>4, <2>5 DEF Place
<1>4. ASSUME g \in Live
      PROVE  Own(g, call[g], mine[g])'
  <2>1. Own(g, call[g], mine[g])
    BY <1>4 DEF FiberOK, Sound
  <2>2. \A p \in Producers : (subscriber'[p] = g) <=> (subscriber[p] = g)
    BY <1>4 DEF FiberKept
  <2>3. /\ mine[g] # None => mine[g] \in Producers
        /\ call[g].producer # None => call[g].producer \in Producers
    <3>1. mine[g] \in 0..MaxProducers /\ call[g].producer \in 0..MaxProducers
      BY CallType
    <3> QED BY <3>1, BoundsAssumption DEF Producers, None
  <2> QED BY <1>1, <2>1, <2>2, <2>3 DEF Own
<1>5. ASSUME g \in Live
      PROVE  Seek(g, call[g], mine[g])'
  <2>1. Seek(g, call[g], mine[g]) /\ Place(g, call[g], mine[g])
    BY <1>5 DEF FiberOK, Sound
  <2>2. call[g].pc \in {"probe", "readd", "insert", "discount"} =>
          SlotOK(call[g].table, call[g].index)
    BY <2>1 DEF Place, Entering
  <2>3. ASSUME call[g].pc \in {"probe", "readd", "insert"}, NEW j \in Behind(g, call[g])'
        PROVE  tables'[call'[g].table].key[j] # invalid_fiber_id
               /\ (call[g].pc = "probe" => tables'[call'[g].table].key[j] # g)
    <3>1. j \in Behind(g, call[g]) /\ j \in 0..(Capacity(call[g].table) - 1) /\ call[g].table \in 1..current
      BY <1>2, <2>2, <2>3
    <3> QED BY <1>1, <1>5, <2>1, <2>3, <3>1 DEF Seek, TablesKept
  <2>4. mine[g] # None => (\E t \in 1..(IF call[g].pc = "probe" THEN call[g].table ELSE current) : InTable(g, t))'
    <3> SUFFICES ASSUME mine[g] # None
                 PROVE  (\E t \in 1..(IF call[g].pc = "probe" THEN call[g].table ELSE current) : InTable(g, t))'
      OBVIOUS
    <3>1. PICK t \in 1..(IF call[g].pc = "probe" THEN call[g].table ELSE current) : InTable(g, t)
      BY <2>1 DEF Seek
    <3>2. t \in 1..current
      BY <1>1, <2>1, <3>1 DEF Place
    <3>3. InTable(g, t)'
      BY <1>1, <1>5, <3>1, <3>2, InTableKept
    <3>4. t \in 1..(IF call[g].pc = "probe" THEN call[g].table ELSE current')
      BY <1>1, <3>1, <3>2
    <3> QED BY <1>1, <3>3, <3>4 
  <2>5. call[g].pc = "discount" => InTable(g, call[g].table)'
    <3> SUFFICES ASSUME call[g].pc = "discount"
                 PROVE  InTable(g, call[g].table)'
      OBVIOUS
    <3>1. call[g].table \in 1..current /\ InTable(g, call[g].table)
      BY <2>1, <2>2 DEF Seek, SlotOK
    <3>2. \A t \in 1..current : InTable(g, t) => InTable(g, t)'
      BY <1>1, <1>5, InTableKept
    <3> DEFINE u == call[g].table
    <3>3. u' = u
      BY <1>1
    <3>4. InTable(g, u) /\ u \in 1..current
      BY <3>1
    <3> QED BY <1>1, <3>2, <3>3, <3>4 DEF InTable, Slot, Capacity
  <2> QED BY <1>1, <2>1, <2>3, <2>4, <2>5 DEF Seek
<1> QED BY <1>1, <1>3, <1>4, <1>5 DEF FiberOK, Sound

\* What is sound for a fiber's new call, where nothing else changes.
LEMMA SameSound ==
  ASSUME UNCHANGED <<tables, created, subscriber, ended>>, NEW f \in Fibers,
         Sound(f, call'[f], mine'[f])
  PROVE  FiberOK(f)'
<1>1. /\ current' = current
      /\ \A t : Capacity(t)' = Capacity(t)
      /\ \A t : Slot(f, t)' = Slot(f, t)
  BY DEF current, Capacity, Slot
<1>2. \A t : InTable(f, t)' <=> InTable(f, t)
  BY <1>1 DEF InTable
<1> DEFINE c == call'[f]
           m == mine'[f]
<1>3. Place(f, c, m) => Place(f, call[f], mine[f])'
  <2>1. SlotOK(call[f].table, call[f].index)' <=> SlotOK(c.table, c.index)
    BY <1>1 DEF SlotOK, Capacity
  <2> QED BY <1>1, <2>1 DEF Place
<1>4. Own(f, c, m) => Own(f, call[f], mine[f])'
  BY DEF Own
<1>5. Seek(f, c, m) => Seek(f, call[f], mine[f])'
  <2>1. Behind(f, call[f])' = Behind(f, c)
    BY DEF Behind, Slot, Capacity
  <2>2. InTable(f, call[f].table)' <=> InTable(f, c.table)
    BY DEF InTable, Slot, Capacity
  <2>3. (\E t \in 1..(IF call[f].pc = "probe" THEN call[f].table ELSE current) : InTable(f, t))'
        <=> (\E t \in 1..(IF c.pc = "probe" THEN c.table ELSE current) : InTable(f, t))
    BY <1>1, <1>2
  <2> QED BY <2>1, <2>2, <2>3 DEF Seek
<1>6. (f \in Live)' <=> f \in Live
  BY DEF Live
<1> QED BY <1>3, <1>4, <1>5, <1>6 DEF FiberOK, Sound

\* A step of one fiber changes one call.
LEMMA Moves ==
  ASSUME Types, NEW f \in Fibers, NEW c \in Calls, call' = [call EXCEPT ![f] = c]
  PROVE  /\ call' \in [Fibers -> Calls] /\ call'[f] = c
         /\ \A g \in Fibers \ {f} : call'[g] = call[g]
BY DEF Types

LEMMA Gets ==
  ASSUME Types, NEW f \in Fibers, NEW p \in 0..MaxProducers, mine' = [mine EXCEPT ![f] = p]
  PROVE  /\ mine' \in [Fibers -> 0..MaxProducers] /\ mine'[f] = p
         /\ \A g \in Fibers \ {f} : mine'[g] = mine[g]
BY DEF Types

\* A call that starts.
LEMMA NewCall ==
  ASSUME NEW t, NEW i
  PROVE  [NoCall EXCEPT !.pc = "probe", !.main = t, !.table = t, !.index = i]
           = [pc |-> "probe", main |-> t, table |-> t, index |-> i, newCount |-> 0, producer |-> None]
<1> DEFINE a == [pc |-> "probe", main |-> 0, table |-> 0, index |-> 0, newCount |-> 0, producer |-> None]
           b == [pc |-> "probe", main |-> t, table |-> 0, index |-> 0, newCount |-> 0, producer |-> None]
           c == [pc |-> "probe", main |-> t, table |-> t, index |-> 0, newCount |-> 0, producer |-> None]
<1>1. [NoCall EXCEPT !.pc = "probe"] = a
  BY DEF NoCall
<1>2. [a EXCEPT !.main = t] = b
  OBVIOUS
<1>3. [b EXCEPT !.table = t] = c
  OBVIOUS
<1>4. [c EXCEPT !.index = i]
        = [pc |-> "probe", main |-> t, table |-> t, index |-> i, newCount |-> 0, producer |-> None]
  OBVIOUS
<1> HIDE DEF a, b, c
<1> QED BY <1>1, <1>2, <1>3, <1>4, Zenon

\* Idle is a call as well.
LEMMA NoCalls == NoCall \in Calls
<1>1. 0 \in 0..MaxProducers
  BY BoundsAssumption
<1> QED BY <1>1 DEF NoCall, Calls, Pcs, None

\* A slot is written.
Written(t, i, k, v) == tables' = [tables EXCEPT ![t].key[i] = k, ![t].value[i] = v]

LEMMA Writes ==
  ASSUME Types, NEW t \in 1..current, NEW i \in 0..(Capacity(t) - 1),
         NEW k \in Keys, NEW v \in 0..MaxProducers, Written(t, i, k, v)
  PROVE  /\ tables' \in Seq(Table) /\ current' = current
         /\ \A u \in 1..current :
              /\ Capacity(u)' = Capacity(u)
              /\ \A j \in 0..(Capacity(u) - 1) :
                   /\ tables'[u].key[j] = IF u = t /\ j = i THEN k ELSE tables[u].key[j]
                   /\ tables'[u].value[j] = IF u = t /\ j = i THEN v ELSE tables[u].value[j]
<1> DEFINE c == Capacity(t)
           new == [key |-> [tables[t].key EXCEPT ![i] = k],
                   value |-> [tables[t].value EXCEPT ![i] = v]]
<1>1. /\ c \in Nat \ {0}
      /\ tables[t] = [key |-> tables[t].key, value |-> tables[t].value]
      /\ tables[t].key \in [0..(c - 1) -> Keys]
      /\ tables[t].value \in [0..(c - 1) -> 0..MaxProducers]
  BY TableShape
<1>2. tables \in Seq(Table) /\ tables \in [1..current -> Table] /\ current = Len(tables)
  BY LenProperties DEF Types, current
<1>3. tables' = [tables EXCEPT ![t] = new]
  <2>1. ASSUME NEW a, NEW b, NEW r, r = [key |-> a, value |-> b]
        PROVE  [r EXCEPT !.key[i] = k] = [key |-> [a EXCEPT ![i] = k], value |-> b]
    BY <2>1
  <2>2. [tables EXCEPT ![t].key[i] = k]
          = [tables EXCEPT ![t] = [key |-> [tables[t].key EXCEPT ![i] = k], value |-> tables[t].value]]
    <3>1. [tables[t] EXCEPT !.key[i] = k]
            = [key |-> [tables[t].key EXCEPT ![i] = k], value |-> tables[t].value]
      BY <1>1, <2>1, Zenon
    <3> QED BY <3>1, Zenon
  <2>3. tables' = [[tables EXCEPT ![t].key[i] = k] EXCEPT ![t].value[i] = v]
    BY DEF Written
  <2> QED BY <1>1, <1>2, <2>2, <2>3 DEF Written
<1>4. new \in Table
  <2>1. new \in [key : [0..(c - 1) -> Keys], value : [0..(c - 1) -> 0..MaxProducers]]
    BY <1>1
  <2> QED BY <1>1, <2>1 DEF Table
<1> HIDE DEF new
<1>5. /\ tables' \in [1..current -> Table]
      /\ tables'[t] = new /\ \A u \in 1..current : u # t => tables'[u] = tables[u]
      /\ DOMAIN tables' = 1..current
  BY <1>2, <1>3, <1>4
<1>7. tables' \in Seq(Table) /\ current' = current
  <2>1. t \in 1..Len(tables) /\ tables \in Seq(Table)
    BY <1>2
  <2>2. [tables EXCEPT ![t] = new] \in Seq(Table) /\ Len([tables EXCEPT ![t] = new]) = Len(tables)
    BY <1>4, <2>1, ExceptSeq
  <2> QED BY <1>3, <2>2 DEF current
<1>8. DOMAIN new.key = DOMAIN tables[t].key
  BY <1>1 DEF new
<1>9. ASSUME NEW u \in 1..current
      PROVE  Capacity(u)' = Capacity(u)
  BY <1>5, <1>8 DEF Capacity
<1>10. ASSUME NEW u \in 1..current, NEW j \in 0..(Capacity(u) - 1)
       PROVE  /\ tables'[u].key[j] = IF u = t /\ j = i THEN k ELSE tables[u].key[j]
              /\ tables'[u].value[j] = IF u = t /\ j = i THEN v ELSE tables[u].value[j]
  <2>1. CASE u = t
    BY <1>1, <1>5, <1>10, <2>1 DEF new
  <2>2. CASE u # t
    BY <1>5, <2>2
  <2> QED BY <2>1, <2>2
<1> QED BY <1>7, <1>9, <1>10

-------------------------------------------------------------------------------
(* Counting *)

LEMMA FiniteCounts ==
  ASSUME Types
  PROVE  /\ IsFiniteSet(Pending) /\ IsFiniteSet(Counted) /\ IsFiniteSet(Served)
         /\ Pending \subseteq Fibers /\ Counted \subseteq Fibers /\ Served \subseteq Fibers
<1>1. Pending \subseteq Fibers /\ Counted \subseteq Fibers /\ Served \subseteq Fibers
  BY HashAssumption DEF Pending, Counted, Served, Types
<1> QED BY <1>1, BoundsAssumption, FS_Subset

\* Other fibers are as they were.
OthersStay(f) ==
  \A g \in Fibers \ {f} :
    /\ call'[g] = call[g] /\ mine'[g] = mine[g] /\ ((g \in ended) <=> (g \in ended'))

LEMMA CountTypes ==
  ASSUME Types
  PROVE  Cardinality(Pending) \in Nat /\ Cardinality(Counted) \in Nat /\ hashCount \in Nat
BY FiniteCounts, FS_CardinalityType DEF Types

\* What one fiber's step does to the two sets.
LEMMA CountsMove ==
  ASSUME Types, Types', NEW f \in Fibers, OthersStay(f)
  PROVE  /\ Pending' \ {f} = Pending \ {f} /\ Counted' \ {f} = Counted \ {f}
         /\ ~(f \in Pending /\ f \notin Pending')
            => Cardinality(Pending') = Cardinality(Pending)
               \/ (f \in Pending' /\ Cardinality(Pending') = Cardinality(Pending) + 1)
         /\ (f \in Pending' => f \in Pending) => Cardinality(Pending') <= Cardinality(Pending)
         /\ (f \in Pending /\ f \notin Pending') => Cardinality(Pending') = Cardinality(Pending) - 1
         /\ (f \in Counted => f \in Counted') => Cardinality(Counted) <= Cardinality(Counted')
         /\ (f \notin Counted /\ f \in Counted') => Cardinality(Counted') = Cardinality(Counted) + 1
         /\ (f \in Counted' => f \in Counted) => Cardinality(Counted') <= Cardinality(Counted)
         /\ (f \in Counted /\ f \notin Counted') => Cardinality(Counted') = Cardinality(Counted) - 1
         /\ Cardinality(Counted') <= Cardinality(Counted) + 1
         /\ Cardinality(Counted) - 1 <= Cardinality(Counted')
<1>1. Pending' \ {f} = Pending \ {f} /\ Counted' \ {f} = Counted \ {f}
  <2>1. \A g \in Fibers \ {f} : (g \in Pending) <=> (g \in Pending')
    BY DEF OthersStay, Pending
  <2>2. \A g \in Fibers \ {f} : (g \in Counted) <=> (g \in Counted')
    BY <2>1 DEF OthersStay, Counted
  <2>3. Pending \subseteq Fibers /\ Counted \subseteq Fibers
    BY FiniteCounts
  <2>4. Types' => (Pending \subseteq Fibers /\ Counted \subseteq Fibers)'
    BY FiniteCounts, PTL
  <2>5. Pending' \subseteq Fibers /\ Counted' \subseteq Fibers
    BY <2>4
  <2> QED BY <2>1, <2>2, <2>3, <2>5
<1>2. ASSUME NEW S, NEW T, IsFiniteSet(S), IsFiniteSet(T), T \ {f} = S \ {f}
      PROVE  /\ Cardinality(S) \in Nat /\ Cardinality(T) \in Nat
             /\ (f \in S <=> f \in T) => Cardinality(T) = Cardinality(S)
             /\ (f \notin S /\ f \in T) => Cardinality(T) = Cardinality(S) + 1
             /\ (f \in S /\ f \notin T) => Cardinality(S) = Cardinality(T) + 1
  <2>1. Cardinality(S) \in Nat /\ Cardinality(T) \in Nat
    BY <1>2, FS_CardinalityType
  <2>2. (f \in S <=> f \in T) => S = T
    BY <1>2
  <2>3. (f \notin S /\ f \in T) => T = S \cup {f}
    BY <1>2
  <2>4. (f \in S /\ f \notin T) => S = T \cup {f}
    BY <1>2
  <2>5. f \notin S => Cardinality(S \cup {f}) = Cardinality(S) + 1
    BY <1>2, FS_AddElement
  <2>6. f \notin T => Cardinality(T \cup {f}) = Cardinality(T) + 1
    BY <1>2, FS_AddElement
  <2> QED BY <2>1, <2>2, <2>3, <2>4, <2>5, <2>6
<1>3. IsFiniteSet(Pending') /\ IsFiniteSet(Counted')
  <2>1. Types' => IsFiniteSet(Pending)' /\ IsFiniteSet(Counted)'
    BY FiniteCounts, PTL
  <2> QED BY <2>1
<1> DEFINE P == Pending
           Q == Pending'
           C == Counted
           D == Counted'
<1>4. IsFiniteSet(P) /\ IsFiniteSet(Q) /\ Q \ {f} = P \ {f}
  BY <1>1, <1>3, FiniteCounts
<1>5. IsFiniteSet(C) /\ IsFiniteSet(D) /\ D \ {f} = C \ {f}
  BY <1>1, <1>3, FiniteCounts
<1> HIDE DEF P, Q, C, D
<1>6. /\ ~(f \in P /\ f \notin Q)
         => Cardinality(Q) = Cardinality(P) \/ (f \in Q /\ Cardinality(Q) = Cardinality(P) + 1)
      /\ (f \in Q => f \in P) => Cardinality(Q) <= Cardinality(P)
      /\ (f \in P /\ f \notin Q) => Cardinality(Q) = Cardinality(P) - 1
  BY <1>2, <1>4
<1>7. /\ (f \in C => f \in D) => Cardinality(C) <= Cardinality(D)
      /\ (f \notin C /\ f \in D) => Cardinality(D) = Cardinality(C) + 1
      /\ (f \in D => f \in C) => Cardinality(D) <= Cardinality(C)
      /\ (f \in C /\ f \notin D) => Cardinality(D) = Cardinality(C) - 1
      /\ Cardinality(D) <= Cardinality(C) + 1
      /\ Cardinality(C) - 1 <= Cardinality(D)
  BY <1>2, <1>5
<1> QED BY <1>1, <1>6, <1>7 DEF P, Q, C, D

\* The three ways in which a fiber's step keeps the count: nobody is counted or
\* discounted, the fiber is counted, or it is discounted.
LEMMA CountKept ==
  ASSUME Types, Types', CountOK, NEW f \in Fibers, OthersStay(f), hashCount' = hashCount,
         f \in Pending' => f \in Pending, f \in Counted => f \in Counted'
  PROVE  CountOK'
<1>1. Cardinality(Pending') <= Cardinality(Pending) /\ Cardinality(Counted) <= Cardinality(Counted')
  BY CountsMove
<1> DEFINE P == Cardinality(Pending)
           Q == Cardinality(Pending')
           C == Cardinality(Counted)
           D == Cardinality(Counted')
<1>2. P \in Nat /\ C \in Nat /\ hashCount \in Nat
  BY CountTypes
<1>3. Q \in Nat /\ D \in Nat
  <2>1. Types' => (Cardinality(Pending) \in Nat /\ Cardinality(Counted) \in Nat)'
    BY CountTypes, PTL
  <2> QED BY <2>1
<1>4. P <= hashCount /\ hashCount <= C /\ Q <= P /\ C <= D
  BY <1>1 DEF CountOK
<1> HIDE DEF P, Q, C, D
<1>5. Q <= hashCount' /\ hashCount' <= D
  BY <1>2, <1>3, <1>4
<1> QED BY <1>5 DEF CountOK, Q, D

LEMMA CountUp ==
  ASSUME Types, Types', CountOK, NEW f \in Fibers, OthersStay(f), hashCount' = hashCount + 1,
         f \notin Pending, f \notin Counted, f \in Counted'
  PROVE  CountOK'
<1> DEFINE P == Cardinality(Pending)
           Q == Cardinality(Pending')
           C == Cardinality(Counted)
           D == Cardinality(Counted')
<1>1. (Q = P \/ Q = P + 1) /\ D = C + 1
  BY CountsMove
<1>2. P \in Nat /\ C \in Nat /\ hashCount \in Nat
  BY CountTypes
<1>3. P <= hashCount /\ hashCount <= C
  BY DEF CountOK
<1> HIDE DEF P, Q, C, D
<1>4. Q <= hashCount' /\ hashCount' <= D
  BY <1>1, <1>2, <1>3
<1> QED BY <1>4 DEF CountOK, Q, D

LEMMA CountDown ==
  ASSUME Types, Types', CountOK, NEW f \in Fibers, OthersStay(f), hashCount' = hashCount - 1,
         f \in Pending, f \notin Pending'
  PROVE  CountOK'
<1> DEFINE P == Cardinality(Pending)
           Q == Cardinality(Pending')
           C == Cardinality(Counted)
           D == Cardinality(Counted')
<1>1. Q = P - 1 /\ C - 1 <= D
  BY CountsMove
<1>2. P \in Nat /\ C \in Nat /\ hashCount \in Nat
  BY CountTypes
<1>3. D \in Nat
  <2>1. Types' => (Cardinality(Counted) \in Nat)'
    BY CountTypes, PTL
  <2> QED BY <2>1
<1>4. P <= hashCount /\ hashCount <= C
  BY DEF CountOK
<1> HIDE DEF P, Q, C, D
<1>5. Q <= hashCount' /\ hashCount' <= D
  BY <1>1, <1>2, <1>3, <1>4
<1> QED BY <1>5 DEF CountOK, Q, D

\* Somebody who is being counted is in the count.
LEMMA CountPositive ==
  ASSUME Types, CountOK, NEW f \in Pending
  PROVE  hashCount - 1 \in Nat
<1>1. Cardinality(Pending) # 0
  BY FiniteCounts, FS_EmptySet
<1>2. Cardinality(Pending) \in Nat /\ hashCount \in Nat
  BY CountTypes
<1> QED BY <1>1, <1>2 DEF CountOK

-------------------------------------------------------------------------------
(* Steps that change one fiber's call and counters only *)

\* What most steps leave unchanged.
Still == UNCHANGED <<tables, created, inactive, subscriber, ended, exiting>>

Unfinished == Types /\ FibersOK /\ FreeOK /\ EntriesOK /\ ExitOK /\ ServedOK

LEMMA QuietStep ==
  ASSUME IInv, NEW f \in Fibers, Still, OthersStay(f),
         call' \in [Fibers -> Calls], mine' \in [Fibers -> 0..MaxProducers],
         hashCount' \in Nat, resizing' \in BOOLEAN, failures' \in 0..MaxFailures,
         Sound(f, call'[f], mine'[f])
  PROVE  Unfinished'
<1> USE DEF Still
<1>1. Types
  BY DEF IInv
<1>2. Types'
  BY <1>1 DEF Types, current
<1>3. FibersOK'
  <2> SUFFICES ASSUME NEW g \in Fibers
               PROVE  FiberOK(g)'
    BY DEF FibersOK
  <2>1. CASE g = f
    BY <2>1, SameSound
  <2>2. CASE g # f
    <3>1. FiberOK(g)
      BY DEF IInv, FibersOK
    <3>2. created \in Nat
      BY <1>1, BoundsAssumption DEF Types
    <3>3. FiberKept(g)
      BY <1>1, <2>2, <3>2, SameTablesKept DEF FiberKept, OthersStay
    <3> QED BY <1>1, <3>1, <3>3, OthersKeep
  <2> QED BY <2>1, <2>2
<1>4. FreeOK'
  BY DEF IInv, FreeOK
<1>5. EntriesOK'
  BY DEF IInv, EntriesOK, current, Capacity, Live
<1>6. ExitOK'
  BY DEF IInv, ExitOK, SlotOK, current, Capacity, Live
<1>7. ServedOK'
  BY DEF IInv, ServedOK, Served
<1> QED BY <1>2, <1>3, <1>4, <1>5, <1>6, <1>7 DEF Unfinished

\* A fiber whose call is not over has not ended.
LEMMA BusyLive ==
  ASSUME IInv, NEW f \in Fibers
  PROVE  /\ Types /\ FiberOK(f) /\ Place(f, call[f], mine[f])
         /\ call[f].pc # "idle" => f \in Live
         /\ f \in Live => Own(f, call[f], mine[f]) /\ Seek(f, call[f], mine[f])
BY DEF IInv, FibersOK, FiberOK, Sound, Live, Place

\* Where the fiber is at a slot.
LEMMA AtSlot ==
  ASSUME IInv, NEW f \in Fibers, call[f].pc \in {"probe", "readd"} \cup Entering
  PROVE  /\ f \in Live /\ call[f].table \in 1..current
         /\ call[f].index \in 0..(Capacity(call[f].table) - 1)
         /\ Capacity(call[f].table) \in Nat \ {0}
         /\ Slot(f, call[f].table) \in 0..(Capacity(call[f].table) - 1)
         /\ After(call[f].index, call[f].table) \in 0..(Capacity(call[f].table) - 1)
         /\ Passed(Slot(f, call[f].table), After(call[f].index, call[f].table), Capacity(call[f].table))
              \subseteq Behind(f, call[f]) \cup {call[f].index}
<1>1. /\ Types /\ f \in Live
      /\ call[f].table \in 1..current /\ call[f].index \in 0..(Capacity(call[f].table) - 1)
  BY BusyLive DEF Place, SlotOK, Entering
<1> DEFINE t == call[f].table
           i == call[f].index
<1>2. Capacity(t) \in Nat \ {0} /\ Slot(f, t) \in 0..(Capacity(t) - 1)
      /\ After(i, t) = IF i + 1 = Capacity(t) THEN 0 ELSE i + 1
  BY <1>1, TableShape, Slots DEF Ids
<1>3. Passed(Slot(f, t), After(i, t), Capacity(t)) \subseteq Passed(Slot(f, t), i, Capacity(t)) \cup {i}
  BY <1>1, <1>2, PassedNext
<1>4. After(i, t) \in 0..(Capacity(t) - 1)
  BY <1>1, <1>2
<1> QED BY <1>1, <1>2, <1>3, <1>4 DEF Behind

\* A search that starts has passed nothing.
LEMMA Starts ==
  ASSUME Types, NEW f \in Fibers, NEW t \in 1..current
  PROVE  SlotOK(t, Slot(f, t)) /\ Passed(Slot(f, t), Slot(f, t), Capacity(t)) = {}
         /\ Slot(f, t) \in Nat
<1>1. Capacity(t) \in Nat \ {0} /\ Slot(f, t) \in 0..(Capacity(t) - 1)
  BY TableShape, Slots DEF Ids
<1> QED BY <1>1, PassedNext DEF SlotOK

\* A fiber goes to another place, or to another slot.
LEMMA GoesTo ==
  ASSUME Types, NEW f \in Fibers, NEW x \in Pcs, GoTo(f, x)
  PROVE  /\ call' \in [Fibers -> Calls] /\ call'[f] \in Calls
         /\ call'[f].pc = x /\ call'[f].main = call[f].main /\ call'[f].table = call[f].table
         /\ call'[f].index = call[f].index /\ call'[f].newCount = call[f].newCount
         /\ call'[f].producer = call[f].producer
         /\ \A g \in Fibers \ {f} : call'[g] = call[g]
BY DEF Types, GoTo, Calls

LEMMA NextSlots ==
  ASSUME Types, NEW f \in Fibers, NextSlot(f), After(call[f].index, call[f].table) \in Nat
  PROVE  /\ call' \in [Fibers -> Calls] /\ call'[f] \in Calls
         /\ call'[f].pc = call[f].pc /\ call'[f].main = call[f].main
         /\ call'[f].table = call[f].table /\ call'[f].producer = call[f].producer
         /\ call'[f].index = After(call[f].index, call[f].table)
         /\ \A g \in Fibers \ {f} : call'[g] = call[g]
BY DEF Types, NextSlot, Calls

LEMMA MakingMove ==
  ASSUME IInv, NEW f \in Fibers, call[f].pc \in Making,
         NEW c \in Calls, c.pc \in Making, c.main \in 1..current,
         c.table = call[f].table, c.producer <= created
  PROVE  Sound(f, c, mine[f])
<1>1. f \in Live /\ Place(f, call[f], mine[f]) /\ Own(f, call[f], mine[f])
  BY BusyLive DEF Making
<1>2. mine[f] = None /\ \A p \in Producers : subscriber[p] # f
  BY <1>1 DEF Own, Producers, None, Making, Entering
<1>3. c.pc \notin {"idle", "probe", "readd", "insert", "discount"}
  BY DEF Making
<1>4. current \in Nat
  BY CurrentType DEF IInv
<1>5. Place(f, c, mine[f])
  BY <1>1, <1>3, <1>4 DEF Place, Entering, Live
<1>6. Own(f, c, mine[f]) /\ Seek(f, c, mine[f])
  BY <1>2, <1>3 DEF Own, Seek, Entering
<1> QED BY <1>5, <1>6 DEF Sound

LEMMA MakingReturn ==
  ASSUME IInv, NEW f \in Fibers, call[f].pc \in Making
  PROVE  Sound(f, NoCall, mine[f]) /\ mine[f] = None
<1>1. f \in Live /\ Place(f, call[f], mine[f]) /\ Own(f, call[f], mine[f])
  BY BusyLive DEF Making
<1>2. mine[f] = None /\ \A p \in Producers : subscriber[p] # f
  BY <1>1 DEF Own, Producers, None, Making, Entering
<1>3. current \in Nat /\ created \in Nat
  BY CurrentType, BoundsAssumption DEF IInv, Types
<1>4. Place(f, NoCall, mine[f])
  BY <1>1, <1>2, <1>3 DEF Place, Entering, NoCall, None, Making, Live
<1>5. Own(f, NoCall, mine[f]) /\ Seek(f, NoCall, mine[f])
  BY <1>2 DEF Own, Seek, Entering, Making, NoCall, None
<1> QED BY <1>2, <1>4, <1>5 DEF Sound

LEMMA Quietly ==
  ASSUME IInv, NEW f \in Fibers, \A g \in Fibers \ {f} : call'[g] = call[g],
         \A g \in Fibers \ {f} : mine'[g] = mine[g], ended' = ended
  PROVE  OthersStay(f)
BY DEF OthersStay

LEMMA EnqueueKeeps ==
  ASSUME IInv, NEW f \in Fibers, Enqueue(f)
  PROVE  IInv'
<1> DEFINE c == [NoCall EXCEPT !.pc = "probe", !.main = current,
                               !.table = current, !.index = Slot(f, current)]
<1> USE DEF Enqueue, At
<1>1. /\ Types /\ f \in Live /\ Place(f, call[f], mine[f])
      /\ Own(f, call[f], mine[f]) /\ Seek(f, call[f], mine[f])
  BY BusyLive DEF Live
<1>2. current \in 1..current /\ created \in Nat
  BY CurrentType, BoundsAssumption DEF IInv, Types
<1>3. /\ SlotOK(current, Slot(f, current)) /\ Slot(f, current) \in Nat
      /\ Passed(Slot(f, current), Slot(f, current), Capacity(current)) = {}
  BY <1>1, <1>2, Starts
<1>4. /\ c = [pc |-> "probe", main |-> current, table |-> current, index |-> Slot(f, current),
              newCount |-> 0, producer |-> None]
      /\ c \in Calls
  <2>1. c = [pc |-> "probe", main |-> current, table |-> current, index |-> Slot(f, current),
             newCount |-> 0, producer |-> None]
    BY NewCall
  <2>2. "probe" \in Pcs /\ current \in Nat /\ Slot(f, current) \in Nat /\ None \in 0..MaxProducers
    BY <1>2, <1>3, BoundsAssumption DEF Pcs, None
  <2> HIDE DEF c
  <2> QED BY <2>1, <2>2 DEF Calls
<1> HIDE DEF c
<1>5. /\ call' \in [Fibers -> Calls] /\ call'[f] = c /\ \A g \in Fibers \ {f} : call'[g] = call[g]
  <2>1. call' = [call EXCEPT ![f] = c]
    BY DEF c
  <2> QED BY <1>1, <1>4, <2>1, Moves
<1>6. OthersStay(f) /\ Still
  BY <1>5, Quietly DEF hashVars, producerVars, Still
<1>7. Sound(f, c, mine[f])
  <2>1. Place(f, c, mine[f])
    BY <1>1, <1>2, <1>3, <1>4 DEF Place, Making, Entering, Live, None
  <2>2. Own(f, c, mine[f])
    BY <1>1, <1>4 DEF Own, Making, Entering, None
  <2>3. Behind(f, c) = {}
    BY <1>3, <1>4 DEF Behind
  <2>4. Seek(f, c, mine[f])
    BY <1>1, <1>4, <2>3 DEF Seek
  <2> QED BY <2>1, <2>2, <2>4 DEF Sound
<1>8. Unfinished'
  BY <1>1, <1>5, <1>6, <1>7, QuietStep DEF Types, hashVars
<1>9. CountOK'
  <2>1. f \in Pending' => f \in Pending
    BY <1>4, <1>5 DEF Pending, Entering
  <2>2. f \in Counted => f \in Counted'
    BY <2>1, <1>5 DEF Counted, Pending, Live, Entering
  <2> QED BY <1>1, <1>6, <1>8, <2>1, <2>2, CountKept DEF IInv, Unfinished, hashVars
<1> QED BY <1>8, <1>9 DEF IInv, Unfinished

\* A fiber that makes room, and goes on doing so.
LEMMA StillMaking ==
  ASSUME IInv, NEW f \in Fibers, call[f].pc \in Making, Still, mine' = mine,
         NEW c \in Calls, call' \in [Fibers -> Calls], call'[f] = c,
         \A g \in Fibers \ {f} : call'[g] = call[g],
         c.pc \in Making, c.main \in 1..current, c.table = call[f].table, c.producer <= created,
         hashCount' \in Nat, resizing' \in BOOLEAN, failures' \in 0..MaxFailures,
         \/ hashCount' = hashCount /\ (f \in Pending' => f \in Pending)
                                   /\ (f \in Counted => f \in Counted')
         \/ hashCount' = hashCount + 1 /\ f \notin Pending /\ f \in Pending'
         \/ hashCount' = hashCount - 1 /\ f \in Pending /\ f \notin Pending'
  PROVE  IInv'
<1>1. Types /\ CountOK /\ f \in Live /\ mine[f] = None /\ mine \in [Fibers -> 0..MaxProducers]
  BY BusyLive, MakingReturn DEF Making, IInv, Types
<1>2. OthersStay(f)
  BY Quietly DEF Still
<1>3. Unfinished'
  BY <1>1, <1>2, MakingMove, QuietStep
<1>4. Types'
  BY <1>3 DEF Unfinished
<1>5. f \notin Pending => f \notin Counted
  BY <1>1 DEF Counted, Live
<1>6. f \in Pending' => f \in Counted'
  BY DEF Counted
<1>7. CountOK'
  BY <1>1, <1>2, <1>4, <1>5, <1>6, CountKept, CountUp, CountDown
<1> QED BY <1>3, <1>7 DEF IInv, Unfinished

\* A fiber that gives up while it makes room.
LEMMA GivesUp ==
  ASSUME IInv, NEW f \in Fibers, call[f].pc \in Making, Still, mine' = mine, Return(f),
         hashCount' \in Nat, resizing' \in BOOLEAN, failures' \in 0..MaxFailures,
         IF f \in Pending THEN hashCount' = hashCount - 1 ELSE hashCount' = hashCount
  PROVE  IInv'
<1>1. Types /\ CountOK /\ f \in Live /\ mine[f] = None /\ mine \in [Fibers -> 0..MaxProducers]
  BY BusyLive, MakingReturn DEF Making, IInv, Types
<1>2. /\ call' \in [Fibers -> Calls] /\ call'[f] = NoCall
      /\ \A g \in Fibers \ {f} : call'[g] = call[g]
  BY <1>1, NoCalls, Moves DEF Return
<1>3. OthersStay(f)
  BY <1>2, Quietly DEF Still
<1>4. Unfinished'
  BY <1>1, <1>2, <1>3, MakingReturn, QuietStep
<1>5. Types'
  BY <1>4 DEF Unfinished
<1>6. f \notin Pending'
  BY <1>2 DEF Pending, NoCall, Entering
<1>7. f \notin Pending => f \notin Counted
  BY <1>1 DEF Counted, Live
<1>8. CountOK'
  BY <1>1, <1>3, <1>5, <1>6, <1>7, CountKept, CountDown
<1> QED BY <1>4, <1>8 DEF IInv, Unfinished

LEMMA CountKeeps ==
  ASSUME IInv, NEW f \in Fibers, Count(f)
  PROVE  IInv'
<1> DEFINE c == [pc |-> "grow", main |-> call[f].main, table |-> call[f].table,
                 index |-> call[f].index, newCount |-> hashCount + 1, producer |-> call[f].producer]
<1>1. /\ call[f].pc = "count" /\ call[f].pc \in Making /\ Types /\ Place(f, call[f], mine[f])
      /\ hashCount \in Nat
  BY BusyLive DEF Count, At, Making, Types
<1>2. c \in Calls /\ call \in [Fibers -> Calls]
  <2>1. "grow" \in Pcs /\ hashCount + 1 \in Nat
    BY <1>1 DEF Pcs, Making
  <2> QED BY <1>1, <2>1, CallType DEF Calls, Types
<1>3. /\ call' \in [Fibers -> Calls] /\ call'[f] = c /\ \A g \in Fibers \ {f} : call'[g] = call[g]
  <2>1. call'[f] = c
    BY <1>2 DEF Count, Calls
  <2>2. \A g \in Fibers \ {f} : call'[g] = call[g]
    BY <1>2 DEF Count
  <2>3. DOMAIN call' = Fibers /\ call' = [g \in Fibers |-> call'[g]]
    BY <1>2 DEF Count
  <2> HIDE DEF c
  <2> QED BY <1>2, <2>1, <2>2, <2>3
<1>4. c.pc \in Making /\ c.main \in 1..current /\ c.table = call[f].table /\ c.producer <= created
  BY <1>1 DEF Place, Making
<1>5. f \notin Pending /\ f \in Pending'
  BY <1>1, <1>3 DEF Pending, Entering
<1> HIDE DEF c
<1>6. /\ Still /\ mine' = mine /\ hashCount' = hashCount + 1 /\ hashCount' \in Nat
      /\ resizing' \in BOOLEAN /\ failures' \in 0..MaxFailures
  BY <1>1 DEF Count, Still, producerVars, Types
<1> QED BY <1>1, <1>2, <1>3, <1>4, <1>5, <1>6, StillMaking

LEMMA LockResizeKeeps ==
  ASSUME IInv, NEW f \in Fibers, LockResize(f)
  PROVE  IInv'
<1>1. /\ call[f].pc = "grow" /\ call[f].pc \in Making /\ Types /\ Place(f, call[f], mine[f])
      /\ call[f].producer \in 0..MaxProducers
  BY BusyLive, CallType DEF LockResize, At, Making
<1>2. PICK x \in {"resize", "fit"} : GoTo(f, x) /\ resizing' \in BOOLEAN
  BY <1>1 DEF LockResize, Types
<1>3. x \in Making /\ x \in Pcs
  BY DEF Making, Pcs
<1>4. /\ call' \in [Fibers -> Calls] /\ call'[f] \in Calls
      /\ call'[f].pc = x /\ call'[f].main = call[f].main /\ call'[f].table = call[f].table
      /\ call'[f].producer = call[f].producer
      /\ \A g \in Fibers \ {f} : call'[g] = call[g]
  BY <1>1, <1>2, <1>3, GoesTo
<1>5. call[f].main \in 1..current /\ call[f].producer <= created
  BY <1>1 DEF Place
<1>6. f \in Pending /\ f \in Pending'
  BY <1>1, <1>4 DEF Pending
<1>7. f \in Counted'
  BY <1>6 DEF Counted
<1> QED BY <1>1, <1>2, <1>3, <1>4, <1>5, <1>6, <1>7, StillMaking
        DEF LockResize, Still, producerVars, Types

LEMMA UnlockResizeKeeps ==
  ASSUME IInv, NEW f \in Fibers, UnlockResize(f)
  PROVE  IInv'
<1>1. /\ call[f].pc = "unlock" /\ call[f].pc \in Making /\ Types /\ Place(f, call[f], mine[f])
      /\ call[f].producer \in 0..MaxProducers
  BY BusyLive, CallType DEF UnlockResize, At, Making
<1>2. "fit" \in Making /\ "fit" \in Pcs
  BY DEF Making, Pcs
<1>3. /\ call' \in [Fibers -> Calls] /\ call'[f] \in Calls
      /\ call'[f].pc = "fit" /\ call'[f].main = call[f].main /\ call'[f].table = call[f].table
      /\ call'[f].producer = call[f].producer
      /\ \A g \in Fibers \ {f} : call'[g] = call[g]
  BY <1>1, <1>2, GoesTo DEF UnlockResize
<1>4. call[f].main \in 1..current /\ call[f].producer <= created
  BY <1>1 DEF Place
<1>5. f \in Pending /\ f \in Pending'
  BY <1>1, <1>3 DEF Pending
<1>6. f \in Counted'
  BY <1>5 DEF Counted
<1> QED BY <1>1, <1>2, <1>3, <1>4, <1>5, <1>6, StillMaking
        DEF UnlockResize, Still, producerVars, Types

LEMMA ResizeFailsKeeps ==
  ASSUME IInv, NEW f \in Fibers, ResizeFails(f)
  PROVE  IInv'
<1>1. /\ call[f].pc = "resize" /\ call[f].pc \in Making /\ Types /\ CountOK
      /\ Place(f, call[f], mine[f]) /\ call[f].producer \in 0..MaxProducers
  BY BusyLive, CallType DEF ResizeFails, At, Making, IInv
<1>2. "abandon" \in Making /\ "abandon" \in Pcs
  BY DEF Making, Pcs
<1>3. /\ call' \in [Fibers -> Calls] /\ call'[f] \in Calls
      /\ call'[f].pc = "abandon" /\ call'[f].main = call[f].main /\ call'[f].table = call[f].table
      /\ call'[f].producer = call[f].producer
      /\ \A g \in Fibers \ {f} : call'[g] = call[g]
  BY <1>1, <1>2, GoesTo DEF ResizeFails
<1>4. call[f].main \in 1..current /\ call[f].producer <= created
  BY <1>1 DEF Place
<1>5. f \in Pending /\ f \notin Pending'
  BY <1>1, <1>3 DEF Pending, Entering
<1>6. hashCount' = hashCount - 1 /\ hashCount' \in Nat /\ failures' \in 0..MaxFailures
  BY <1>1, <1>5, CountPositive, BoundsAssumption DEF ResizeFails, Fail, Types
<1> QED BY <1>1, <1>2, <1>3, <1>4, <1>5, <1>6, StillMaking
        DEF ResizeFails, Still, producerVars, Types

LEMMA AbandonKeeps ==
  ASSUME IInv, NEW f \in Fibers, Abandon(f)
  PROVE  IInv'
<1>1. call[f].pc = "abandon" /\ call[f].pc \in Making /\ Types
  BY BusyLive DEF Abandon, At, Making
<1>2. f \notin Pending
  BY <1>1 DEF Pending, Entering
<1> QED BY <1>1, <1>2, GivesUp DEF Abandon, Still, producerVars, Types

LEMMA CreateFailsKeeps ==
  ASSUME IInv, NEW f \in Fibers, CreateFails(f)
  PROVE  IInv'
<1>1. call[f].pc = "recycle" /\ call[f].pc \in Making /\ Types /\ CountOK
  BY BusyLive DEF CreateFails, At, Making, IInv
<1>2. f \in Pending
  BY <1>1 DEF Pending
<1>3. hashCount' = hashCount - 1 /\ hashCount' \in Nat /\ failures' \in 0..MaxFailures
  BY <1>1, <1>2, CountPositive, BoundsAssumption DEF CreateFails, Fail, Types
<1> QED BY <1>1, <1>2, <1>3, GivesUp DEF CreateFails, Still, producerVars, Types

\* The fiber stays with the table it has, or takes the newest one and starts again.
LEMMA FitMoves ==
  ASSUME IInv, NEW f \in Fibers, Fit(f)
  PROVE  /\ call' \in [Fibers -> Calls] /\ call'[f] \in Calls
         /\ \A g \in Fibers \ {f} : call'[g] = call[g]
         /\ call'[f].table = call[f].table
         /\ \/ /\ call[f].newCount < Capacity(call[f].main) \div 2 + Capacity(call[f].main) \div 4
               /\ call'[f].pc = "recycle" /\ call'[f].main = call[f].main /\ call'[f].producer = created
            \/ /\ call'[f].pc = "grow" /\ call'[f].main = current
               /\ call'[f].newCount = call[f].newCount /\ call'[f].producer = call[f].producer
<1> DEFINE go == [pc |-> "recycle", main |-> call[f].main, table |-> call[f].table,
                  index |-> call[f].index, newCount |-> 0, producer |-> created]
           wait == [pc |-> "grow", main |-> current, table |-> call[f].table,
                    index |-> call[f].index, newCount |-> call[f].newCount,
                    producer |-> call[f].producer]
<1>1. /\ call[f].pc = "fit" /\ call[f].pc \in Making /\ Types /\ Place(f, call[f], mine[f])
      /\ call \in [Fibers -> Calls] /\ created \in 0..MaxProducers /\ current \in 1..current
  BY BusyLive, CurrentType DEF Fit, At, Making, Types
<1>2. go \in Calls /\ wait \in Calls
  <2>1. "recycle" \in Pcs /\ "grow" \in Pcs /\ current \in Nat
    BY <1>1 DEF Pcs, Making
  <2> QED BY <1>1, <2>1, CallType DEF Calls
<1>3. call[f] \in Calls
  BY <1>1
<1>4. /\ [call[f] EXCEPT !.pc = "recycle", !.producer = created, !.newCount = 0] = go
      /\ [call[f] EXCEPT !.pc = "grow", !.main = current] = wait
  <2> DEFINE a == [pc |-> "recycle", main |-> call[f].main, table |-> call[f].table,
                   index |-> call[f].index, newCount |-> call[f].newCount,
                   producer |-> call[f].producer]
             b == [pc |-> "recycle", main |-> call[f].main, table |-> call[f].table,
                   index |-> call[f].index, newCount |-> call[f].newCount, producer |-> created]
             d == [pc |-> "grow", main |-> call[f].main, table |-> call[f].table,
                   index |-> call[f].index, newCount |-> call[f].newCount,
                   producer |-> call[f].producer]
  <2>1. [call[f] EXCEPT !.pc = "recycle"] = a /\ [call[f] EXCEPT !.pc = "grow"] = d
    BY <1>3 DEF Calls
  <2>2. [a EXCEPT !.producer = created] = b /\ [b EXCEPT !.newCount = 0] = go
        /\ [d EXCEPT !.main = current] = wait
    OBVIOUS
  <2> HIDE DEF a, b, d, go, wait
  <2> QED BY <2>1, <2>2, Zenon
<1> HIDE DEF go, wait
<1>5. \/ /\ call[f].newCount < Capacity(call[f].main) \div 2 + Capacity(call[f].main) \div 4
         /\ call' = [call EXCEPT ![f] = go]
      \/ call' = [call EXCEPT ![f] = wait]
  BY <1>4 DEF Fit
<1>6. call' = [call EXCEPT ![f] = go] =>
        /\ call' \in [Fibers -> Calls] /\ call'[f] = go
        /\ \A g \in Fibers \ {f} : call'[g] = call[g]
  BY <1>1, <1>2, Moves
<1>7. call' = [call EXCEPT ![f] = wait] =>
        /\ call' \in [Fibers -> Calls] /\ call'[f] = wait
        /\ \A g \in Fibers \ {f} : call'[g] = call[g]
  BY <1>1, <1>2, Moves
<1> QED BY <1>2, <1>5, <1>6, <1>7 DEF go, wait

LEMMA FitKeeps ==
  ASSUME IInv, NEW f \in Fibers, Fit(f)
  PROVE  IInv'
<1>1. /\ call[f].pc = "fit" /\ call[f].pc \in Making /\ Types /\ Place(f, call[f], mine[f])
      /\ call \in [Fibers -> Calls] /\ created \in 0..MaxProducers /\ current \in 1..current
  BY BusyLive, CurrentType DEF Fit, At, Making, Types
<1> DEFINE c == call'[f]
<1>2. /\ call' \in [Fibers -> Calls] /\ c \in Calls /\ c.pc \in {"recycle", "grow"}
      /\ c.table = call[f].table /\ c.main \in {call[f].main, current}
      /\ c.producer \in {call[f].producer, created}
      /\ \A g \in Fibers \ {f} : call'[g] = call[g]
  BY FitMoves
<1> HIDE DEF c
<1>3. c.main \in 1..current /\ c.producer <= created
  <2>1. call[f].main \in 1..current /\ call[f].producer <= created
    BY <1>1 DEF Place
  <2>2. created <= created
    BY <1>1, BoundsAssumption
  <2> QED BY <1>1, <1>2, <2>1, <2>2
<1>4. c.pc \in Making /\ f \in Pending /\ f \in Pending'
  BY <1>1, <1>2 DEF Pending, Making, c
<1>5. f \in Counted'
  BY <1>4 DEF Counted
<1>6. /\ Still /\ mine' = mine /\ hashCount' = hashCount /\ hashCount' \in Nat
      /\ resizing' \in BOOLEAN /\ failures' \in 0..MaxFailures
  BY <1>1 DEF Fit, Still, hashVars, producerVars, Types
<1> QED BY <1>1, <1>2, <1>3, <1>4, <1>5, <1>6, StillMaking DEF c

\* The walk over the producer list.
LEMMA SkipKeeps ==
  ASSUME IInv, NEW f \in Fibers, Recycle(f), call[f].producer \notin inactive
  PROVE  IInv'
<1> DEFINE c == [pc |-> call[f].pc, main |-> call[f].main, table |-> call[f].table,
                 index |-> call[f].index, newCount |-> call[f].newCount,
                 producer |-> call[f].producer - 1]
<1>1. /\ call[f].pc = "recycle" /\ call[f].pc \in Making /\ Types /\ Place(f, call[f], mine[f])
      /\ call \in [Fibers -> Calls] /\ call[f] \in Calls
  BY BusyLive DEF Recycle, At, Making, Types
<1>2. /\ call[f].producer \in 0..MaxProducers /\ call[f].producer # 0 /\ MaxProducers \in Nat
      /\ created \in 0..MaxProducers /\ call[f].producer <= created
  BY <1>1, CallType, BoundsAssumption DEF Recycle, None, Place, Types
<1>3. call[f].producer - 1 \in 0..MaxProducers /\ call[f].producer - 1 <= created
  BY <1>2
<1>4. c \in Calls
  BY <1>1, <1>3, CallType DEF Calls
<1>5. [call[f] EXCEPT !.producer = @ - 1] = c
  BY <1>1 DEF Calls
<1>6. c.pc = "recycle" /\ c.main = call[f].main /\ c.table = call[f].table /\ c.producer <= created
  BY <1>1, <1>3
<1> HIDE DEF c
<1>7. call' = [call EXCEPT ![f] = c]
  <2>1. call' = [call EXCEPT ![f].producer = @ - 1]
    BY DEF Recycle
  <2> QED BY <1>5, <2>1, Zenon
<1>8. /\ call' \in [Fibers -> Calls] /\ call'[f] = c /\ \A g \in Fibers \ {f} : call'[g] = call[g]
  BY <1>1, <1>4, <1>7, Moves
<1>9. c.pc \in Making /\ c.main \in 1..current /\ f \in Pending /\ f \in Pending'
  BY <1>1, <1>6, <1>8 DEF Pending, Making, Place
<1>10. f \in Counted'
  BY <1>9 DEF Counted
<1>11. /\ Still /\ mine' = mine /\ hashCount' = hashCount /\ hashCount' \in Nat
       /\ resizing' \in BOOLEAN /\ failures' \in 0..MaxFailures
  BY <1>1 DEF Recycle, Still, hashVars, Types
<1> QED BY <1>1, <1>4, <1>6, <1>8, <1>9, <1>10, <1>11, StillMaking

\* Somebody else has replaced the table.
LEMMA ReplacedKeeps ==
  ASSUME IInv, NEW f \in Fibers, Resize(f), tables' = tables
  PROVE  IInv'
<1> DEFINE c == [pc |-> "unlock", main |-> current, table |-> call[f].table,
                 index |-> call[f].index, newCount |-> call[f].newCount,
                 producer |-> call[f].producer]
<1>1. /\ call[f].pc = "resize" /\ call[f].pc \in Making /\ Types /\ Place(f, call[f], mine[f])
      /\ call \in [Fibers -> Calls] /\ call[f] \in Calls
      /\ current \in 1..current /\ current \in Nat
  BY BusyLive, CurrentType DEF Resize, At, Making, Types
<1>2. c \in Calls
  <2>1. "unlock" \in Pcs
    BY DEF Pcs, Making
  <2> QED BY <1>1, <2>1, CallType DEF Calls
<1>4. ~Crowded(call[f].newCount, current)
  <2> SUFFICES ASSUME tables' = Append(tables, NewTable(NewSize(call[f].newCount, current)))
               PROVE  FALSE
    BY DEF Resize
  <2>1. NewTable(NewSize(call[f].newCount, current)) \in Table
    BY <1>1, CallType, NewSizes, NewTables
  <2>2. Len(tables') = Len(tables) + 1 /\ Len(tables) \in Nat
    BY <1>1, <2>1, AppendProperties, LenProperties DEF Types
  <2> QED BY <2>2
<1>5. c.pc = "unlock" /\ c.main = current /\ c.table = call[f].table /\ c.producer = call[f].producer
  OBVIOUS
<1> HIDE DEF c
<1>6. call'[f] = c /\ call' \in [Fibers -> Calls] /\ \A g \in Fibers \ {f} : call'[g] = call[g]
  <2>1. call' = [call EXCEPT ![f].main = current, ![f].pc = "unlock"]
    BY <1>4 DEF Resize
  <2>2. call'[f] = c
    BY <1>1, <2>1 DEF Calls, c
  <2>3. \A g \in Fibers \ {f} : call'[g] = call[g]
    BY <1>1, <2>1
  <2>4. call' = [g \in Fibers |-> call'[g]]
    BY <1>1, <2>1
  <2> QED BY <1>1, <1>2, <2>2, <2>3, <2>4
<1>7. c.pc \in Making /\ c.main \in 1..current /\ c.producer <= created
      /\ f \in Pending /\ f \in Pending'
  BY <1>1, <1>5, <1>6 DEF Pending, Making, Place
<1>8. f \in Counted'
  BY <1>7 DEF Counted
<1>9. /\ Still /\ mine' = mine /\ hashCount' = hashCount /\ hashCount' \in Nat
      /\ resizing' \in BOOLEAN /\ failures' \in 0..MaxFailures
  BY <1>1 DEF Resize, Still, producerVars, Types
<1> QED BY <1>1, <1>2, <1>5, <1>6, <1>7, <1>8, <1>9, StillMaking

-------------------------------------------------------------------------------
(* Searching *)

\* A step that counts nobody.
LEMMA QuietKeeps ==
  ASSUME IInv, NEW f \in Live, Still, hashCount' = hashCount, resizing' = resizing,
         failures' = failures, call' \in [Fibers -> Calls], mine' \in [Fibers -> 0..MaxProducers],
         \A g \in Fibers \ {f} : call'[g] = call[g] /\ mine'[g] = mine[g],
         Sound(f, call'[f], mine'[f]), mine[f] # None => mine'[f] # None,
         IF call[f].pc \in Entering THEN call'[f].pc = call[f].pc
                                    ELSE /\ call[f].pc \in {"idle", "probe", "readd"}
                                         /\ call'[f].pc \in {"idle", "probe", "readd", "count"}
  PROVE  IInv'
<1>1. Types /\ CountOK /\ OthersStay(f) /\ f \in Fibers /\ ended' = ended
  BY Quietly DEF IInv, Still, Live
<1>2. Unfinished'
  BY <1>1, QuietStep DEF Types
<1>3. Types'
  BY <1>2 DEF Unfinished
<1>4. (f \in Pending) <=> (f \in Pending')
  BY <1>1 DEF Pending, Entering
<1>5. f \in Counted => f \in Counted'
  BY <1>1, <1>4 DEF Counted
<1>6. CountOK'
  BY <1>1, <1>3, <1>4, <1>5, CountKept
<1> QED BY <1>2, <1>6 DEF IInv, Unfinished

\* Found in the newest table: the producer is the fiber's own.
LEMMA FoundNewest ==
  ASSUME IInv, NEW f \in Fibers, Found(f), call[f].table = call[f].main
  PROVE  IInv' /\ (mine[f] # None => mine'[f] = mine[f])
<1> DEFINE t == call[f].table
           i == call[f].index
           p == tables[t].value[i]
<1>1. /\ call[f].pc = "probe" /\ Types /\ f \in Live /\ Place(f, call[f], mine[f])
      /\ Own(f, call[f], mine[f]) /\ Seek(f, call[f], mine[f])
      /\ t \in 1..current /\ i \in 0..(Capacity(t) - 1) /\ tables[t].key[i] = f
  BY BusyLive, AtSlot DEF Found, At, KeyAt
<1>2. p # None /\ subscriber[p] = f /\ p <= created /\ p \in 0..MaxProducers
  <2>1. p \in 0..MaxProducers
    BY <1>1, TableShape
  <2> QED BY <1>1, <2>1 DEF IInv, EntriesOK
<1>3. \A q \in Producers : subscriber[q] = f => mine[f] = q
  BY <1>1 DEF Own, Entering
<1>4. p \in Producers /\ mine[f] = p
  BY <1>2, <1>3, BoundsAssumption DEF Producers, None
<1>5. InTable(f, t)
  BY <1>1 DEF InTable, Seek, Behind
<1>6. mine' = [mine EXCEPT ![f] = p] /\ call' = [call EXCEPT ![f] = NoCall]
  BY DEF Found, Return
<1> HIDE DEF p
<1>7. /\ call' \in [Fibers -> Calls] /\ call'[f] = NoCall
      /\ \A g \in Fibers \ {f} : call'[g] = call[g]
  BY <1>1, <1>6, NoCalls, Moves
<1>8. /\ mine' \in [Fibers -> 0..MaxProducers] /\ mine'[f] = p
      /\ \A g \in Fibers \ {f} : mine'[g] = mine[g]
  BY <1>1, <1>2, <1>6, Gets
<1>9. Sound(f, NoCall, p)
  <2>1. current \in Nat /\ created \in Nat
    BY <1>1, CurrentType, BoundsAssumption DEF Types
  <2>2. Place(f, NoCall, p)
    BY <1>1, <1>2, <2>1 DEF Place, NoCall, None, Making, Entering, Live
  <2>3. Own(f, NoCall, p)
    BY <1>2, <1>3, <1>4 DEF Own, NoCall, Making, Entering
  <2>4. Seek(f, NoCall, p)
    BY <1>1, <1>5 DEF Seek, NoCall
  <2> QED BY <2>2, <2>3, <2>4 DEF Sound
<1>10. /\ Still /\ hashCount' = hashCount /\ resizing' = resizing /\ failures' = failures
  BY DEF Found, Still, hashVars, producerVars
<1>11. NoCall.pc = "idle" /\ call[f].pc \notin Entering
  BY <1>1 DEF NoCall, Entering
<1>12. IInv'
  BY <1>1, <1>2, <1>7, <1>8, <1>9, <1>10, <1>11, QuietKeeps
<1> QED BY <1>4, <1>8, <1>12

\* Found in an older table: the fiber looks for a slot in the newest one.
LEMMA FoundOlder ==
  ASSUME IInv, NEW f \in Fibers, Found(f), call[f].table # call[f].main
  PROVE  IInv' /\ mine' = mine
<1> DEFINE t == call[f].table
           i == call[f].index
           p == tables[t].value[i]
           m == call[f].main
           c == [pc |-> "readd", main |-> 0, table |-> m, index |-> Slot(f, m),
                 newCount |-> call[f].newCount, producer |-> p]
<1>1. /\ call[f].pc = "probe" /\ Types /\ f \in Live /\ Place(f, call[f], mine[f])
      /\ Own(f, call[f], mine[f]) /\ Seek(f, call[f], mine[f])
      /\ t \in 1..current /\ i \in 0..(Capacity(t) - 1) /\ tables[t].key[i] = f
      /\ m \in 1..current /\ call \in [Fibers -> Calls]
  BY BusyLive, AtSlot DEF Found, At, KeyAt, Place, Types
<1>2. p # None /\ subscriber[p] = f /\ p <= created /\ p \in 0..MaxProducers
  <2>1. p \in 0..MaxProducers
    BY <1>1, TableShape
  <2> QED BY <1>1, <2>1 DEF IInv, EntriesOK
<1>3. /\ SlotOK(m, Slot(f, m)) /\ Slot(f, m) \in Nat
      /\ Passed(Slot(f, m), Slot(f, m), Capacity(m)) = {}
  BY <1>1, Starts
<1>4. c \in Calls
  <2>1. "readd" \in Pcs /\ m \in Nat
    BY <1>1 DEF Pcs
  <2>2. call[f].newCount \in Nat
    BY <1>1, CallType
  <2> HIDE DEF p, m
  <2> QED BY <1>2, <1>3, <2>1, <2>2 DEF Calls
<1>5. /\ call'[f] = c /\ mine' = mine /\ call' = [g \in Fibers |-> call'[g]]
      /\ \A g \in Fibers \ {f} : call'[g] = call[g]
  <2>1. call' = [call EXCEPT ![f].pc = "readd", ![f].producer = p, ![f].table = m,
                             ![f].main = 0, ![f].index = Slot(f, m)] /\ mine' = mine
    BY DEF Found
  <2> HIDE DEF p, m
  <2>2. call'[f] = c
    BY <1>1, <2>1 DEF Calls
  <2> HIDE DEF c
  <2> QED BY <1>1, <2>1, <2>2
<1>6. c.pc = "readd" /\ c.main = 0 /\ c.table = m /\ c.index = Slot(f, m) /\ c.producer = p
  OBVIOUS
<1> HIDE DEF c, p, m
<1>7. call' \in [Fibers -> Calls]
  <2>1. \A g \in Fibers : call'[g] \in Calls
    BY <1>1, <1>4, <1>5
  <2> QED BY <1>5, <2>1
<1>8. Sound(f, c, mine[f])
  <2>1. current \in Nat
    BY <1>1, CurrentType
  <2>2. Place(f, c, mine[f])
    BY <1>1, <1>2, <1>3, <1>6, <2>1 DEF Place, Making, Entering, Live
  <2>3. Own(f, c, mine[f])
    BY <1>1, <1>2, <1>6 DEF Own, Making, Entering
  <2>4. Behind(f, c) = {}
    BY <1>3, <1>6 DEF Behind
  <2>5. mine[f] # None => \E u \in 1..current : InTable(f, u)
    <3>1. \A u \in 1..call[f].table : u \in 1..current
      BY <1>1, <2>1
    <3> QED BY <1>1, <3>1 DEF Seek
  <2>6. Seek(f, c, mine[f])
    BY <1>6, <2>4, <2>5 DEF Seek
  <2> QED BY <2>2, <2>3, <2>6 DEF Sound
<1>9. /\ Still /\ hashCount' = hashCount /\ resizing' = resizing /\ failures' = failures
  BY DEF Found, Still, hashVars, producerVars
<1>10. call[f].pc \notin Entering
  BY <1>1 DEF Entering
<1>11. mine' \in [Fibers -> 0..MaxProducers]
  BY <1>1, <1>5 DEF Types
<1> QED BY <1>1, <1>5, <1>6, <1>7, <1>8, <1>9, <1>10, <1>11, QuietKeeps

\* After the oldest table, the fiber is in none and has no producer.
LEMMA NotInTableKeeps ==
  ASSUME IInv, NEW f \in Fibers, NotInTable(f)
  PROVE  IInv' /\ mine' = mine
<1> DEFINE t == call[f].table
<1>1. /\ call[f].pc = "probe" /\ Types /\ f \in Live /\ Place(f, call[f], mine[f])
      /\ Own(f, call[f], mine[f]) /\ Seek(f, call[f], mine[f])
      /\ t \in 1..current /\ call[f].index \in 0..(Capacity(t) - 1)
      /\ tables[t].key[call[f].index] = invalid_fiber_id
      /\ call \in [Fibers -> Calls] /\ current \in Nat
  BY BusyLive, AtSlot, CurrentType DEF NotInTable, At, KeyAt, Types
<1>2. ~InTable(f, t)
  BY <1>1, NotThere DEF Seek, Behind
<1>3. mine[f] # None => \E u \in 1..(t - 1) : InTable(f, u)
  <2> SUFFICES ASSUME mine[f] # None
               PROVE  \E u \in 1..(t - 1) : InTable(f, u)
    OBVIOUS
  <2>1. PICK u \in 1..t : InTable(f, u)
    BY <1>1 DEF Seek
  <2>2. u # t
    BY <1>2, <2>1
  <2>3. u \in 1..(t - 1)
    BY <1>1, <2>1, <2>2
  <2> QED BY <2>1, <2>3
<1>4. /\ Still /\ hashCount' = hashCount /\ resizing' = resizing /\ failures' = failures
      /\ mine' = mine
  BY DEF NotInTable, Still, hashVars, producerVars
<1>5. mine' \in [Fibers -> 0..MaxProducers] /\ call[f].pc \notin Entering
  BY <1>1, <1>4 DEF Types, Entering
<1>6. CASE t > 1
  <2> DEFINE u == t - 1
             c == [pc |-> "probe", main |-> call[f].main, table |-> u, index |-> Slot(f, u),
                   newCount |-> call[f].newCount, producer |-> call[f].producer]
  <2>1. u \in 1..current /\ u \in Nat /\ u < t /\ u <= call[f].main
    BY <1>1, <1>6 DEF Place
  <2>2. /\ SlotOK(u, Slot(f, u)) /\ Slot(f, u) \in Nat
        /\ Passed(Slot(f, u), Slot(f, u), Capacity(u)) = {}
    BY <1>1, <2>1, Starts
  <2>3. c \in Calls
    <3> HIDE DEF u
    <3>1. "probe" \in Pcs
      BY DEF Pcs
    <3> QED BY <1>1, <2>1, <2>2, <3>1, CallType DEF Calls
  <2>4. /\ call' = [g \in Fibers |-> call'[g]] /\ call'[f] = c
        /\ \A g \in Fibers \ {f} : call'[g] = call[g]
    <3>1. call' = [call EXCEPT ![f].table = u, ![f].index = Slot(f, u), ![f].pc = "probe"]
      BY <1>6 DEF NotInTable, Search
    <3> HIDE DEF u
    <3>2. call'[f] = c
      BY <1>1, <3>1 DEF Calls
    <3> HIDE DEF c
    <3> QED BY <1>1, <3>1, <3>2
  <2>5. c.pc = "probe" /\ c.main = call[f].main /\ c.table = u /\ c.index = Slot(f, u)
        /\ c.producer = call[f].producer
    OBVIOUS
  <2>6. mine[f] # None => \E v \in 1..u : InTable(f, v)
    BY <1>3, <2>1
  <2> HIDE DEF c, u
  <2>7. call' \in [Fibers -> Calls]
    <3>1. \A g \in Fibers : call'[g] \in Calls
      BY <1>1, <2>3, <2>4
    <3> QED BY <2>4, <3>1
  <2>8. Sound(f, c, mine[f])
    <3>1. Place(f, c, mine[f])
      BY <1>1, <2>1, <2>2, <2>5 DEF Place, Making, Entering, Live
    <3>2. Own(f, c, mine[f])
      BY <1>1, <2>5 DEF Own, Making, Entering
    <3>3. Behind(f, c) = {}
      BY <2>2, <2>5 DEF Behind
    <3>4. Seek(f, c, mine[f])
      BY <2>5, <2>6, <3>3 DEF Seek
    <3> QED BY <3>1, <3>2, <3>4 DEF Sound
  <2> QED BY <1>1, <1>4, <1>5, <2>4, <2>5, <2>7, <2>8, QuietKeeps
<1>7. CASE ~(t > 1)
  <2>1. GoTo(f, "count") /\ "count" \in Pcs
    BY <1>7 DEF NotInTable, Pcs, Making
  <2> DEFINE c == call'[f]
  <2>2. /\ call' \in [Fibers -> Calls] /\ c.pc = "count" /\ c.main = call[f].main
        /\ c.table = call[f].table /\ c.producer = call[f].producer
        /\ \A g \in Fibers \ {f} : call'[g] = call[g]
    BY <1>1, <2>1, GoesTo
  <2>3. mine[f] = None
    <3>1. 1..(t - 1) = {}
      BY <1>1, <1>7
    <3> QED BY <1>3, <3>1
  <2>4. \A p \in Producers : subscriber[p] # f
    BY <1>1, <2>3 DEF Own, Producers, None, Entering
  <2> HIDE DEF c
  <2>5. Sound(f, c, mine[f])
    <3>1. Place(f, c, mine[f])
      BY <1>1, <2>2 DEF Place, Making, Entering, Live
    <3>2. Own(f, c, mine[f]) /\ Seek(f, c, mine[f])
      BY <2>2, <2>3, <2>4 DEF Own, Seek, Making, Entering
    <3> QED BY <3>1, <3>2 DEF Sound
  <2> QED BY <1>1, <1>4, <1>5, <2>2, <2>5, QuietKeeps DEF c
<1> QED BY <1>4, <1>6, <1>7

\* The slot is another's, or there is none in it to be taken: on to the next.
LEMMA MovesOn ==
  ASSUME IInv, NEW f \in Fibers, NextSlot(f), Still, mine' = mine,
         hashCount' = hashCount, resizing' = resizing, failures' = failures,
         call[f].pc \in {"probe", "readd", "insert"}, KeyAt(f) # invalid_fiber_id,
         call[f].pc = "probe" => KeyAt(f) # f
  PROVE  IInv'
<1> DEFINE t == call[f].table
           j == After(call[f].index, t)
           c == call'[f]
<1>1. /\ Types /\ f \in Live /\ Place(f, call[f], mine[f])
      /\ Own(f, call[f], mine[f]) /\ Seek(f, call[f], mine[f])
      /\ t \in 1..current /\ j \in 0..(Capacity(t) - 1) /\ Capacity(t) \in Nat \ {0}
      /\ Passed(Slot(f, t), j, Capacity(t)) \subseteq Behind(f, call[f]) \cup {call[f].index}
      /\ mine \in [Fibers -> 0..MaxProducers]
  BY BusyLive, AtSlot DEF Types, Entering
<1>2. j \in Nat
  BY <1>1
<1>3. /\ call' \in [Fibers -> Calls] /\ c.pc = call[f].pc /\ c.main = call[f].main
      /\ c.table = t /\ c.index = j /\ c.producer = call[f].producer
      /\ \A g \in Fibers \ {f} : call'[g] = call[g]
  BY <1>1, <1>2, NextSlots
<1> HIDE DEF c, j
<1>4. Sound(f, c, mine[f])
  <2>1. Place(f, c, mine[f])
    BY <1>1, <1>3 DEF Place, SlotOK
  <2>2. Own(f, c, mine[f])
    BY <1>1, <1>3 DEF Own
  <2>3. Behind(f, c) \subseteq Behind(f, call[f]) \cup {call[f].index}
    BY <1>1, <1>3 DEF Behind
  <2>4. Seek(f, c, mine[f])
    BY <1>1, <1>3, <2>3 DEF Seek, KeyAt
  <2> QED BY <2>1, <2>2, <2>4 DEF Sound
<1>5. IF call[f].pc \in Entering THEN call'[f].pc = call[f].pc
                                 ELSE /\ call[f].pc \in {"idle", "probe", "readd"}
                                      /\ call'[f].pc \in {"idle", "probe", "readd", "count"}
  BY <1>3 DEF c, Entering
<1> QED BY <1>1, <1>3, <1>4, <1>5, QuietKeeps DEF c

LEMMA ProbeNextKeeps ==
  ASSUME IInv, NEW f \in Fibers, ProbeNext(f)
  PROVE  IInv' /\ mine' = mine
BY MovesOn DEF ProbeNext, At, Still, hashVars, producerVars

\* The slot was counted before.
LEMMA DiscountKeeps ==
  ASSUME IInv, NEW f \in Fibers, Discount(f)
  PROVE  IInv' /\ mine[f] = None /\ \A g \in Fibers \ {f} : mine'[g] = mine[g]
<1> DEFINE t == call[f].table
           p == call[f].producer
<1>1. /\ call[f].pc = "discount" /\ Types /\ CountOK /\ f \in Live
      /\ Place(f, call[f], mine[f]) /\ Own(f, call[f], mine[f]) /\ Seek(f, call[f], mine[f])
      /\ t \in 1..current /\ call[f].pc \in Entering
  BY BusyLive, AtSlot DEF Discount, At, Entering, IInv
<1>2. /\ mine[f] = None /\ p # None /\ subscriber[p] = f /\ InTable(f, t)
      /\ p <= created /\ p \in 0..MaxProducers
      /\ \A q \in Producers : subscriber[q] = f => p = q
  <2>1. \A q \in Producers : q # None
    BY DEF Producers, None
  <2> QED BY <1>1, <2>1, CallType DEF Place, Own, Seek
<1>3. mine' = [mine EXCEPT ![f] = p] /\ call' = [call EXCEPT ![f] = NoCall]
  BY DEF Discount, Return
<1> HIDE DEF p
<1>4. /\ call' \in [Fibers -> Calls] /\ call'[f] = NoCall
      /\ \A g \in Fibers \ {f} : call'[g] = call[g]
  BY <1>1, <1>3, NoCalls, Moves
<1>5. /\ mine' \in [Fibers -> 0..MaxProducers] /\ mine'[f] = p
      /\ \A g \in Fibers \ {f} : mine'[g] = mine[g]
  BY <1>1, <1>2, <1>3, Gets
<1>6. Sound(f, NoCall, p)
  <2>1. current \in Nat /\ created \in Nat
    BY <1>1, CurrentType, BoundsAssumption DEF Types
  <2>2. Place(f, NoCall, p)
    BY <1>1, <1>2, <2>1 DEF Place, NoCall, None, Making, Entering, Live
  <2>3. Own(f, NoCall, p)
    BY <1>2 DEF Own, NoCall, Making, Entering
  <2>4. Seek(f, NoCall, p)
    BY <1>1, <1>2 DEF Seek, NoCall
  <2> QED BY <2>2, <2>3, <2>4 DEF Sound
<1>7. f \in Pending /\ f \notin Pending'
  BY <1>1, <1>4 DEF Pending, NoCall, Entering
<1>8. /\ Still /\ hashCount' = hashCount - 1 /\ resizing' \in BOOLEAN /\ failures' \in 0..MaxFailures
  BY <1>1 DEF Discount, Still, producerVars, Types
<1>9. hashCount' \in Nat /\ OthersStay(f)
  BY <1>1, <1>4, <1>5, <1>7, <1>8, CountPositive, Quietly DEF Still
<1>10. Unfinished'
  BY <1>4, <1>5, <1>6, <1>8, <1>9, QuietStep
<1>11. CountOK'
  BY <1>1, <1>7, <1>8, <1>9, <1>10, CountDown DEF Unfinished
<1> QED BY <1>2, <1>5, <1>10, <1>11 DEF IInv, Unfinished

-------------------------------------------------------------------------------
(* Entering a producer in a table *)

LEMMA Stores ==
  ASSUME IInv, NEW f \in Fibers, call[f].pc \in {"readd", "insert"}, Free(KeyAt(f)),
         Store(f, call[f].producer), UNCHANGED <<created, subscriber, ended>>
  PROVE  /\ tables' \in Seq(Table) /\ current' = current
         /\ \A u \in 1..current : Capacity(u)' = Capacity(u)
         /\ \A g \in Fibers \ {f} : TablesKept(g)
         /\ \E t \in 1..current : t = call[f].table /\ InTable(f, t)'
         /\ EntriesOK'
<1>1. /\ Types /\ f \in Live /\ Place(f, call[f], mine[f])
      /\ Own(f, call[f], mine[f]) /\ Seek(f, call[f], mine[f]) /\ EntriesOK
      /\ call[f].pc \in {"readd"} \cup Entering
      /\ current \in Nat
  BY BusyLive, CurrentType DEF Entering, IInv
<1>2. PICK t \in 1..current : t = call[f].table
  BY <1>1, AtSlot
<1>3. PICK i \in 0..(Capacity(t) - 1) : i = call[f].index
  BY <1>1, <1>2, AtSlot
<1>4. PICK p \in 0..MaxProducers : p = call[f].producer
  BY <1>1, CallType
<1>5. f \in Keys /\ p # None /\ subscriber[p] = f /\ p <= created
  BY <1>1, <1>4 DEF Keys, Ids, Own, Place
<1>6. /\ tables' \in Seq(Table) /\ current' = current
      /\ \A u \in 1..current :
           /\ Capacity(u)' = Capacity(u)
           /\ \A j \in 0..(Capacity(u) - 1) :
                /\ tables'[u].key[j] = IF u = t /\ j = i THEN f ELSE tables[u].key[j]
                /\ tables'[u].value[j] = IF u = t /\ j = i THEN p ELSE tables[u].value[j]
  <2>1. Written(t, i, f, p)
    BY <1>2, <1>3, <1>4, Zenon DEF Store, Written
  <2> QED BY <1>1, <1>5, <2>1, Writes
<1>7. tables[t].key[i] \notin Fibers /\ f # invalid_fiber_id
  BY <1>2, <1>3, IdsAssumption DEF Free, KeyAt, Ids
<1>8. ASSUME NEW g \in Fibers \ {f}
      PROVE  TablesKept(g)
  BY <1>1, <1>6, <1>7 DEF TablesKept
<1>9. InTable(f, t)'
  <2>1. /\ Capacity(t)' = Capacity(t) /\ Slot(f, t)' = Slot(f, t)
        /\ Capacity(t) \in Nat \ {0} /\ Slot(f, t) \in 0..(Capacity(t) - 1)
    BY <1>1, <1>6, TableShape, Slots DEF Slot, Ids
  <2>2. \A j \in Passed(Slot(f, t), i, Capacity(t)) :
          j \in 0..(Capacity(t) - 1) /\ tables[t].key[j] # invalid_fiber_id
    BY <1>1, <1>2, <1>3, <2>1, PassedNext DEF Seek, Behind
  <2>3. tables'[t].key[i] = f
    BY <1>6
  <2>4. \A j \in Passed(Slot(f, t), i, Capacity(t)) : tables'[t].key[j] # invalid_fiber_id
    BY <1>6, <1>7, <2>2
  <2> QED BY <2>1, <2>3, <2>4 DEF InTable
<1>10. EntriesOK'
  <2> SUFFICES ASSUME NEW u \in 1..current, NEW j \in 0..(Capacity(u) - 1)
               PROVE  /\ tables'[u].value[j] <= created
                      /\ tables'[u].key[j] \in Live =>
                           /\ tables'[u].value[j] # None
                           /\ subscriber[tables'[u].value[j]] = tables'[u].key[j]
    BY <1>6 DEF EntriesOK, Live
  <2>1. CASE u = t /\ j = i
    BY <1>5, <1>6, <2>1
  <2>2. CASE ~(u = t /\ j = i)
    BY <1>1, <1>6, <2>2 DEF EntriesOK
  <2> QED BY <2>1, <2>2
<1> QED BY <1>2, <1>6, <1>8, <1>9, <1>10

\* Everybody else is left alone by that.
LEMMA StoreStep ==
  ASSUME IInv, NEW f \in Fibers, call[f].pc \in {"readd", "insert"}, Free(KeyAt(f)),
         Store(f, call[f].producer),
         UNCHANGED <<hashCount, resizing, created, inactive, subscriber, ended, exiting, failures>>,
         call' \in [Fibers -> Calls], mine' \in [Fibers -> 0..MaxProducers], OthersStay(f),
         FiberOK(f)'
  PROVE  Unfinished'
<1>1. Types
  BY DEF IInv
<1>2. /\ tables' \in Seq(Table) /\ current' = current
      /\ \A u \in 1..current : Capacity(u)' = Capacity(u)
      /\ \A g \in Fibers \ {f} : TablesKept(g)
      /\ EntriesOK'
  BY Stores
<1>3. Types'
  BY <1>1, <1>2 DEF Types
<1>4. FibersOK'
  <2> SUFFICES ASSUME NEW g \in Fibers, g # f
               PROVE  FiberOK(g)'
    BY DEF FibersOK
  <2>1. FiberOK(g)
    BY DEF IInv, FibersOK
  <2>2. created \in Nat
    BY <1>1, BoundsAssumption DEF Types
  <2>3. FiberKept(g)
    BY <1>2, <2>2 DEF FiberKept, OthersStay
  <2> QED BY <1>1, <2>1, <2>3, OthersKeep
<1>5. FreeOK'
  BY DEF IInv, FreeOK
<1>6. ExitOK'
  <2>1. SlotOK(exiting.table, exiting.index) => SlotOK(exiting.table, exiting.index)'
    BY <1>2 DEF SlotOK
  <2> QED BY <2>1 DEF IInv, ExitOK, Live
<1>7. ServedOK'
  BY DEF IInv, ServedOK, Served
<1> QED BY <1>2, <1>3, <1>4, <1>5, <1>6, <1>7 DEF Unfinished

\* The call is over, and the fiber has the producer it entered.
LEMMA Entered ==
  ASSUME IInv, NEW f \in Fibers, call[f].pc \in {"readd", "insert"}, Free(KeyAt(f)),
         Store(f, call[f].producer), Return(f), mine' = [mine EXCEPT ![f] = call[f].producer],
         UNCHANGED <<hashCount, resizing, created, inactive, subscriber, ended, exiting, failures>>
  PROVE  IInv' /\ (mine[f] # None => mine'[f] = mine[f])
<1>1. /\ Types /\ CountOK /\ f \in Live /\ Place(f, call[f], mine[f])
      /\ Own(f, call[f], mine[f]) /\ call[f].pc \in {"readd"} \cup Entering
      /\ current \in Nat /\ created \in Nat
  BY BusyLive, CurrentType, BoundsAssumption DEF Entering, IInv, Types
<1>2. PICK p \in 0..MaxProducers : p = call[f].producer
  BY <1>1, CallType
<1>3. p # None /\ p \in Producers /\ subscriber[p] = f /\ p <= created
  BY <1>1, <1>2, BoundsAssumption DEF Own, Place, Producers, None
<1>4. mine[f] # None => mine[f] = p
  BY <1>1, <1>3 DEF Own
<1>5. \A q \in Producers : subscriber[q] = f => p = q
  <2>1. \A q \in Producers : q # None
    BY DEF Producers, None
  <2> QED BY <1>1, <1>2, <1>4, <2>1 DEF Own
<1>6. /\ call' \in [Fibers -> Calls] /\ call'[f] = NoCall
      /\ \A g \in Fibers \ {f} : call'[g] = call[g]
  BY <1>1, NoCalls, Moves DEF Return
<1>7. /\ mine' \in [Fibers -> 0..MaxProducers] /\ mine'[f] = p
      /\ \A g \in Fibers \ {f} : mine'[g] = mine[g]
  BY <1>1, <1>2, Gets
<1>8. OthersStay(f)
  BY <1>6, <1>7, Quietly
<1>9. FiberOK(f)'
  <2>1. current' = current /\ \E t \in 1..current : InTable(f, t)'
    BY Stores
  <2>2. Place(f, call[f], mine[f])'
    BY <1>1, <1>3, <1>6, <1>7, <2>1 DEF Place, NoCall, None, Making, Entering, Live
  <2>3. Own(f, call[f], mine[f])'
    BY <1>3, <1>5, <1>6, <1>7 DEF Own, NoCall, Making, Entering
  <2>4. Seek(f, call[f], mine[f])'
    BY <1>6, <1>7, <2>1 DEF Seek, NoCall
  <2> QED BY <2>2, <2>3, <2>4 DEF FiberOK, Sound
<1>10. Unfinished'
  BY <1>6, <1>7, <1>8, <1>9, StoreStep
<1>11. f \notin Pending' /\ f \in Counted'
  BY <1>3, <1>6, <1>7 DEF Pending, Counted, NoCall, Entering
<1>12. CountOK'
  BY <1>1, <1>8, <1>10, <1>11, CountKept DEF Unfinished
<1> QED BY <1>4, <1>7, <1>10, <1>12 DEF IInv, Unfinished

LEMMA ReAddKeeps ==
  ASSUME IInv, NEW f \in Fibers, ReAdd(f)
  PROVE  IInv' /\ (mine[f] # None => mine'[f] = mine[f]) /\ \A g \in Fibers \ {f} : mine'[g] = mine[g]
<1>1. call[f].pc = "readd" /\ mine \in [Fibers -> 0..MaxProducers]
  BY DEF ReAdd, At, IInv, Types
<1>2. CASE Free(KeyAt(f))
  <2>1. IInv' /\ (mine[f] # None => mine'[f] = mine[f])
    BY <1>1, <1>2, Entered DEF ReAdd, producerVars
  <2>2. \A g \in Fibers \ {f} : mine'[g] = mine[g]
    BY <1>1, <1>2 DEF ReAdd
  <2> QED BY <2>1, <2>2
<1>3. CASE ~Free(KeyAt(f))
  <2>1. KeyAt(f) # invalid_fiber_id
    BY <1>3 DEF Free
  <2>2. /\ NextSlot(f) /\ Still /\ mine' = mine
        /\ hashCount' = hashCount /\ resizing' = resizing /\ failures' = failures
    BY <1>3 DEF ReAdd, Still, producerVars
  <2> QED BY <1>1, <2>1, <2>2, MovesOn
<1> QED BY <1>2, <1>3

\* A slot given up before: the fiber has entered it, and is still counted twice.
LEMMA InsertReused ==
  ASSUME IInv, NEW f \in Fibers, Insert(f), KeyAt(f) = invalid_fiber_id2
  PROVE  IInv' /\ mine' = mine
<1>1. /\ call[f].pc = "insert" /\ Types /\ CountOK /\ f \in Live /\ Place(f, call[f], mine[f])
      /\ Own(f, call[f], mine[f]) /\ call[f].pc \in Entering
      /\ SlotOK(call[f].table, call[f].index)
      /\ current \in Nat /\ created \in Nat
  <2>1. call[f].pc = "insert" /\ call[f].pc \in Entering /\ Types /\ CountOK
    BY DEF Insert, At, Entering, IInv
  <2>2. f \in Live /\ Place(f, call[f], mine[f]) /\ Own(f, call[f], mine[f])
    BY <2>1, BusyLive
  <2>3. SlotOK(call[f].table, call[f].index)
    BY <2>1, AtSlot DEF SlotOK
  <2>4. current \in Nat /\ created \in Nat
    BY <2>1, CurrentType, BoundsAssumption DEF Types
  <2> QED BY <2>1, <2>2, <2>3, <2>4
<1>2. /\ Store(f, call[f].producer) /\ GoTo(f, "discount") /\ mine' = mine /\ Free(KeyAt(f))
      /\ UNCHANGED <<hashCount, resizing, created, inactive, subscriber, ended, exiting, failures>>
  <2>1. KeyAt(f) # invalid_fiber_id
    BY DEF invalid_fiber_id, invalid_fiber_id2
  <2> QED BY <2>1 DEF Insert, producerVars, Free
<1>3. /\ call' \in [Fibers -> Calls] /\ call'[f].pc = "discount" /\ call'[f].main = call[f].main
      /\ call'[f].table = call[f].table /\ call'[f].index = call[f].index
      /\ call'[f].producer = call[f].producer
      /\ \A g \in Fibers \ {f} : call'[g] = call[g]
  <2>1. "discount" \in Pcs
    BY DEF Pcs, Entering
  <2> QED BY <1>1, <1>2, <2>1, GoesTo
<1>4. OthersStay(f)
  BY <1>2, <1>3, Quietly
<1>5. FiberOK(f)'
  <2>1. /\ current' = current /\ \A u \in 1..current : Capacity(u)' = Capacity(u)
        /\ \E t \in 1..current : t = call[f].table /\ InTable(f, t)'
    BY <1>1, <1>2, Stores
  <2>2. PICK t \in 1..current : t = call[f].table /\ InTable(f, t)'
    BY <2>1
  <2>3. PICK i \in 0..(Capacity(t) - 1) : i = call[f].index
    BY <1>1, <2>2 DEF SlotOK
  <2>4. SlotOK(t, i)'
    BY <2>1, <2>3 DEF SlotOK
  <2>5. Place(f, call[f], mine[f])'
    <3>1. SlotOK(call[f].table, call[f].index)' <=> SlotOK(t, i)'
      BY <1>3, <2>2, <2>3 DEF SlotOK, Capacity
    <3> QED BY <1>1, <1>2, <1>3, <2>1, <2>4, <3>1 DEF Place, Making, Entering, Live
  <2>6. Own(f, call[f], mine[f])'
    BY <1>1, <1>2, <1>3 DEF Own, Making, Entering
  <2>7. InTable(f, call[f].table)' <=> InTable(f, t)'
    BY <1>3, <2>2 DEF InTable, Slot, Capacity
  <2>8. mine'[f] = None
    BY <1>1, <1>2 DEF Own
  <2>9. Seek(f, call[f], mine[f])'
    BY <1>3, <2>2, <2>7, <2>8 DEF Seek
  <2> QED BY <2>5, <2>6, <2>9 DEF FiberOK, Sound
<1>6. Unfinished'
  BY <1>1, <1>2, <1>3, <1>4, <1>5, StoreStep DEF Types
<1>7. f \in Pending /\ f \in Pending'
  BY <1>1, <1>3 DEF Pending, Entering
<1>8. f \in Counted'
  BY <1>7 DEF Counted
<1>9. CountOK'
  BY <1>1, <1>2, <1>4, <1>6, <1>7, <1>8, CountKept DEF Unfinished
<1> QED BY <1>2, <1>6, <1>9 DEF IInv, Unfinished

LEMMA InsertKeeps ==
  ASSUME IInv, NEW f \in Fibers, Insert(f)
  PROVE  IInv' /\ (mine[f] # None => mine'[f] = mine[f]) /\ \A g \in Fibers \ {f} : mine'[g] = mine[g]
<1>1. /\ call[f].pc = "insert" /\ mine \in [Fibers -> 0..MaxProducers]
      /\ invalid_fiber_id # invalid_fiber_id2
  BY DEF Insert, At, IInv, Types, invalid_fiber_id, invalid_fiber_id2
<1>2. CASE KeyAt(f) = invalid_fiber_id
  <2>1. IInv' /\ (mine[f] # None => mine'[f] = mine[f])
    BY <1>1, <1>2, Entered DEF Insert, producerVars, Free
  <2>2. \A g \in Fibers \ {f} : mine'[g] = mine[g]
    BY <1>1, <1>2 DEF Insert
  <2> QED BY <2>1, <2>2
<1>3. CASE KeyAt(f) = invalid_fiber_id2
  BY <1>3, InsertReused
<1>4. CASE KeyAt(f) \notin {invalid_fiber_id, invalid_fiber_id2}
  <2>1. /\ NextSlot(f) /\ Still /\ mine' = mine
        /\ hashCount' = hashCount /\ resizing' = resizing /\ failures' = failures
    BY <1>4 DEF Insert, Still, producerVars
  <2> QED BY <1>1, <1>4, <2>1, MovesOn
<1> QED BY <1>2, <1>3, <1>4

-------------------------------------------------------------------------------
(* A larger table *)

LEMMA Appends ==
  ASSUME Types, NEW n \in Nat, tables' = Append(tables, NewTable(NewSize(n, current)))
  PROVE  /\ tables' \in Seq(Table) /\ current' = current + 1 /\ current \in Nat
         /\ \A u \in 1..current : tables'[u] = tables[u] /\ Capacity(u)' = Capacity(u)
         /\ \A u : u = current + 1 =>
              /\ Capacity(u)' = NewSize(n, current)
              /\ \A i \in 0..(Capacity(u)' - 1) :
                   tables'[u].key[i] = invalid_fiber_id /\ tables'[u].value[i] = None
<1> DEFINE size == NewSize(n, current)
<1>1. current \in 1..current /\ current \in Nat /\ tables \in Seq(Table) /\ current = Len(tables)
  BY CurrentType DEF Types, current
<1>2. size \in Nat \ {0}
  BY <1>1, NewSizes
<1>3. /\ NewTable(size) \in Table
      /\ NewTable(size).key = [i \in 0..(size - 1) |-> invalid_fiber_id]
      /\ NewTable(size).value = [i \in 0..(size - 1) |-> None]
  BY <1>2, NewTables
<1> HIDE DEF size
<1>4. /\ tables' \in Seq(Table) /\ Len(tables') = Len(tables) + 1
      /\ \A u \in 1..Len(tables) : tables'[u] = tables[u]
      /\ tables'[Len(tables) + 1] = NewTable(size)
  <2>1. tables' = Append(tables, NewTable(size))
    BY DEF size
  <2> QED BY <1>1, <1>3, <2>1, AppendProperties
<1>5. current' = current + 1
  BY <1>1, <1>4 DEF current
<1>6. \A u \in 1..current : tables'[u] = tables[u] /\ Capacity(u)' = Capacity(u)
  BY <1>1, <1>4 DEF Capacity
<1>7. ASSUME NEW u, u = current + 1
      PROVE  tables'[u] = NewTable(size) /\ Capacity(u)' = size
  <2>1. tables'[u] = NewTable(size)
    BY <1>1, <1>4, <1>7
  <2>2. Capacity(u)' = Cardinality(0..(size - 1))
    BY <1>3, <2>1 DEF Capacity
  <2>3. Cardinality(0..(size - 1)) = size
    <3>1. 0 \in Int /\ size - 1 \in Int
      BY <1>2
    <3>2. Cardinality(0..(size - 1)) = IF 0 > size - 1 THEN 0 ELSE size - 1 - 0 + 1
      BY <3>1, FS_Interval
    <3> QED BY <1>2, <3>2
  <2> QED BY <2>1, <2>2, <2>3
<1>8. ASSUME NEW u, u = current + 1, NEW i \in 0..(Capacity(u)' - 1)
      PROVE  tables'[u].key[i] = invalid_fiber_id /\ tables'[u].value[i] = None
  BY <1>3, <1>7, <1>8
<1>9. \A u : u = current + 1 => Capacity(u)' = NewSize(n, current)
  BY <1>7 DEF size
<1> QED BY <1>1, <1>4, <1>5, <1>6, <1>8, <1>9

\* The lock holder replaces the table.
LEMMA GrowKeeps ==
  ASSUME IInv, NEW f \in Fibers, Resize(f), Crowded(call[f].newCount, current)
  PROVE  IInv' /\ mine' = mine
<1> DEFINE m == current + 1
           c == [pc |-> "unlock", main |-> m, table |-> call[f].table,
                 index |-> call[f].index, newCount |-> call[f].newCount,
                 producer |-> call[f].producer]
<1>1. /\ call[f].pc = "resize" /\ call[f].pc \in Making /\ Types /\ CountOK /\ f \in Live
      /\ Place(f, call[f], mine[f]) /\ Own(f, call[f], mine[f]) /\ mine[f] = None
      /\ call \in [Fibers -> Calls] /\ call[f].newCount \in Nat
      /\ current \in Nat /\ created \in Nat
  <2>1. call[f].pc = "resize" /\ call[f].pc \in Making /\ Types /\ CountOK
    BY DEF Resize, At, Making, IInv
  <2>2. f \in Live /\ Place(f, call[f], mine[f]) /\ Own(f, call[f], mine[f]) /\ mine[f] = None
    BY <2>1, BusyLive, MakingReturn
  <2>3. current \in Nat /\ created \in Nat
    BY <2>1, CurrentType, BoundsAssumption DEF Types
  <2> QED BY <2>1, <2>2, <2>3, CallType DEF Types
<1>2. /\ tables' = Append(tables, NewTable(NewSize(call[f].newCount, current))) /\ mine' = mine
      /\ call' = [call EXCEPT ![f].main = m, ![f].pc = "unlock"]
      /\ UNCHANGED <<hashCount, resizing, created, inactive, subscriber, ended, exiting, failures>>
  BY DEF Resize, producerVars
<1>3. /\ tables' \in Seq(Table) /\ current' = current + 1
      /\ \A u \in 1..current : tables'[u] = tables[u] /\ Capacity(u)' = Capacity(u)
      /\ \A u : u = current + 1 =>
           \A i \in 0..(Capacity(u)' - 1) :
             tables'[u].key[i] = invalid_fiber_id /\ tables'[u].value[i] = None
  <2>1. \E n \in Nat : tables' = Append(tables, NewTable(NewSize(n, current)))
    BY <1>1, <1>2
  <2> QED BY <1>1, <2>1, Appends
<1>4. c \in Calls
  <2>1. "unlock" \in Pcs /\ m \in Nat
    BY <1>1 DEF Pcs, Making
  <2> HIDE DEF m
  <2> QED BY <1>1, <2>1, CallType DEF Calls
<1>5. /\ call'[f] = c /\ call' = [g \in Fibers |-> call'[g]]
      /\ \A g \in Fibers \ {f} : call'[g] = call[g]
  <2> HIDE DEF m
  <2>1. call'[f] = c
    BY <1>1, <1>2 DEF Calls
  <2> HIDE DEF c
  <2> QED BY <1>1, <1>2, <2>1
<1>6. c.pc = "unlock" /\ c.main = m /\ c.table = call[f].table /\ c.producer = call[f].producer
  OBVIOUS
<1> HIDE DEF c
<1>7. call' \in [Fibers -> Calls]
  <2>1. \A g \in Fibers : call'[g] \in Calls
    BY <1>1, <1>4, <1>5
  <2> QED BY <1>5, <2>1
<1>8. OthersStay(f)
  BY <1>2, <1>5, Quietly
<1>9. Types'
  BY <1>1, <1>2, <1>3, <1>7 DEF Types
<1>10. FibersOK'
  <2> SUFFICES ASSUME NEW g \in Fibers
               PROVE  FiberOK(g)'
    BY DEF FibersOK
  <2>1. CASE g = f
    <3>1. Place(f, call[f], mine[f])'
      BY <1>1, <1>2, <1>3, <1>5, <1>6 DEF Place, Making, Entering, Live
    <3>2. \A p \in Producers : subscriber[p] # f
      BY <1>1 DEF Own, Producers, None, Making, Entering
    <3>3. Own(f, call[f], mine[f])' /\ Seek(f, call[f], mine[f])'
      BY <1>1, <1>2, <1>5, <1>6, <3>2 DEF Own, Seek, Making, Entering
    <3> QED BY <2>1, <3>1, <3>3 DEF FiberOK, Sound
  <2>2. CASE g # f
    <3>1. FiberOK(g)
      BY DEF IInv, FibersOK
    <3>2. TablesKept(g)
      BY <1>1, <1>3 DEF TablesKept
    <3>3. FiberKept(g)
      BY <1>1, <1>2, <1>5, <2>2, <3>2 DEF FiberKept
    <3> QED BY <1>1, <3>1, <3>3, OthersKeep
  <2> QED BY <2>1, <2>2
<1>11. FreeOK'
  BY <1>2 DEF IInv, FreeOK
<1>12. EntriesOK'
  <2> SUFFICES ASSUME NEW u \in 1..(current + 1), NEW j \in 0..(Capacity(u)' - 1)
               PROVE  /\ tables'[u].value[j] <= created
                      /\ tables'[u].key[j] \in Live =>
                           /\ tables'[u].value[j] # None
                           /\ subscriber[tables'[u].value[j]] = tables'[u].key[j]
    BY <1>2, <1>3 DEF EntriesOK, Live
  <2>1. CASE u = current + 1
    <3>1. tables'[u].key[j] = invalid_fiber_id /\ tables'[u].value[j] = 0
      BY <1>3, <2>1 DEF None
    <3> QED BY <1>1, <3>1, IdsAssumption DEF Live, Ids
  <2>2. CASE u # current + 1
    <3>1. u \in 1..current
      BY <1>1, <2>2
    <3> QED BY <1>3, <3>1 DEF IInv, EntriesOK
  <2> QED BY <2>1, <2>2
<1>13. ExitOK'
  <2>1. SlotOK(exiting.table, exiting.index) => SlotOK(exiting.table, exiting.index)'
    BY <1>1, <1>2, <1>3 DEF SlotOK
  <2> QED BY <1>2, <2>1 DEF IInv, ExitOK, Live
<1>14. ServedOK'
  BY <1>2 DEF IInv, ServedOK, Served
<1>15. f \in Pending /\ f \in Pending'
  BY <1>1, <1>5, <1>6 DEF Pending
<1>16. f \in Counted'
  BY <1>15 DEF Counted
<1>17. CountOK'
  BY <1>1, <1>2, <1>8, <1>9, <1>15, <1>16, CountKept
<1> QED BY <1>2, <1>9, <1>10, <1>11, <1>12, <1>13, <1>14, <1>17 DEF IInv

LEMMA ResizeKeeps ==
  ASSUME IInv, NEW f \in Fibers, Resize(f)
  PROVE  IInv' /\ mine' = mine
<1>1. CASE Crowded(call[f].newCount, current)
  BY <1>1, GrowKeeps
<1>2. CASE ~Crowded(call[f].newCount, current)
  BY <1>2, ReplacedKeeps DEF Resize
<1> QED BY <1>1, <1>2

-------------------------------------------------------------------------------
(* Getting a producer *)

\* There is a name for one more producer while a fiber asks for one.
LEMMA NewFiber ==
  ASSUME IInv, NEW f \in Fibers, call[f].pc \in Making
  PROVE  /\ f \notin Served /\ created + 1 <= Cardinality(Served \cup {f})
         /\ created + 1 \in Producers
<1>1. Types /\ f \in Live /\ mine[f] = None /\ Own(f, call[f], mine[f])
  BY BusyLive, MakingReturn DEF Making
<1>2. f \notin Served
  BY <1>1 DEF Served, Own, Producers, None, Live, Making, Entering
<1>3. IsFiniteSet(Served) /\ Served \subseteq Fibers
  BY <1>1, FiniteCounts
<1>4. Cardinality(Served \cup {f}) = Cardinality(Served) + 1 /\ Cardinality(Served) \in Nat
  BY <1>2, <1>3, FS_AddElement, FS_CardinalityType
<1>5. Served \cup {f} \subseteq Fibers
  BY <1>3
<1>6. Cardinality(Served \cup {f}) <= Cardinality(Fibers) /\ Cardinality(Fibers) \in Nat
  BY <1>5, BoundsAssumption, FS_Subset, FS_CardinalityType
<1>7. created <= Cardinality(Served)
  BY DEF IInv, ServedOK
<1>8. created \in Nat /\ MaxProducers \in Nat /\ Cardinality(Fibers) <= MaxProducers
  BY <1>1, BoundsAssumption DEF Types
<1> DEFINE s == Cardinality(Served)
           z == Cardinality(Served \cup {f})
           n == Cardinality(Fibers)
<1>9. s \in Nat /\ z = s + 1 /\ z <= n /\ n \in Nat /\ created <= s /\ n <= MaxProducers
  BY <1>4, <1>6, <1>7, <1>8
<1> HIDE DEF s, z, n
<1>10. created + 1 <= z /\ created + 1 \in 1..MaxProducers
  BY <1>8, <1>9
<1> QED BY <1>2, <1>10 DEF z, Producers

\* What Subscribe does to the call.
LEMMA Subscribes ==
  ASSUME Types, NEW f \in Fibers, NEW p \in Producers, Subscribe(f, p), call[f].main \in 1..current
  PROVE  /\ call' \in [Fibers -> Calls] /\ call'[f].pc = "insert" /\ call'[f].main = 0
         /\ call'[f].table = call[f].main /\ call'[f].index = Slot(f, call[f].main)
         /\ call'[f].producer = p
         /\ \A g \in Fibers \ {f} : call'[g] = call[g]
         /\ subscriber' = [subscriber EXCEPT ![p] = f]
<1> DEFINE m == call[f].main
           c == [pc |-> "insert", main |-> 0, table |-> m, index |-> Slot(f, m),
                 newCount |-> call[f].newCount, producer |-> p]
<1>1. call \in [Fibers -> Calls] /\ call[f].newCount \in Nat /\ m \in Nat
  BY CallType DEF Types
<1>2. Slot(f, m) \in Nat
  BY Starts
<1>3. p \in 0..MaxProducers /\ "insert" \in Pcs
  BY BoundsAssumption DEF Producers, Pcs, Entering
<1>4. c \in Calls
  <2> HIDE DEF m
  <2> QED BY <1>1, <1>2, <1>3 DEF Calls
<1>5. /\ call'[f] = c /\ call' = [g \in Fibers |-> call'[g]]
      /\ \A g \in Fibers \ {f} : call'[g] = call[g]
  <2>1. call' = [call EXCEPT ![f].producer = p, ![f].pc = "insert", ![f].table = m,
                             ![f].main = 0, ![f].index = Slot(f, m)]
    BY DEF Subscribe
  <2> HIDE DEF m
  <2>2. call'[f] = c
    BY <1>1, <2>1 DEF Calls
  <2> HIDE DEF c
  <2> QED BY <1>1, <2>1, <2>2
<1>6. /\ c.pc = "insert" /\ c.main = 0 /\ c.table = m /\ c.index = Slot(f, m) /\ c.producer = p
  OBVIOUS
<1> HIDE DEF c
<1>7. call' \in [Fibers -> Calls]
  <2>1. \A g \in Fibers : call'[g] \in Calls
    BY <1>1, <1>4, <1>5
  <2> QED BY <1>5, <2>1
<1> QED BY <1>5, <1>6, <1>7 DEF Subscribe

\* A producer nobody owns, used before or new, becomes the fiber's.
LEMMA SubscribeKeeps ==
  ASSUME IInv, NEW f \in Fibers, call[f].pc = "recycle", NEW p \in Producers, Subscribe(f, p),
         subscriber[p] = Other,
         \/ p \in inactive /\ inactive' = inactive \ {p} /\ created' = created
         \/ p = created + 1 /\ inactive' = inactive /\ created' = created + 1,
         UNCHANGED <<tables, hashCount, resizing, mine, ended, exiting, failures>>
  PROVE  IInv'
<1>1. /\ Types /\ CountOK /\ f \in Live /\ Place(f, call[f], mine[f]) /\ mine[f] = None
      /\ Own(f, call[f], mine[f]) /\ call[f].pc \in Making
      /\ current \in Nat /\ created \in 0..MaxProducers /\ MaxProducers \in Nat
      /\ subscriber \in [Producers -> Ids] /\ inactive \subseteq 1..created
  <2>1. call[f].pc \in Making /\ Types /\ CountOK
    BY DEF Making, IInv
  <2>2. f \in Live /\ Place(f, call[f], mine[f]) /\ Own(f, call[f], mine[f]) /\ mine[f] = None
    BY <2>1, BusyLive, MakingReturn
  <2>3. current \in Nat
    BY <2>1, CurrentType
  <2> QED BY <2>1, <2>2, <2>3, BoundsAssumption DEF Types
<1>2. PICK m \in 1..current : m = call[f].main
  BY <1>1 DEF Place
<1>3. /\ call' \in [Fibers -> Calls] /\ call'[f].pc = "insert" /\ call'[f].main = 0
      /\ call'[f].table = m /\ call'[f].index = Slot(f, m) /\ call'[f].producer = p
      /\ \A g \in Fibers \ {f} : call'[g] = call[g]
      /\ subscriber' = [subscriber EXCEPT ![p] = f]
  BY <1>1, <1>2, Subscribes
<1>4. /\ subscriber' \in [Producers -> Ids] /\ subscriber'[p] = f
      /\ \A q \in Producers \ {p} : subscriber'[q] = subscriber[q]
  BY <1>1, <1>3 DEF Ids
<1>5. /\ f \notin Served /\ created + 1 <= Cardinality(Served \cup {f})
      /\ created + 1 \in Producers
  BY <1>1, NewFiber
<1>6. /\ created' \in 0..MaxProducers /\ created <= created' /\ p <= created' /\ p # None
      /\ inactive' \subseteq inactive /\ inactive' \subseteq 1..created' /\ p \notin inactive'
  <2>1. p \in 1..MaxProducers /\ created + 1 \in 1..MaxProducers
    BY <1>5 DEF Producers
  <2>2. CASE p \in inactive /\ inactive' = inactive \ {p} /\ created' = created
    <3>1. p \in 1..created
      BY <1>1, <2>2
    <3>2. inactive' \subseteq inactive /\ inactive' \subseteq 1..created' /\ p \notin inactive'
      BY <1>1, <2>2
    <3> QED BY <1>1, <2>1, <2>2, <3>1, <3>2 DEF None
  <2>3. CASE p = created + 1 /\ inactive' = inactive /\ created' = created + 1
    <3>1. \A q \in inactive : q \in Int /\ 1 <= q /\ q <= created
      BY <1>1
    <3>2. p \notin inactive'
      BY <1>1, <2>3, <3>1
    <3>3. inactive' \subseteq 1..created'
      BY <1>1, <2>3, <3>1
    <3> QED BY <1>1, <2>1, <2>3, <3>2, <3>3 DEF None
  <2> QED BY <2>2, <2>3
<1>7. f # Other /\ \A g \in Fibers : g # Other
  BY HashAssumption
<1>8. OthersStay(f)
  BY <1>3, Quietly
<1>9. current' = current /\ \A u : Capacity(u)' = Capacity(u)
  BY DEF current, Capacity
<1>10. Types'
  BY <1>1, <1>3, <1>4, <1>6, <1>9 DEF Types
<1>11. FibersOK'
  <2> SUFFICES ASSUME NEW g \in Fibers
               PROVE  FiberOK(g)'
    BY DEF FibersOK
  <2>1. CASE g = f
    <3>1. /\ SlotOK(m, Slot(f, m))
          /\ Passed(Slot(f, m), Slot(f, m), Capacity(m)) = {}
      BY <1>1, Starts
    <3>2. Slot(f, m)' = Slot(f, m)
      BY DEF Slot, Capacity
    <3>3. SlotOK(call[f].table, call[f].index)'
      BY <1>3, <1>9, <3>1 DEF SlotOK
    <3>4. Behind(f, call[f])' = {}
      BY <1>3, <1>9, <3>1, <3>2 DEF Behind, Slot
    <3>5. Place(f, call[f], mine[f])'
      BY <1>1, <1>2, <1>3, <1>6, <1>9, <3>3 DEF Place, Making, Entering, Live, None
    <3>6. \A q \in Producers : subscriber[q] # f
      BY <1>1 DEF Own, Producers, None, Making, Entering
    <3>7. Own(f, call[f], mine[f])'
      BY <1>1, <1>3, <1>4, <1>6, <3>6 DEF Own, Making, Entering
    <3>8. Seek(f, call[f], mine[f])'
      BY <1>1, <1>3, <3>4 DEF Seek
    <3> QED BY <2>1, <3>5, <3>7, <3>8 DEF FiberOK, Sound
  <2>2. CASE g # f
    <3>1. FiberOK(g)
      BY DEF IInv, FibersOK
    <3>2. \A q \in Producers : (subscriber'[q] = g) <=> (subscriber[q] = g)
      BY <1>4, <1>7, <2>2
    <3>3. FiberKept(g)
      BY <1>1, <1>3, <1>6, <2>2, <3>2, SameTablesKept DEF FiberKept
    <3> QED BY <1>1, <3>1, <3>3, OthersKeep
  <2> QED BY <2>1, <2>2
<1>12. FreeOK'
  <2>1. \A q \in inactive : q \in Producers
    BY <1>1 DEF Producers
  <2>2. \A q \in inactive' : subscriber'[q] = Other
    BY <1>4, <1>6, <2>1 DEF IInv, FreeOK
  <2>3. \A q \in Producers : subscriber'[q] # Other => q <= created'
    BY <1>1, <1>4, <1>6 DEF IInv, FreeOK, Producers
  <2> QED BY <2>2, <2>3 DEF FreeOK
<1>13. EntriesOK'
  <2> SUFFICES ASSUME NEW u \in 1..current, NEW j \in 0..(Capacity(u) - 1)
               PROVE  /\ tables[u].value[j] <= created'
                      /\ tables[u].key[j] \in Live =>
                           /\ tables[u].value[j] # None
                           /\ subscriber'[tables[u].value[j]] = tables[u].key[j]
    BY <1>9 DEF EntriesOK, Live
  <2>1. tables[u].value[j] \in 0..MaxProducers
    BY <1>1, TableShape
  <2>2. /\ tables[u].value[j] <= created
        /\ tables[u].key[j] \in Live =>
             /\ tables[u].value[j] # None
             /\ subscriber[tables[u].value[j]] = tables[u].key[j]
    BY DEF IInv, EntriesOK
  <2>3. tables[u].key[j] \in Live => tables[u].value[j] \in Producers \ {p}
    BY <1>1, <1>7, <2>1, <2>2 DEF Producers, None, Live
  <2> QED BY <1>1, <1>4, <1>6, <2>1, <2>2, <2>3
<1>14. ExitOK'
  <2> SUFFICES ASSUME exiting # NoExit
               PROVE  /\ exiting.producer \in 1..created' /\ exiting.producer \notin inactive'
                      /\ subscriber'[exiting.producer] \in ended
                      /\ exiting.id \notin Live
                      /\ exiting.table # 0 => SlotOK(exiting.table, exiting.index)
    BY <1>9 DEF ExitOK, SlotOK, Live
  <2>1. /\ exiting.producer \in 1..created /\ exiting.producer \notin inactive
        /\ subscriber[exiting.producer] \in ended
        /\ exiting.id \notin Live
        /\ exiting.table # 0 => SlotOK(exiting.table, exiting.index)
    BY DEF IInv, ExitOK
  <2>2. exiting.producer \in Producers \ {p}
    <3>1. ended \subseteq Fibers
      BY <1>1, HashAssumption DEF Types
    <3> QED BY <1>1, <1>7, <2>1, <3>1 DEF Producers
  <2> QED BY <1>1, <1>4, <1>6, <2>1, <2>2
<1>15. ServedOK'
  <2>1. Served' = Served \cup {f}
    <3>1. \A q \in Producers : subscriber[q] \in Fibers => subscriber'[q] = subscriber[q]
      BY <1>4, <1>7
    <3>2. \A q \in Producers : subscriber'[q] = f \/ subscriber'[q] = subscriber[q]
      BY <1>4
    <3> QED BY <1>1, <1>4, <3>1, <3>2 DEF Served
  <2>2. created' <= created + 1 /\ created' \in Nat /\ created + 1 \in Nat
    BY <1>1
  <2>3. IsFiniteSet(Served \cup {f})
    BY <1>1, FiniteCounts, FS_AddElement
  <2>4. Cardinality(Served \cup {f}) \in Nat
    BY <2>3, FS_CardinalityType
  <2> DEFINE z == Cardinality(Served \cup {f})
  <2>5. created + 1 <= z /\ z \in Nat
    BY <1>5, <2>4
  <2> HIDE DEF z
  <2>6. created' <= z
    BY <2>2, <2>5
  <2> QED BY <2>1, <2>6 DEF ServedOK, z
<1>16. f \in Pending /\ f \in Pending'
  BY <1>3 DEF Pending, Entering
<1>17. f \in Counted'
  BY <1>16 DEF Counted
<1>18. CountOK'
  BY <1>1, <1>8, <1>10, <1>16, <1>17, CountKept
<1> QED BY <1>10, <1>11, <1>12, <1>13, <1>14, <1>15, <1>18 DEF IInv

LEMMA RecycleKeeps ==
  ASSUME IInv, NEW f \in Fibers, Recycle(f)
  PROVE  IInv' /\ mine' = mine
<1>1. mine' = mine
  BY DEF Recycle
<1>2. CASE call[f].producer \in inactive
  <2>1. PICK p : p = call[f].producer
    OBVIOUS
  <2>2. p \in Producers /\ p \in inactive /\ subscriber[p] = Other
    <3>1. p \in 1..created /\ created \in 0..MaxProducers /\ MaxProducers \in Nat
      BY <1>2, <2>1, BoundsAssumption DEF IInv, Types
    <3> QED BY <1>2, <2>1, <3>1 DEF IInv, FreeOK, Producers
  <2>3. /\ Subscribe(f, p) /\ inactive' = inactive \ {p} /\ created' = created
        /\ call[f].pc = "recycle"
        /\ UNCHANGED <<tables, hashCount, resizing, mine, ended, exiting, failures>>
    BY <1>2, <2>1 DEF Recycle, At, hashVars
  <2> QED BY <1>1, <2>2, <2>3, SubscribeKeeps
<1>3. CASE call[f].producer \notin inactive
  BY <1>1, <1>3, SkipKeeps
<1> QED BY <1>2, <1>3

LEMMA CreateKeeps ==
  ASSUME IInv, NEW f \in Fibers, Create(f)
  PROVE  IInv' /\ mine' = mine
<1>1. call[f].pc = "recycle" /\ call[f].pc \in Making /\ created \in Nat
  BY BoundsAssumption DEF Create, At, Making, IInv, Types
<1>2. PICK p \in Producers : p = created + 1
  BY <1>1, NewFiber
<1>3. subscriber[p] = Other
  BY <1>1, <1>2 DEF IInv, FreeOK
<1>4. /\ Subscribe(f, p) /\ inactive' = inactive /\ created' = created + 1 /\ mine' = mine
      /\ UNCHANGED <<tables, hashCount, resizing, mine, ended, exiting, failures>>
  BY <1>2 DEF Create, hashVars
<1> QED BY <1>1, <1>2, <1>3, <1>4, SubscribeKeeps

-------------------------------------------------------------------------------
(* Giving it up *)

LEMMA EndKeeps ==
  ASSUME IInv, NEW f \in Fibers, End(f)
  PROVE  /\ IInv' /\ f \in ended' /\ \A g \in Fibers \ {f} : mine'[g] = mine[g]
<1>1. /\ call[f].pc = "idle" /\ f \in Ending /\ f \notin ended /\ ended' = ended \cup {f}
      /\ mine' = [mine EXCEPT ![f] = None] /\ call' = call
      /\ UNCHANGED <<tables, hashCount, resizing, created, inactive, subscriber, exiting, failures>>
  BY DEF End, At, hashVars, producerVars
<1>2. /\ Types /\ CountOK /\ Place(f, call[f], mine[f]) /\ created \in Nat /\ current \in Nat
      /\ None \in 0..MaxProducers
  BY BusyLive, CurrentType, BoundsAssumption DEF IInv, Types, None
<1>3. /\ mine' \in [Fibers -> 0..MaxProducers] /\ mine'[f] = None
      /\ \A g \in Fibers \ {f} : mine'[g] = mine[g]
  BY <1>1, <1>2, Gets
<1>4. OthersStay(f)
  BY <1>1, <1>3 DEF OthersStay
<1>5. current' = current /\ \A u : Capacity(u)' = Capacity(u)
  BY <1>1 DEF current, Capacity
<1>6. Types'
  BY <1>1, <1>2, <1>3, <1>5 DEF Types
<1>7. FibersOK'
  <2> SUFFICES ASSUME NEW g \in Fibers
               PROVE  FiberOK(g)'
    BY DEF FibersOK
  <2>1. CASE g = f
    <3>1. Place(f, call[f], mine[f])'
      BY <1>1, <1>2, <1>3, <1>5 DEF Place, Making, Entering, None
    <3>2. ~(f \in Live)'
      BY <1>1 DEF Live
    <3> QED BY <2>1, <3>1, <3>2 DEF FiberOK, Sound
  <2>2. CASE g # f
    <3>1. FiberOK(g)
      BY DEF IInv, FibersOK
    <3>2. FiberKept(g)
      BY <1>1, <1>2, <1>3, <2>2, SameTablesKept DEF FiberKept
    <3> QED BY <1>2, <3>1, <3>2, OthersKeep
  <2> QED BY <2>1, <2>2
<1>8. FreeOK'
  BY <1>1 DEF IInv, FreeOK
<1>9. EntriesOK'
  BY <1>1, <1>5 DEF IInv, EntriesOK, Live
<1>10. ExitOK'
  BY <1>1, <1>5 DEF IInv, ExitOK, SlotOK, Live
<1>11. ServedOK'
  <2>1. Served \subseteq Served'
    BY <1>1 DEF Served
  <2>2. Types' => IsFiniteSet(Served)'
    BY FiniteCounts, PTL
  <2>3. IsFiniteSet(Served')
    BY <1>6, <2>2
  <2>4. Cardinality(Served) <= Cardinality(Served') /\ Cardinality(Served) \in Nat
        /\ Cardinality(Served') \in Nat
    BY <2>1, <2>3, FS_Subset, FS_CardinalityType
  <2> DEFINE s == Cardinality(Served)
             z == Cardinality(Served')
  <2>5. created <= s /\ s <= z /\ s \in Nat /\ z \in Nat
    BY <2>4 DEF IInv, ServedOK
  <2> HIDE DEF s, z
  <2>6. created' <= z
    BY <1>1, <1>2, <2>5
  <2> QED BY <2>6 DEF ServedOK, z
<1>12. (f \in Pending' => f \in Pending) /\ f \in Counted'
  BY <1>1 DEF Pending, Counted
<1>13. CountOK'
  BY <1>1, <1>2, <1>4, <1>6, <1>12, CountKept
<1> QED BY <1>1, <1>3, <1>6, <1>7, <1>8, <1>9, <1>10, <1>11, <1>13 DEF IInv

\* What the steps of a thread's exit do not touch.
LEMMA ExitStep ==
  ASSUME IInv, UNCHANGED <<hashCount, resizing, created, call, mine, ended, failures>>,
         inactive' \subseteq 1..created, subscriber' \in [Producers -> Ids], exiting' \in Exits,
         tables' \in Seq(Table), \A g \in Fibers : TablesKept(g), current' = current,
         \A p \in Producers : subscriber'[p] # subscriber[p] =>
           subscriber[p] \in ended /\ subscriber'[p] = Other
  PROVE  Types' /\ FibersOK' /\ CountOK' /\ ServedOK'
<1>1. Types /\ created \in Nat /\ ended \subseteq Fibers
  BY HashAssumption, BoundsAssumption DEF IInv, Types
<1>2. Types'
  BY <1>1 DEF Types
<1>3. FibersOK'
  <2> SUFFICES ASSUME NEW g \in Fibers
               PROVE  FiberOK(g)'
    BY DEF FibersOK
  <2>1. FiberOK(g)
    BY DEF IInv, FibersOK
  <2>2. g \in Live => \A p \in Producers : (subscriber'[p] = g) <=> (subscriber[p] = g)
    BY HashAssumption DEF Live
  <2>3. FiberKept(g)
    BY <1>1, <2>2 DEF FiberKept
  <2> QED BY <1>1, <2>1, <2>3, OthersKeep
<1>4. CountOK'
  <2>1. Pending' = Pending /\ Counted' = Counted
    BY DEF Pending, Counted
  <2> QED BY <2>1 DEF IInv, CountOK
<1>5. ServedOK'
  <2>1. ASSUME NEW g \in Fibers
        PROVE  (g \in Served) <=> (g \in Served')
    BY <1>1, HashAssumption DEF Served
  <2>2. Served \subseteq Fibers /\ Served' \subseteq Fibers
    BY <1>1 DEF Served
  <2>3. Served' = Served
    BY <2>1, <2>2
  <2> QED BY <2>3 DEF IInv, ServedOK
<1> QED BY <1>2, <1>3, <1>4, <1>5

LEMMA ExitThreadKeeps ==
  ASSUME IInv, NEW p \in Producers, ExitThread(p)
  PROVE  IInv' /\ mine' = mine
<1>1. /\ p <= created /\ p \notin inactive /\ subscriber[p] \in ended
      /\ UNCHANGED <<tables, hashCount, resizing, created, inactive, subscriber, call, mine,
                     ended, failures>>
  BY DEF ExitThread, hashVars, producerVars
<1>2. PICK id \in {subscriber[p], Other} :
        exiting' = [producer |-> p, id |-> id, table |-> current, index |-> Slot(id, current)]
  BY DEF ExitThread
<1>3. /\ Types /\ current \in Nat /\ current \in 1..current /\ created \in Nat
      /\ ended \subseteq Fibers /\ MaxProducers \in Nat /\ subscriber \in [Producers -> Ids]
  BY CurrentType, HashAssumption, BoundsAssumption DEF IInv, Types
<1>4. id \in Ids /\ id \notin Live
  BY <1>1, <1>3, HashAssumption DEF Ids, Live
<1>5. SlotOK(current, Slot(id, current)) /\ Slot(id, current) \in Nat
  <2>1. Capacity(current) \in Nat \ {0} /\ Slot(id, current) \in 0..(Capacity(current) - 1)
    BY <1>3, <1>4, TableShape, Slots
  <2> QED BY <1>3, <2>1 DEF SlotOK
<1>6. exiting' \in Exits
  BY <1>2, <1>3, <1>4, <1>5 DEF Exits, Producers
<1>7. Types' /\ FibersOK' /\ CountOK' /\ ServedOK'
  <2>1. tables' \in Seq(Table) /\ current' = current /\ inactive' \subseteq 1..created
    BY <1>1, <1>3 DEF Types, current
  <2>2. \A g \in Fibers : TablesKept(g)
    BY <1>1, <1>3, SameTablesKept
  <2> QED BY <1>1, <1>3, <1>6, <2>1, <2>2, ExitStep
<1>8. FreeOK' /\ EntriesOK'
  BY <1>1 DEF IInv, FreeOK, EntriesOK, current, Capacity, Live
<1>9. ExitOK'
  <2>1. /\ exiting'.producer = p /\ exiting'.id = id /\ exiting'.table = current
        /\ exiting'.index = Slot(id, current)
    BY <1>2
  <2>2. SlotOK(exiting.table, exiting.index)'
    BY <1>1, <1>5, <2>1 DEF SlotOK, current, Capacity
  <2>3. p \in 1..created
    BY <1>1, <1>3 DEF Producers
  <2> QED BY <1>1, <1>4, <2>1, <2>2, <2>3 DEF ExitOK, Live
<1> QED BY <1>1, <1>7, <1>8, <1>9 DEF IInv

LEMMA MarkInactiveKeeps ==
  ASSUME IInv, MarkInactive
  PROVE  IInv' /\ mine' = mine
<1>1. /\ exiting # NoExit /\ inactive' = inactive \cup {exiting.producer} /\ exiting' = NoExit
      /\ subscriber' = [subscriber EXCEPT ![exiting.producer] = Other]
      /\ UNCHANGED <<tables, hashCount, resizing, created, call, mine, ended, failures>>
  BY DEF MarkInactive, hashVars
<1>2. PICK p : p = exiting.producer
  OBVIOUS
<1>3. p \in 1..created /\ subscriber[p] \in ended
  BY <1>1, <1>2 DEF IInv, ExitOK
<1>4. /\ Types /\ created \in 0..MaxProducers /\ MaxProducers \in Nat /\ inactive \subseteq 1..created
      /\ subscriber \in [Producers -> Ids] /\ ended \subseteq Fibers /\ current \in Nat
  BY CurrentType, HashAssumption, BoundsAssumption DEF IInv, Types
<1>5. p \in Producers
  BY <1>3, <1>4 DEF Producers
<1>6. /\ subscriber' \in [Producers -> Ids] /\ subscriber'[p] = Other
      /\ \A q \in Producers \ {p} : subscriber'[q] = subscriber[q]
  BY <1>1, <1>2, <1>4, <1>5 DEF Ids
<1>7. Types' /\ FibersOK' /\ CountOK' /\ ServedOK'
  <2>1. tables' \in Seq(Table) /\ current' = current /\ inactive' \subseteq 1..created
    BY <1>1, <1>2, <1>3, <1>4 DEF Types, current
  <2>2. \A g \in Fibers : TablesKept(g)
    BY <1>1, <1>4, SameTablesKept
  <2>3. exiting' \in Exits
    BY <1>1, <1>4 DEF Exits, NoExit, None, Ids
  <2>4. \A q \in Producers : subscriber'[q] # subscriber[q] =>
          subscriber[q] \in ended /\ subscriber'[q] = Other
    BY <1>3, <1>6
  <2> QED BY <1>1, <1>6, <2>1, <2>2, <2>3, <2>4, ExitStep
<1>8. FreeOK'
  <2>1. \A q \in inactive' : q \in Producers /\ (q = p \/ q \in inactive)
    BY <1>1, <1>2, <1>4, <1>5 DEF Producers
  <2> QED BY <1>1, <1>6, <2>1 DEF IInv, FreeOK
<1>9. EntriesOK'
  <2>1. current' = current /\ \A u : Capacity(u)' = Capacity(u)
    BY <1>1 DEF current, Capacity
  <2> SUFFICES ASSUME NEW u \in 1..current, NEW j \in 0..(Capacity(u) - 1)
               PROVE  /\ tables[u].value[j] <= created
                      /\ tables[u].key[j] \in Live =>
                           /\ tables[u].value[j] # None
                           /\ subscriber'[tables[u].value[j]] = tables[u].key[j]
    BY <1>1, <2>1 DEF EntriesOK, Live
  <2>2. tables[u].value[j] \in 0..MaxProducers
    BY <1>4, TableShape
  <2>3. /\ tables[u].value[j] <= created
        /\ tables[u].key[j] \in Live =>
             /\ tables[u].value[j] # None
             /\ subscriber[tables[u].value[j]] = tables[u].key[j]
    BY DEF IInv, EntriesOK
  <2>4. tables[u].key[j] \in Live => tables[u].value[j] \in Producers \ {p}
    BY <1>3, <1>4, <2>2, <2>3 DEF Producers, None, Live
  <2> QED BY <1>6, <2>3, <2>4
<1>10. ExitOK'
  BY <1>1 DEF ExitOK
<1> QED BY <1>1, <1>7, <1>8, <1>9, <1>10 DEF IInv

\* The callback's place after a step: the next older table, or none.
LEMMA NextTables ==
  ASSUME IInv, exiting # NoExit, exiting.table > 0, NextTable
  PROVE  /\ exiting' \in Exits /\ exiting'.producer = exiting.producer
         /\ exiting'.id = exiting.id
         /\ exiting'.table # 0 => SlotOK(exiting'.table, exiting'.index)
<1> DEFINE u == exiting.table - 1
           i == IF exiting.table = 1 THEN 0 ELSE Slot(exiting.id, u)
           x == [producer |-> exiting.producer, id |-> exiting.id, table |-> u,
                 index |-> exiting.index]
           y == [producer |-> exiting.producer, id |-> exiting.id, table |-> u, index |-> i]
<1>1. /\ Types /\ exiting \in Exits /\ exiting.table \in 1..current /\ current \in Nat
      /\ exiting.id \in Ids /\ exiting.producer \in 0..MaxProducers
  <2>1. Types /\ exiting \in Exits
    BY DEF IInv, Types
  <2>2. SlotOK(exiting.table, exiting.index)
    BY DEF IInv, ExitOK
  <2> QED BY <2>1, <2>2, CurrentType DEF SlotOK, Exits
<1>2. exiting.table # 1 => u \in 1..current
  BY <1>1
<1>3. exiting.table # 1 => SlotOK(u, i) /\ i \in Nat
  <2> SUFFICES ASSUME exiting.table # 1
               PROVE  SlotOK(u, Slot(exiting.id, u)) /\ Slot(exiting.id, u) \in Nat
    OBVIOUS
  <2> HIDE DEF u
  <2>1. Capacity(u) \in Nat \ {0} /\ Slot(exiting.id, u) \in 0..(Capacity(u) - 1)
    BY <1>1, <1>2, TableShape, Slots
  <2> QED BY <1>2, <2>1 DEF SlotOK
<1>4. u \in Nat /\ (exiting.table = 1 => u = 0 /\ i = 0)
  BY <1>1
<1>5. i \in Nat
  BY <1>3, <1>4
<1>6. exiting' = y
  <2>1. [exiting EXCEPT !.table = @ - 1] = x
    BY <1>1 DEF Exits
  <2> HIDE DEF u, i
  <2>2. [x EXCEPT !.index = i] = y
    OBVIOUS
  <2> HIDE DEF x, y
  <2>3. exiting' = [[exiting EXCEPT !.table = @ - 1] EXCEPT !.index = i]
    BY DEF NextTable, i, u
  <2> QED BY <2>1, <2>2, <2>3, Zenon
<1> HIDE DEF u, i
<1>7. y \in Exits
  BY <1>1, <1>4, <1>5 DEF Exits
<1>8. /\ y.producer = exiting.producer /\ y.id = exiting.id /\ y.table = u /\ y.index = i
  OBVIOUS
<1> HIDE DEF y
<1> QED BY <1>3, <1>4, <1>6, <1>7, <1>8

\* A slot is given up, its producer stays in it.
LEMMA Clears ==
  ASSUME Types, NEW t \in 1..current, NEW i \in 0..(Capacity(t) - 1), NEW k,
         tables' = [tables EXCEPT ![t].key[i] = k]
  PROVE  Written(t, i, k, tables[t].value[i])
<1> DEFINE new == [key |-> [tables[t].key EXCEPT ![i] = k], value |-> tables[t].value]
           mid == [tables EXCEPT ![t] = new]
<1>1. /\ tables[t] = [key |-> tables[t].key, value |-> tables[t].value]
      /\ DOMAIN tables[t].value = 0..(Capacity(t) - 1)
      /\ tables[t].value = [j \in 0..(Capacity(t) - 1) |-> tables[t].value[j]]
  BY TableShape
<1>2. tables \in [1..current -> Table]
  BY LenProperties DEF Types, current
<1>3. [tables EXCEPT ![t].key[i] = k] = mid
  <2>1. ASSUME NEW a, NEW b, NEW r, r = [key |-> a, value |-> b]
        PROVE  [r EXCEPT !.key[i] = k] = [key |-> [a EXCEPT ![i] = k], value |-> b]
    BY <2>1
  <2>2. tables[t] = [key |-> tables[t].key, value |-> tables[t].value]
    BY <1>1
  <2>3. [tables[t] EXCEPT !.key[i] = k]
          = [key |-> [tables[t].key EXCEPT ![i] = k], value |-> tables[t].value]
    BY <2>1, <2>2, Zenon
  <2> QED BY <2>3, Zenon
<1>4. [tables[t].value EXCEPT ![i] = tables[t].value[i]] = tables[t].value
  BY <1>1
<1>5. [mid EXCEPT ![t].value[i] = tables[t].value[i]] = mid
  <2>1. mid[t] = new
    BY <1>2
  <2>2. new.value = tables[t].value
    OBVIOUS
  <2>3. [new EXCEPT !.value = tables[t].value] = new
    OBVIOUS
  <2>4. [mid EXCEPT ![t] = new] = mid
    <3> HIDE DEF new
    <3> QED BY <1>2
  <2>5. [mid EXCEPT ![t].value[i] = tables[t].value[i]]
          = [mid EXCEPT ![t] = [mid[t] EXCEPT !.value = [mid[t].value EXCEPT ![i] = tables[t].value[i]]]]
    BY Zenon
  <2> HIDE DEF mid, new
  <2> QED BY <1>4, <2>1, <2>2, <2>3, <2>4, <2>5, Zenon
<1> HIDE DEF mid, new
<1>6. tables' = [[tables EXCEPT ![t].key[i] = k] EXCEPT ![t].value[i] = tables[t].value[i]]
  BY <1>3, <1>5, Zenon
<1> QED BY <1>6, Zenon DEF Written

LEMMA ForgetKeeps ==
  ASSUME IInv, Forget
  PROVE  IInv' /\ mine' = mine
<1>1. /\ exiting # NoExit /\ exiting.table > 0
      /\ UNCHANGED <<hashCount, resizing, created, inactive, subscriber, call, mine, ended, failures>>
  BY DEF Forget, producerVars
<1>2. /\ Types /\ exiting \in Exits /\ current \in Nat
      /\ SlotOK(exiting.table, exiting.index) /\ exiting.id \notin Live
      /\ exiting.producer \in 1..created /\ exiting.producer \notin inactive
      /\ subscriber[exiting.producer] \in ended /\ exiting.producer \in 0..MaxProducers
      /\ inactive \subseteq 1..created /\ subscriber \in [Producers -> Ids]
  <2>1. Types /\ exiting \in Exits
    BY DEF IInv, Types
  <2>2. /\ SlotOK(exiting.table, exiting.index) /\ exiting.id \notin Live
        /\ exiting.producer \in 1..created /\ exiting.producer \notin inactive
        /\ subscriber[exiting.producer] \in ended
    BY <1>1 DEF IInv, ExitOK
  <2>3. inactive \subseteq 1..created /\ subscriber \in [Producers -> Ids]
    BY <2>1 DEF Types
  <2> QED BY <2>1, <2>2, <2>3, CurrentType DEF Exits
<1>3. PICK t \in 1..current : t = exiting.table
  BY <1>2 DEF SlotOK
<1>4. PICK i \in 0..(Capacity(t) - 1) : i = exiting.index
  BY <1>2, <1>3 DEF SlotOK
<1>5. /\ tables' \in Seq(Table) /\ current' = current
      /\ \A u \in 1..current : Capacity(u)' = Capacity(u)
      /\ \A g \in Fibers : TablesKept(g)
      /\ EntriesOK'
  <2>1. CASE tables' = tables
    <3>1. current' = current /\ \A u : Capacity(u)' = Capacity(u)
      BY <2>1 DEF current, Capacity
    <3>2. \A g \in Fibers : TablesKept(g)
      BY <1>2, <2>1, SameTablesKept
    <3>3. EntriesOK'
      BY <1>1, <2>1, <3>1 DEF IInv, EntriesOK, Live
    <3> QED BY <1>2, <2>1, <3>1, <3>2, <3>3 DEF Types
  <2>2. CASE tables' # tables
    <3>1. /\ tables[t].key[i] = exiting.id
          /\ tables' = [tables EXCEPT ![t].key[i] = invalid_fiber_id2]
      BY <1>3, <1>4, <2>2, Zenon DEF Forget
    <3>2. PICK v : v = tables[t].value[i]
      OBVIOUS
    <3>3. v \in 0..MaxProducers /\ v <= created
      BY <1>2, <3>2, TableShape DEF IInv, EntriesOK
    <3>4. Written(t, i, invalid_fiber_id2, v)
      BY <1>2, <3>1, <3>2, Clears
    <3>5. invalid_fiber_id2 \in Keys /\ invalid_fiber_id2 # invalid_fiber_id
          /\ invalid_fiber_id2 \notin Fibers
      BY IdsAssumption DEF Keys, Ids, invalid_fiber_id, invalid_fiber_id2
    <3>6. /\ tables' \in Seq(Table) /\ current' = current
          /\ \A u \in 1..current :
               /\ Capacity(u)' = Capacity(u)
               /\ \A j \in 0..(Capacity(u) - 1) :
                    /\ tables'[u].key[j] = IF u = t /\ j = i THEN invalid_fiber_id2 ELSE tables[u].key[j]
                    /\ tables'[u].value[j] = IF u = t /\ j = i THEN v ELSE tables[u].value[j]
      BY <1>2, <3>3, <3>4, <3>5, Writes
    <3>7. ASSUME NEW g \in Fibers
          PROVE  TablesKept(g)
      <4>1. g \in Live => tables[t].key[i] # g
        BY <1>2, <3>1
      <4>2. ASSUME NEW u \in 1..current, NEW j \in 0..(Capacity(u) - 1)
            PROVE  /\ g \in Live => ((tables'[u].key[j] = g) <=> (tables[u].key[j] = g))
                   /\ tables[u].key[j] # invalid_fiber_id => tables'[u].key[j] # invalid_fiber_id
        BY <3>5, <3>6, <4>1
      <4> QED BY <1>2, <3>6, <4>2 DEF TablesKept
    <3>8. EntriesOK'
      <4> SUFFICES ASSUME NEW u \in 1..current, NEW j \in 0..(Capacity(u) - 1)
                   PROVE  /\ tables'[u].value[j] <= created
                          /\ tables'[u].key[j] \in Live =>
                               /\ tables'[u].value[j] # None
                               /\ subscriber[tables'[u].value[j]] = tables'[u].key[j]
        BY <1>1, <3>6 DEF EntriesOK, Live
      <4>1. CASE u = t /\ j = i
        BY <3>3, <3>5, <3>6, <4>1 DEF Live
      <4>2. CASE ~(u = t /\ j = i)
        BY <3>6, <4>2 DEF IInv, EntriesOK
      <4> QED BY <4>1, <4>2
    <3> QED BY <3>6, <3>7, <3>8
  <2> QED BY <2>1, <2>2
<1>6. /\ exiting' \in Exits /\ exiting'.producer = exiting.producer /\ exiting'.id = exiting.id
      /\ exiting'.table # 0 => SlotOK(exiting'.table, exiting'.index)
  <2>1. CASE NextTable
    BY <1>1, <2>1, NextTables
  <2>2. CASE exiting' = [exiting EXCEPT !.index = After(@, exiting.table)]
    <3>1. After(i, t) \in 0..(Capacity(t) - 1) /\ After(i, t) \in Nat
      <4>1. Capacity(t) \in Nat \ {0}
        BY <1>2, TableShape
      <4>2. After(i, t) = IF i + 1 = Capacity(t) THEN 0 ELSE i + 1
        BY <1>2, HashAssumption, Slots DEF Ids
      <4> QED BY <4>1, <4>2
    <3>2. exiting' = [producer |-> exiting.producer, id |-> exiting.id, table |-> exiting.table,
                      index |-> After(i, t)]
      BY <1>2, <1>3, <1>4, <2>2 DEF Exits
    <3>3. /\ exiting'.producer = exiting.producer /\ exiting'.id = exiting.id
          /\ exiting'.table = t /\ exiting'.index = After(i, t)
      BY <1>3, <3>2
    <3>4. exiting' \in Exits
      BY <1>2, <3>1, <3>2 DEF Exits
    <3> QED BY <3>1, <3>3, <3>4 DEF SlotOK
  <2> QED BY <2>1, <2>2 DEF Forget
<1>7. Types' /\ FibersOK' /\ CountOK' /\ ServedOK'
  BY <1>1, <1>2, <1>5, <1>6, ExitStep
<1>8. FreeOK'
  BY <1>1 DEF IInv, FreeOK
<1>9. ExitOK'
  <2>1. PICK u : u = exiting'.table
    OBVIOUS
  <2>2. PICK j : j = exiting'.index
    OBVIOUS
  <2>3. SlotOK(u, j) => SlotOK(exiting.table, exiting.index)'
    BY <1>5, <2>1, <2>2 DEF SlotOK, Capacity
  <2> QED BY <1>1, <1>2, <1>6, <2>1, <2>2, <2>3 DEF ExitOK, Live
<1> QED BY <1>1, <1>5, <1>7, <1>8, <1>9 DEF IInv

-------------------------------------------------------------------------------
(* The invariant *)

LEMMA InitInvariant == Init => IInv
<1> SUFFICES ASSUME Init PROVE IInv
  OBVIOUS
<1> USE DEF Init
<1>1. MaxProducers \in Nat /\ MaxFailures \in Nat /\ Other \notin Fibers
      /\ InitialSize \in Nat \ {0} /\ Ending \subseteq Fibers
  BY HashAssumption, BoundsAssumption
<1>2. /\ NewTable(InitialSize) \in Table
      /\ NewTable(InitialSize).key = [i \in 0..(InitialSize - 1) |-> invalid_fiber_id]
      /\ NewTable(InitialSize).value = [i \in 0..(InitialSize - 1) |-> None]
  BY <1>1, NewTables
<1>3. /\ tables \in Seq(Table) /\ current = 1 /\ tables[1] = NewTable(InitialSize)
  BY <1>2 DEF current
<1>4. Capacity(1) = InitialSize
  <2>1. 0 \in Int /\ InitialSize - 1 \in Int
    BY <1>1
  <2>2. Cardinality(0..(InitialSize - 1))
          = IF 0 > InitialSize - 1 THEN 0 ELSE InitialSize - 1 - 0 + 1
    BY <2>1, FS_Interval
  <2> QED BY <1>1, <1>2, <1>3, <2>2 DEF Capacity
<1>5. NoExit \in Exits
  BY <1>1 DEF Exits, NoExit, Ids, None
<1>6. /\ \A f \in Fibers : call[f] = NoCall /\ mine[f] = None
      /\ \A p \in Producers : subscriber[p] = Other
  OBVIOUS
<1>7. Types
  <2>1. call \in [Fibers -> Calls] /\ subscriber \in [Producers -> Ids]
    BY NoCalls DEF Ids
  <2>2. mine \in [Fibers -> 0..MaxProducers]
    BY <1>1 DEF None
  <2>3. /\ hashCount \in Nat /\ resizing \in BOOLEAN /\ created \in 0..MaxProducers
        /\ inactive \subseteq 1..created /\ ended \subseteq Ending /\ failures \in 0..MaxFailures
    <3>1. hashCount = 0 /\ created = 0 /\ failures = 0
      OBVIOUS
    <3>2. hashCount \in Nat /\ created \in 0..MaxProducers /\ failures \in 0..MaxFailures
      BY <1>1, <3>1
    <3>3. resizing = FALSE /\ inactive = {} /\ ended = {}
      OBVIOUS
    <3> QED BY <3>2, <3>3
  <2>4. exiting \in Exits
    BY <1>5
  <2>5. current > 0
    BY <1>3
  <2> QED BY <1>3, <2>1, <2>2, <2>3, <2>4, <2>5 DEF Types
<1>8. FibersOK
  <2> SUFFICES ASSUME NEW f \in Fibers
               PROVE  FiberOK(f)
    BY DEF FibersOK
  <2>1. Place(f, call[f], mine[f])
    BY <1>3, <1>6 DEF Place, NoCall, None, Making, Entering
  <2>2. Own(f, call[f], mine[f])
    BY <1>1, <1>6 DEF Own, NoCall, Making, Entering
  <2>3. Seek(f, call[f], mine[f])
    BY <1>6 DEF Seek, NoCall
  <2> QED BY <2>1, <2>2, <2>3 DEF FiberOK, Sound
<1>9. FreeOK
  BY <1>6 DEF FreeOK
<1>10. EntriesOK
  <2> SUFFICES ASSUME NEW i \in 0..(InitialSize - 1)
               PROVE  tables[1].value[i] = None /\ tables[1].key[i] \notin Live
    BY <1>3, <1>4 DEF EntriesOK, None
  <2> QED BY <1>2, <1>3, IdsAssumption DEF Live, Ids
<1>11. ExitOK
  BY DEF ExitOK
<1>12. CountOK /\ ServedOK
  <2>1. Pending = {}
    BY <1>6 DEF Pending, NoCall, Entering
  <2>2. Cardinality(Pending) = 0
    BY <2>1, FS_EmptySet
  <2>3. Cardinality(Counted) \in Nat /\ Cardinality(Served) \in Nat
    BY <1>7, FiniteCounts, FS_CardinalityType
  <2> QED BY <2>2, <2>3 DEF CountOK, ServedOK
<1> QED BY <1>7, <1>8, <1>9, <1>10, <1>11, <1>12 DEF IInv

\* Fibers that go on have the producer they had.
Keeps == \A f \in Fibers \ ended' : mine[f] # None => mine'[f] = mine[f]

LEMMA SameInvariant ==
  ASSUME IInv, UNCHANGED vars
  PROVE  IInv'
<1>1. UNCHANGED <<tables, hashCount, resizing, created, inactive, subscriber, call, mine,
                  ended, exiting, failures>>
  BY DEF vars, hashVars, producerVars
<1>2. Types /\ current' = current /\ \A u : Capacity(u)' = Capacity(u)
  BY <1>1 DEF IInv, current, Capacity
<1>3. Types' /\ FibersOK' /\ CountOK' /\ ServedOK'
  <2>1. \A g \in Fibers : TablesKept(g)
    BY <1>1, <1>2, SameTablesKept
  <2> QED BY <1>1, <1>2, <2>1, ExitStep DEF Types
<1>4. FreeOK' /\ EntriesOK' /\ ExitOK'
  BY <1>1, <1>2 DEF IInv, FreeOK, EntriesOK, ExitOK, SlotOK, Live
<1> QED BY <1>3, <1>4 DEF IInv

LEMMA FiberStep ==
  ASSUME IInv, NEW f \in Fibers, Enqueue(f) \/ Continue(f) \/ End(f)
  PROVE  IInv' /\ Keeps
<1>1. CASE Enqueue(f)
  BY <1>1, EnqueueKeeps DEF Enqueue, Keeps
<1>2. CASE Found(f)
  <2>1. CASE call[f].table = call[f].main
    <3>1. IInv' /\ (mine[f] # None => mine'[f] = mine[f])
      BY <1>2, <2>1, FoundNewest
    <3>2. \A g \in Fibers \ {f} : mine'[g] = mine[g]
      BY <1>2, <2>1 DEF Found, IInv, Types
    <3> QED BY <3>1, <3>2 DEF Keeps
  <2>2. CASE call[f].table # call[f].main
    BY <1>2, <2>2, FoundOlder DEF Keeps
  <2> QED BY <2>1, <2>2
<1>3. CASE NotInTable(f)
  BY <1>3, NotInTableKeeps DEF Keeps
<1>4. CASE ProbeNext(f)
  BY <1>4, ProbeNextKeeps DEF Keeps
<1>5. CASE ReAdd(f)
  BY <1>5, ReAddKeeps DEF Keeps
<1>6. CASE Count(f)
  BY <1>6, CountKeeps DEF Count, Keeps
<1>7. CASE LockResize(f)
  BY <1>7, LockResizeKeeps DEF LockResize, Keeps
<1>8. CASE Resize(f)
  BY <1>8, ResizeKeeps DEF Keeps
<1>9. CASE ResizeFails(f)
  BY <1>9, ResizeFailsKeeps DEF ResizeFails, Keeps
<1>10. CASE Abandon(f)
  BY <1>10, AbandonKeeps DEF Abandon, Keeps
<1>11. CASE UnlockResize(f)
  BY <1>11, UnlockResizeKeeps DEF UnlockResize, Keeps
<1>12. CASE Fit(f)
  BY <1>12, FitKeeps DEF Fit, Keeps
<1>13. CASE Recycle(f)
  BY <1>13, RecycleKeeps DEF Keeps
<1>14. CASE Create(f)
  BY <1>14, CreateKeeps DEF Keeps
<1>15. CASE CreateFails(f)
  BY <1>15, CreateFailsKeeps DEF CreateFails, Keeps
<1>16. CASE Insert(f)
  BY <1>16, InsertKeeps DEF Keeps
<1>17. CASE Discount(f)
  BY <1>17, DiscountKeeps DEF Keeps
<1>18. CASE End(f)
  BY <1>18, EndKeeps DEF Keeps
<1> QED BY <1>1, <1>2, <1>3, <1>4, <1>5, <1>6, <1>7, <1>8, <1>9, <1>10, <1>11, <1>12,
           <1>13, <1>14, <1>15, <1>16, <1>17, <1>18 DEF Continue

LEMMA StepInvariant ==
  ASSUME IInv, [Next]_vars
  PROVE  IInv' /\ Keeps
<1>1. CASE UNCHANGED vars
  BY <1>1, SameInvariant DEF vars, Keeps
<1>2. ASSUME NEW f \in Fibers, Enqueue(f) \/ Continue(f) \/ End(f)
      PROVE  IInv' /\ Keeps
  BY <1>2, FiberStep
<1>3. ASSUME NEW p \in Producers, ExitThread(p)
      PROVE  IInv' /\ Keeps
  BY <1>3, ExitThreadKeeps DEF Keeps
<1>4. CASE Forget
  BY <1>4, ForgetKeeps DEF Keeps
<1>5. CASE MarkInactive
  BY <1>5, MarkInactiveKeeps DEF Keeps
<1> QED BY <1>1, <1>2, <1>3, <1>4, <1>5 DEF Next

\* The inductive invariant holds in every reachable state.
THEOREM Invariant == Spec => []IInv
<1>1. IInv /\ [Next]_vars => IInv'
  BY StepInvariant
<1> QED BY <1>1, InitInvariant, PTL DEF Spec

-------------------------------------------------------------------------------
(* What it is for *)

\* get_or_add_implicit_producer keeps its tables, its count and the producers
\* in the ranges the code relies on: no fiber is counted twice, and there are
\* never more producers than fibers that enqueued.
THEOREM TypeCorrect == Spec => []TypeOK
<1>1. IInv => TypeOK
  <2> SUFFICES ASSUME IInv PROVE TypeOK
    OBVIOUS
  <2>1. Types /\ created \in Nat
    BY BoundsAssumption DEF IInv, Types
  <2>2. ASSUME NEW t \in 1..current
        PROVE  /\ tables[t].key \in [DOMAIN tables[t].key -> Keys]
               /\ tables[t].value \in [DOMAIN tables[t].key -> 0..created]
    <3>1. /\ tables[t].key \in [0..(Capacity(t) - 1) -> Keys]
          /\ tables[t].value \in [0..(Capacity(t) - 1) -> 0..MaxProducers]
          /\ DOMAIN tables[t].key = 0..(Capacity(t) - 1)
      BY <2>1, TableShape
    <3>2. \A i \in 0..(Capacity(t) - 1) : tables[t].value[i] \in 0..created
      <4> SUFFICES ASSUME NEW i \in 0..(Capacity(t) - 1)
                   PROVE  tables[t].value[i] \in 0..created
        OBVIOUS
      <4>1. tables[t].value[i] \in 0..MaxProducers /\ tables[t].value[i] <= created
        BY <3>1 DEF IInv, EntriesOK
      <4> QED BY <2>1, <4>1
    <3> QED BY <3>1, <3>2
  <2>3. hashCount \in 0..Cardinality(Fibers)
    <3>1. Counted \subseteq Fibers
      BY <2>1, FiniteCounts
    <3>2. Cardinality(Counted) <= Cardinality(Fibers) /\ Cardinality(Fibers) \in Nat
          /\ Cardinality(Counted) \in Nat
      BY <3>1, BoundsAssumption, FS_Subset, FS_CardinalityType
    <3>3. hashCount \in Nat /\ hashCount <= Cardinality(Counted)
      BY DEF IInv, CountOK, Types
    <3> QED BY <3>2, <3>3
  <2>4. ASSUME NEW f \in Fibers
        PROVE  /\ call[f].main \in 0..current /\ call[f].table \in 0..current
               /\ call[f].producer \in 0..created /\ mine[f] \in 0..created
    <3>1. Place(f, call[f], mine[f])
      BY BusyLive
    <3>2. call[f].producer \in 0..MaxProducers /\ mine[f] \in 0..MaxProducers
      BY <2>1, CallType
    <3> QED BY <2>1, <3>1, <3>2 DEF Place
  <2>5. mine \in [Fibers -> 0..created]
    BY <2>1, <2>4 DEF Types
  <2> QED BY <2>1, <2>2, <2>3, <2>4, <2>5 DEF Types, TypeOK
<1> QED BY <1>1, Invariant, PTL

\* No sub-queue ever has two fibers that enqueue to it, and none that enqueues
\* to one that may be picked up.
THEOREM OneFiberHolds == Spec => []OneFiber
<1>1. IInv => OneFiber
  <2> SUFFICES ASSUME IInv, NEW f \in Fibers \ ended
               PROVE  /\ \A g \in Fibers \ (ended \cup {f}) : Holds(f) \cap Holds(g) \subseteq {None}
                      /\ Holds(f) \cap inactive = {}
    BY DEF OneFiber
  <2>1. ASSUME NEW g \in Live, NEW p \in Holds(g), p # None
        PROVE  subscriber[p] = g
    <3>1. Own(g, call[g], mine[g])
      BY BusyLive DEF Live
    <3> QED BY <2>1, <3>1 DEF Own, Holds, Entering
  <2>2. \A g \in Fibers \ (ended \cup {f}) : Holds(f) \cap Holds(g) \subseteq {None}
    BY <2>1 DEF Live
  <2>3. Holds(f) \cap inactive = {}
    <3>1. \A p \in inactive : p # None /\ subscriber[p] = Other
      BY DEF IInv, Types, FreeOK, None
    <3> QED BY <2>1, <3>1, HashAssumption DEF Live
  <2> QED BY <2>2, <2>3
<1> QED BY <1>1, Invariant, PTL

\* A fiber that has a sub-queue keeps it for as long as it enqueues, whatever
\* tables are replaced meanwhile and whoever else comes and goes.
THEOREM SameProducerHolds == Spec => SameProducer
<1>1. IInv /\ [Next]_vars => [\A f \in Fibers \ ended' : mine[f] # None => mine'[f] = mine[f]]_vars
  BY StepInvariant DEF Keeps
<1> QED BY <1>1, Invariant, PTL DEF Spec, SameProducer

-------------------------------------------------------------------------------
(* Room in the tables: until a fiber ends, the count covers what is in a     *)
(* table and what may still enter it                                         *)

Has(f, t) == \E i \in 0..(Capacity(t) - 1) : tables[t].key[i] = f

\* The largest newCount with which a fiber stays with the table (Fit).
Limit(t) == Capacity(t) \div 2 + Capacity(t) \div 4 - 1

\* A slot is empty or belongs to a fiber that has its producer, that is nowhere
\* else in the table, and that a search finds there.
KeyOK(t, i, k) ==
  k # invalid_fiber_id =>
    /\ k \in Fibers /\ mine[k] # None
    /\ \A j \in Passed(Slot(k, t), i, Capacity(t)) : tables[t].key[j] # invalid_fiber_id
    /\ \A j \in 0..(Capacity(t) - 1) : tables[t].key[j] = k => j = i

KeysOK == \A t \in 1..current : \A i \in 0..(Capacity(t) - 1) : KeyOK(t, i, tables[t].key[i])

Growing == \A t, u \in 1..current : t <= u => Capacity(t) <= Capacity(u)

\* What a search has looked through; nothing can be reused yet.
Looks(f, c) ==
  /\ c.pc = "probe" => \A u \in 1..c.main : u > c.table => ~Has(f, u)
  /\ c.pc = "readd" => ~Has(f, c.table) /\ \E u \in 1..c.table : Has(f, u)
  /\ c.pc # "discount"

\* The fiber is in a table for newCounts up to v, or will be.
Within(f, c, v) ==
  \/ c.pc \in {"grow", "resize", "unlock", "fit"} /\ c.newCount <= v
  \/ c.pc = "recycle" /\ Limit(c.main) <= v
  \/ c.pc = "insert" /\ Limit(c.table) <= v
  \/ \E t \in 1..current : Limit(t) <= v /\ Has(f, t)

\* A fiber was the newCount-th when it was counted.
RanksOK == \A v \in Nat : Cardinality({f \in Fibers : Within(f, call[f], v)}) <= v

Exact == Cardinality(Counted) <= hashCount

Room == KeysOK /\ Growing /\ (\A f \in Fibers : Looks(f, call[f])) /\ RanksOK /\ Exact

RoomInv == ended = {} => Room

LEMMA Limits ==
  ASSUME Types, NEW t \in 1..current
  PROVE  /\ Limit(t) \in Int /\ Capacity(t) \in Nat \ {0} /\ 4 * Limit(t) < 3 * Capacity(t)
         /\ \A u \in 1..current : Capacity(t) <= Capacity(u) => Limit(t) <= Limit(u)
<1>1. Capacity(t) \in Nat \ {0} /\ \A u \in 1..current : Capacity(u) \in Nat \ {0}
  BY TableShape
<1>2. \A a, b \in Nat \ {0} :
        /\ a \div 2 + a \div 4 - 1 \in Int /\ 4 * (a \div 2 + a \div 4 - 1) < 3 * a
        /\ a <= b => a \div 2 + a \div 4 - 1 <= b \div 2 + b \div 4 - 1
  OBVIOUS
<1> QED BY <1>1, <1>2 DEF Limit

\* Whoever is in a table has a producer, and a search finds it.
LEMMA HasFound ==
  ASSUME IInv, KeysOK, NEW f \in Fibers, NEW t \in 1..current, Has(f, t)
  PROVE  mine[f] # None /\ InTable(f, t)
<1>1. PICK i \in 0..(Capacity(t) - 1) : tables[t].key[i] = f
  BY DEF Has
<1>2. f # invalid_fiber_id
  BY IdsAssumption DEF Ids
<1>3. /\ mine[f] # None
      /\ \A j \in Passed(Slot(f, t), i, Capacity(t)) : tables[t].key[j] # invalid_fiber_id
  BY <1>1, <1>2 DEF KeysOK, KeyOK
<1> QED BY <1>1, <1>3 DEF InTable

\* A fiber that moves neither itself nor in the tables.
LEMMA OthersWithin ==
  ASSUME IInv, NEW g \in Live, call'[g] = call[g], TablesKept(g), Looks(g, call[g]),
         \A t \in 1..current' : t \notin 1..current => ~Has(g, t)'
  PROVE  /\ Looks(g, call[g])'
         /\ \A v \in Nat : Within(g, call[g], v)' => Within(g, call[g], v)
<1>1. /\ Types /\ g \in Fibers /\ Place(g, call[g], mine[g])
      /\ current \in Nat /\ current' \in Nat /\ current <= current'
  BY BusyLive, CurrentType DEF Live, TablesKept
<1>2. \A t \in 1..current : (Has(g, t)' <=> Has(g, t)) /\ Limit(t)' = Limit(t)
  <2> TAKE t \in 1..current
  <2>1. Capacity(t)' = Capacity(t)
    BY DEF TablesKept
  <2>2. \A i \in 0..(Capacity(t) - 1) : (tables'[t].key[i] = g) <=> (tables[t].key[i] = g)
    BY DEF TablesKept
  <2> QED BY <2>1, <2>2 DEF Has, Limit
<1>3. PICK c : c = call[g]
  OBVIOUS
<1>4. /\ c.pc = "probe" \/ c.pc \in Making => c.main \in 1..current
      /\ c.pc \in {"readd", "insert"} => c.table \in 1..current
      /\ c.main \in Nat /\ c.table \in Nat
  <2>1. c.main \in Nat /\ c.table \in Nat
    BY <1>1, <1>3, CallType
  <2> QED BY <1>1, <1>3, <2>1 DEF Place, SlotOK, Entering
<1>5. Looks(g, c)'
  <2>1. Looks(g, c)
    BY <1>3
  <2>2. c.pc = "probe" => \A u \in 1..c.main : u > c.table => ~Has(g, u)'
    BY <1>1, <1>2, <1>4, <2>1 DEF Looks
  <2>3. c.pc = "readd" => ~Has(g, c.table)' /\ \E u \in 1..c.table : Has(g, u)'
    <3> SUFFICES ASSUME c.pc = "readd"
                 PROVE  ~Has(g, c.table)' /\ \E u \in 1..c.table : Has(g, u)'
      OBVIOUS
    <3>1. c.table \in 1..current /\ ~Has(g, c.table) /\ \E u \in 1..c.table : Has(g, u)
      BY <1>4, <2>1 DEF Looks
    <3>2. PICK u \in 1..c.table : Has(g, u)
      BY <3>1
    <3>3. u \in 1..current
      BY <1>1, <3>1
    <3> QED BY <1>2, <3>1, <3>2, <3>3
  <2> QED BY <2>1, <2>2, <2>3 DEF Looks
<1>6. ASSUME NEW v \in Nat, Within(g, c, v)'
      PROVE  Within(g, c, v)
  <2>1. ASSUME NEW t \in 1..current', (Limit(t) <= v)', Has(g, t)'
        PROVE  \E u \in 1..current : Limit(u) <= v /\ Has(g, u)
    <3>1. t \in 1..current
      BY <2>1
    <3> QED BY <1>2, <2>1, <3>1
  <2>2. c.pc = "recycle" => Limit(c.main)' = Limit(c.main)
    BY <1>2, <1>4 DEF Making
  <2>3. c.pc = "insert" => Limit(c.table)' = Limit(c.table)
    BY <1>2, <1>4
  <2> QED BY <1>6, <2>1, <2>2, <2>3 DEF Within
<1>7. Looks(g, call[g])'
  BY <1>3, <1>5 DEF Looks, Has, Capacity
<1>8. ASSUME NEW v \in Nat, Within(g, call[g], v)'
      PROVE  Within(g, call[g], v)
  <2>1. Within(g, c, v)'
    BY <1>3, <1>8 DEF Within, Limit, Capacity
  <2> QED BY <1>3, <1>6, <2>1
<1> QED BY <1>7, <1>8

LEMMA CapacityPrimed ==
  ASSUME tables' = tables, NEW t
  PROVE  /\ current' = current /\ Capacity(t)' = Capacity(t) /\ Limit(t)' = Limit(t)
         /\ \A f : Has(f, t)' <=> Has(f, t)
BY DEF current, Capacity, Limit, Has

\* The count follows whoever is counted.
LEMMA ExactStep ==
  ASSUME Types, Types', Exact, NEW f \in Fibers, OthersStay(f),
         \/ hashCount' = hashCount /\ (f \in Counted' => f \in Counted)
         \/ hashCount' = hashCount + 1
         \/ hashCount' = hashCount - 1 /\ f \in Counted /\ f \notin Counted'
  PROVE  Exact'
<1> DEFINE C == Cardinality(Counted)
           D == Cardinality(Counted')
<1>1. C \in Nat /\ hashCount \in Nat
  BY CountTypes
<1>2. D \in Nat
  <2>1. Types' => (Cardinality(Counted) \in Nat)'
    BY CountTypes, PTL
  <2> QED BY <2>1
<1>3. /\ (f \in Counted' => f \in Counted) => D <= C
      /\ (f \in Counted /\ f \notin Counted') => D = C - 1
      /\ D <= C + 1
  BY CountsMove
<1>4. C <= hashCount
  BY DEF Exact
<1> HIDE DEF C, D
<1>5. D <= hashCount'
  BY <1>1, <1>2, <1>3, <1>4
<1> QED BY <1>5 DEF Exact, D

LEMMA FiberCount ==
  ASSUME NEW S \in SUBSET Fibers, NEW T \in SUBSET S
  PROVE  /\ IsFiniteSet(S) /\ IsFiniteSet(T)
         /\ Cardinality(S) \in Nat /\ Cardinality(T) \in Nat
         /\ Cardinality(T) <= Cardinality(S)
BY BoundsAssumption, FS_Subset, FS_CardinalityType

\* Whoever is within a limit is counted.
WithinCount == \A g \in Fibers, v \in Nat : Within(g, call[g], v) => g \in Counted

LEMMA WithinCounted ==
  ASSUME IInv, KeysOK
  PROVE  WithinCount
<1> SUFFICES ASSUME NEW g \in Fibers, NEW v \in Nat, Within(g, call[g], v)
             PROVE  g \in Counted
  BY DEF WithinCount
<1>1. CASE \E t \in 1..current : Has(g, t)
  BY <1>1, HasFound DEF Counted
<1>2. CASE call[g].pc \in {"grow", "resize", "unlock", "fit", "recycle", "insert"}
  BY <1>2 DEF Counted, Pending, Entering
<1> QED BY <1>1, <1>2 DEF Within

\* A step of fiber f that leaves the tables to the others as they are, and where
\* f comes within the limits above the count only.
LEMMA RoomStep ==
  ASSUME IInv, IInv', Room, NEW f \in Fibers, ended = {}, OthersStay(f),
         \A g \in Fibers \ {f} : TablesKept(g),
         \A g \in Fibers : \A t \in 1..current' : t \notin 1..current => ~Has(g, t)',
         KeysOK', Growing', Looks(f, call[f])', Exact',
         \A v \in Nat : \/ Within(f, call[f], v)' => Within(f, call[f], v)
                        \/ hashCount' <= v
  PROVE  Room'
<1>1. ASSUME NEW g \in Fibers, g # f
      PROVE  /\ Looks(g, call[g])'
             /\ \A v \in Nat : Within(g, call[g], v)' => Within(g, call[g], v)
  <2>1. g \in Live /\ call'[g] = call[g] /\ TablesKept(g) /\ Looks(g, call[g])
    BY <1>1 DEF Live, OthersStay, Room
  <2>2. \A t \in 1..current' : t \notin 1..current => ~Has(g, t)'
    BY <1>1
  <2> QED BY <2>1, <2>2, OthersWithin
<1>2. \A g \in Fibers : Looks(g, call[g])'
  BY <1>1
<1>3. ASSUME NEW v \in Nat
      PROVE  Cardinality({g \in Fibers : Within(g, call[g], v)'}) <= v
  <2> DEFINE S == {g \in Fibers : Within(g, call[g], v)}
             T == {g \in Fibers : Within(g, call[g], v)'}
  <2>1. CASE Within(f, call[f], v)' => Within(f, call[f], v)
    <3>1. S \in SUBSET Fibers /\ T \in SUBSET S
      BY <1>1, <2>1
    <3>2. Cardinality(S) <= v
      BY DEF Room, RanksOK
    <3> HIDE DEF S, T
    <3>3. Cardinality(S) \in Nat /\ Cardinality(T) \in Nat /\ Cardinality(T) <= Cardinality(S)
      BY <3>1, FiberCount
    <3>4. Cardinality(T) <= v
      BY <3>2, <3>3
    <3> QED BY <3>4 DEF T
  <2>2. CASE hashCount' <= v
    <3>1. T \subseteq Counted'
      <4>1. IInv' /\ KeysOK' => WithinCount'
        BY WithinCounted, PTL
      <4> QED BY <4>1 DEF WithinCount
    <3>2. Counted' \subseteq Fibers
      <4>1. Types' => (Counted \subseteq Fibers)'
        BY FiniteCounts, PTL
      <4> QED BY <4>1 DEF IInv
    <3>3. Cardinality(Counted') <= hashCount' /\ hashCount' \in Nat
      BY DEF Exact, IInv, Types
    <3> HIDE DEF T
    <3>4. Cardinality(T) \in Nat /\ Cardinality(Counted') \in Nat
          /\ Cardinality(T) <= Cardinality(Counted')
      BY <3>1, <3>2, FiberCount
    <3>5. Cardinality(T) <= v
      BY <2>2, <3>3, <3>4
    <3> QED BY <3>5 DEF T
  <2> QED BY <2>1, <2>2
<1>4. RanksOK'
  BY <1>3 DEF RanksOK
<1> QED BY <1>2, <1>4 DEF Room

\* One that leaves them as they are to all.
LEMMA RoomQuiet ==
  ASSUME IInv, IInv', Room, NEW f \in Fibers, ended = {}, OthersStay(f), tables' = tables,
         mine[f] # None => mine'[f] # None, NEW c, call'[f] = c, Looks(f, c),
         \A v \in Nat : (Within(f, c, v) => Within(f, call[f], v)) \/ hashCount' <= v,
         \/ hashCount' = hashCount /\ (f \in Counted' => f \in Counted)
         \/ hashCount' = hashCount + 1
         \/ hashCount' = hashCount - 1 /\ f \in Counted /\ f \notin Counted'
  PROVE  Room'
<1>1. /\ Types /\ Types' /\ current' = current
      /\ \A t : Capacity(t)' = Capacity(t) /\ Limit(t)' = Limit(t)
      /\ \A t, g : Has(g, t)' <=> Has(g, t)
  BY CapacityPrimed DEF IInv
<1>2. \A g \in Fibers : TablesKept(g)
  BY <1>1, SameTablesKept
<1>3. \A g \in Fibers : mine[g] # None => mine'[g] # None
  BY DEF OthersStay
<1>4. KeysOK'
  <2>1. KeysOK
    BY DEF Room
  <2> QED BY <1>1, <1>3, <2>1 DEF KeysOK, KeyOK, Slot
<1>5. Growing'
  BY <1>1 DEF Room, Growing
<1>6. Looks(f, call[f])'
  BY <1>1 DEF Looks
<1>7. \A v \in Nat : (Within(f, call[f], v)' => Within(f, call[f], v)) \/ hashCount' <= v
  BY <1>1 DEF Within
<1>8. Exact'
  BY <1>1, ExactStep DEF Room
<1> QED BY <1>1, <1>2, <1>4, <1>5, <1>6, <1>7, <1>8, RoomStep

\* A fiber that searches is not counted any differently.
LEMMA RoomSearching ==
  ASSUME IInv, IInv', Room, NEW f \in Fibers, ended = {}, ended' = ended, OthersStay(f),
         tables' = tables, hashCount' = hashCount, (mine[f] = None) <=> (mine'[f] = None),
         NEW c, call'[f] = c, c.pc \in {"idle", "probe", "readd", "count"}, Looks(f, c)
  PROVE  Room'
<1>1. f \in Counted' => f \in Counted
  BY DEF Counted, Pending, Entering
<1>2. \A v \in Nat : Within(f, c, v) => Within(f, call[f], v)
  BY DEF Within
<1> QED BY <1>1, <1>2, RoomQuiet

\* A fiber that is counted goes on without asking for more, or is discounted.
LEMMA RoomMaking ==
  ASSUME IInv, IInv', Room, NEW f \in Fibers, ended = {}, ended' = ended, OthersStay(f),
         tables' = tables, mine' = mine, f \in Pending,
         hashCount' = hashCount \/ (hashCount' = hashCount - 1 /\ f \notin Pending' /\ mine[f] = None),
         NEW c, call'[f] = c, c.pc \in Making \cup {"idle", "insert"},
         \A v \in Nat : Within(f, c, v) => Within(f, call[f], v)
  PROVE  Room'
<1>1. f \in Counted
  BY DEF Counted
<1>2. hashCount' = hashCount - 1 => f \notin Counted' \/ hashCount' = hashCount
  BY DEF Counted
<1>3. Looks(f, c)
  BY DEF Looks, Making
<1> QED BY <1>1, <1>2, <1>3, RoomQuiet

LEMMA RoomEnqueue ==
  ASSUME IInv, IInv', Room, NEW f \in Fibers, ended = {}, Enqueue(f)
  PROVE  Room'
<1> DEFINE c == [NoCall EXCEPT !.pc = "probe", !.main = current,
                               !.table = current, !.index = Slot(f, current)]
<1>1. Types /\ Types' /\ call' = [call EXCEPT ![f] = c] /\ current \in Nat
  BY CurrentType DEF IInv, Enqueue
<1>2. c = [pc |-> "probe", main |-> current, table |-> current, index |-> Slot(f, current),
           newCount |-> 0, producer |-> None]
  BY NewCall
<1>3. /\ call'[f] = c /\ \A g \in Fibers \ {f} : call'[g] = call[g]
  <2> HIDE DEF c
  <2> QED BY <1>1 DEF Types
<1>4. c.pc = "probe" /\ c.main = current /\ c.table = current
  BY <1>2
<1> HIDE DEF c
<1>5. /\ OthersStay(f) /\ tables' = tables /\ mine' = mine /\ ended' = ended
      /\ hashCount' = hashCount
  BY <1>3, Quietly DEF Enqueue, hashVars
<1>6. Looks(f, c)
  BY <1>1, <1>4 DEF Looks
<1> QED BY <1>3, <1>4, <1>5, <1>6, RoomSearching

LEMMA RoomFound ==
  ASSUME IInv, IInv', Room, NEW f \in Fibers, ended = {}, Found(f)
  PROVE  Room'
<1> DEFINE t == call[f].table
           m == call[f].main
<1>1. /\ call[f].pc = "probe" /\ Types /\ Place(f, call[f], mine[f]) /\ Looks(f, call[f])
      /\ t \in 1..current /\ call[f].index \in 0..(Capacity(t) - 1)
      /\ tables[t].key[call[f].index] = f
      /\ m \in 1..current /\ call \in [Fibers -> Calls] /\ current \in Nat
      /\ t \in 1..m
  <2>1. /\ call[f].pc = "probe" /\ Types /\ Place(f, call[f], mine[f]) /\ Looks(f, call[f])
        /\ tables[t].key[call[f].index] = f
    BY BusyLive DEF Found, At, KeyAt, Room
  <2>2. t \in 1..current /\ call[f].index \in 0..(Capacity(t) - 1)
    BY <2>1, AtSlot
  <2>3. m \in 1..current /\ t <= m
    BY <2>1 DEF Place
  <2> QED BY <2>1, <2>2, <2>3, CurrentType DEF Types
<1>2. /\ Has(f, t)
  BY <1>1 DEF Has
<1>3. mine[f] # None
  BY <1>1, <1>2, HasFound DEF Room
<1>4. /\ tables' = tables /\ ended' = ended /\ hashCount' = hashCount
  BY DEF Found, hashVars
<1>5. CASE t = m
  <2>1. /\ mine'[f] = mine[f] /\ call' = [call EXCEPT ![f] = NoCall]
        /\ \A g \in Fibers \ {f} : mine'[g] = mine[g]
    <3>1. mine'[f] = mine[f]
      BY <1>3, <1>5, FoundNewest
    <3> QED BY <1>1, <1>5, <3>1 DEF Found, Return, Types
  <2>2. call'[f] = NoCall /\ \A g \in Fibers \ {f} : call'[g] = call[g]
    BY <1>1, <2>1
  <2>3. OthersStay(f)
    BY <1>4, <2>1, <2>2, Quietly
  <2>4. NoCall.pc = "idle"
    BY DEF NoCall
  <2>5. Looks(f, NoCall)
    BY <2>4 DEF Looks
  <2> QED BY <1>4, <2>1, <2>2, <2>3, <2>4, <2>5, RoomSearching
<1>6. CASE t # m
  <2> DEFINE p == tables[t].value[call[f].index]
             c == [pc |-> "readd", main |-> 0, table |-> m, index |-> Slot(f, m),
                   newCount |-> call[f].newCount, producer |-> p]
  <2>1. /\ call' = [call EXCEPT ![f].pc = "readd", ![f].producer = p, ![f].table = m,
                                ![f].main = 0, ![f].index = Slot(f, m)]
        /\ mine' = mine
    BY <1>6 DEF Found
  <2>2. call'[f] = c /\ \A g \in Fibers \ {f} : call'[g] = call[g]
    <3> HIDE DEF p, m
    <3> QED BY <1>1, <2>1 DEF Calls
  <2>3. OthersStay(f)
    BY <1>4, <2>1, <2>2, Quietly
  <2>4. c.pc = "readd" /\ c.table = m
    OBVIOUS
  <2> HIDE DEF c
  <2>5. Looks(f, c)
    BY <1>1, <1>2, <1>6, <2>4 DEF Looks
  <2> QED BY <1>4, <2>1, <2>2, <2>3, <2>4, <2>5, RoomSearching
<1> QED BY <1>5, <1>6

LEMMA RoomNotInTable ==
  ASSUME IInv, IInv', Room, NEW f \in Fibers, ended = {}, NotInTable(f)
  PROVE  Room'
<1> DEFINE t == call[f].table
<1>1. /\ call[f].pc = "probe" /\ Types /\ Looks(f, call[f]) /\ KeysOK
      /\ t \in 1..current /\ call[f].index \in 0..(Capacity(t) - 1)
      /\ tables[t].key[call[f].index] = invalid_fiber_id
      /\ \A j \in Passed(Slot(f, t), call[f].index, Capacity(t)) : tables[t].key[j] # f
      /\ call \in [Fibers -> Calls] /\ call[f].main \in Nat
  BY BusyLive, AtSlot, CallType DEF NotInTable, At, KeyAt, Types, Seek, Behind, Room
<1>2. ~Has(f, t)
  BY <1>1, NotThere, HasFound
<1>3. /\ tables' = tables /\ mine' = mine /\ hashCount' = hashCount /\ ended' = ended
  BY DEF NotInTable, hashVars
<1>4. CASE t > 1
  <2> DEFINE u == t - 1
             c == [pc |-> "probe", main |-> call[f].main, table |-> u, index |-> Slot(f, u),
                   newCount |-> call[f].newCount, producer |-> call[f].producer]
  <2>1. /\ call'[f] = c /\ \A g \in Fibers \ {f} : call'[g] = call[g]
    <3>1. call' = [call EXCEPT ![f].table = u, ![f].index = Slot(f, u), ![f].pc = "probe"]
      BY <1>4 DEF NotInTable, Search
    <3> HIDE DEF u
    <3> QED BY <1>1, <3>1 DEF Calls
  <2>2. c.pc = "probe" /\ c.main = call[f].main /\ c.table = t - 1
    OBVIOUS
  <2> HIDE DEF c
  <2>3. Looks(f, c)
    <3>1. \A v \in 1..c.main : v > c.table => v = t \/ v > t
      BY <1>1, <2>2
    <3> QED BY <1>1, <1>2, <2>2, <3>1 DEF Looks
  <2>4. OthersStay(f)
    BY <1>3, <2>1, Quietly
  <2> QED BY <1>3, <2>1, <2>2, <2>3, <2>4, RoomSearching
<1>5. CASE ~(t > 1)
  <2>1. GoTo(f, "count") /\ "count" \in Pcs
    BY <1>5 DEF NotInTable, Pcs, Making
  <2>2. PICK c : c = call'[f]
    OBVIOUS
  <2>3. c.pc = "count" /\ \A g \in Fibers \ {f} : call'[g] = call[g]
    BY <1>1, <2>1, <2>2, GoesTo
  <2>4. Looks(f, c)
    BY <2>3 DEF Looks
  <2>5. OthersStay(f)
    BY <1>3, <2>3, Quietly
  <2> QED BY <1>3, <2>2, <2>3, <2>4, <2>5, RoomSearching
<1> QED BY <1>4, <1>5

\* On to the next slot.
LEMMA RoomMovesOn ==
  ASSUME IInv, IInv', Room, NEW f \in Fibers, ended = {}, NextSlot(f),
         UNCHANGED <<tables, mine, ended, hashCount>>, call[f].pc \in {"probe", "readd", "insert"}
  PROVE  Room'
<1>1. /\ Types /\ Looks(f, call[f]) /\ After(call[f].index, call[f].table) \in Nat
  BY AtSlot DEF IInv, Room, Entering
<1>2. PICK c : c = call'[f]
  OBVIOUS
<1>3. /\ c.pc = call[f].pc /\ c.main = call[f].main /\ c.table = call[f].table
      /\ \A g \in Fibers \ {f} : call'[g] = call[g]
  BY <1>1, <1>2, NextSlots
<1>4. OthersStay(f)
  BY <1>3, Quietly
<1>5. CASE call[f].pc \in {"probe", "readd"}
  <2>1. Looks(f, c)
    BY <1>1, <1>3 DEF Looks
  <2> QED BY <1>2, <1>3, <1>4, <1>5, <2>1, RoomSearching
<1>6. CASE call[f].pc = "insert"
  <2>1. f \in Pending
    BY <1>6 DEF Pending, Entering
  <2>2. \A v \in Nat : Within(f, c, v) => Within(f, call[f], v)
    BY <1>3, <1>6 DEF Within
  <2> QED BY <1>2, <1>3, <1>4, <1>6, <2>1, <2>2, RoomMaking
<1> QED BY <1>5, <1>6

LEMMA RoomProbeNext ==
  ASSUME IInv, IInv', Room, NEW f \in Fibers, ended = {}, ProbeNext(f)
  PROVE  Room'
BY RoomMovesOn DEF ProbeNext, At, hashVars

LEMMA RoomAbandon ==
  ASSUME IInv, IInv', Room, NEW f \in Fibers, ended = {}, Abandon(f)
  PROVE  Room'
<1>1. call' = [call EXCEPT ![f] = NoCall] /\ Types
  BY DEF Abandon, Return, IInv
<1>2. call'[f] = NoCall /\ \A g \in Fibers \ {f} : call'[g] = call[g]
  BY <1>1 DEF Types
<1>3. NoCall.pc = "idle" /\ Looks(f, NoCall)
  BY DEF NoCall, Looks
<1>4. OthersStay(f) /\ tables' = tables /\ mine' = mine /\ ended' = ended /\ hashCount' = hashCount
  BY <1>2, Quietly DEF Abandon
<1> QED BY <1>2, <1>3, <1>4, RoomSearching

\* To another place, or nowhere, with the same newCount and table.
LEMMA RoomGoes ==
  ASSUME IInv, IInv', Room, NEW f \in Fibers, ended = {}, NEW x \in Pcs, GoTo(f, x),
         call[f].pc \in {"grow", "resize", "unlock", "fit"},
         \/ x \in {"grow", "resize", "unlock", "fit"} /\ hashCount' = hashCount
         \/ x = "abandon" /\ hashCount' = hashCount - 1,
         UNCHANGED <<tables, mine, ended>>
  PROVE  Room'
<1>1. PICK c : c = call'[f]
  OBVIOUS
<1>2. /\ c.pc = x /\ c.newCount = call[f].newCount /\ \A g \in Fibers \ {f} : call'[g] = call[g]
  BY <1>1, GoesTo DEF IInv
<1>3. OthersStay(f)
  BY <1>2, Quietly
<1>4. f \in Pending /\ call[f].pc \in Making /\ c.pc \in Making
  BY <1>2 DEF Pending, Making
<1>5. x = "abandon" => f \notin Pending'
  BY <1>1, <1>2 DEF Pending, Entering
<1>6. \A v \in Nat : Within(f, c, v) => Within(f, call[f], v)
  BY <1>2 DEF Within
<1>7. mine[f] = None
  BY <1>4, MakingReturn
<1> QED BY <1>1, <1>3, <1>4, <1>5, <1>6, <1>7, RoomMaking

LEMMA RoomLock ==
  ASSUME IInv, IInv', Room, NEW f \in Fibers, ended = {},
         LockResize(f) \/ UnlockResize(f) \/ ResizeFails(f)
  PROVE  Room'
<1>1. "resize" \in Pcs /\ "fit" \in Pcs /\ "abandon" \in Pcs
  BY DEF Pcs, Making
<1>2. CASE LockResize(f)
  BY <1>1, <1>2, RoomGoes DEF LockResize, At
<1>3. CASE UnlockResize(f)
  BY <1>1, <1>3, RoomGoes DEF UnlockResize, At
<1>4. CASE ResizeFails(f)
  BY <1>1, <1>4, RoomGoes DEF ResizeFails, At, Fail
<1> QED BY <1>2, <1>3, <1>4

LEMMA RoomCreateFails ==
  ASSUME IInv, IInv', Room, NEW f \in Fibers, ended = {}, CreateFails(f)
  PROVE  Room'
<1>1. call' = [call EXCEPT ![f] = NoCall] /\ Types /\ call[f].pc = "recycle"
  BY DEF CreateFails, Return, IInv, At
<1>2. call'[f] = NoCall /\ \A g \in Fibers \ {f} : call'[g] = call[g]
  BY <1>1 DEF Types
<1>3. NoCall.pc = "idle" /\ \A v \in Nat : Within(f, NoCall, v) => Within(f, call[f], v)
  BY DEF NoCall, Within
<1>4. /\ OthersStay(f) /\ tables' = tables /\ mine' = mine /\ ended' = ended
      /\ hashCount' = hashCount - 1
  BY <1>2, Quietly DEF CreateFails, Fail
<1>5. f \in Pending /\ f \notin Pending' /\ mine[f] = None
  BY <1>1, <1>2, <1>3, MakingReturn DEF Pending, Entering, Making
<1> QED BY <1>2, <1>3, <1>4, <1>5, RoomMaking

\* With newCount below three quarters, the fiber is within the table's limit.
LEMMA RoomFit ==
  ASSUME IInv, IInv', Room, NEW f \in Fibers, ended = {}, Fit(f)
  PROVE  Room'
<1>1. call[f].pc = "fit" /\ call[f].pc \in Making /\ Types /\ f \in Pending
  BY DEF Fit, At, Making, Pending, IInv
<1>2. PICK c : c = call'[f]
  OBVIOUS
<1>3. PICK m \in 1..current : m = call[f].main
  BY <1>1, BusyLive DEF Place
<1>4. /\ \A g \in Fibers \ {f} : call'[g] = call[g]
      /\ \/ /\ call[f].newCount < Capacity(m) \div 2 + Capacity(m) \div 4
            /\ c.pc = "recycle" /\ c.main = m
         \/ c.pc = "grow" /\ c.newCount = call[f].newCount
  BY <1>2, <1>3, FitMoves
<1>5. c.pc = "recycle" => call[f].newCount <= Limit(m) /\ c.main = m
  <2>1. Capacity(m) \in Nat \ {0} /\ call[f].newCount \in Nat
    BY <1>1, TableShape, CallType
  <2> QED BY <1>4, <2>1 DEF Limit
<1>6. ASSUME NEW v \in Nat, Within(f, c, v)
      PROVE  Within(f, call[f], v)
  <2>1. Limit(m) \in Int /\ call[f].newCount \in Nat
    BY <1>1, Limits, CallType
  <2>2. c.pc = "recycle" /\ Limit(m) <= v => call[f].newCount <= v
    BY <1>5, <2>1
  <2> QED BY <1>1, <1>4, <1>6, <2>2 DEF Within
<1>7. OthersStay(f) /\ tables' = tables /\ mine' = mine /\ ended' = ended /\ hashCount' = hashCount
  BY <1>4, Quietly DEF Fit, hashVars
<1>8. c.pc \in Making
  BY <1>4 DEF Making
<1> QED BY <1>1, <1>2, <1>6, <1>7, <1>8, RoomMaking

\* A fiber that has just been counted is the last of as many as the count says.
LEMMA RoomCount ==
  ASSUME IInv, IInv', Room, NEW f \in Fibers, ended = {}, Count(f)
  PROVE  Room'
<1>1. call[f].pc = "count" /\ Types /\ call \in [Fibers -> Calls]
  BY DEF Count, At, IInv, Types
<1>2. /\ call' = [call EXCEPT ![f].newCount = hashCount + 1, ![f].pc = "grow"]
      /\ hashCount' = hashCount + 1 /\ tables' = tables /\ mine' = mine /\ ended' = ended
  BY DEF Count
<1>3. PICK c : c = call'[f]
  OBVIOUS
<1>4. /\ c = [pc |-> "grow", main |-> call[f].main, table |-> call[f].table,
             index |-> call[f].index, newCount |-> hashCount + 1, producer |-> call[f].producer]
      /\ \A g \in Fibers \ {f} : call'[g] = call[g]
  BY <1>1, <1>2, <1>3 DEF Calls
<1>5. c.pc = "grow" /\ c.newCount = hashCount'
  BY <1>2, <1>4
<1>6. OthersStay(f)
  BY <1>2, <1>4, Quietly
<1>7. Looks(f, c)
  BY <1>5 DEF Looks
<1>8. \A v \in Nat : (Within(f, c, v) => Within(f, call[f], v)) \/ hashCount' <= v
  BY <1>5 DEF Within
<1> QED BY <1>2, <1>3, <1>6, <1>7, <1>8, RoomQuiet

\* Somebody else has replaced the table.
LEMMA RoomReplaced ==
  ASSUME IInv, IInv', Room, NEW f \in Fibers, ended = {}, Resize(f),
         ~Crowded(call[f].newCount, current)
  PROVE  Room'
<1>1. call[f].pc = "resize" /\ call[f].pc \in Making /\ Types /\ call \in [Fibers -> Calls]
  BY DEF Resize, At, Making, IInv, Types
<1>2. /\ call' = [call EXCEPT ![f].main = current, ![f].pc = "unlock"]
      /\ hashCount' = hashCount /\ tables' = tables /\ mine' = mine /\ ended' = ended
  BY DEF Resize
<1>3. PICK c : c = call'[f]
  OBVIOUS
<1>4. /\ c = [pc |-> "unlock", main |-> current, table |-> call[f].table,
             index |-> call[f].index, newCount |-> call[f].newCount, producer |-> call[f].producer]
      /\ \A g \in Fibers \ {f} : call'[g] = call[g]
  BY <1>1, <1>2, <1>3 DEF Calls
<1>5. c.pc = "unlock" /\ c.newCount = call[f].newCount /\ c.pc \in Making
  BY <1>4 DEF Making
<1>6. OthersStay(f) /\ f \in Pending
  BY <1>1, <1>2, <1>4, Quietly DEF Pending
<1>7. \A v \in Nat : Within(f, c, v) => Within(f, call[f], v)
  BY <1>1, <1>5 DEF Within
<1> QED BY <1>2, <1>3, <1>5, <1>6, <1>7, RoomMaking

LEMMA RoomSubscribe ==
  ASSUME IInv, IInv', Room, NEW f \in Fibers, ended = {}, call[f].pc = "recycle",
         NEW p \in Producers, Subscribe(f, p), UNCHANGED <<tables, hashCount, mine, ended>>
  PROVE  Room'
<1>1. Types /\ call[f].pc \in Making /\ f \in Pending /\ call[f].main \in 1..current
  <2>1. call[f].pc \in Making /\ f \in Pending
    BY DEF Making, Pending
  <2> QED BY <2>1, BusyLive DEF Place
<1>2. PICK c : c = call'[f]
  OBVIOUS
<1>3. /\ c.pc = "insert" /\ c.table = call[f].main /\ \A g \in Fibers \ {f} : call'[g] = call[g]
  BY <1>1, <1>2, Subscribes
<1>4. OthersStay(f)
  BY <1>3, Quietly
<1>5. \A v \in Nat : Within(f, c, v) => Within(f, call[f], v)
  BY <1>3 DEF Within
<1> QED BY <1>1, <1>2, <1>3, <1>4, <1>5, RoomMaking

LEMMA RoomRecycle ==
  ASSUME IInv, IInv', Room, NEW f \in Fibers, ended = {}, Recycle(f)
  PROVE  Room'
<1>1. /\ call[f].pc = "recycle" /\ UNCHANGED <<tables, hashCount, mine, ended>>
      /\ call \in [Fibers -> Calls] /\ created \in 0..MaxProducers /\ MaxProducers \in Nat
      /\ inactive \subseteq 1..created
  BY BoundsAssumption DEF Recycle, At, hashVars, IInv, Types
<1>2. CASE call[f].producer \in inactive
  <2>1. PICK p : p = call[f].producer
    OBVIOUS
  <2>2. p \in 1..created
    BY <1>1, <1>2, <2>1
  <2>3. p \in Producers
    BY <1>1, <2>2 DEF Producers
  <2>4. Subscribe(f, p)
    BY <1>2, <2>1 DEF Recycle
  <2> QED BY <1>1, <2>3, <2>4, RoomSubscribe
<1>3. CASE call[f].producer \notin inactive
  <2>1. call' = [call EXCEPT ![f].producer = @ - 1]
    BY <1>3 DEF Recycle
  <2>2. PICK c : c = call'[f]
    OBVIOUS
  <2>3. c.pc = "recycle" /\ c.main = call[f].main /\ \A g \in Fibers \ {f} : call'[g] = call[g]
    BY <1>1, <2>1, <2>2 DEF Calls
  <2>4. OthersStay(f) /\ f \in Pending /\ c.pc \in Making
    BY <1>1, <2>3, Quietly DEF Pending, Making
  <2>5. \A v \in Nat : Within(f, c, v) => Within(f, call[f], v)
    BY <1>1, <2>3 DEF Within
  <2> QED BY <1>1, <2>2, <2>4, <2>5, RoomMaking
<1> QED BY <1>2, <1>3

LEMMA RoomCreate ==
  ASSUME IInv, IInv', Room, NEW f \in Fibers, ended = {}, Create(f)
  PROVE  Room'
<1>1. call[f].pc = "recycle" /\ call[f].pc \in Making /\ UNCHANGED <<tables, hashCount, mine, ended>>
  BY DEF Create, At, Making, hashVars
<1>2. PICK p \in Producers : p = created + 1
  BY <1>1, NewFiber
<1>3. Subscribe(f, p)
  BY <1>2 DEF Create
<1> QED BY <1>1, <1>2, <1>3, RoomSubscribe

\* Entering a table the fiber is not in yet.
LEMMA RoomStore ==
  ASSUME IInv, IInv', Room, NEW f \in Fibers, ended = {}, call[f].pc \in {"readd", "insert"},
         KeyAt(f) = invalid_fiber_id, Store(f, call[f].producer), Return(f),
         mine' = [mine EXCEPT ![f] = call[f].producer],
         UNCHANGED <<hashCount, created, subscriber, ended>>
  PROVE  Room'
<1>1. /\ Types /\ f \in Live /\ Own(f, call[f], mine[f]) /\ Seek(f, call[f], mine[f])
      /\ KeysOK /\ Growing /\ Looks(f, call[f]) /\ call \in [Fibers -> Calls]
      /\ mine \in [Fibers -> 0..MaxProducers] /\ current \in Nat
  BY BusyLive, CurrentType DEF IInv, Types, Room
<1>2. PICK t \in 1..current : t = call[f].table
  BY AtSlot DEF Entering
<1>3. PICK i \in 0..(Capacity(t) - 1) : i = call[f].index
  BY <1>2, AtSlot DEF Entering
<1>4. PICK p \in 0..MaxProducers : p = call[f].producer
  BY <1>1, CallType
<1>5. /\ p # None /\ subscriber[p] = f /\ f \in Keys /\ f # invalid_fiber_id
      /\ p \in Producers
  <2>1. p # None /\ subscriber[p] = f
    BY <1>1, <1>4 DEF Own, Entering
  <2> QED BY <2>1, IdsAssumption, BoundsAssumption DEF Keys, Ids, Producers, None
<1>6. /\ current' = current
      /\ \A u \in 1..current :
           /\ Capacity(u)' = Capacity(u)
           /\ \A j \in 0..(Capacity(u) - 1) :
                tables'[u].key[j] = IF u = t /\ j = i THEN f ELSE tables[u].key[j]
  <2>1. Written(t, i, f, p)
    BY <1>2, <1>3, <1>4 DEF Store, Written
  <2> QED BY <1>1, <1>5, <2>1, Writes
<1>7. call'[f] = NoCall /\ \A g \in Fibers \ {f} : call'[g] = call[g]
  BY <1>1 DEF Return
<1>8. mine'[f] = p /\ \A g \in Fibers \ {f} : mine'[g] = mine[g]
  BY <1>1, <1>4
<1>9. OthersStay(f)
  BY <1>7, <1>8, Quietly
<1>10. /\ call[f].pc = "readd" => mine[f] # None
       /\ call[f].pc = "insert" => mine[f] = None
  BY <1>1, <1>5 DEF Own, Entering
<1>11. ~Has(f, t)
  <2>1. CASE call[f].pc = "readd"
    BY <1>1, <1>2, <2>1 DEF Looks
  <2>2. CASE call[f].pc = "insert"
    BY <1>1, <1>10, <2>2, HasFound
  <2> QED BY <2>1, <2>2
<1>12. \A u \in 1..current : u # t => (Has(f, u)' <=> Has(f, u))
  BY <1>6 DEF Has
<1>13. \A g \in Fibers \ {f} : TablesKept(g)
  BY <1>5, Stores DEF Free
<1>14. KeysOK'
  <2> SUFFICES ASSUME NEW u \in 1..current, NEW j \in 0..(Capacity(u) - 1),
                      NEW k, k = tables'[u].key[j], k # invalid_fiber_id
               PROVE  /\ k \in Fibers /\ mine'[k] # None
                      /\ \A l \in Passed(Slot(k, u), j, Capacity(u)) :
                           tables'[u].key[l] # invalid_fiber_id
                      /\ \A l \in 0..(Capacity(u) - 1) : tables'[u].key[l] = k => l = j
    BY <1>6 DEF KeysOK, KeyOK, Slot
  <2>1. Capacity(u) \in Nat \ {0}
    BY <1>1, TableShape
  <2>2. \A k2 \in Fibers : Passed(Slot(k2, u), j, Capacity(u)) \subseteq 0..(Capacity(u) - 1)
    <3> TAKE k2 \in Fibers
    <3>1. Slot(k2, u) \in 0..(Capacity(u) - 1)
      BY <1>1, Slots DEF Ids
    <3> QED BY <2>1, <3>1, PassedNext
  <2>3. CASE u = t /\ j = i
    <3>1. k = f /\ mine'[k] # None
      BY <1>5, <1>6, <1>8, <2>3
    <3>2. \A l \in Passed(Slot(f, t), i, Capacity(t)) : tables[t].key[l] # invalid_fiber_id
      BY <1>1, <1>2, <1>3 DEF Seek, Behind
    <3>3. \A l \in Passed(Slot(f, t), i, Capacity(t)) : tables'[t].key[l] # invalid_fiber_id
      BY <1>5, <1>6, <2>2, <2>3, <3>2
    <3>4. \A l \in 0..(Capacity(t) - 1) : tables'[t].key[l] = f => l = i
      BY <1>6, <1>11 DEF Has
    <3> QED BY <2>3, <3>1, <3>3, <3>4
  <2>4. CASE ~(u = t /\ j = i)
    <3>1. k = tables[u].key[j]
      BY <1>6, <2>4
    <3>2. /\ k \in Fibers /\ mine[k] # None
          /\ \A l \in Passed(Slot(k, u), j, Capacity(u)) : tables[u].key[l] # invalid_fiber_id
          /\ \A l \in 0..(Capacity(u) - 1) : tables[u].key[l] = k => l = j
      BY <1>1, <3>1 DEF KeysOK, KeyOK
    <3>3. mine'[k] # None
      BY <1>5, <1>8, <3>2
    <3>4. \A l \in Passed(Slot(k, u), j, Capacity(u)) : tables'[u].key[l] # invalid_fiber_id
      BY <1>5, <1>6, <2>2, <3>2
    <3>5. u = t => k # f
      BY <1>11, <3>1 DEF Has
    <3>6. \A l \in 0..(Capacity(u) - 1) : tables'[u].key[l] = k => l = j
      BY <1>6, <3>2, <3>5
    <3> QED BY <3>2, <3>3, <3>4, <3>6
  <2> QED BY <2>3, <2>4
<1>15. Growing'
  BY <1>1, <1>6 DEF Growing
<1>16. NoCall.pc = "idle"
  BY DEF NoCall
<1>17. Looks(f, call[f])'
  BY <1>7, <1>16 DEF Looks
<1>18. Exact'
  <2>1. f \in Counted
    BY <1>10 DEF Counted, Pending, Entering
  <2> QED BY <1>1, <1>9, <2>1, ExactStep DEF IInv, Room
<1>19. ASSUME NEW v \in Nat, Within(f, call[f], v)'
       PROVE  Within(f, call[f], v)
  <2>1. PICK u \in 1..current : Limit(u)' <= v /\ Has(f, u)'
    BY <1>6, <1>7, <1>16, <1>19 DEF Within
  <2>2. Limit(u)' = Limit(u)
    BY <1>6 DEF Limit
  <2>3. CASE u # t
    BY <1>12, <2>1, <2>2, <2>3 DEF Within
  <2>4. CASE u = t /\ call[f].pc = "insert"
    BY <1>2, <2>1, <2>2, <2>4 DEF Within
  <2>5. CASE u = t /\ call[f].pc = "readd"
    <3>1. PICK w \in 1..t : Has(f, w)
      BY <1>1, <1>2, <2>5 DEF Looks
    <3>2. w \in 1..current /\ w <= t
      BY <1>1
    <3>3. Limit(w) <= Limit(t) /\ Limit(w) \in Int /\ Limit(t) \in Int
      <4>1. Capacity(w) <= Capacity(t)
        BY <1>1, <3>2 DEF Growing
      <4> QED BY <1>1, <3>2, <4>1, Limits
    <3>4. Limit(w) <= v
      BY <2>1, <2>2, <2>5, <3>3
    <3> QED BY <3>1, <3>2, <3>4 DEF Within
  <2> QED BY <2>3, <2>4, <2>5
<1>20. \A g \in Fibers : \A u \in 1..current' : u \notin 1..current => ~Has(g, u)'
  BY <1>6
<1> QED BY <1>9, <1>13, <1>14, <1>15, <1>17, <1>18, <1>19, <1>20, RoomStep

LEMMA RoomReAdd ==
  ASSUME IInv, IInv', Room, NEW f \in Fibers, ended = {}, ReAdd(f)
  PROVE  Room'
<1>1. call[f].pc = "readd"
  BY DEF ReAdd, At
<1>2. KeyAt(f) \in Fibers \cup {invalid_fiber_id}
  BY <1>1, AtSlot DEF Room, KeysOK, KeyOK, KeyAt
<1>3. CASE KeyAt(f) = invalid_fiber_id
  BY <1>1, <1>3, RoomStore DEF ReAdd, Free, producerVars
<1>4. CASE KeyAt(f) \in Fibers
  <2>1. ~Free(KeyAt(f))
    BY <1>4, IdsAssumption DEF Free, Ids
  <2> QED BY <1>1, <2>1, RoomMovesOn DEF ReAdd
<1> QED BY <1>2, <1>3, <1>4

LEMMA RoomInsert ==
  ASSUME IInv, IInv', Room, NEW f \in Fibers, ended = {}, Insert(f)
  PROVE  Room'
<1>1. call[f].pc = "insert"
  BY DEF Insert, At
<1>2. KeyAt(f) \in Fibers \cup {invalid_fiber_id}
  BY <1>1, AtSlot DEF Room, KeysOK, KeyOK, KeyAt, Entering
<1>3. CASE KeyAt(f) = invalid_fiber_id
  <2>1. /\ Store(f, call[f].producer) /\ Return(f)
        /\ mine' = [mine EXCEPT ![f] = call[f].producer]
        /\ UNCHANGED <<hashCount, created, subscriber, ended>>
    BY <1>3 DEF Insert, producerVars, invalid_fiber_id, invalid_fiber_id2
  <2> QED BY <1>1, <1>3, <2>1, RoomStore
<1>4. CASE KeyAt(f) \in Fibers
  <2>1. KeyAt(f) \notin {invalid_fiber_id, invalid_fiber_id2}
    BY <1>4, IdsAssumption DEF Ids
  <2>2. NextSlot(f) /\ UNCHANGED <<tables, mine, ended, hashCount>>
    BY <2>1 DEF Insert
  <2> QED BY <1>1, <2>2, RoomMovesOn
<1> QED BY <1>2, <1>3, <1>4

\* A larger table is empty, and none is smaller than those before it.
LEMMA RoomGrow ==
  ASSUME IInv, IInv', Room, NEW f \in Fibers, ended = {}, Resize(f),
         Crowded(call[f].newCount, current)
  PROVE  Room'
<1> DEFINE n == call[f].newCount
           m == current + 1
<1>1. /\ call[f].pc = "resize" /\ f \in Pending /\ Types /\ call \in [Fibers -> Calls]
      /\ KeysOK /\ Growing /\ n \in Nat /\ current \in Nat /\ current > 0
  BY CallType, CurrentType DEF Resize, At, Pending, IInv, Types, Room
<1>2. /\ tables' = Append(tables, NewTable(NewSize(n, current)))
      /\ call' = [call EXCEPT ![f].main = m, ![f].pc = "unlock"]
      /\ UNCHANGED <<hashCount, mine, ended>>
  BY DEF Resize
<1>3. /\ current' = current + 1
      /\ \A u \in 1..current : tables'[u] = tables[u] /\ Capacity(u)' = Capacity(u)
      /\ \A u : u = current + 1 =>
           /\ Capacity(u)' = NewSize(n, current)
           /\ \A i \in 0..(Capacity(u)' - 1) : tables'[u].key[i] = invalid_fiber_id
  BY <1>1, <1>2, Appends
<1>4. PICK r : r = current + 1
  OBVIOUS
<1>5. /\ current' = r /\ r = current + 1
      /\ Capacity(r)' = NewSize(n, current) /\ current \in 1..current
      /\ \A i \in 0..(Capacity(r)' - 1) : tables'[r].key[i] = invalid_fiber_id
  BY <1>1, <1>3, <1>4
<1>6. \A g \in Fibers \ {f} : TablesKept(g)
  BY <1>1, <1>3, <1>5 DEF TablesKept
<1>7. \A g \in Fibers : \A u \in 1..current' : u \notin 1..current => ~Has(g, u)'
  <2> SUFFICES ASSUME NEW g \in Fibers, NEW u \in 1..r, u \notin 1..current
               PROVE  ~Has(g, u)'
    BY <1>5
  <2>1. u = r
    BY <1>1, <1>5
  <2>2. g # invalid_fiber_id
    BY IdsAssumption DEF Ids
  <2> QED BY <1>5, <2>1, <2>2 DEF Has
<1>8. KeysOK'
  <2>1. ASSUME NEW u \in 1..r, NEW j \in 0..(Capacity(u)' - 1)
        PROVE  KeyOK(u, j, tables[u].key[j])'
    <3>1. PICK k : k = tables'[u].key[j]
      OBVIOUS
    <3>2. CASE k = invalid_fiber_id
      BY <3>1, <3>2 DEF KeyOK
    <3>3. CASE k # invalid_fiber_id
      <4>1. u \in 1..current
        BY <1>1, <1>5, <2>1, <3>1, <3>3
      <4>2. /\ tables'[u] = tables[u] /\ Capacity(u)' = Capacity(u)
            /\ Slot(k, u)' = Slot(k, u)
        BY <1>3, <4>1 DEF Slot
      <4>3. KeyOK(u, j, k)
        BY <1>1, <3>1, <4>1, <4>2 DEF KeysOK
      <4>4. KeyOK(u, j, k)'
        BY <1>2, <4>2, <4>3 DEF KeyOK
      <4> QED BY <3>1, <4>4 DEF KeyOK, Slot
    <3> QED BY <3>2, <3>3
  <2> QED BY <1>5, <2>1 DEF KeysOK
<1>9. Growing'
  <2> SUFFICES ASSUME NEW t \in 1..r, NEW u \in 1..r, t <= u
               PROVE  Capacity(t)' <= Capacity(u)'
    BY <1>5 DEF Growing
  <2>1. CASE u \in 1..current
    <3>1. t \in 1..current
      BY <1>1, <2>1
    <3> QED BY <1>1, <1>3, <2>1, <3>1 DEF Growing
  <2>2. CASE u = r /\ t \in 1..current
    <3>1. Capacity(t) <= Capacity(current) /\ Capacity(t) \in Nat /\ Capacity(current) \in Nat
      <4>1. t <= current
        BY <1>1, <2>2
      <4> QED BY <1>1, <1>5, <2>2, <4>1, TableShape DEF Growing
    <3>2. Capacity(current) <= NewSize(n, current) /\ NewSize(n, current) \in Nat
      BY <1>1, <1>5, NewSizes
    <3>3. Capacity(t)' = Capacity(t)
      BY <1>3, <2>2
    <3>4. Capacity(u)' = NewSize(n, current)
      BY <1>5, <2>2 DEF Capacity
    <3> QED BY <3>1, <3>2, <3>3, <3>4
  <2>3. CASE u = r /\ t = r
    <3>1. Capacity(r)' \in Nat
      BY <1>1, <1>5, NewSizes
    <3> QED BY <2>3, <3>1
  <2>4. u \in 1..current \/ (u = r /\ (t \in 1..current \/ t = r))
    BY <1>1, <1>5
  <2> QED BY <2>1, <2>2, <2>3, <2>4
<1>10. PICK c : c = call'[f]
  OBVIOUS
<1>11. /\ c = [pc |-> "unlock", main |-> m, table |-> call[f].table,
              index |-> call[f].index, newCount |-> n, producer |-> call[f].producer]
       /\ \A g \in Fibers \ {f} : call'[g] = call[g]
  <2> HIDE DEF m
  <2> QED BY <1>1, <1>2, <1>10 DEF Calls
<1>12. c.pc = "unlock" /\ c.newCount = n
  BY <1>11
<1>13. OthersStay(f)
  BY <1>2, <1>11, Quietly
<1>14. Looks(f, call[f])'
  BY <1>10, <1>12 DEF Looks
<1>15. Exact'
  <2>1. f \in Counted
    BY <1>1 DEF Counted
  <2> QED BY <1>2, <1>13, <2>1, ExactStep DEF IInv, Room
<1>16. ASSUME NEW v \in Nat, Within(f, call[f], v)'
       PROVE  Within(f, call[f], v)
  <2>1. n <= v \/ \E u \in 1..r : Limit(u)' <= v /\ Has(f, u)'
    BY <1>5, <1>10, <1>12, <1>16 DEF Within
  <2>2. ASSUME NEW u \in 1..r, Limit(u)' <= v, Has(f, u)'
        PROVE  Limit(u) <= v /\ Has(f, u) /\ u \in 1..current
    <3>1. u \in 1..current
      BY <1>5, <1>7, <2>2
    <3>2. Capacity(u)' = Capacity(u) /\ tables'[u] = tables[u]
      BY <1>3, <3>1
    <3> QED BY <2>2, <3>1, <3>2 DEF Limit, Has
  <2> QED BY <1>1, <2>1, <2>2 DEF Within
<1> QED BY <1>6, <1>7, <1>8, <1>9, <1>13, <1>14, <1>15, <1>16, RoomStep

-------------------------------------------------------------------------------

LEMMA RoomInit == Init => RoomInv
<1> SUFFICES ASSUME Init PROVE RoomInv
  OBVIOUS
<1> USE DEF Init
<1>1. IInv /\ Types
  BY InitInvariant DEF IInv
<1>2. InitialSize \in Nat \ {0}
  BY HashAssumption
<1>3. /\ current = 1 /\ tables[1] = NewTable(InitialSize) /\ tables[1].key = [i \in 0..(InitialSize - 1) |-> invalid_fiber_id]
      /\ \A f \in Fibers : call[f] = NoCall /\ mine[f] = None
  BY <1>2, NewTables DEF current
<1>4. Capacity(1) \in Nat /\ DOMAIN tables[1].key = 0..(Capacity(1) - 1)
  BY <1>1, <1>3, TableShape
<1>5. \A t \in 1..current : \A i \in 0..(Capacity(t) - 1) : tables[t].key[i] = invalid_fiber_id
  <2> SUFFICES ASSUME NEW i \in 0..(Capacity(1) - 1)
               PROVE  tables[1].key[i] = invalid_fiber_id
    BY <1>3
  <2>1. i \in 0..(InitialSize - 1)
    BY <1>3, <1>4
  <2> QED BY <1>3, <2>1
<1>6. KeysOK
  BY <1>5 DEF KeysOK, KeyOK
<1>7. Growing
  BY <1>3, <1>4 DEF Growing
<1>8. \A f \in Fibers : \A t \in 1..current : ~Has(f, t)
  BY <1>5, IdsAssumption DEF Has, Ids
<1>9. \A f \in Fibers : Looks(f, call[f])
  BY <1>3 DEF Looks, NoCall
<1>10. RanksOK
  <2> SUFFICES ASSUME NEW v \in Nat
               PROVE  Cardinality({f \in Fibers : Within(f, call[f], v)}) <= v
    BY DEF RanksOK
  <2>1. {f \in Fibers : Within(f, call[f], v)} = {}
    BY <1>3, <1>8 DEF Within, NoCall
  <2>2. Cardinality({f \in Fibers : Within(f, call[f], v)}) = 0
    BY <2>1, FS_EmptySet
  <2> QED BY <2>2
<1>11. Exact
  <2>1. Counted = {}
    BY <1>3 DEF Counted, Pending, NoCall, Entering
  <2>2. Cardinality(Counted) = 0
    BY <2>1, FS_EmptySet
  <2> QED BY <2>2 DEF Exact
<1> QED BY <1>6, <1>7, <1>9, <1>10, <1>11 DEF Room, RoomInv

LEMMA RoomSame ==
  ASSUME IInv, Room, UNCHANGED vars
  PROVE  Room'
<1>1. UNCHANGED <<tables, hashCount, call, mine, ended>>
  BY DEF vars, hashVars
<1>2. /\ current' = current /\ \A t : Capacity(t)' = Capacity(t) /\ Limit(t)' = Limit(t)
      /\ \A t, g : Has(g, t)' <=> Has(g, t)
  BY <1>1, CapacityPrimed
<1>3. KeysOK'
  <2>1. KeysOK
    BY DEF Room
  <2> QED BY <1>1, <1>2, <2>1 DEF KeysOK, KeyOK, Slot
<1>4. Growing' /\ \A f \in Fibers : Looks(f, call[f])'
  BY <1>1, <1>2 DEF Room, Growing, Looks
<1>5. Exact'
  BY <1>1 DEF Room, Exact, Counted, Pending
<1>6. RanksOK'
  <2>1. \A f \in Fibers, v \in Nat : Within(f, call[f], v)' <=> Within(f, call[f], v)
    BY <1>1, <1>2 DEF Within
  <2>2. \A v \in Nat : {f \in Fibers : Within(f, call[f], v)'} = {f \in Fibers : Within(f, call[f], v)}
    BY <2>1
  <2> QED BY <2>2 DEF Room, RanksOK
<1> QED BY <1>3, <1>4, <1>5, <1>6 DEF Room

\* Until a fiber ends no thread exits, so every step is some fiber's.
LEMMA RoomKeeps ==
  ASSUME IInv, IInv', Room, ended = {}, ended' = {}, Next
  PROVE  Room'
<1>1. exiting = NoExit
  BY DEF IInv, ExitOK
<1>2. \A p \in Producers : ~ExitThread(p)
  BY DEF ExitThread
<1>3. ~Forget /\ ~MarkInactive
  BY <1>1 DEF Forget, MarkInactive
<1>4. PICK f \in Fibers : Enqueue(f) \/ Continue(f) \/ End(f)
  BY <1>2, <1>3 DEF Next
<1>5. ~End(f)
  BY DEF End
<1>6. ~Discount(f)
  BY DEF Discount, At, Room, Looks
<1>7. CASE Resize(f)
  BY <1>7, RoomGrow, RoomReplaced
<1>8. CASE Enqueue(f) \/ Found(f) \/ NotInTable(f) \/ ProbeNext(f) \/ ReAdd(f) \/ Insert(f)
  BY <1>8, RoomEnqueue, RoomFound, RoomNotInTable, RoomProbeNext, RoomReAdd, RoomInsert
<1>9. CASE Count(f) \/ LockResize(f) \/ UnlockResize(f) \/ ResizeFails(f) \/ Abandon(f) \/ Fit(f)
  BY <1>9, RoomCount, RoomLock, RoomAbandon, RoomFit
<1>10. CASE Recycle(f) \/ Create(f) \/ CreateFails(f)
  BY <1>10, RoomRecycle, RoomCreate, RoomCreateFails
<1> QED BY <1>4, <1>5, <1>6, <1>7, <1>8, <1>9, <1>10 DEF Continue

\* Those who have ended stay so.
LEMMA EndedStay ==
  ASSUME [Next]_vars, ended' = {}
  PROVE  ended = {}
<1>1. CASE UNCHANGED vars
  BY <1>1 DEF vars
<1>2. CASE Next
  <2>1. ASSUME NEW f \in Fibers, Enqueue(f) \/ End(f)
        PROVE  ended = {}
    BY <2>1 DEF Enqueue, End
  <2>2. ASSUME NEW f \in Fibers, Continue(f)
        PROVE  ended' = ended
    BY <2>2 DEF Continue, Found, NotInTable, ProbeNext, ReAdd, Count, LockResize, Resize,
                ResizeFails, Abandon, UnlockResize, Fit, Recycle, Create, CreateFails, Insert, Discount
  <2>3. ASSUME NEW p \in Producers, ExitThread(p)
        PROVE  ended' = ended
    BY <2>3 DEF ExitThread
  <2>4. Forget \/ MarkInactive => ended' = ended
    BY DEF Forget, MarkInactive
  <2> QED BY <1>2, <2>1, <2>2, <2>3, <2>4 DEF Next
<1> QED BY <1>1, <1>2

\* The used slots of a table belong to as many fibers, which the count covers.
LEMMA RoomSuffices ==
  ASSUME IInv, RoomInv
  PROVE  RoomLeft
<1> SUFFICES ASSUME ended = {}, NEW t \in 1..current
             PROVE  4 * Cardinality({i \in DOMAIN tables[t].key : tables[t].key[i] # invalid_fiber_id})
                      < 3 * Capacity(t)
  BY DEF RoomLeft
<1> DEFINE used == {i \in DOMAIN tables[t].key : tables[t].key[i] # invalid_fiber_id}
           users == {f \in Fibers : Has(f, t)}
           user == [i \in used |-> tables[t].key[i]]
<1>1. /\ Types /\ KeysOK /\ RanksOK
      /\ DOMAIN tables[t].key = 0..(Capacity(t) - 1)
      /\ Capacity(t) \in Nat \ {0} /\ Limit(t) \in Int /\ 4 * Limit(t) < 3 * Capacity(t)
  BY TableShape, Limits DEF IInv, RoomInv, Room
<1>2. IsFiniteSet(users) /\ Cardinality(users) \in Nat
  BY FiberCount
<1>3. user \in Injection(used, users)
  <2>1. ASSUME NEW i \in used
        PROVE  user[i] \in users
    BY <1>1, <2>1 DEF KeysOK, KeyOK, Has
  <2>2. ASSUME NEW i \in used, NEW j \in used, user[i] = user[j]
        PROVE  i = j
    BY <1>1, <2>2 DEF KeysOK, KeyOK
  <2> HIDE DEF used, users
  <2>3. user \in [used -> users]
    BY <2>1
  <2> HIDE DEF user
  <2> QED BY <2>2, <2>3 DEF Injection, IsInjective
<1>4. Cardinality(used) <= Cardinality(users) /\ Cardinality(used) \in Nat
  <2> HIDE DEF used, users, user
  <2> QED BY <1>2, <1>3, FS_Injection, FS_CardinalityType
<1>5. ASSUME NEW v \in Nat, Limit(t) <= v
      PROVE  Cardinality(users) <= v
  <2> DEFINE S == {f \in Fibers : Within(f, call[f], v)}
  <2>1. users \in SUBSET S
    BY <1>5 DEF Within
  <2>2. Cardinality(S) <= v /\ S \in SUBSET Fibers
    BY <1>1 DEF RanksOK
  <2> HIDE DEF S, users
  <2>3. Cardinality(S) \in Nat /\ Cardinality(users) <= Cardinality(S)
    BY <2>1, <2>2, FiberCount
  <2> QED BY <1>2, <2>2, <2>3
<1> HIDE DEF used, users, user
<1>6. CASE Limit(t) >= 0
  <2>1. Limit(t) \in Nat /\ Limit(t) <= Limit(t)
    BY <1>1, <1>6
  <2>2. Cardinality(users) <= Limit(t)
    BY <1>5, <2>1
  <2>3. 4 * Cardinality(used) < 3 * Capacity(t)
    BY <1>1, <1>2, <1>4, <2>1, <2>2
  <2> QED BY <2>3 DEF used
<1>7. CASE Limit(t) < 0
  <2>1. Cardinality(users) <= 0
    BY <1>1, <1>5, <1>7
  <2>2. 4 * Cardinality(used) < 3 * Capacity(t)
    BY <1>1, <1>2, <1>4, <2>1
  <2> QED BY <2>2 DEF used
<1> QED BY <1>1, <1>6, <1>7

\* As long as no fiber has ended, every table has a quarter of its slots free,
\* for any number of fibers that enter tables old and new: the count is enough
\* to tell when a larger table is due.
THEOREM RoomLeftHolds == Spec => []RoomLeft
<1>1. Init => IInv /\ RoomInv
  BY InitInvariant, RoomInit
<1>2. IInv /\ RoomInv /\ [Next]_vars => RoomInv'
  <2> SUFFICES ASSUME IInv, RoomInv, [Next]_vars, ended' = {}
               PROVE  Room'
    BY DEF RoomInv
  <2>1. IInv' /\ ended = {} /\ Room
    BY StepInvariant, EndedStay DEF RoomInv
  <2>2. CASE UNCHANGED vars
    BY <2>1, <2>2, RoomSame
  <2>3. CASE Next
    BY <2>1, <2>3, RoomKeeps
  <2> QED BY <2>2, <2>3
<1>3. IInv /\ RoomInv => RoomLeft
  BY RoomSuffices
<1> QED BY <1>1, <1>2, <1>3, Invariant, PTL DEF Spec
===============================================================================
