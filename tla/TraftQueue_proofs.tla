--------------------------- MODULE TraftQueue_proofs ---------------------------
(***************************************************************************)
(* TLAPS proofs about TraftQueue, for any producers, consumers, numbers of *)
(* items and buffer sizes: permits match items, buffers are not overrun,   *)
(* and the queue is a first-in first-out channel per producer.             *)
(*                                                                         *)
(* Permits and items are counted by sums over the producers and the        *)
(* consumers.  A step changes one summand of each: TotalChange.            *)
(***************************************************************************)
EXTENDS TraftQueue, SequenceTheorems, FiniteSetTheorems, TLAPS

Items == Producers \X Nat

Scoring == {"single", "score", "best", "rest"}
Places == {"idle", "permits", "bulk", "wait", "waiting"} \cup Scoring

QueueOK ==
  /\ list \in Seq(Producers) /\ signalling \subseteq Producers
  /\ items \in [Producers -> Seq(Items)] /\ sent \in [Producers -> Nat]
  /\ received \in [Consumers -> Seq(Items)]

CallsOK ==
  /\ permits \in Nat
  /\ pc \in [Consumers -> Places]
  /\ call \in [Consumers -> [max : Nat, waits : BOOLEAN]]
  /\ count \in [Consumers -> Nat] /\ need \in [Consumers -> Nat]
  /\ scan \in [Consumers -> Seq(Producers)] /\ seen \in [Consumers -> SUBSET Producers]

TypeOK == QueueOK /\ CallsOK

\* What a consumer holds where it is: one permit while it looks for one item,
\* none before it took any; what it collected is counted from there on.
Shape ==
  \A c \in Consumers :
    /\ pc[c] \in {"idle", "permits", "wait", "waiting"} => need[c] = 0
    /\ pc[c] \in Scoring => need[c] = 1
    /\ pc[c] \in {"idle", "wait", "waiting"} \cup Scoring => count[c] = 0
    /\ pc[c] # "idle" => call[c].max > 0

Lengths == [p \in Producers |-> Len(items[p])]

\* The sums are those of finite sets.
Counted == IsFiniteSet(Cells(Lengths)) /\ IsFiniteSet(Cells(need)) /\ PermitsBacked

\* The inductive invariant.
IInv == TypeOK /\ Shape /\ BufferFits /\ Counted

-------------------------------------------------------------------------------
(* Sums *)

\* One value changes, and the sum by as much.
LEMMA TotalChange ==
  ASSUME NEW S, NEW f \in [S -> Nat], IsFiniteSet(Cells(f)),
         NEW x \in S, NEW n \in Nat,
         NEW g, g = [f EXCEPT ![x] = n]
  PROVE  /\ IsFiniteSet(Cells(g)) /\ Total(f) \in Nat
         /\ Total(g) = Total(f) - f[x] + n
<1> DEFINE A == {x} \X (1..f[x])
           B == {x} \X (1..n)
           R == Cells(f) \ A
<1>1. A \subseteq Cells(f)
  BY DEF Cells
<1>2. Cells(g) = R \cup B
  <2>1. DOMAIN g = S /\ DOMAIN f = S /\ g[x] = n /\ \A y \in S : y # x => g[y] = f[y]
    OBVIOUS
  <2>2. ASSUME NEW e \in Cells(g) PROVE e \in R \cup B
    <3>1. PICK y \in S : e \in {y} \X (1..g[y])
      BY <2>1, <2>2 DEF Cells
    <3>2. CASE y = x
      BY <3>1, <3>2, <2>1
    <3>3. CASE y # x
      BY <3>1, <3>3, <2>1 DEF Cells
    <3> QED BY <3>2, <3>3
  <2>3. ASSUME NEW e \in R PROVE e \in Cells(g)
    <3>1. PICK y \in S : e \in {y} \X (1..f[y])
      BY <2>1, <2>3 DEF Cells
    <3>2. y # x
      BY <3>1, <2>3
    <3> QED BY <3>1, <3>2, <2>1 DEF Cells
  <2>4. B \subseteq Cells(g)
    BY <2>1 DEF Cells
  <2> QED BY <2>2, <2>3, <2>4
<1>3. R \cap B = {}
  <2> SUFFICES ASSUME NEW e \in R, e \in B PROVE FALSE
    OBVIOUS
  <2>1. PICK y \in S : e \in {y} \X (1..f[y])
    BY DEF Cells
  <2> QED BY <2>1
<1>4. \A m \in Nat : IsFiniteSet({x} \X (1..m)) /\ Cardinality({x} \X (1..m)) = m
  <2> SUFFICES ASSUME NEW m \in Nat
               PROVE IsFiniteSet({x} \X (1..m)) /\ Cardinality({x} \X (1..m)) = m
    OBVIOUS
  <2>1. IsFiniteSet(1..m) /\ Cardinality(1..m) = IF 1 > m THEN 0 ELSE m - 1 + 1
    <3>1. 1 \in Int /\ m \in Int
      OBVIOUS
    <3> QED BY <3>1, FS_Interval
  <2>2. IsFiniteSet({x}) /\ Cardinality({x}) = 1
    BY FS_Singleton
  <2>3. /\ IsFiniteSet({x} \X (1..m))
        /\ Cardinality({x} \X (1..m)) = Cardinality({x}) * Cardinality(1..m)
    BY <2>1, <2>2, FS_Product
  <2> QED BY <2>1, <2>2, <2>3
<1>5. /\ IsFiniteSet(A) /\ Cardinality(A) = f[x]
      /\ IsFiniteSet(B) /\ Cardinality(B) = n
  BY <1>4
<1>6. IsFiniteSet(R) /\ Cardinality(R) = Cardinality(Cells(f)) - f[x]
  <2>1. Cells(f) \cap A = A
    BY <1>1
  <2> HIDE DEF A
  <2>2. IsFiniteSet(R) /\ Cardinality(R) = Cardinality(Cells(f)) - Cardinality(Cells(f) \cap A)
    BY FS_Difference
  <2> QED BY <2>1, <2>2, <1>5
<1>7. Cardinality(Cells(f)) \in Nat /\ Cardinality(R) \in Nat
  BY <1>6, FS_CardinalityType
<1> HIDE DEF A, B, R
<1>8. /\ IsFiniteSet(R \cup B)
      /\ Cardinality(R \cup B) = Cardinality(R) + Cardinality(B) - Cardinality(R \cap B)
  BY <1>5, <1>6, FS_Union
<1>9. Cardinality(R \cap B) = 0
  BY <1>3, FS_EmptySet
<1>10. Total(g) = Cardinality(R \cup B) /\ Total(f) = Cardinality(Cells(f))
  BY <1>2 DEF Total
<1>11. f[x] \in Nat
  OBVIOUS
<1>12. Total(g) = Total(f) - f[x] + n
  BY <1>5, <1>6, <1>7, <1>8, <1>9, <1>10, <1>11
<1> QED BY <1>2, <1>7, <1>8, <1>10, <1>12

\* The sum of zeros.
LEMMA TotalZero ==
  ASSUME NEW S, NEW f, f = [x \in S |-> 0]
  PROVE  IsFiniteSet(Cells(f)) /\ Total(f) = 0
<1>1. Cells(f) = {}
  <2> SUFFICES ASSUME NEW e \in Cells(f) PROVE FALSE
    OBVIOUS
  <2>1. PICK x \in S : e \in {x} \X (1..0)
    BY DEF Cells
  <2> QED BY <2>1
<1> QED BY <1>1, FS_EmptySet DEF Total

-------------------------------------------------------------------------------
(* Facts the steps share *)

LEMMA InitIInv == Init => IInv
<1> SUFFICES ASSUME Init PROVE IInv
  OBVIOUS
<1>1. QueueOK /\ CallsOK
  BY DEF Init, QueueOK, CallsOK, NoCall, Places
<1>2. Shape /\ BufferFits
  BY DEF Init, Shape, BufferFits, Scoring
<1>3. Counted
  <2>1. Lengths = [p \in Producers |-> 0]
    BY DEF Init, Lengths
  <2>2. IsFiniteSet(Cells(Lengths)) /\ Total(Lengths) = 0
    BY <2>1, TotalZero
  <2>3. IsFiniteSet(Cells(need)) /\ Total(need) = 0
    BY TotalZero DEF Init
  <2>4. permits = 0 /\ Cardinality(signalling) = 0
    BY FS_EmptySet DEF Init
  <2> QED BY <2>2, <2>3, <2>4 DEF Counted, PermitsBacked, Stored, Lengths
<1> QED BY <1>1, <1>2, <1>3 DEF IInv, TypeOK

\* The counts are natural numbers, and a visible permit is there.
LEMMA Counts ==
  ASSUME IInv
  PROVE  /\ Lengths \in [Producers -> Nat] /\ need \in [Consumers -> Nat]
         /\ Total(Lengths) \in Nat /\ Total(need) \in Nat
         /\ IsFiniteSet(signalling) /\ Cardinality(signalling) \in Nat
         /\ Visible \in Int /\ Visible <= permits
         /\ SizeApprox \in Nat /\ SizeApprox <= permits
         /\ Total(Lengths) = permits + Total(need) + Cardinality(signalling)
<1>1. Lengths \in [Producers -> Nat]
  <2>1. \A p \in Producers : Len(items[p]) \in Nat
    BY LenProperties DEF IInv, TypeOK, QueueOK
  <2> QED BY <2>1 DEF Lengths
<1>2. need \in [Consumers -> Nat] /\ permits \in Nat
  BY DEF IInv, TypeOK, CallsOK
<1>3. Total(Lengths) \in Nat /\ Total(need) \in Nat
  BY FS_CardinalityType DEF IInv, Counted, Total
<1>4. IsFiniteSet(signalling) /\ Cardinality(signalling) \in Nat
  <2>1. signalling \in SUBSET Producers
    BY DEF IInv, TypeOK, QueueOK
  <2>2. IsFiniteSet(signalling)
    BY <2>1, FiniteAssumption, FS_Subset
  <2> QED BY <2>2, FS_CardinalityType
<1>5. Cardinality(Waiting) \in Nat
  <2>1. Waiting \in SUBSET Consumers
    BY DEF Waiting
  <2>2. IsFiniteSet(Waiting)
    BY <2>1, FiniteAssumption, FS_Subset
  <2> QED BY <2>2, FS_CardinalityType
<1>6. Visible \in Int /\ Visible <= permits
  BY <1>2, <1>5 DEF Visible
<1>7. SizeApprox \in Nat /\ SizeApprox <= permits
  BY <1>2, <1>6 DEF SizeApprox
<1>8. Total(Lengths) = permits + Total(need) + Cardinality(signalling)
  BY DEF IInv, Counted, PermitsBacked, Stored, Lengths
<1> QED BY <1>1, <1>2, <1>3, <1>4, <1>6, <1>7, <1>8

\* Nothing is counted that a step leaves alone.
LEMMA CountedKept ==
  ASSUME Counted, UNCHANGED <<items, need, permits, signalling>>
  PROVE  Counted'
BY DEF Counted, PermitsBacked, Stored, Lengths, Cells, Total

\* c takes n permits: what it needs grows by as much.
LEMMA PermitsTaken ==
  ASSUME IInv, NEW c \in Consumers, need[c] = 0,
         NEW n \in Nat, n <= permits, TakePermits(c, n),
         UNCHANGED <<items, signalling>>
  PROVE  /\ permits' \in Nat /\ need' \in [Consumers -> Nat] /\ need'[c] = n
         /\ \A d \in Consumers \ {c} : need'[d] = need[d]
         /\ Counted'
<1>1. /\ permits \in Nat /\ permits' = permits - n
      /\ need' = [need EXCEPT ![c] = n] /\ need \in [Consumers -> Nat]
  BY Counts DEF IInv, TypeOK, CallsOK, TakePermits
<1>2. IsFiniteSet(Cells(need')) /\ Total(need') = Total(need) - need[c] + n
  BY <1>1, TotalChange DEF IInv, Counted
<1>3. Lengths' = Lengths /\ Cells(Lengths)' = Cells(Lengths) /\ Total(Lengths)' = Total(Lengths)
  BY DEF Lengths, Cells, Total
<1>4. Total(need)' = Total(need') /\ Cells(need)' = Cells(need')
  BY DEF Total, Cells
<1>5. Total(Lengths)' = permits' + Total(need)' + Cardinality(signalling)'
  BY <1>1, <1>2, <1>3, <1>4, Counts
<1>6. Counted'
  BY <1>2, <1>3, <1>4, <1>5 DEF IInv, Counted, PermitsBacked, Stored, Lengths
<1> QED BY <1>1, <1>6

\* c gets k items of p: it needs as many less.
LEMMA ItemsTaken ==
  ASSUME IInv, NEW c \in Consumers, NEW p \in Producers,
         NEW n \in 0..need[c], NEW k \in Yields(c, p, n), Dequeue(c, p, k)
  PROVE  /\ k \in Nat /\ k <= n /\ k <= Len(items[p])
         /\ QueueOK' /\ Counted'
         /\ need' \in [Consumers -> Nat] /\ need'[c] = need[c] - k
         /\ \A d \in Consumers \ {c} : need'[d] = need[d]
<1>1. /\ items \in [Producers -> Seq(Items)] /\ received \in [Consumers -> Seq(Items)]
      /\ need \in [Consumers -> Nat] /\ Len(items[p]) \in Nat
      /\ items[p] \in Seq(Items) /\ received[c] \in Seq(Items)
  BY LenProperties DEF IInv, TypeOK, QueueOK, CallsOK
<1>2. k \in Nat /\ k <= n /\ k <= Len(items[p])
  BY <1>1 DEF Yields, Lesser
<1>3. /\ SubSeq(items[p], 1, k) \in Seq(Items)
      /\ SubSeq(items[p], k + 1, Len(items[p])) \in Seq(Items)
      /\ Len(SubSeq(items[p], k + 1, Len(items[p]))) = Len(items[p]) - k
  <2>1. \A i \in 1..Len(items[p]) : items[p][i] \in Items
    BY <1>1, ElementOfSeq
  <2>2. /\ 1 \in Int /\ k \in Int /\ k + 1 \in Int /\ Len(items[p]) \in Int
        /\ \A i \in 1..k : items[p][i] \in Items
        /\ \A i \in (k + 1)..Len(items[p]) : items[p][i] \in Items
    BY <1>1, <1>2, <2>1
  <2>3. SubSeq(items[p], 1, k) \in Seq(Items)
    BY <2>2, SubSeqProperties
  <2>4. /\ SubSeq(items[p], k + 1, Len(items[p])) \in Seq(Items)
        /\ Len(SubSeq(items[p], k + 1, Len(items[p]))) =
             IF k + 1 <= Len(items[p]) THEN Len(items[p]) - (k + 1) + 1 ELSE 0
    BY <2>2, SubSeqProperties
  <2> QED BY <1>1, <1>2, <2>3, <2>4
<1>4. received[c] \o SubSeq(items[p], 1, k) \in Seq(Items)
  BY <1>1, <1>3, ConcatProperties
<1>5. QueueOK'
  BY <1>1, <1>3, <1>4 DEF IInv, TypeOK, QueueOK, Dequeue
<1>6. PICK left \in Nat, more \in Nat :
        left = Len(items[p]) - k /\ Lengths[p] = left + k /\ more = need[c] - k
  <2>1. Len(items[p]) - k \in Nat /\ need[c] - k \in Nat /\ Lengths[p] = Len(items[p])
    BY <1>1, <1>2 DEF Lengths
  <2>2. Len(items[p]) = Len(items[p]) - k + k
    BY <1>1, <1>2
  <2> USE <2>1
  <2> WITNESS Len(items[p]) - k \in Nat, need[c] - k \in Nat
  <2> QED BY <2>1, <2>2
<1>7. Lengths' = [Lengths EXCEPT ![p] = left] /\ need' = [need EXCEPT ![c] = more]
  BY <1>1, <1>3, <1>6 DEF Lengths, Dequeue
<1>8. IsFiniteSet(Cells(Lengths')) /\ Total(Lengths') = Total(Lengths) - Lengths[p] + left
  <2>1. IsFiniteSet(Cells(Lengths)) /\ Lengths \in [Producers -> Nat]
    BY Counts DEF IInv, Counted
  <2> QED BY <1>7, <2>1, TotalChange
<1>9. IsFiniteSet(Cells(need')) /\ Total(need') = Total(need) - need[c] + more
  <2>1. IsFiniteSet(Cells(need)) /\ need \in [Consumers -> Nat]
    BY Counts DEF IInv, Counted
  <2> QED BY <1>7, <2>1, TotalChange
<1>11. permits \in Nat /\ permits' = permits /\ signalling' = signalling
  BY DEF IInv, TypeOK, CallsOK, Dequeue
<1>12. Total(Lengths') = permits' + Total(need') + Cardinality(signalling')
  <2>1. need[c] \in Nat /\ need[c] = more + k
    BY <1>1, <1>2, <1>6
  <2>2. Cardinality(signalling') = Cardinality(signalling)
    BY <1>11
  <2>3. Lengths[p] \in Nat
    BY <1>2, <1>6
  <2>4. /\ Total(Lengths) \in Nat /\ Total(need) \in Nat /\ Cardinality(signalling) \in Nat
        /\ Total(Lengths) = permits + Total(need) + Cardinality(signalling)
    BY Counts
  <2>5. Total(Lengths') = Total(Lengths) - k
    BY <1>2, <1>6, <1>8, <2>3, <2>4
  <2>6. Total(need') = Total(need) - k
    BY <1>2, <1>6, <1>9, <2>1, <2>4
  <2> QED BY <1>2, <1>11, <2>2, <2>4, <2>5, <2>6
<1>13. Counted'
  BY <1>8, <1>9, <1>12 DEF Counted, PermitsBacked, Stored, Lengths, Total, Cells
<1> QED BY <1>1, <1>2, <1>5, <1>6, <1>7, <1>13

-------------------------------------------------------------------------------
(* The steps preserve the invariant *)

\* A producer's step adds an item or its permit.
LEMMA ProducerStep ==
  ASSUME IInv, NEW p \in Producers, Produce(p)
  PROVE  IInv'
<1>1. CallsOK' /\ Shape' /\ BufferFits'
  <2>1. UNCHANGED cons /\ permits' \in Nat
    BY DEF Produce, InnerEnqueue, Signal, IInv, TypeOK, CallsOK
  <2> QED BY <2>1 DEF IInv, TypeOK, CallsOK, Shape, BufferFits, cons
<1>2. need' = need
  BY DEF Produce, InnerEnqueue, Signal, cons
<1>3. CASE InnerEnqueue(p)
  <2>1. /\ items[p] \in Seq(Items) /\ <<p, sent[p] + 1>> \in Items
        /\ list \in Seq(Producers) /\ <<p>> \in Seq(Producers)
    BY DEF IInv, TypeOK, QueueOK, Items
  <2>2. /\ Append(items[p], <<p, sent[p] + 1>>) \in Seq(Items)
        /\ Len(Append(items[p], <<p, sent[p] + 1>>)) = Len(items[p]) + 1
    BY <2>1, AppendProperties
  <2>3. list' \in Seq(Producers)
    BY <1>3, <2>1, ConcatProperties DEF InnerEnqueue
  <2>4. QueueOK'
    BY <1>3, <2>2, <2>3 DEF InnerEnqueue, IInv, TypeOK, QueueOK
  <2>5. PICK n \in Nat : n = Len(items[p]) + 1 /\ n = Lengths[p] + 1
    BY Counts DEF Lengths
  <2>6. Lengths' = [Lengths EXCEPT ![p] = n]
    BY <1>3, <2>2, <2>5 DEF InnerEnqueue, Lengths, IInv, TypeOK, QueueOK
  <2>7. IsFiniteSet(Cells(Lengths')) /\ Total(Lengths') = Total(Lengths) - Lengths[p] + n
    <3>1. IsFiniteSet(Cells(Lengths)) /\ Lengths \in [Producers -> Nat]
      BY Counts DEF IInv, Counted
    <3> QED BY <2>6, <3>1, TotalChange
  <2>8. Cardinality(signalling') = Cardinality(signalling) + 1
    BY <1>3, Counts, FS_AddElement DEF InnerEnqueue
  <2>9. /\ Total(Lengths) \in Nat /\ Total(need) \in Nat /\ Lengths[p] \in Nat
        /\ Cardinality(signalling) \in Nat
        /\ Total(Lengths) = permits + Total(need) + Cardinality(signalling)
    BY Counts
  <2>10. Total(Lengths') = Total(Lengths) + 1
    BY <2>5, <2>7, <2>9
  <2>11. permits' = permits /\ permits \in Nat
    BY <1>3 DEF InnerEnqueue, IInv, TypeOK, CallsOK
  <2>12. Total(Lengths') = permits' + Total(need') + Cardinality(signalling')
    BY <1>2, <2>8, <2>9, <2>10, <2>11
  <2>13. Counted'
    BY <1>2, <2>7, <2>12 DEF IInv, Counted, PermitsBacked, Stored, Lengths, Total, Cells
  <2> QED BY <1>1, <2>4, <2>13 DEF IInv, TypeOK
<1>4. CASE Signal(p)
  <2>1. QueueOK'
    BY <1>4 DEF Signal, IInv, TypeOK, QueueOK
  <2>2. Cardinality(signalling') = Cardinality(signalling) - 1
    BY <1>4, Counts, FS_RemoveElement DEF Signal
  <2>3. permits' = permits + 1 /\ permits \in Nat /\ items' = items
    BY <1>4 DEF Signal, IInv, TypeOK, CallsOK
  <2>4. Total(Lengths)' = permits' + Total(need)' + Cardinality(signalling)'
    <3>1. Total(Lengths)' = Total(Lengths) /\ Total(need)' = Total(need)
      BY <1>2, <2>3 DEF Total, Cells, Lengths
    <3> QED BY <2>2, <2>3, <3>1, Counts
  <2>5. Counted'
    BY <1>2, <2>3, <2>4 DEF IInv, Counted, PermitsBacked, Stored, Lengths, Cells
  <2> QED BY <1>1, <2>1, <2>5 DEF IInv, TypeOK
<1> QED BY <1>3, <1>4 DEF Produce

\* What is left to show of a step that only moves consumer c.
LEMMA ConsumerMoves ==
  ASSUME IInv, NEW c \in Consumers, QueueOK', Counted', permits' \in Nat,
         need' \in [Consumers -> Nat], \A d \in Consumers \ {c} : need'[d] = need[d],
         NEW place \in Places, pc' = [pc EXCEPT ![c] = place],
         NEW k \in [max : Nat, waits : BOOLEAN], call' = [call EXCEPT ![c] = k],
         NEW n \in Nat, count' = [count EXCEPT ![c] = n],
         scan' \in [Consumers -> Seq(Producers)], seen' \in [Consumers -> SUBSET Producers],
         place \in {"idle", "permits", "wait", "waiting"} => need'[c] = 0,
         place \in Scoring => need'[c] = 1,
         place \in {"idle", "wait", "waiting"} \cup Scoring => n = 0,
         place # "idle" => k.max > 0 /\ n + need'[c] <= k.max
  PROVE  IInv'
<1>1. /\ pc \in [Consumers -> Places] /\ call \in [Consumers -> [max : Nat, waits : BOOLEAN]]
      /\ count \in [Consumers -> Nat]
  BY DEF IInv, TypeOK, CallsOK
<1>2. CallsOK'
  BY <1>1 DEF CallsOK
<1>3. /\ pc'[c] = place /\ call'[c] = k /\ count'[c] = n
      /\ \A d \in Consumers \ {c} : pc'[d] = pc[d] /\ call'[d] = call[d] /\ count'[d] = count[d]
  BY <1>1
<1>4. Shape'
  <2> SUFFICES ASSUME NEW d \in Consumers
      PROVE /\ pc'[d] \in {"idle", "permits", "wait", "waiting"} => need'[d] = 0
            /\ pc'[d] \in Scoring => need'[d] = 1
            /\ pc'[d] \in {"idle", "wait", "waiting"} \cup Scoring => count'[d] = 0
            /\ pc'[d] # "idle" => call'[d].max > 0
    BY DEF Shape
  <2>1. CASE d = c
    BY <1>3, <2>1
  <2>2. CASE d # c
    BY <1>3, <2>2 DEF IInv, Shape
  <2> QED BY <2>1, <2>2
<1>5. BufferFits'
  <2> SUFFICES ASSUME NEW d \in Consumers, pc'[d] # "idle"
               PROVE  count'[d] + need'[d] <= call'[d].max
    BY DEF BufferFits
  <2>1. CASE d = c
    BY <1>3, <2>1
  <2>2. CASE d # c
    BY <1>3, <2>2 DEF IInv, BufferFits
  <2> QED BY <2>1, <2>2
<1> QED BY <1>2, <1>4, <1>5 DEF IInv, TypeOK

\* The state of consumer c, and what changing nothing of it is.
LEMMA CallOf ==
  ASSUME IInv, NEW c \in Consumers
  PROVE  /\ pc \in [Consumers -> Places] /\ pc[c] \in Places
         /\ call[c] \in [max : Nat, waits : BOOLEAN] /\ call[c].max \in Nat
         /\ count[c] \in Nat /\ need[c] \in Nat /\ need \in [Consumers -> Nat]
         /\ permits \in Nat
         /\ scan[c] \in Seq(Producers) /\ seen[c] \in SUBSET Producers
         /\ scan \in [Consumers -> Seq(Producers)] /\ seen \in [Consumers -> SUBSET Producers]
         /\ pc = [pc EXCEPT ![c] = pc[c]] /\ call = [call EXCEPT ![c] = call[c]]
         /\ count = [count EXCEPT ![c] = count[c]]
         /\ pc[c] \in {"idle", "permits", "wait", "waiting"} => need[c] = 0
         /\ pc[c] \in Scoring => need[c] = 1
         /\ pc[c] \in {"idle", "wait", "waiting"} \cup Scoring => count[c] = 0
         /\ pc[c] # "idle" => call[c].max > 0 /\ count[c] + need[c] <= call[c].max
BY DEF IInv, TypeOK, CallsOK, Shape, BufferFits

\* A step that takes neither permits nor items.
LEMMA ConsumerGoes ==
  ASSUME IInv, NEW c \in Consumers, UNCHANGED <<inner, permits, need>>,
         NEW place \in Places, pc' = [pc EXCEPT ![c] = place],
         NEW k \in [max : Nat, waits : BOOLEAN], call' = [call EXCEPT ![c] = k],
         NEW n \in Nat, count' = [count EXCEPT ![c] = n],
         scan' \in [Consumers -> Seq(Producers)], seen' \in [Consumers -> SUBSET Producers],
         place \in {"idle", "permits", "wait", "waiting"} => need[c] = 0,
         place \in Scoring => need[c] = 1,
         place \in {"idle", "wait", "waiting"} \cup Scoring => n = 0,
         place # "idle" => k.max > 0 /\ n + need[c] <= k.max
  PROVE  IInv'
<1>1. QueueOK'
  BY DEF IInv, TypeOK, QueueOK, inner
<1>2. Counted'
  BY CountedKept DEF IInv, inner
<1>3. permits' \in Nat /\ need' \in [Consumers -> Nat] /\ need' = need
  BY CallOf
<1> QED BY <1>1, <1>2, <1>3, ConsumerMoves

LEMMA QueueKept == QueueOK /\ UNCHANGED inner => QueueOK'
BY DEF QueueOK, inner

\* A call begins.
LEMMA StartStep ==
  ASSUME IInv, NEW c \in Consumers, Start(c)
  PROVE  IInv'
<1>1. PICK m \in Sizes, w \in BOOLEAN : Begin(c, m, w)
  BY DEF Start, TryDequeueBulk, WaitDequeueBulkTimed
<1> DEFINE k == [max |-> m, waits |-> w]
<1>2. k \in [max : Nat, waits : BOOLEAN] /\ k.max > 0
  BY SizesAssumption
<1>3. /\ pc[c] = "idle" /\ pc' = [pc EXCEPT ![c] = "permits"]
      /\ call' = [call EXCEPT ![c] = k] /\ UNCHANGED <<inner, permits, count, need, scan, seen>>
  BY <1>1 DEF Begin, GoTo
<1>4. "permits" \in Places /\ "permits" \notin Scoring
  BY DEF Places, Scoring
<1>5. count' = [count EXCEPT ![c] = 0] /\ need[c] = 0
  BY <1>3, CallOf
<1>6. scan' \in [Consumers -> Seq(Producers)] /\ seen' \in [Consumers -> SUBSET Producers]
  BY <1>3, CallOf
<1>7. UNCHANGED <<inner, permits, need>> /\ 0 \in Nat /\ 0 + need[c] <= k.max
  BY <1>2, <1>3, <1>5
<1> HIDE DEF k
<1> QED BY <1>2, <1>3, <1>4, <1>5, <1>6, <1>7, ConsumerGoes

\* try_dequeue_bulk takes permits, waits for one, or returns.
LEMMA TryWaitManyStep ==
  ASSUME IInv, NEW c \in Consumers, TryWaitMany(c)
  PROVE  IInv'
<1> DEFINE n == Lesser(SizeApprox, Wanted(c))
<1>1. /\ pc[c] = "permits" /\ need[c] = 0 /\ count[c] <= call[c].max
      /\ UNCHANGED <<inner, scan, seen>> /\ UNCHANGED <<items, signalling>>
  BY CallOf DEF TryWaitMany, inner
<1>2. n \in Nat /\ n <= permits /\ n <= call[c].max - count[c]
  BY <1>1, Counts, CallOf DEF Lesser, Wanted
<1>3. QueueOK'
  BY <1>1, QueueKept DEF IInv, TypeOK
<1> HIDE DEF n
<1>4. CASE n > 0 /\ TakePermits(c, n) /\ GoTo(c, "bulk") /\ UNCHANGED <<call, count>>
  <2>1. "bulk" \in Places /\ "bulk" \notin Scoring
    BY DEF Places, Scoring
  <2>2. pc' = [pc EXCEPT ![c] = "bulk"] /\ call' = [call EXCEPT ![c] = call[c]]
        /\ count' = [count EXCEPT ![c] = count[c]]
    BY <1>4, CallOf DEF GoTo
  <2>3. /\ permits' \in Nat /\ need' \in [Consumers -> Nat] /\ need'[c] = n
        /\ \A d \in Consumers \ {c} : need'[d] = need[d]
        /\ Counted'
    BY <1>1, <1>2, <1>4, PermitsTaken
  <2>4. count[c] + need'[c] <= call[c].max /\ call[c].max > 0
    BY <1>1, <1>2, <2>3, CallOf
  <2> QED BY <1>1, <1>3, <2>1, <2>2, <2>3, <2>4, CallOf, ConsumerMoves
<1>5. CASE n = 0 /\ UNCHANGED <<permits, need>>
  <2>1. /\ UNCHANGED <<inner, permits, need>> /\ 0 \in Nat /\ 0 + need[c] <= call[c].max
        /\ scan' \in [Consumers -> Seq(Producers)] /\ seen' \in [Consumers -> SUBSET Producers]
    BY <1>1, <1>5, CallOf
  <2>2. CASE count[c] = 0 /\ GoTo(c, "wait") /\ UNCHANGED <<call, count>>
    <3>1. "wait" \in Places /\ "wait" \notin Scoring
      BY DEF Places, Scoring
    <3>2. pc' = [pc EXCEPT ![c] = "wait"] /\ call' = [call EXCEPT ![c] = call[c]]
          /\ count' = [count EXCEPT ![c] = 0] /\ call[c].max > 0
      BY <1>1, <1>5, <2>2, CallOf DEF GoTo
    <3> QED BY <1>1, <2>1, <3>1, <3>2, CallOf, ConsumerGoes
  <2>3. CASE Return(c)
    <3>1. "idle" \in Places /\ "idle" \notin Scoring /\ NoCall \in [max : Nat, waits : BOOLEAN]
      BY DEF Places, Scoring, NoCall
    <3>2. pc' = [pc EXCEPT ![c] = "idle"] /\ call' = [call EXCEPT ![c] = NoCall]
          /\ count' = [count EXCEPT ![c] = 0]
      BY <2>3 DEF Return, GoTo
    <3> QED BY <1>1, <2>1, <3>1, <3>2, ConsumerGoes
  <2>4. (count[c] = 0 /\ GoTo(c, "wait") /\ UNCHANGED <<call, count>>) \/ Return(c)
    BY <1>5 DEF TryWaitMany, n
  <2> QED BY <2>2, <2>3, <2>4
<1> QED BY <1>4, <1>5 DEF TryWaitMany, n

\* sema->wait gets a permit, at once or later, registers, or times out.
LEMMA WaitStep ==
  ASSUME IInv, NEW c \in Consumers, Wait(c) \/ Wake(c) \/ TimeOut(c)
  PROVE  IInv'
<1>1. /\ pc[c] \in {"wait", "waiting"} /\ need[c] = 0 /\ count[c] = 0 /\ call[c].max > 0
      /\ UNCHANGED <<inner, scan, seen>> /\ UNCHANGED <<items, signalling>>
  BY CallOf DEF Wait, Wake, TimeOut, inner
<1>2. QueueOK'
  BY <1>1, QueueKept DEF IInv, TypeOK
<1>3. CASE permits >= 1 /\ TakePermits(c, 1) /\ GoTo(c, "single") /\ UNCHANGED <<call, count>>
  <2>1. "single" \in Places /\ "single" \in Scoring
    BY DEF Places, Scoring
  <2>2. pc' = [pc EXCEPT ![c] = "single"] /\ call' = [call EXCEPT ![c] = call[c]]
        /\ count' = [count EXCEPT ![c] = 0]
    BY <1>1, <1>3, CallOf DEF GoTo
  <2>3. /\ permits' \in Nat /\ need' \in [Consumers -> Nat] /\ need'[c] = 1
        /\ \A d \in Consumers \ {c} : need'[d] = need[d]
        /\ Counted'
    <3>1. 1 \in Nat /\ 1 <= permits
      BY <1>3, CallOf
    <3> QED BY <1>1, <1>3, <3>1, PermitsTaken
  <2>4. 0 + need'[c] <= call[c].max
    BY <1>1, <2>3, CallOf
  <2>5. scan' \in [Consumers -> Seq(Producers)] /\ seen' \in [Consumers -> SUBSET Producers]
    BY <1>1, CallOf
  <2>6. "single" \notin {"idle", "permits", "wait", "waiting"}
    OBVIOUS
  <2> QED BY <1>1, <1>2, <2>1, <2>2, <2>3, <2>4, <2>5, <2>6, CallOf, ConsumerMoves
<1>4. ASSUME UNCHANGED <<permits, need>>
      PROVE  /\ UNCHANGED <<inner, permits, need>> /\ 0 \in Nat /\ 0 + need[c] <= call[c].max
             /\ scan' \in [Consumers -> Seq(Producers)] /\ seen' \in [Consumers -> SUBSET Producers]
  BY <1>1, <1>4, CallOf
<1>5. CASE GoTo(c, "waiting") /\ UNCHANGED <<permits, need, call, count>>
  <2>1. "waiting" \in Places /\ "waiting" \notin Scoring
    BY DEF Places, Scoring
  <2>2. pc' = [pc EXCEPT ![c] = "waiting"] /\ call' = [call EXCEPT ![c] = call[c]]
        /\ count' = [count EXCEPT ![c] = 0]
    BY <1>1, <1>5, CallOf DEF GoTo
  <2> QED BY <1>1, <1>4, <1>5, <2>1, <2>2, CallOf, ConsumerGoes
<1>7. CASE Return(c) /\ UNCHANGED <<permits, need>>
  <2>1. "idle" \in Places /\ "idle" \notin Scoring /\ NoCall \in [max : Nat, waits : BOOLEAN]
    BY DEF Places, Scoring, NoCall
  <2>2. pc' = [pc EXCEPT ![c] = "idle"] /\ call' = [call EXCEPT ![c] = NoCall]
        /\ count' = [count EXCEPT ![c] = 0]
    BY <1>7 DEF Return, GoTo
  <2> QED BY <1>1, <1>4, <1>7, <2>1, <2>2, ConsumerGoes
<1>6. Visible > 0 => permits >= 1
  BY Counts, CallOf
<1> QED BY <1>3, <1>5, <1>6, <1>7, CallOf DEF Wait, Wake, TimeOut

\* A round over the list begins, goes on or ends.
LEMMA ScanStep ==
  ASSUME IInv, NEW c \in Consumers,
         \/ StartBulkRound(c) \/ StartScoring(c) \/ Score(c)
         \/ EndScoring(c) \/ RestEmpty(c)
  PROVE  IInv'
<1>1. /\ UNCHANGED <<inner, permits, need>>
      /\ call' = [call EXCEPT ![c] = call[c]] /\ count' = [count EXCEPT ![c] = count[c]]
  BY CallOf DEF StartBulkRound, StartScoring, StartRound, Score, EndScoring, RestEmpty
<1>2. scan' \in [Consumers -> Seq(Producers)] /\ seen' \in [Consumers -> SUBSET Producers]
  <2>1. list \in Seq(Producers) /\ <<>> \in Seq(Producers)
    BY DEF IInv, TypeOK, QueueOK
  <2>2. CASE StartBulkRound(c) \/ StartScoring(c)
    BY <2>1, <2>2, CallOf DEF StartBulkRound, StartScoring, StartRound
  <2>3. CASE Score(c)
    <3>1. Head(scan[c]) \in Producers /\ Tail(scan[c]) \in Seq(Producers)
      BY <2>3, CallOf, HeadTailProperties DEF Score
    <3> QED BY <2>3, <3>1, CallOf DEF Score
  <2>4. CASE EndScoring(c) \/ RestEmpty(c)
    BY <2>1, <2>4, CallOf DEF EndScoring, RestEmpty
  <2> QED BY <2>2, <2>3, <2>4
<1>3. CASE StartBulkRound(c)
  <2>1. pc[c] = "bulk" /\ pc' = [pc EXCEPT ![c] = "bulk"]
    BY <1>3 DEF StartBulkRound, StartRound, GoTo
  <2>2. "bulk" \in Places /\ "bulk" \notin Scoring
    BY DEF Places, Scoring
  <2> QED BY <1>1, <1>2, <2>1, <2>2, CallOf, ConsumerGoes
<1>4. CASE StartScoring(c) \/ Score(c) \/ EndScoring(c) \/ RestEmpty(c)
  <2>1. pc[c] \in Scoring
    BY <1>4 DEF StartScoring, StartRound, Score, EndScoring, RestEmpty, Scoring
  <2>2. PICK place \in Scoring : pc' = [pc EXCEPT ![c] = place]
    BY <1>4, CallOf DEF StartScoring, StartRound, Score, EndScoring, RestEmpty, GoTo, Scoring
  <2>3. place \in Places /\ place \notin {"idle", "permits", "wait", "waiting"}
        /\ pc[c] # "idle"
    BY <2>1 DEF Places, Scoring
  <2> QED BY <1>1, <1>2, <2>1, <2>2, <2>3, CallOf, ConsumerGoes
<1> QED BY <1>3, <1>4

\* A visit to a sub-queue while it collects k items of a bulk call.
LEMMA VisitBulkStep ==
  ASSUME IInv, NEW c \in Consumers, VisitBulk(c)
  PROVE  IInv'
<1>1. Head(scan[c]) \in Producers /\ Tail(scan[c]) \in Seq(Producers) /\ <<>> \in Seq(Producers)
  BY CallOf, HeadTailProperties DEF VisitBulk
<1>2. PICK k \in Yields(c, Head(scan[c]), need[c]) :
        /\ Dequeue(c, Head(scan[c]), k)
        /\ IF k = need[c]
             THEN Return(c) /\ scan' = [scan EXCEPT ![c] = <<>>]
             ELSE /\ scan' = [scan EXCEPT ![c] = Tail(@)]
                  /\ count' = [count EXCEPT ![c] = @ + k]
                  /\ UNCHANGED <<pc, call>>
  BY DEF VisitBulk
<1>3. need[c] \in 0..need[c]
  BY CallOf
<1>4. /\ k \in Nat /\ k <= need[c]
      /\ QueueOK' /\ Counted'
      /\ need' \in [Consumers -> Nat] /\ need'[c] = need[c] - k
      /\ \A d \in Consumers \ {c} : need'[d] = need[d]
  BY <1>1, <1>2, <1>3, ItemsTaken
<1>5. scan' \in [Consumers -> Seq(Producers)] /\ seen' \in [Consumers -> SUBSET Producers]
      /\ permits' \in Nat
  BY <1>1, <1>2, CallOf DEF Dequeue
<1>6. pc[c] = "bulk" /\ "bulk" \in Places /\ "bulk" \notin Scoring
  BY DEF VisitBulk, Places, Scoring
<1>7. CASE k = need[c]
  <2>1. "idle" \in Places /\ "idle" \notin Scoring /\ NoCall \in [max : Nat, waits : BOOLEAN]
    BY DEF Places, Scoring, NoCall
  <2>2. pc' = [pc EXCEPT ![c] = "idle"] /\ call' = [call EXCEPT ![c] = NoCall]
        /\ count' = [count EXCEPT ![c] = 0]
    BY <1>2, <1>7 DEF Return, GoTo
  <2>3. need'[c] = 0
    BY <1>4, <1>7
  <2> QED BY <1>4, <1>5, <2>1, <2>2, <2>3, CallOf, ConsumerMoves
<1>8. CASE k # need[c]
  <2>1. /\ pc' = [pc EXCEPT ![c] = "bulk"] /\ call' = [call EXCEPT ![c] = call[c]]
        /\ count' = [count EXCEPT ![c] = count[c] + k]
    BY <1>2, <1>6, <1>8, CallOf
  <2>2. count[c] + k \in Nat /\ (count[c] + k) + need'[c] <= call[c].max /\ call[c].max > 0
    BY <1>4, <1>6, CallOf
  <2> QED BY <1>4, <1>5, <1>6, <2>1, <2>2, CallOf, ConsumerMoves
<1> QED BY <1>7, <1>8

\* A visit to a sub-queue in search of the one item of step 2.
LEMMA VisitOne ==
  ASSUME IInv, NEW c \in Consumers, pc[c] \in Scoring,
         NEW p \in Producers, NEW k \in Yields(c, p, 1), Dequeue(c, p, k),
         call' = call,
         scan' \in [Consumers -> Seq(Producers)],
         \/ k = 1 /\ GotOne(c)
         \/ k = 0 /\ count' = count /\ \E place \in Scoring : pc' = [pc EXCEPT ![c] = place]
  PROVE  IInv'
<1>1. need[c] = 1 /\ count[c] = 0 /\ 1 \in 0..need[c]
  BY CallOf
<1>2. /\ QueueOK' /\ Counted'
      /\ need' \in [Consumers -> Nat] /\ need'[c] = 1 - k
      /\ \A d \in Consumers \ {c} : need'[d] = need[d]
  BY <1>1, ItemsTaken
<1>3. seen' \in [Consumers -> SUBSET Producers] /\ permits' \in Nat
  BY CallOf DEF Dequeue
<1>4. /\ call' = [call EXCEPT ![c] = call[c]] /\ call[c] \in [max : Nat, waits : BOOLEAN]
      /\ call[c].max \in Nat /\ call[c].max > 0
  BY CallOf DEF Scoring
<1>5. CASE k = 1 /\ GotOne(c)
  <2>1. pc' = [pc EXCEPT ![c] = "permits"] /\ count' = [count EXCEPT ![c] = 1]
    BY <1>5 DEF GotOne, GoTo
  <2>2. "permits" \in Places /\ "permits" \notin Scoring
    BY DEF Places, Scoring
  <2>3. need'[c] = 0 /\ 1 + need'[c] <= call[c].max
    <3>1. need'[c] = 0
      BY <1>2, <1>5
    <3> QED BY <1>4, <3>1
  <2> QED BY <1>2, <1>3, <1>4, <2>1, <2>2, <2>3, CallOf, ConsumerMoves
<1>6. CASE k = 0 /\ count' = count /\ \E place \in Scoring : pc' = [pc EXCEPT ![c] = place]
  <2>1. PICK place \in Scoring : pc' = [pc EXCEPT ![c] = place]
    BY <1>6
  <2>2. place \in Places /\ place \notin {"idle", "permits", "wait", "waiting"}
    BY DEF Places, Scoring
  <2>3. count' = [count EXCEPT ![c] = 0]
    BY <1>1, <1>6, CallOf
  <2>4. need'[c] = 1
    BY <1>2, <1>6
  <2>5. 0 + need'[c] <= call[c].max
    BY <1>4, <2>4
  <2> QED BY <1>2, <1>3, <1>4, <2>1, <2>2, <2>3, <2>4, <2>5, ConsumerMoves
<1> QED BY <1>5, <1>6

\* try_dequeue's second pass, the best sub-queue first.
LEMMA VisitOneStep ==
  ASSUME IInv, NEW c \in Consumers, TryBest(c) \/ TryRest(c)
  PROVE  IInv'
<1>1. <<>> \in Seq(Producers) /\ list \in Seq(Producers) /\ pc[c] \in Scoring /\ call' = call
  BY DEF TryBest, TryRest, Scoring, IInv, TypeOK, QueueOK
<1>2. CASE TryBest(c)
  <2>0. PICK p \in seen[c] : \E k \in Yields(c, p, 1) :
          /\ Dequeue(c, p, k)
          /\ \/ k = 1 /\ GotOne(c)
             \/ /\ k = 0
                /\ \E i \in DOMAIN list : list[i] = p /\ scan' = [scan EXCEPT ![c] = Others(i)]
                /\ GoTo(c, "rest") /\ UNCHANGED count
    BY <1>2 DEF TryBest
  <2>1. PICK k \in Yields(c, p, 1) :
          /\ Dequeue(c, p, k)
          /\ \/ k = 1 /\ GotOne(c)
             \/ /\ k = 0
                /\ \E i \in DOMAIN list : list[i] = p /\ scan' = [scan EXCEPT ![c] = Others(i)]
                /\ GoTo(c, "rest") /\ UNCHANGED count
    BY <2>0
  <2>2. p \in Producers
    BY CallOf
  <2>3. \A i \in DOMAIN list : Others(i) \in Seq(Producers)
    <3> SUFFICES ASSUME NEW i \in DOMAIN list PROVE Others(i) \in Seq(Producers)
      OBVIOUS
    <3>1. /\ Len(list) \in Nat /\ i \in 1..Len(list)
          /\ \A j \in 1..Len(list) : list[j] \in Producers
      BY <1>1, LenProperties, ElementOfSeq
    <3>2. /\ 1 \in Int /\ i - 1 \in Int /\ i + 1 \in Int /\ Len(list) \in Int
          /\ \A j \in 1..(i - 1) : list[j] \in Producers
          /\ \A j \in (i + 1)..Len(list) : list[j] \in Producers
      BY <3>1
    <3>3. SubSeq(list, 1, i - 1) \in Seq(Producers) /\ SubSeq(list, i + 1, Len(list)) \in Seq(Producers)
      BY <3>2, SubSeqProperties
    <3> QED BY <3>3, ConcatProperties DEF Others
  <2>4. scan' \in [Consumers -> Seq(Producers)]
    <3>1. \E q \in Seq(Producers) : scan' = [scan EXCEPT ![c] = q]
      BY <1>1, <2>1, <2>3 DEF GotOne
    <3> QED BY <3>1, CallOf
  <2>5. GoTo(c, "rest") => \E place \in Scoring : pc' = [pc EXCEPT ![c] = place]
    BY DEF GoTo, Scoring
  <2> QED BY <1>1, <2>1, <2>2, <2>4, <2>5, VisitOne
<1>3. CASE TryRest(c)
  <2>1. PICK k \in Yields(c, Head(scan[c]), 1) :
          /\ Dequeue(c, Head(scan[c]), k)
          /\ \/ k = 1 /\ GotOne(c)
             \/ /\ k = 0
                /\ scan' = [scan EXCEPT ![c] = Tail(@)]
                /\ UNCHANGED <<pc, count>>
    BY <1>3 DEF TryRest
  <2>2. Head(scan[c]) \in Producers /\ Tail(scan[c]) \in Seq(Producers)
    BY <1>3, CallOf, HeadTailProperties DEF TryRest
  <2>3. scan' \in [Consumers -> Seq(Producers)]
    BY <1>1, <2>1, <2>2, CallOf DEF GotOne
  <2>4. pc' = pc => \E place \in Scoring : pc' = [pc EXCEPT ![c] = place]
    BY <1>1, CallOf
  <2> QED BY <1>1, <2>1, <2>2, <2>3, <2>4, VisitOne
<1> QED BY <1>2, <1>3

LEMMA NextIInv == IInv /\ [Next]_vars => IInv'
<1> SUFFICES ASSUME IInv, [Next]_vars PROVE IInv'
  OBVIOUS
<1>1. ASSUME NEW c \in Consumers, Start(c) \/ Continue(c) PROVE IInv'
  BY <1>1, StartStep, TryWaitManyStep, WaitStep, ScanStep, VisitBulkStep, VisitOneStep DEF Continue
<1>2. CASE UNCHANGED vars
  BY <1>2, CountedKept DEF vars, cons, IInv, TypeOK, QueueOK, CallsOK, Shape, BufferFits
<1> QED BY <1>1, <1>2, ProducerStep DEF Next

\* The inductive invariant holds.
LEMMA Invariance == Spec => []IInv
BY InitIInv, NextIInv, PTL DEF Spec

\* Every permit, taken or not, has its item in the queue, whatever the
\* producers and consumers do: the collecting loops of
\* blockingconcurrentqueue_impl.h never wait for an item that does not come.
THEOREM PermitsBackedHolds == Spec => []PermitsBacked
BY Invariance, PTL DEF IInv, Counted

\* A call never delivers more than max_size items, nor takes permits for more.
THEOREM BufferFitsHolds == Spec => []BufferFits
BY Invariance, PTL DEF IInv

\* A consumer that has taken permits and not yet its items will find a
\* sub-queue that is not empty, in any state: what the loops rely on.
SomethingToFind ==
  \A c \in Consumers : need[c] > 0 => \E p \in Producers : items[p] # <<>>

THEOREM SomethingToFindHolds == Spec => []SomethingToFind
<1>1. IInv => SomethingToFind
  <2> SUFFICES ASSUME IInv, NEW c \in Consumers, need[c] > 0,
                      \A p \in Producers : items[p] = <<>>
               PROVE  FALSE
    BY DEF SomethingToFind
  <2>1. Lengths = [p \in Producers |-> 0]
    BY DEF Lengths
  <2>2. Total(Lengths) = 0
    BY <2>1, TotalZero
  <2>3. Total(need) = 0 /\ need[c] \in Nat
    <3>1. permits \in Nat
      BY CallOf
    <3> QED BY <2>2, <3>1, Counts
  <2>4. PICK g : g = [need EXCEPT ![c] = 0]
    OBVIOUS
  <2>5. IsFiniteSet(Cells(g)) /\ Total(g) = Total(need) - need[c] + 0
    <3>1. IsFiniteSet(Cells(need)) /\ need \in [Consumers -> Nat] /\ 0 \in Nat
      BY Counts DEF IInv, Counted
    <3> QED BY <2>4, <3>1, TotalChange
  <2>6. Total(g) \in Nat
    BY <2>5, FS_CardinalityType DEF Total
  <2> QED BY <2>3, <2>5, <2>6
<1> QED BY <1>1, Invariance, PTL

-------------------------------------------------------------------------------
(* The queue implements FifoChannel *)

\* Taking no item changes nothing that a user sees.
LEMMA DequeueRefines ==
  ASSUME IInv, NEW c \in Consumers, NEW p \in Producers,
         NEW n \in 0..need[c], NEW k \in Yields(c, p, n), Dequeue(c, p, k)
  PROVE  Channel!Next \/ UNCHANGED Channel!vars
<1>1. /\ items \in [Producers -> Seq(Items)] /\ received \in [Consumers -> Seq(Items)]
      /\ items[p] \in Seq(Items) /\ received[c] \in Seq(Items) /\ Len(items[p]) \in Nat
  BY LenProperties DEF IInv, TypeOK, QueueOK
<1>2. k \in Nat /\ k <= Len(items[p])
  BY ItemsTaken
<1>3. CASE k = 0
  <2>1. SubSeq(items[p], 1, 0) = <<>>
    BY SubSeqEmpty
  <2>2. SubSeq(items[p], 1, Len(items[p])) = items[p]
    BY <1>1, SubSeqFull
  <2>3. received[c] \o <<>> = received[c]
    BY <1>1, ConcatEmptySeq
  <2>4. 0 + 1 = 1
    OBVIOUS
  <2>5. received' = [received EXCEPT ![c] = received[c]] /\ items' = [items EXCEPT ![p] = items[p]]
        /\ sent' = sent
    BY <1>3, <2>1, <2>2, <2>3, <2>4 DEF Dequeue
  <2>6. received' = received /\ items' = items /\ sent' = sent
    BY <1>1, <2>5
  <2> QED BY <2>6 DEF Channel!vars
<1>4. CASE k # 0
  <2>1. Channel!Get(c, p, k)
    BY <1>2 DEF Channel!Get, Dequeue
  <2>2. k \in 1..Len(items[p])
    BY <1>1, <1>2, <1>4
  <2> QED BY <2>1, <2>2 DEF Channel!Next
<1> QED BY <1>3, <1>4

LEMMA StepRefines ==
  ASSUME IInv, [Next]_vars
  PROVE  Channel!Next \/ UNCHANGED Channel!vars
<1>1. ASSUME NEW p \in Producers, Produce(p) PROVE Channel!Next \/ UNCHANGED Channel!vars
  BY <1>1 DEF Produce, InnerEnqueue, Signal, Channel!Put, Channel!Next, Channel!vars
<1>2. ASSUME NEW c \in Consumers, VisitBulk(c) PROVE Channel!Next \/ UNCHANGED Channel!vars
  <2>1. Head(scan[c]) \in Producers /\ need[c] \in 0..need[c]
    BY <1>2, CallOf, HeadTailProperties DEF VisitBulk
  <2>2. \E k \in Yields(c, Head(scan[c]), need[c]) : Dequeue(c, Head(scan[c]), k)
    BY <1>2 DEF VisitBulk
  <2> QED BY <2>1, <2>2, DequeueRefines
<1>3. ASSUME NEW c \in Consumers, TryBest(c) \/ TryRest(c)
      PROVE  Channel!Next \/ UNCHANGED Channel!vars
  <2>1. 1 \in 0..need[c]
    <3>1. pc[c] \in Scoring
      BY <1>3 DEF TryBest, TryRest, Scoring
    <3> QED BY <3>1, CallOf
  <2>2. \E p \in Producers : \E k \in Yields(c, p, 1) : Dequeue(c, p, k)
    <3>1. CASE TryBest(c)
      BY <3>1, CallOf DEF TryBest
    <3>2. CASE TryRest(c)
      <4>1. Head(scan[c]) \in Producers
        BY <3>2, CallOf, HeadTailProperties DEF TryRest
      <4> QED BY <3>2, <4>1 DEF TryRest
    <3> QED BY <1>3, <3>1, <3>2
  <2> QED BY <2>1, <2>2, DequeueRefines
<1>4. ASSUME NEW c \in Consumers,
             \/ Start(c) \/ TryWaitMany(c) \/ Wait(c) \/ Wake(c) \/ TimeOut(c)
             \/ StartBulkRound(c) \/ StartScoring(c) \/ Score(c) \/ EndScoring(c) \/ RestEmpty(c)
      PROVE  UNCHANGED Channel!vars
  <2>1. UNCHANGED inner
    BY <1>4 DEF Start, TryDequeueBulk, WaitDequeueBulkTimed, Begin, TryWaitMany, Wait, Wake,
      TimeOut, StartBulkRound, StartScoring, StartRound, Score, EndScoring, RestEmpty
  <2> QED BY <2>1 DEF inner, Channel!vars
<1>5. CASE UNCHANGED vars
  BY <1>5 DEF vars, Channel!vars
<1> QED BY <1>1, <1>2, <1>3, <1>4, <1>5 DEF Next, Continue

\* Every behaviour of the queue is one of the channel: each producer's items
\* are received in the order it sent them, none lost and none twice.
THEOREM Refinement == Spec => ImplementsFifoChannel
<1>1. Init => Channel!Init
  BY DEF Init, Channel!Init
<1>2. IInv /\ [Next]_vars => [Channel!Next]_(Channel!vars)
  BY StepRefines
<1> QED BY <1>1, <1>2, Invariance, PTL DEF Spec, ImplementsFifoChannel, Channel!Spec
===============================================================================
