--------------------------- MODULE BlockPool_proofs ---------------------------
(***************************************************************************)
(* The reference counts and the list of BlockPool, for any threads and     *)
(* blocks.                                                                 *)
(***************************************************************************)
EXTENDS BlockPool, FiniteSetTheorems, TLAPS

\* Neither unused nor in use nor to be put back: the list holds a reference.
Live == {b \in Blocks \ (fresh \cup taken) : ~should[b]}

Holding == {"next", "take", "got", "unref"}
Preparing == {"top", "link", "count"}
Owning == {"got", "push", "undo"} \cup Preparing

\* Who owns a block: at most one thread unlinks it or puts it back, and a
\* thread that puts it back is alone with it until it sets the count to one.
Roles ==
  /\ fresh \cap taken = {}
  /\ \A b \in Blocks : should[b] => b \notin fresh \cup taken
  /\ \A t \in Threads : pc[t] \in Holding \cup Owning => node[t] \in Blocks
  /\ \A t \in Threads : pc[t] \in Preparing => should[node[t]] /\ refs[node[t]] = 0
  /\ \A t \in Threads : pc[t] \in Owning \ Preparing => node[t] \in Live
  /\ \A t, u \in Threads :
       pc[t] \in Owning /\ pc[u] \in Owning /\ node[t] = node[u] => t = u

\* The count: one for every holder and one for the list.
Counted ==
  \A b \in Blocks :
    refs[b] = Cardinality(Holders(b)) + (IF b \in Live THEN 1 ELSE 0)

\* A block that must be put back has somebody who will do it.
Duty == \A b \in Blocks : should[b] => refs[b] > 0 \/ \E t \in Threads : t \in Adders(b)

\* What a thread has read of, or written to, a block's next pointer is there.
Links ==
  \A t \in Threads :
    pc[t] \in {"take", "count", "push"} => link[t] = freeListNext[node[t]]

\* The list: it starts and continues with listed blocks, no two of them have
\* the same successor, none is followed by the first, and all can be reached.
Chain ==
  /\ Closed(Listed)
  /\ \A b \in Listed : freeListNext[b] # Null => freeListNext[b] # freeListHead
  /\ \A b,
      c \in Listed : freeListNext[b] = freeListNext[c] /\ freeListNext[b] # Null => b = c
  /\ \A S \in SUBSET Blocks : Closed(S) => Listed \subseteq S

IInv == TypeOK /\ Roles /\ Counted /\ Duty /\ Links /\ Chain

-------------------------------------------------------------------------------
(* Cardinalities *)

\* There are finitely many threads, so finitely many hold a block.
LEMMA HoldersFinite == \A b : IsFiniteSet(Holders(b))
<1> SUFFICES ASSUME NEW b PROVE IsFiniteSet(Holders(b))
  OBVIOUS
<1>1. Holders(b) \subseteq Threads BY DEF Holders, At
<1> QED BY <1>1, FiniteAssumption, FS_Subset

\* A thread that holds a block is counted, and so is the list.
LEMMA Held ==
  ASSUME TypeOK, Roles, Counted
  PROVE  /\ \A b \in Live : refs[b] >= 1
         /\ \A t \in Threads : pc[t] \in Holding =>
              refs[node[t]] >= 1 /\ (node[t] \in Live => refs[node[t]] >= 2)
<1>1. \A b : Cardinality(Holders(b)) \in Nat
  BY HoldersFinite, FS_CardinalityType
<1>2. \A b \in Live : refs[b] >= 1
  BY <1>1 DEF Counted, Live
<1>3. ASSUME NEW t \in Threads, pc[t] \in Holding
      PROVE  refs[node[t]] >= 1 /\ (node[t] \in Live => refs[node[t]] >= 2)
  <2> DEFINE H == Holders(node[t])
  <2>1. IsFiniteSet(H) /\ t \in H /\ node[t] \in Blocks
    BY <1>3, HoldersFinite DEF Holders, At, Holding, Roles
  <2>2. Cardinality(H) \in Nat /\ Cardinality(H) # 0
    BY <2>1, FS_CardinalityType, FS_EmptySet
  <2>3. refs[node[t]] = Cardinality(H) + (IF node[t] \in Live THEN 1 ELSE 0)
    BY <2>1 DEF Counted
  <2> QED BY <2>2, <2>3
<1> QED BY <1>2, <1>3

-------------------------------------------------------------------------------
(* Types and roles *)

\* No count goes below zero: a thread only gives up what was counted.
LEMMA TypeStep ==
  ASSUME IInv, NEW t \in Threads, Start(t) \/ Continue(t)
  PROVE  TypeOK'
<1> USE Held, NullAssumption DEF IInv, TypeOK, Roles, Live, Places, list,
      counts, locals, Holding, Owning, Preparing, GoTo, Set
<1>1. CASE Requisition(t) BY <1>1 DEF Requisition
<1>2. CASE Ticket(t) BY <1>2 DEF Ticket
<1>3. CASE Load(t) BY <1>3 DEF Load
<1>4. CASE Empty(t) BY <1>4 DEF Empty, Return
<1>5. CASE Ref(t) BY <1>5 DEF Ref, MayRef, Stale
<1>6. CASE ReadNext(t) BY <1>6 DEF ReadNext
<1>7. CASE Take(t) BY <1>7 DEF Take
<1>8. CASE Got(t) BY <1>8 DEF Got, Dropped, Return
<1>9. CASE Unref(t) BY <1>9 DEF Unref, LastOut
<1>10. CASE ReadTop(t) BY <1>10 DEF ReadTop
<1>11. CASE WriteNext(t) BY <1>11 DEF WriteNext
<1>12. CASE SetCount(t) BY <1>12 DEF SetCount
<1>13. CASE Push(t) BY <1>13 DEF Push, Done, Return
<1>14. CASE Undo(t) BY <1>14 DEF Undo, Done, Return, Retries
<1>15. ASSUME NEW b \in Blocks, Add(t, b) PROVE TypeOK'
  BY <1>15 DEF Add
<1> QED BY <1>1, <1>2, <1>3, <1>4, <1>5, <1>6, <1>7, <1>8, <1>9, <1>10,
    <1>11, <1>12, <1>13, <1>14, <1>15 DEF Start, Continue

\* A block gets an owner only when it has none.
LEMMA RolesStep ==
  ASSUME IInv, NEW t \in Threads, Start(t) \/ Continue(t)
  PROVE  Roles'
<1> USE Held, NullAssumption DEF IInv, TypeOK, Roles, Live, Places, list,
      counts, locals, Holding, Owning, Preparing, GoTo, Set
<1>1. CASE Requisition(t) BY <1>1 DEF Requisition
<1>2. CASE Ticket(t) BY <1>2 DEF Ticket
<1>3. CASE Load(t) BY <1>3 DEF Load
<1>4. CASE Empty(t) BY <1>4 DEF Empty, Return
<1>5. CASE Ref(t) BY <1>5 DEF Ref, MayRef, Stale
<1>6. CASE ReadNext(t) BY <1>6 DEF ReadNext
<1>7. CASE Take(t)
  <2>1. freeListHead = node[t] => node[t] \in Listed
    BY <1>7, NullAssumption DEF IInv, Chain, Closed, Roles, Take, Holding
  <2> QED BY <1>7, <2>1 DEF Listed, At, Take
<1>8. CASE Got(t) BY <1>8 DEF Got, Dropped, Return
<1>9. CASE Unref(t) BY <1>9 DEF Unref, LastOut
<1>10. CASE ReadTop(t) BY <1>10 DEF ReadTop
<1>11. CASE WriteNext(t) BY <1>11 DEF WriteNext
<1>12. CASE SetCount(t) BY <1>12 DEF SetCount
<1>13. CASE Push(t) BY <1>13 DEF Push, Done, Return
<1>14. CASE Undo(t) BY <1>14 DEF Undo, Done, Return, Retries
<1>15. ASSUME NEW b \in Blocks, Add(t, b) PROVE Roles'
  BY <1>15 DEF Add
<1> QED BY <1>1, <1>2, <1>3, <1>4, <1>5, <1>6, <1>7, <1>8, <1>9, <1>10,
    <1>11, <1>12, <1>13, <1>14, <1>15 DEF Start, Continue

\* Next pointers are written only while nobody has a reference.
LEMMA LinksStep ==
  ASSUME IInv, NEW t \in Threads, Start(t) \/ Continue(t)
  PROVE  Links'
<1> USE Held, NullAssumption DEF IInv, TypeOK, Roles, Links, Live, Places,
      list, counts, locals, Holding, Owning, Preparing, GoTo, Set
<1>1. CASE Requisition(t) BY <1>1 DEF Requisition
<1>2. CASE Ticket(t) BY <1>2 DEF Ticket
<1>3. CASE Load(t) BY <1>3 DEF Load
<1>4. CASE Empty(t) BY <1>4 DEF Empty, Return
<1>5. CASE Ref(t) BY <1>5 DEF Ref, MayRef, Stale
<1>6. CASE ReadNext(t) BY <1>6 DEF ReadNext
<1>7. CASE Take(t) BY <1>7 DEF Take
<1>8. CASE Got(t) BY <1>8 DEF Got, Dropped, Return
<1>9. CASE Unref(t) BY <1>9 DEF Unref, LastOut
<1>10. CASE ReadTop(t) BY <1>10 DEF ReadTop
<1>11. CASE WriteNext(t) BY <1>11 DEF WriteNext
<1>12. CASE SetCount(t) BY <1>12 DEF SetCount
<1>13. CASE Push(t) BY <1>13 DEF Push, Done, Return
<1>14. CASE Undo(t) BY <1>14 DEF Undo, Done, Return, Retries
<1>15. ASSUME NEW b \in Blocks, Add(t, b) PROVE Links'
  BY <1>15 DEF Add
<1> QED BY <1>1, <1>2, <1>3, <1>4, <1>5, <1>6, <1>7, <1>8, <1>9, <1>10,
    <1>11, <1>12, <1>13, <1>14, <1>15 DEF Start, Continue

\* The last to let go of a block that must be put back puts it back.
LEMMA DutyStep ==
  ASSUME IInv, NEW t \in Threads, Start(t) \/ Continue(t)
  PROVE  Duty'
<1> USE Held, NullAssumption DEF IInv, TypeOK, Roles, Duty, Adders, At,
      Live, Places, list, counts, locals, Holding, Owning, Preparing, GoTo,
      Set
<1>1. CASE Requisition(t) BY <1>1 DEF Requisition
<1>2. CASE Ticket(t) BY <1>2 DEF Ticket
<1>3. CASE Load(t) BY <1>3 DEF Load
<1>4. CASE Empty(t) BY <1>4 DEF Empty, Return
<1>5. CASE Ref(t) BY <1>5 DEF Ref, MayRef, Stale
<1>6. CASE ReadNext(t) BY <1>6 DEF ReadNext
<1>7. CASE Take(t) BY <1>7 DEF Take
<1>8. CASE Got(t) BY <1>8 DEF Got, Dropped, Return
<1>9. CASE Unref(t) BY <1>9 DEF Unref, LastOut
<1>10. CASE ReadTop(t) BY <1>10 DEF ReadTop
<1>11. CASE WriteNext(t) BY <1>11 DEF WriteNext
<1>12. CASE SetCount(t) BY <1>12 DEF SetCount
<1>13. CASE Push(t) BY <1>13 DEF Push, Done, Return
<1>14. CASE Undo(t) BY <1>14 DEF Undo, Done, Return, Retries
<1>15. ASSUME NEW b \in Blocks, Add(t, b) PROVE Duty'
  BY <1>15 DEF Add
<1> QED BY <1>1, <1>2, <1>3, <1>4, <1>5, <1>6, <1>7, <1>8, <1>9, <1>10,
    <1>11, <1>12, <1>13, <1>14, <1>15 DEF Start, Continue

\* The list loses its head or gains a new one; nothing else on it changes.
LEMMA ChainStep ==
  ASSUME IInv, NEW t \in Threads, Start(t) \/ Continue(t)
  PROVE  Chain'
<1> USE DEF Places, list, counts, locals, Holding, Owning, Preparing, GoTo, Set
<1>1. CASE Requisition(t)
  BY <1>1, NullAssumption
  DEF IInv, TypeOK, Roles, Chain, Closed, Listed, At, Live, Requisition
<1>2. CASE Ticket(t)
  BY <1>2, NullAssumption
  DEF IInv, TypeOK, Roles, Chain, Closed, Listed, At, Live, Ticket
<1>3. CASE Load(t)
  BY <1>3, NullAssumption
  DEF IInv, TypeOK, Roles, Chain, Closed, Listed, At, Live, Load
<1>4. CASE Empty(t)
  BY <1>4, NullAssumption
  DEF IInv, TypeOK, Roles, Chain, Closed, Listed, At, Live, Empty, Return
<1>5. CASE Ref(t)
  BY <1>5, NullAssumption
  DEF IInv, TypeOK, Roles, Chain, Closed, Listed, At, Live, Ref, MayRef, Stale
<1>6. CASE ReadNext(t)
  BY <1>6, NullAssumption
  DEF IInv, TypeOK, Roles, Chain, Closed, Listed, At, Live, ReadNext
<1>7. CASE Take(t)
  <2>1. CASE freeListHead = node[t]
    <3>1. freeListHead \in Listed
      BY <1>7, <2>1, NullAssumption DEF IInv, Chain, Closed, Roles, Take,
          Holding
    <3>2. Listed' = Listed \ {freeListHead}
      BY <1>7, <2>1, <3>1 DEF IInv, TypeOK, Roles, Chain, Closed, Listed, At,
          Live, Take
    <3>3. freeListHead' = freeListNext[freeListHead] /\ freeListNext' = freeListNext
      BY <1>7, <2>1 DEF Take, IInv, Links, list
    <3>4. freeListHead' \in Listed' \cup {Null}
      BY <3>1, <3>2, <3>3 DEF IInv, Chain, Closed
    <3>5. \A c \in Listed' : freeListNext'[c] \in Listed' \cup {Null}
      BY <3>1, <3>2, <3>3, NullAssumption DEF IInv, Chain, Closed, Listed
    <3>6. \A c \in Listed' : freeListNext'[c] # Null => freeListNext'[c] # freeListHead'
      BY <3>1, <3>2, <3>3 DEF IInv, Chain
    <3>7. ASSUME NEW S \in SUBSET Blocks, Closed(S)' PROVE Listed' \subseteq S
      <4>1. Closed(S \cup {freeListHead})
        BY <3>3, <3>7 DEF Closed
      <4>2. S \cup {freeListHead} \in SUBSET Blocks
        BY <3>1 DEF Listed
      <4> QED BY <4>1, <4>2, <3>2 DEF IInv, Chain
    <3> QED BY <3>2, <3>3, <3>4, <3>5, <3>6, <3>7 DEF IInv, Chain, Closed
  <2>2. CASE freeListHead # node[t]
    <3>1. Listed' = Listed /\ UNCHANGED list
      BY <1>7, <2>2 DEF IInv, TypeOK, Roles, Chain, Closed, Listed, At, Live,
          Take
    <3> QED BY <3>1 DEF IInv, Chain, Closed, list
  <2> QED BY <2>1, <2>2
<1>8. CASE Got(t)
  BY <1>8, NullAssumption
  DEF IInv, TypeOK, Roles, Chain, Closed, Listed, At, Live, Got, Dropped,
      Return
<1>9. CASE Unref(t)
  BY <1>9, NullAssumption
  DEF IInv, TypeOK, Roles, Chain, Closed, Listed, At, Live, Unref, LastOut
<1>10. CASE ReadTop(t)
  BY <1>10, NullAssumption
  DEF IInv, TypeOK, Roles, Chain, Closed, Listed, At, Live, ReadTop
<1>11. CASE WriteNext(t)
  <2>1. Listed' = Listed /\ freeListHead' = freeListHead
    BY <1>11 DEF IInv, TypeOK, Roles, Chain, Closed, Listed, At, Live,
        WriteNext
  <2>2. node[t] \in Blocks /\ node[t] \notin Listed
    BY <1>11 DEF IInv, Roles, Owning, Preparing, Listed, WriteNext
  <2>3. \A c \in Listed : freeListNext'[c] = freeListNext[c]
    BY <1>11, <2>2 DEF IInv, TypeOK, Listed, WriteNext, Set
  <2>4. Closed(Listed)'
    BY <2>1, <2>3 DEF IInv, Chain, Closed
  <2>5. ASSUME NEW S \in SUBSET Blocks, Closed(S)' PROVE Listed' \subseteq S
    <3>1. Closed(S \cap Listed)
      BY <2>1, <2>3, <2>5 DEF IInv, Chain, Closed
    <3> QED BY <3>1, <2>1 DEF IInv, Chain
  <2> QED BY <2>1, <2>3, <2>4, <2>5 DEF IInv, Chain
<1>12. CASE SetCount(t)
  BY <1>12, NullAssumption
  DEF IInv, TypeOK, Roles, Chain, Closed, Listed, At, Live, SetCount
<1>13. CASE Push(t)
  <2>1. CASE freeListHead = link[t]
    <3>1. node[t] \in Blocks /\ node[t] \notin Listed
      BY <1>13 DEF IInv, Roles, Owning, Push, Listed, At
    <3>2. Listed' = Listed \cup {node[t]}
      BY <1>13, <2>1, <3>1 DEF IInv, TypeOK, Roles, Chain, Closed, Listed,
          At, Live, Push, Done, Return
    <3>3. /\ freeListHead' = node[t] /\ freeListNext' = freeListNext
          /\ freeListNext[node[t]] = freeListHead
      BY <1>13, <2>1 DEF Push, IInv, Links
    <3>4. Closed(Listed)'
      BY <3>2, <3>3 DEF IInv, Chain, Closed
    <3>5. \A c \in Listed' : freeListNext'[c] # Null => freeListNext'[c] # freeListHead'
      BY <3>1, <3>2, <3>3 DEF IInv, Chain, Closed
    <3>6. \A c, d \in Listed' :
            freeListNext'[c] = freeListNext'[d] /\ freeListNext'[c] # Null => c = d
      BY <3>2, <3>3 DEF IInv, Chain
    <3>7. ASSUME NEW S \in SUBSET Blocks, Closed(S)' PROVE Listed' \subseteq S
      <4>1. Closed(S) /\ node[t] \in S
        BY <3>1, <3>3, <3>7, NullAssumption DEF Closed
      <4> QED BY <4>1, <3>2 DEF IInv, Chain
    <3> QED BY <3>4, <3>5, <3>6, <3>7 DEF Chain
  <2>2. CASE freeListHead # link[t]
    <3>1. Listed' = Listed /\ UNCHANGED list
      BY <1>13, <2>2 DEF IInv, TypeOK, Roles, Chain, Closed, Listed, At,
          Live, Push, Done, Return
    <3> QED BY <3>1 DEF IInv, Chain, Closed, list
  <2> QED BY <2>1, <2>2
<1>14. CASE Undo(t)
  <2>1. Listed' = Listed /\ UNCHANGED list
    BY <1>14 DEF IInv, TypeOK, Roles, Chain, Closed, Listed, At, Live, Undo,
        Done, Return, Retries
  <2> QED BY <2>1 DEF IInv, Chain, Closed, list
<1>15. ASSUME NEW b \in Blocks, Add(t, b) PROVE Chain'
  BY <1>15, NullAssumption
  DEF IInv, TypeOK, Roles, Chain, Closed, Listed, At, Live, Add
<1> QED BY <1>1, <1>2, <1>3, <1>4, <1>5, <1>6, <1>7, <1>8, <1>9, <1>10,
    <1>11, <1>12, <1>13, <1>14, <1>15 DEF Start, Continue

\* Holders come and go with the count.
LEMMA CountedStep ==
  ASSUME IInv, NEW t \in Threads, Start(t) \/ Continue(t)
  PROVE  Counted'
<1> USE DEF Places, list, counts, locals, Holding, Owning, Preparing, GoTo, Set
<1>1. CASE Requisition(t)
  BY <1>1, NullAssumption
  DEF IInv, TypeOK, Roles, Counted, Holders, At, Live, Requisition
<1>2. CASE Ticket(t)
  BY <1>2, NullAssumption
  DEF IInv, TypeOK, Roles, Counted, Holders, At, Live, Ticket
<1>3. CASE Load(t)
  BY <1>3, NullAssumption
  DEF IInv, TypeOK, Roles, Counted, Holders, At, Live, Load
<1>4. CASE Empty(t)
  BY <1>4, NullAssumption
  DEF IInv, TypeOK, Roles, Counted, Holders, At, Live, Empty, Return
<1>5. CASE Ref(t)
  <2>1. CASE MayRef(head[t])
    <3>1. PICK b \in Blocks : b = head[t] /\ t \notin Holders(b)
      BY <1>5 DEF IInv, TypeOK, Holders, At, Ref
    <3>2. Holders(b)' = Holders(b) \cup {t}
      BY <1>5, <2>1, <3>1 DEF IInv, TypeOK, Roles, Counted, Holders, At,
          Live, Ref, MayRef, Stale
    <3>3. \A c \in Blocks \ {b} : Holders(c)' = Holders(c)
      BY <1>5, <2>1, <3>1 DEF IInv, TypeOK, Roles, Counted, Holders, At,
          Live, Ref, MayRef, Stale
    <3>4. Cardinality(Holders(b)') = Cardinality(Holders(b)) + 1
      BY <3>1, <3>2, HoldersFinite, FS_AddElement
    <3>5. Live' = Live /\ refs' = [refs EXCEPT ![b] = refs[b] + 1]
      BY <1>5, <2>1, <3>1 DEF Ref, Live, Set
    <3>6. \A c : Cardinality(Holders(c)) \in Nat
      BY HoldersFinite, FS_CardinalityType
    <3>7. refs'[b] = Cardinality(Holders(b)') + (IF b \in Live THEN 1 ELSE 0)
      BY <3>1, <3>4, <3>5, <3>6 DEF IInv, TypeOK, Counted
    <3>8. \A c \in Blocks \ {b} :
            refs'[c] = Cardinality(Holders(c)') + (IF c \in Live THEN 1 ELSE 0)
      BY <3>1, <3>3, <3>5 DEF IInv, TypeOK, Counted
    <3> QED BY <3>5, <3>7, <3>8 DEF Counted
  <2>2. CASE ~MayRef(head[t])
    <3>1. \A c : Holders(c)' = Holders(c)
      BY <1>5, <2>2 DEF IInv, TypeOK, Roles, Counted, Holders, At, Live, Ref,
          MayRef, Stale
    <3>2. Live' = Live /\ refs' = refs
      BY <1>5, <2>2 DEF Ref, Live
    <3> QED BY <3>1, <3>2 DEF IInv, Counted
  <2> QED BY <2>1, <2>2
<1>6. CASE ReadNext(t)
  BY <1>6, NullAssumption
  DEF IInv, TypeOK, Roles, Counted, Holders, At, Live, ReadNext
<1>7. CASE Take(t)
  BY <1>7, NullAssumption
  DEF IInv, TypeOK, Roles, Counted, Holders, At, Live, Take
<1>8. CASE Got(t)
  <2>1. PICK b \in Blocks : b = node[t] /\ t \in Holders(b)
    BY <1>8 DEF IInv, Roles, Holders, At, Got, Holding
  <2>2. Holders(b)' = Holders(b) \ {t}
    BY <1>8, <2>1, NullAssumption DEF IInv, TypeOK, Roles, Counted, Holders,
        At, Live, Got, Dropped, Return
  <2>3. \A c \in Blocks \ {b} : Holders(c)' = Holders(c)
    BY <1>8, <2>1, NullAssumption DEF IInv, TypeOK, Roles, Counted, Holders,
        At, Live, Got, Dropped, Return
  <2>4. Cardinality(Holders(b)') = Cardinality(Holders(b)) - 1
    BY <2>1, <2>2, HoldersFinite, FS_RemoveElement
  <2>5. /\ b \in Live /\ Live' = Live \ {b}
        /\ refs' = [refs EXCEPT ![b] = refs[b] - 2]
    BY <1>8, <2>1 DEF Got, Live, Set, Owning, Preparing, IInv, Roles, Dropped
  <2>6. \A c : Cardinality(Holders(c)) \in Nat
    BY HoldersFinite, FS_CardinalityType
  <2>7. refs'[b] = Cardinality(Holders(b)') + (IF b \in Live' THEN 1 ELSE 0)
    BY <2>1, <2>4, <2>5, <2>6 DEF IInv, TypeOK, Counted
  <2>8. \A c \in Blocks \ {b} :
          refs'[c] = Cardinality(Holders(c)') + (IF c \in Live' THEN 1 ELSE 0)
    BY <2>1, <2>3, <2>5 DEF IInv, TypeOK, Counted
  <2> QED BY <2>7, <2>8 DEF Counted
<1>9. CASE Unref(t)
  <2>1. PICK b \in Blocks : b = node[t] /\ t \in Holders(b)
    BY <1>9 DEF IInv, Roles, Holders, At, Unref, Holding
  <2>2. Holders(b)' = Holders(b) \ {t}
    BY <1>9, <2>1, NullAssumption DEF IInv, TypeOK, Roles, Counted, Holders,
        At, Live, Unref, LastOut
  <2>3. \A c \in Blocks \ {b} : Holders(c)' = Holders(c)
    BY <1>9, <2>1, NullAssumption DEF IInv, TypeOK, Roles, Counted, Holders,
        At, Live, Unref, LastOut
  <2>4. Cardinality(Holders(b)') = Cardinality(Holders(b)) - 1
    BY <2>1, <2>2, HoldersFinite, FS_RemoveElement
  <2>5. /\ Live' = Live
        /\ refs' = [refs EXCEPT ![b] = refs[b] - 1]
    BY <1>9, <2>1 DEF Unref, Live, Set, Owning, Preparing, IInv, Roles, Dropped
  <2>6. \A c : Cardinality(Holders(c)) \in Nat
    BY HoldersFinite, FS_CardinalityType
  <2>7. refs'[b] = Cardinality(Holders(b)') + (IF b \in Live' THEN 1 ELSE 0)
    BY <2>1, <2>4, <2>5, <2>6 DEF IInv, TypeOK, Counted
  <2>8. \A c \in Blocks \ {b} :
          refs'[c] = Cardinality(Holders(c)') + (IF c \in Live' THEN 1 ELSE 0)
    BY <2>1, <2>3, <2>5 DEF IInv, TypeOK, Counted
  <2> QED BY <2>7, <2>8 DEF Counted
<1>10. CASE ReadTop(t)
  BY <1>10, NullAssumption
  DEF IInv, TypeOK, Roles, Counted, Holders, At, Live, ReadTop
<1>11. CASE WriteNext(t)
  BY <1>11, NullAssumption
  DEF IInv, TypeOK, Roles, Counted, Holders, At, Live, WriteNext
<1>12. CASE SetCount(t)
  <2> DEFINE b == node[t]
  <2>1. \A c : Holders(c)' = Holders(c)
    BY <1>12, NullAssumption DEF IInv, TypeOK, Roles, Counted, Holders, At,
        Live, SetCount
  <2>2. \A c : Cardinality(Holders(c)) \in Nat
    BY HoldersFinite, FS_CardinalityType
  <2>3. b \in Blocks /\ b \notin Live /\ Live' = Live \cup {b} /\ refs' = [refs EXCEPT ![b] = 1]
    BY <1>12 DEF SetCount, Live, Set, Owning, Preparing, IInv, TypeOK, Roles
  <2>4. refs'[b] = Cardinality(Holders(b)) + (IF b \in Live' THEN 1 ELSE 0)
    BY <1>12, <2>2, <2>3 DEF IInv, TypeOK, Roles, Preparing, Counted, SetCount
  <2>5. \A c \in Blocks \ {b} :
          refs'[c] = Cardinality(Holders(c)) + (IF c \in Live' THEN 1 ELSE 0)
    BY <2>3 DEF IInv, TypeOK, Counted
  <2> QED BY <2>1, <2>4, <2>5 DEF Counted
<1>13. CASE Push(t)
  BY <1>13, NullAssumption
  DEF IInv, TypeOK, Roles, Counted, Holders, At, Live, Push, Done, Return
<1>14. CASE Undo(t)
  <2> DEFINE b == node[t]
  <2>1. \A c : Holders(c)' = Holders(c)
    BY <1>14, NullAssumption DEF IInv, TypeOK, Roles, Counted, Holders, At,
        Live, Undo, Done, Return, Retries
  <2>2. \A c : Cardinality(Holders(c)) \in Nat
    BY HoldersFinite, FS_CardinalityType
  <2>3. b \in Blocks /\ b \in Live /\ Live' = Live \ {b} /\ refs' = [refs EXCEPT ![b] = refs[b] - 1]
    BY <1>14 DEF Undo, Live, Set, Owning, Preparing, IInv, TypeOK, Roles
  <2>4. refs'[b] = Cardinality(Holders(b)) + (IF b \in Live' THEN 1 ELSE 0)
    BY <1>14, <2>2, <2>3 DEF IInv, TypeOK, Roles, Preparing, Counted, Undo
  <2>5. \A c \in Blocks \ {b} :
          refs'[c] = Cardinality(Holders(c)) + (IF c \in Live' THEN 1 ELSE 0)
    BY <2>3 DEF IInv, TypeOK, Counted
  <2> QED BY <2>1, <2>4, <2>5 DEF Counted
<1>15. ASSUME NEW b \in Blocks, Add(t, b) PROVE Counted'
  BY <1>15, NullAssumption
  DEF IInv, TypeOK, Roles, Counted, Holders, At, Live, Add
<1> QED BY <1>1, <1>2, <1>3, <1>4, <1>5, <1>6, <1>7, <1>8, <1>9, <1>10,
    <1>11, <1>12, <1>13, <1>14, <1>15 DEF Start, Continue

-------------------------------------------------------------------------------
(* The theorems *)

LEMMA InitOK == Init => IInv
<1> SUFFICES ASSUME Init PROVE IInv
  OBVIOUS
<1>1. TypeOK BY DEF Init, TypeOK, Places
<1>2. Roles BY DEF Init, Roles, Holding, Owning, Preparing
<1>3. \A b \in Blocks : Holders(b) = {} BY DEF Init, Holders, At
<1>4. Counted BY <1>3, FS_EmptySet DEF Init, Counted, Live
<1>5. Duty /\ Links BY DEF Init, Duty, Links
<1>6. Listed = {} BY DEF Init, Listed
<1>7. Chain BY <1>6 DEF Init, Chain, Closed
<1> QED BY <1>1, <1>2, <1>4, <1>5, <1>7 DEF IInv

LEMMA StepOK == IInv /\ [Next]_vars => IInv'
<1>1. ASSUME IInv, NEW t \in Threads, Start(t) \/ Continue(t) PROVE IInv'
  BY <1>1, TypeStep, RolesStep, CountedStep, DutyStep, LinksStep,
      ChainStep DEF IInv
<1>2. ASSUME IInv, UNCHANGED vars PROVE IInv'
  <2> USE <1>2 DEF vars, list, counts, locals
  <2>1. TypeOK' /\ Roles' BY DEF IInv, TypeOK, Roles, Live
  <2>2. Counted' BY DEF IInv, Counted, Holders, At, Live
  <2>3. Duty' /\ Links' BY DEF IInv, Duty, Adders, At, Links
  <2>4. Listed' = Listed BY DEF Listed, At
  <2>5. Chain' BY <2>4 DEF IInv, Chain, Closed
  <2> QED BY <2>1, <2>2, <2>3, <2>5 DEF IInv
<1> QED BY <1>1, <1>2 DEF Next

THEOREM Invariant == Spec => []IInv
<1> QED BY InitOK, StepOK, PTL DEF Spec

\* Every variable keeps its type; in particular no reference count goes below
\* zero, for any threads and blocks.
THEOREM TypeCorrect == Spec => []TypeOK
<1>1. IInv => TypeOK BY DEF IInv
<1> QED BY <1>1, Invariant, PTL

\* try_get hands a block to one thread only, and the assertion in it holds.
THEOREM OneOwnerHolds == Spec => []OneOwner
<1>1. ASSUME IInv PROVE OneOwner
  BY <1>1 DEF IInv, Roles, OneOwner, At, Owning, Preparing, Live
<1> QED BY <1>1, Invariant, PTL

\* The head is never replaced by a successor it no longer has.
THEOREM SuccessorCurrentHolds == Spec => []SuccessorCurrent
<1>1. ASSUME IInv PROVE SuccessorCurrent
  BY <1>1 DEF IInv, Links, SuccessorCurrent
<1> QED BY <1>1, Invariant, PTL

\* Every block is unused, in use, on the list, or somebody's duty.
THEOREM NothingLostHolds == Spec => []NothingLost
<1>1. ASSUME IInv PROVE Reachable = Listed
  <2>1. Listed \in SUBSET Blocks BY DEF Listed
  <2>2. Reachable \subseteq Listed BY <1>1, <2>1 DEF IInv, Chain, Reachable
  <2>3. Listed \subseteq Reachable BY <1>1, <2>1 DEF IInv, Chain, Reachable
  <2> QED BY <2>2, <2>3
<1>2. ASSUME IInv, NEW b \in Blocks,
    should[b] PROVE Holders(b) \cup Adders(b) # {}
  <2>1. CASE refs[b] > 0
    <3>1. b \notin Live BY <1>2 DEF Live
    <3>2. Cardinality(Holders(b)) # 0 BY <1>2, <2>1, <3>1 DEF IInv, Counted,
        TypeOK
    <3> QED BY <3>2, FS_EmptySet
  <2>2. CASE \E t \in Threads : t \in Adders(b)
    BY <2>2
  <2> QED BY <1>2, <2>1, <2>2 DEF IInv, Duty
<1>3. IInv => NothingLost BY <1>1, <1>2 DEF NothingLost
<1> QED BY <1>3, Invariant, PTL
===============================================================================
