------------------------------- MODULE BlockPool -------------------------------
(***************************************************************************)
(* The blocks of initialBlockPool (concurrentqueue_impl.h): a producer     *)
(* that needs a block takes one never used before or one from the free     *)
(* list, a lock-free stack with reference counts; whoever empties a block  *)
(* puts it back.  Blocks allocated when both are empty are destroyed after *)
(* use (RECYCLE_ALLOCATED_BLOCKS is false) and never get here.             *)
(*                                                                         *)
(* One step is one atomic operation.  freeListRefs is kept as its count    *)
(* and its bit SHOULD_BE_ON_FREELIST.                                      *)
(***************************************************************************)
EXTENDS Integers, FiniteSets

CONSTANTS Threads,
          Blocks,   \* the blocks of initialBlockPool
          Null

ASSUME NullAssumption == Null \notin Blocks
ASSUME FiniteAssumption == IsFiniteSet(Threads) /\ IsFiniteSet(Blocks)

VARIABLES
  fresh,         \* blocks of the pool from initialBlockPoolIndex on
  taken,         \* blocks in use by some producer
  freeListHead, freeListNext,
  refs, should,  \* freeListRefs: the count, and the bit
  pc,            \* where a thread is in try_get or add
  node,          \* the block it works on
  link,          \* the block that follows, as it has read or will write it
  head           \* try_get's next candidate

list == <<freeListHead, freeListNext>>
counts == <<refs, should>>
locals == <<pc, node, link, head>>
vars == <<fresh, taken, list, counts, locals>>

\* pool .. ticket: try_get_block_from_initial_pool.  load .. unref: try_get.
\* top .. undo: add_knowing_refcount_is_zero, `deferred' when try_get runs it.
Places == {"idle", "ticket", "load", "ref", "next", "take", "got", "unref",
           "top", "link", "count", "push", "undo"}

Init ==
  /\ fresh = Blocks /\ taken = {}
  /\ freeListHead = Null /\ freeListNext = [b \in Blocks |-> Null]
  /\ refs = [b \in Blocks |-> 0] /\ should = [b \in Blocks |-> FALSE]
  /\ pc = [t \in Threads |-> "idle"]
  /\ node = [t \in Threads |-> Null]
  /\ link = [t \in Threads |-> Null]
  /\ head = [t \in Threads |-> Null]

GoTo(t, place) == pc' = [pc EXCEPT ![t] = place]
Set(f, t, x) == [f EXCEPT ![t] = x]

\* The call is over, and what it knew is dead.
Return(t) == /\ GoTo(t, "idle") /\ node' = Set(node, t, Null)
             /\ link' = Set(link, t, Null) /\ head' = Set(head, t, Null)

-------------------------------------------------------------------------------
(* requisition_block: try_get_block_from_initial_pool *)

Requisition(t) ==
  /\ pc[t] = "idle"
  /\ GoTo(t, IF fresh = {} THEN "load" ELSE "ticket")
  /\ UNCHANGED <<fresh, taken, list, counts, node, link, head>>

Ticket(t) ==
  /\ pc[t] = "ticket"
  /\ \/ \E b \in fresh : /\ fresh' = fresh \ {b} /\ taken' = taken \cup {b}
                         /\ GoTo(t, "idle")
     \/ fresh = {} /\ GoTo(t, "load") /\ UNCHANGED <<fresh, taken>>
  /\ UNCHANGED <<list, counts, node, link, head>>

-------------------------------------------------------------------------------
(* FreeList::try_get *)

Load(t) ==
  /\ pc[t] = "load"
  /\ head' = Set(head, t, freeListHead) /\ GoTo(t, "ref")
  /\ UNCHANGED <<fresh, taken, list, counts, node, link>>

\* The list is empty: requisition_block allocates a block, or fails.
Empty(t) ==
  /\ pc[t] = "ref" /\ head[t] = Null
  /\ Return(t)
  /\ UNCHANGED <<fresh, taken, list, counts>>

\* Mutant of MayRef: takes a reference to a block that has none.
MayRefAlways(b) == TRUE

MayRef(b) == refs[b] > 0

\* Mutant of Stale: tries the same block again.
StaleRetried == "ref"

\* Where to go on when the block has left the list: the head is read again.
Stale == "load"

Ref(t) ==
  /\ pc[t] = "ref" /\ head[t] # Null
  /\ IF MayRef(head[t])
       THEN /\ refs' = Set(refs, head[t], refs[head[t]] + 1)
            /\ node' = Set(node, t, head[t]) /\ GoTo(t, "next")
       ELSE GoTo(t, Stale) /\ UNCHANGED <<refs, node>>
  /\ UNCHANGED <<fresh, taken, list, should, link, head>>

ReadNext(t) ==
  /\ pc[t] = "next"
  /\ link' = Set(link, t, freeListNext[node[t]]) /\ GoTo(t, "take")
  /\ UNCHANGED <<fresh, taken, list, counts, node, head>>

\* The compare-exchange of the head; if it fails it reads the head.
Take(t) ==
  /\ pc[t] = "take"
  /\ IF freeListHead = node[t]
       THEN freeListHead' = link[t] /\ GoTo(t, "got") /\ UNCHANGED head
       ELSE head' = Set(head, t, freeListHead) /\ GoTo(t, "unref") /\ UNCHANGED freeListHead
  /\ UNCHANGED <<fresh, taken, freeListNext, counts, node, link>>

\* Mutant of Dropped: the list's own reference is left behind.
DroppedOne == 1

\* References dropped with the block: the thread's and the list's.
Dropped == 2

Got(t) ==
  /\ pc[t] = "got"
  /\ refs' = Set(refs, node[t], refs[node[t]] - Dropped)
  /\ taken' = taken \cup {node[t]}
  /\ Return(t)
  /\ UNCHANGED <<fresh, list, should>>

\* Mutant of LastOut: a block to be put back is left to nobody.
LastOutNever(b) == FALSE

\* The reference given up was the last one to a block somebody wants back.
LastOut(b) == refs[b] = 1 /\ should[b]

Unref(t) ==
  /\ pc[t] = "unref"
  /\ refs' = Set(refs, node[t], refs[node[t]] - 1)
  /\ GoTo(t, IF LastOut(node[t]) THEN "top" ELSE "ref")
  /\ UNCHANGED <<fresh, taken, list, should, node, link, head>>

-------------------------------------------------------------------------------
(* FreeList::add *)

\* The last references decide who puts the block on the list.
Add(t, b) ==
  /\ pc[t] = "idle" /\ b \in taken
  /\ taken' = taken \ {b}
  /\ should' = Set(should, b, TRUE)
  /\ IF refs[b] = 0 THEN GoTo(t, "top") /\ node' = Set(node, t, b)
                    ELSE UNCHANGED <<pc, node>>
  /\ UNCHANGED <<fresh, list, refs, link, head>>

\* add_knowing_refcount_is_zero.
ReadTop(t) ==
  /\ pc[t] = "top"
  /\ link' = Set(link, t, freeListHead) /\ GoTo(t, "link")
  /\ UNCHANGED <<fresh, taken, list, counts, node, head>>

WriteNext(t) ==
  /\ pc[t] = "link"
  /\ freeListNext' = Set(freeListNext, node[t], link[t]) /\ GoTo(t, "count")
  /\ UNCHANGED <<fresh, taken, freeListHead, counts, node, link, head>>

SetCount(t) ==
  /\ pc[t] = "count"
  /\ refs' = Set(refs, node[t], 1) /\ should' = Set(should, node[t], FALSE)
  /\ GoTo(t, "push")
  /\ UNCHANGED <<fresh, taken, list, node, link, head>>

\* The block is pushed, or is somebody else's: back to try_get's loop, which
\* ends at once if it was add() that pushed.
Done(t) == IF head[t] = Null THEN Return(t) ELSE GoTo(t, "ref") /\ UNCHANGED <<node, link, head>>

Push(t) ==
  /\ pc[t] = "push"
  /\ IF freeListHead = link[t]
       THEN freeListHead' = node[t] /\ Done(t)
       ELSE /\ link' = Set(link, t, freeListHead) /\ GoTo(t, "undo")
            /\ UNCHANGED <<freeListHead, node, head>>
  /\ UNCHANGED <<fresh, taken, freeListNext, counts>>

\* Mutant of Retries: tries again although others hold the block.
RetriesAlways(b) == TRUE

Retries(b) == refs[b] = 1

\* The push failed: whoever drops the last reference tries again.
Undo(t) ==
  /\ pc[t] = "undo"
  /\ refs' = Set(refs, node[t], refs[node[t]] - 1)
  /\ should' = Set(should, node[t], TRUE)
  /\ IF Retries(node[t]) THEN GoTo(t, "link") /\ UNCHANGED <<node, link, head>> ELSE Done(t)
  /\ UNCHANGED <<fresh, taken, list>>

-------------------------------------------------------------------------------
Continue(t) ==
  \/ Ticket(t) \/ Load(t) \/ Empty(t) \/ Ref(t) \/ ReadNext(t) \/ Take(t) \/ Got(t)
  \/ Unref(t) \/ ReadTop(t) \/ WriteNext(t) \/ SetCount(t) \/ Push(t) \/ Undo(t)

Start(t) == Requisition(t) \/ \E b \in Blocks : Add(t, b)

Next == \E t \in Threads : Start(t) \/ Continue(t)

Spec == Init /\ [][Next]_vars

\* A thread in a call keeps running; nobody has to make a call.
FairSpec == Spec /\ \A t \in Threads : WF_vars(Continue(t))

-------------------------------------------------------------------------------
TypeOK ==
  /\ fresh \subseteq Blocks /\ taken \subseteq Blocks
  /\ freeListHead \in Blocks \cup {Null}
  /\ freeListNext \in [Blocks -> Blocks \cup {Null}]
  /\ refs \in [Blocks -> Nat] /\ should \in [Blocks -> BOOLEAN]
  /\ pc \in [Threads -> Places]
  /\ node \in [Threads -> Blocks \cup {Null}]
  /\ link \in [Threads -> Blocks \cup {Null}]
  /\ head \in [Threads -> Blocks \cup {Null}]

At(places, b) == {t \in Threads : pc[t] \in places /\ node[t] = b}

\* Threads that hold a reference, and those that put the block back.
Holders(b) == At({"next", "take", "got", "unref"}, b)
Adders(b) == At({"top", "link", "count", "push", "undo"}, b)

\* On the list: not in use, and nobody has to put it back.
Listed ==
  {b \in Blocks \ (fresh \cup taken) :
     ~should[b] /\ At({"got", "push", "undo"}, b) = {}}

\* A block that try_get has unlinked is in nobody else's hands: not in use, not
\* unlinked a second time, not about to be put back (the assertion in try_get).
OneOwner ==
  \A t \in Threads : pc[t] = "got" =>
    /\ node[t] \notin taken \cup fresh
    /\ ~should[node[t]]
    /\ At({"got"}, node[t]) = {t}

\* While a thread may still unlink the head, the successor it read is the
\* head's successor: the block was not taken and put back in between.
SuccessorCurrent ==
  \A t \in Threads :
    pc[t] = "take" /\ freeListHead = node[t] => link[t] = freeListNext[node[t]]

\* A set of blocks that contains the head and what follows each of its blocks.
Closed(S) == /\ freeListHead \in S \cup {Null}
             /\ \A b \in S : freeListNext[b] \in S \cup {Null}

\* The blocks that can be reached from the head.
Reachable == {b \in Blocks : \A S \in SUBSET Blocks : Closed(S) => b \in S}

\* No block is lost and none is on the list while in use: the blocks that can
\* be reached are exactly those nobody uses and nobody has to put back, and a
\* block that has to be put back is some thread's duty, now or when it lets go.
NothingLost ==
  /\ Reachable = Listed
  /\ \A b \in Blocks : should[b] => Holders(b) \cup Adders(b) # {}

\* Every call ends if no more calls begin: the loops of try_get and of
\* add_knowing_refcount_is_zero repeat only when another thread got on.
CallsEnd ==
  <>[][~\E t \in Threads : Start(t)]_vars => <>[](\A t \in Threads : pc[t] = "idle")
===============================================================================
