----------------------------- MODULE ProducerHash -----------------------------
(***************************************************************************)
(* How an enqueue finds its sub-queue (get_or_add_implicit_producer in     *)
(* concurrentqueue_impl.h): the fiber's id is looked up in a lock-free     *)
(* hash table and in the smaller tables it replaced; a fiber that is in    *)
(* none gets a producer nobody uses any more, or a new one.                *)
(*                                                                         *)
(* One step is one access to a shared atomic; joining the producer list    *)
(* and subscribing to the thread's exit belong to the step before. Tables  *)
(* are numbered in the order they were allocated, so that the current one  *)
(* is the last and prev is the number before; producers likewise, which is *)
(* the producer list.                                                      *)
(*                                                                         *)
(* A producer is given up when the thread exits on which its fiber asked   *)
(* for it.  Threads belong to the fiber runtime: the model has one exit    *)
(* after the fibers it serves have ended, with the id of one of them or of *)
(* none as the current fiber's, and takes ids to differ from the two that  *)
(* mark slots.                                                             *)
(***************************************************************************)
EXTENDS Integers, Sequences, FiniteSets

CONSTANTS Fibers,
          Ending,        \* those that may end; the others enqueue for ever
          Other,         \* the id of no fiber that enqueues
          Hash,          \* hash_fiber_id
          InitialSize,   \* INITIAL_IMPLICIT_PRODUCER_HASH_SIZE
          MaxProducers,  \* bound: names for producers, one for each fiber
          MaxFailures    \* bound: allocations that fail

Ids == Fibers \cup {Other}
Producers == 1..MaxProducers

ASSUME HashAssumption == /\ Hash \in [Ids -> Nat] /\ Other \notin Fibers /\ Ending \subseteq Fibers
                         /\ InitialSize \in Nat \ {0}
ASSUME BoundsAssumption == /\ IsFiniteSet(Fibers)
                           /\ MaxProducers \in Nat /\ Cardinality(Fibers) <= MaxProducers
                           /\ MaxFailures \in Nat

VARIABLES
  tables,       \* the ImplicitProducerHash objects: [key, value]
  hashCount,    \* implicitProducerHashCount
  resizing,     \* implicitProducerHashResizeInProgress
  created,      \* the producers 1..created are in the producer list
  inactive,     \* those that may be used again
  subscriber,   \* the fiber that asked for a producer last
  call,         \* call[f]: fiber f's call, see NoCall
  mine,         \* mine[f]: the producer f's last successful call returned
  ended,        \* fibers that will not enqueue any more
  exiting,      \* the producer whose exit callback runs
  failures

hashVars == <<tables, hashCount, resizing>>
producerVars == <<created, inactive, subscriber>>
vars == <<hashVars, producerVars, call, mine, ended, exiting, failures>>

invalid_fiber_id == "empty"
invalid_fiber_id2 == "reusable"
ASSUME IdsAssumption == invalid_fiber_id \notin Ids /\ invalid_fiber_id2 \notin Ids
None == 0

NoCall == [pc |-> "idle", main |-> 0,      \* mainHash
           table |-> 0, index |-> 0,       \* the slot probed next
           newCount |-> 0,
           producer |-> None]              \* the next candidate, then the one
NoExit == [producer |-> None, id |-> Other, table |-> 0, index |-> 0]

NewTable(size) == [key |-> [i \in 0..(size - 1) |-> invalid_fiber_id],
                   value |-> [i \in 0..(size - 1) |-> None]]

Init == /\ tables = <<NewTable(InitialSize)>>
        /\ hashCount = 0 /\ resizing = FALSE
        /\ created = 0 /\ inactive = {}
        /\ subscriber = [p \in Producers |-> Other]
        /\ call = [f \in Fibers |-> NoCall]
        /\ mine = [f \in Fibers |-> None]
        /\ ended = {} /\ exiting = NoExit /\ failures = 0

-------------------------------------------------------------------------------
current == Len(tables)
Capacity(t) == Cardinality(DOMAIN tables[t].key)
Slot(id, t) == Hash[id] % Capacity(t)
After(i, t) == (i + 1) % Capacity(t)
Free(key) == key \in {invalid_fiber_id, invalid_fiber_id2}
KeyAt(f) == tables[call[f].table].key[call[f].index]

At(f, place) == call[f].pc = place
GoTo(f, place) == call' = [call EXCEPT ![f].pc = place]
Return(f) == call' = [call EXCEPT ![f] = NoCall]

\* The fiber is at the first slot of table t.
Search(f, t, place) ==
  call' = [call EXCEPT ![f].table = t, ![f].index = Slot(f, t), ![f].pc = place]
NextSlot(f) == call' = [call EXCEPT ![f].index = After(@, call[f].table)]

\* The fiber's id and producer go into the slot it is at.
Store(f, p) ==
  tables' = [tables EXCEPT ![call[f].table].key[call[f].index] = f,
                           ![call[f].table].value[call[f].index] = p]

-------------------------------------------------------------------------------
(* Looking the fiber up *)

Enqueue(f) ==
  /\ At(f, "idle") /\ f \notin ended
  /\ call' = [call EXCEPT ![f] = [NoCall EXCEPT !.pc = "probe", !.main = current,
                                    !.table = current, !.index = Slot(f, current)]]
  /\ UNCHANGED <<hashVars, producerVars, mine, ended, exiting, failures>>

Found(f) ==
  /\ At(f, "probe") /\ KeyAt(f) = f
  /\ LET p == tables[call[f].table].value[call[f].index]
     IN IF call[f].table = call[f].main
          THEN mine' = [mine EXCEPT ![f] = p] /\ Return(f)
          ELSE /\ call' = [call EXCEPT ![f].pc = "readd", ![f].producer = p,
                             ![f].table = call[f].main, ![f].main = 0, ![f].index = Slot(f, call[f].main)]
               /\ UNCHANGED mine
  /\ UNCHANGED <<hashVars, producerVars, ended, exiting, failures>>

\* Mutant of NotInTable: older tables are not looked at.
NotInNewest(f) ==
  /\ At(f, "probe") /\ KeyAt(f) = invalid_fiber_id
  /\ GoTo(f, "count")
  /\ UNCHANGED <<hashVars, producerVars, mine, ended, exiting, failures>>

\* Not in this table: try the one before it.
NotInTable(f) ==
  /\ At(f, "probe") /\ KeyAt(f) = invalid_fiber_id
  /\ IF call[f].table > 1 THEN Search(f, call[f].table - 1, "probe") ELSE GoTo(f, "count")
  /\ UNCHANGED <<hashVars, producerVars, mine, ended, exiting, failures>>

ProbeNext(f) ==
  /\ At(f, "probe") /\ KeyAt(f) \notin {f, invalid_fiber_id}
  /\ NextSlot(f)
  /\ UNCHANGED <<hashVars, producerVars, mine, ended, exiting, failures>>

\* Found in an older table: entered in the current one as well.
ReAdd(f) ==
  /\ At(f, "readd")
  /\ IF Free(KeyAt(f))
       THEN /\ Store(f, call[f].producer)
            /\ mine' = [mine EXCEPT ![f] = call[f].producer] /\ Return(f)
       ELSE NextSlot(f) /\ UNCHANGED <<tables, mine>>
  /\ UNCHANGED <<hashCount, resizing, producerVars, ended, exiting, failures>>

-------------------------------------------------------------------------------
(* Making room *)

Count(f) ==
  /\ At(f, "count")
  /\ hashCount' = hashCount + 1
  /\ call' = [call EXCEPT ![f].newCount = hashCount + 1, ![f].pc = "grow"]
  /\ UNCHANGED <<tables, resizing, producerVars, mine, ended, exiting, failures>>

Crowded(n, t) == n >= Capacity(t) \div 2

LockResize(f) ==
  /\ At(f, "grow")
  /\ IF Crowded(call[f].newCount, call[f].main) /\ ~resizing
       THEN resizing' = TRUE /\ GoTo(f, "resize")
       ELSE GoTo(f, "fit") /\ UNCHANGED resizing
  /\ UNCHANGED <<tables, hashCount, producerVars, mine, ended, exiting, failures>>

\* How often the loop doubles the size again, n being half of it or more.
Turns(n, t) == Cardinality({j \in 0..n : n >= Capacity(t) * 2^j})

\* The new table is at least twice as large and not crowded.
NewSize(n, t) == Capacity(t) * 2^(1 + Turns(n, t))

Resize(f) ==
  /\ At(f, "resize")
  /\ IF Crowded(call[f].newCount, current)
       THEN /\ tables' = Append(tables, NewTable(NewSize(call[f].newCount, current)))
            /\ call' = [call EXCEPT ![f].main = current + 1, ![f].pc = "unlock"]
       ELSE /\ call' = [call EXCEPT ![f].main = current, ![f].pc = "unlock"]
            /\ UNCHANGED tables
  /\ UNCHANGED <<hashCount, resizing, producerVars, mine, ended, exiting, failures>>

UnlockResize(f) ==
  /\ At(f, "unlock")
  /\ resizing' = FALSE /\ GoTo(f, "fit")
  /\ UNCHANGED <<tables, hashCount, producerVars, mine, ended, exiting, failures>>

\* Mutant of Fail: the fiber stays counted.
FailCounted(f) ==
  /\ failures < MaxFailures /\ failures' = failures + 1
  /\ UNCHANGED hashCount

Fail(f) ==
  /\ failures < MaxFailures /\ failures' = failures + 1
  /\ hashCount' = hashCount - 1

\* No memory for a larger table: the enqueue fails.
ResizeFails(f) ==
  /\ At(f, "resize") /\ Crowded(call[f].newCount, current)
  /\ Fail(f) /\ GoTo(f, "abandon")
  /\ UNCHANGED <<tables, resizing, producerVars, mine, ended, exiting>>

\* Mutant of Abandon: the lock is kept.
AbandonLocked(f) ==
  /\ At(f, "abandon")
  /\ Return(f)
  /\ UNCHANGED <<hashVars, producerVars, mine, ended, exiting, failures>>

Abandon(f) ==
  /\ At(f, "abandon")
  /\ resizing' = FALSE /\ Return(f)
  /\ UNCHANGED <<tables, hashCount, producerVars, mine, ended, exiting, failures>>

\* Less than three quarters full: the old table will do.  Otherwise wait for
\* whoever is allocating.
Fit(f) ==
  /\ At(f, "fit")
  /\ call' = [call EXCEPT ![f] =
       IF call[f].newCount < Capacity(call[f].main) \div 2 + Capacity(call[f].main) \div 4
         THEN [@ EXCEPT !.pc = "recycle", !.producer = created, !.newCount = 0]
         ELSE [@ EXCEPT !.pc = "grow", !.main = current]]
  /\ UNCHANGED <<hashVars, producerVars, mine, ended, exiting, failures>>

-------------------------------------------------------------------------------
(* Getting a producer *)

Subscribe(f, p) ==
  /\ subscriber' = [subscriber EXCEPT ![p] = f]
  /\ call' = [call EXCEPT ![f].producer = p, ![f].pc = "insert",
                ![f].table = call[f].main, ![f].main = 0, ![f].index = Slot(f, call[f].main)]

\* Mutant of Recycle: the producer stays free for others.
RecycleShared(f) ==
  /\ At(f, "recycle") /\ call[f].producer # None
  /\ IF call[f].producer \in inactive
       THEN Subscribe(f, call[f].producer)
       ELSE call' = [call EXCEPT ![f].producer = @ - 1] /\ UNCHANGED subscriber
  /\ UNCHANGED <<hashVars, created, inactive, mine, ended, exiting, failures>>

\* recycle_or_create_producer walks the list, newest first.
Recycle(f) ==
  /\ At(f, "recycle") /\ call[f].producer # None
  /\ IF call[f].producer \in inactive
       THEN inactive' = inactive \ {call[f].producer} /\ Subscribe(f, call[f].producer)
       ELSE /\ call' = [call EXCEPT ![f].producer = @ - 1]
            /\ UNCHANGED <<inactive, subscriber>>
  /\ UNCHANGED <<hashVars, created, mine, ended, exiting, failures>>

Create(f) ==
  /\ At(f, "recycle") /\ call[f].producer = None
  /\ created' = created + 1
  /\ Subscribe(f, created + 1)
  /\ UNCHANGED <<hashVars, inactive, mine, ended, exiting, failures>>

CreateFails(f) ==
  /\ At(f, "recycle") /\ call[f].producer = None
  /\ Fail(f) /\ Return(f)
  /\ UNCHANGED <<tables, resizing, producerVars, mine, ended, exiting>>

\* Mutant of Insert: a new slot is taken for one counted before.
InsertUncounted(f) ==
  /\ At(f, "insert")
  /\ IF Free(KeyAt(f))
       THEN Store(f, call[f].producer) /\ GoTo(f, "discount") /\ UNCHANGED mine
       ELSE NextSlot(f) /\ UNCHANGED <<tables, mine>>
  /\ UNCHANGED <<hashCount, resizing, producerVars, ended, exiting, failures>>

Insert(f) ==
  /\ At(f, "insert")
  /\ CASE KeyAt(f) = invalid_fiber_id ->
              /\ Store(f, call[f].producer)
              /\ mine' = [mine EXCEPT ![f] = call[f].producer] /\ Return(f)
       [] KeyAt(f) = invalid_fiber_id2 ->
              Store(f, call[f].producer) /\ GoTo(f, "discount") /\ UNCHANGED mine
       [] OTHER -> NextSlot(f) /\ UNCHANGED <<tables, mine>>
  /\ UNCHANGED <<hashCount, resizing, producerVars, ended, exiting, failures>>

\* A reused slot has been counted before.
Discount(f) ==
  /\ At(f, "discount")
  /\ hashCount' = hashCount - 1
  /\ mine' = [mine EXCEPT ![f] = call[f].producer] /\ Return(f)
  /\ UNCHANGED <<tables, resizing, producerVars, ended, exiting, failures>>

-------------------------------------------------------------------------------
(* Giving it up *)

End(f) ==
  /\ At(f, "idle") /\ f \in Ending \ ended
  /\ ended' = ended \cup {f} /\ mine' = [mine EXCEPT ![f] = None]
  /\ UNCHANGED <<hashVars, producerVars, call, exiting, failures>>

\* implicit_producer_thread_exited, one callback at a time.
ExitThread(p) ==
  /\ exiting = NoExit
  /\ p <= created /\ p \notin inactive /\ subscriber[p] \in ended
  /\ \E id \in {subscriber[p], Other} :
       exiting' = [producer |-> p, id |-> id, table |-> current, index |-> Slot(id, current)]
  /\ UNCHANGED <<hashVars, producerVars, call, mine, ended, failures>>

\* The next older table, in which the id may be too; 0 after the last.
NextTable == exiting' = [exiting EXCEPT !.table = @ - 1,
                           !.index = IF exiting.table = 1 THEN 0
                                     ELSE Slot(exiting.id, exiting.table - 1)]

Forget ==
  /\ exiting # NoExit /\ exiting.table > 0
  /\ LET key == tables[exiting.table].key[exiting.index]
     IN \/ /\ key = exiting.id
           /\ tables' = [tables EXCEPT ![exiting.table].key[exiting.index] = invalid_fiber_id2]
           /\ NextTable
        \/ key = invalid_fiber_id /\ NextTable /\ UNCHANGED tables
        \/ /\ key \notin {exiting.id, invalid_fiber_id}
           /\ exiting' = [exiting EXCEPT !.index = After(@, exiting.table)]
           /\ UNCHANGED tables
  /\ UNCHANGED <<hashCount, resizing, producerVars, call, mine, ended, failures>>

MarkInactive ==
  /\ exiting # NoExit /\ exiting.table = 0
  /\ inactive' = inactive \cup {exiting.producer}
  /\ exiting' = NoExit /\ subscriber' = [subscriber EXCEPT ![exiting.producer] = Other]
  /\ UNCHANGED <<hashVars, created, call, mine, ended, failures>>

-------------------------------------------------------------------------------
Continue(f) ==
  \/ Found(f) \/ NotInTable(f) \/ ProbeNext(f) \/ ReAdd(f)
  \/ Count(f) \/ LockResize(f) \/ Resize(f) \/ ResizeFails(f) \/ Abandon(f)
  \/ UnlockResize(f)
  \/ Fit(f) \/ Recycle(f) \/ Create(f) \/ CreateFails(f) \/ Insert(f) \/ Discount(f)

Next == \/ \E f \in Fibers : Enqueue(f) \/ Continue(f) \/ End(f)
        \/ \E p \in Producers : ExitThread(p)
        \/ Forget \/ MarkInactive

Spec == Init /\ [][Next]_vars

\* A fiber in a call goes on.
FairSpec == Spec /\ \A f \in Fibers : WF_vars(Continue(f))

-------------------------------------------------------------------------------
Keys == Ids \cup {invalid_fiber_id, invalid_fiber_id2}

TypeOK ==
  /\ \A t \in 1..current : /\ tables[t].key \in [DOMAIN tables[t].key -> Keys]
                           /\ tables[t].value \in [DOMAIN tables[t].key -> 0..created]
  /\ hashCount \in 0..Cardinality(Fibers) /\ resizing \in BOOLEAN
  /\ created \in 0..MaxProducers /\ inactive \subseteq 1..created
  /\ subscriber \in [Producers -> Ids]
  /\ \A f \in Fibers : /\ call[f].main \in 0..current /\ call[f].table \in 0..current
                       /\ call[f].producer \in 0..created
  /\ mine \in [Fibers -> 0..created]
  /\ ended \subseteq Ending /\ failures \in 0..MaxFailures

\* The producer f uses or is about to use.
Holds(f) == {mine[f]} \cup (IF call[f].pc \in {"readd", "insert", "discount"} THEN {call[f].producer} ELSE {})

\* Two fibers never enqueue to the same sub-queue, which allows one writer
\* only, and none enqueues to one that others may pick up.
OneFiber ==
  \A f \in Fibers \ ended :
    /\ \A g \in Fibers \ (ended \cup {f}) : Holds(f) \cap Holds(g) \subseteq {None}
    /\ Holds(f) \cap inactive = {}

\* A fiber always gets the same sub-queue, also while tables are replaced:
\* with two its own items could be dequeued out of order.
SameProducer ==
  [][\A f \in Fibers \ ended' : mine[f] # None => mine'[f] = mine[f]]_vars

\* Until a fiber ends, no table fills to three quarters, with the slots of those
\* entered from older tables: the count covers what every table holds, and what
\* those may still put there who were counted long ago.
RoomLeft ==
  ended = {} =>
    \A t \in 1..current :
      LET used == {i \in DOMAIN tables[t].key : tables[t].key[i] # invalid_fiber_id}
      IN 4 * Cardinality(used) < 3 * Capacity(t)

\* The search for a missing id always meets an empty slot ("Not an infinite
\* loop because at least one slot is free in the hash table").
SlotFree ==
  \A t \in 1..current :
    \E i \in DOMAIN tables[t].key : tables[t].key[i] = invalid_fiber_id

\* A call returns, whoever is replacing the table or fails to.
CallsEnd == \A f \in Fibers : ~At(f, "idle") ~> At(f, "idle")
===============================================================================
