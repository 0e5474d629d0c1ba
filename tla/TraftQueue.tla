------------------------------ MODULE TraftQueue ------------------------------
(***************************************************************************)
(* traft::ConcurrentQueueV1 (concurrentqueue.h) on BlockingConcurrentQueue *)
(* (blockingconcurrentqueue_impl.h): an inner queue and a semaphore that   *)
(* counts its items.  A producer enqueues and then signals; a consumer     *)
(* takes permits and then collects as many items, scanning the producers'  *)
(* sub-queues until it has them.                                           *)
(*                                                                         *)
(* One step is one visit to a sub-queue or one operation on the semaphore. *)
(* The semaphore is the bag of permits LightweightSemaphore implements,    *)
(* with its visible count m_count.  An enqueue that fails to allocate      *)
(* returns false and changes nothing, so it is no action.                  *)
(***************************************************************************)
EXTENDS Integers, Sequences, FiniteSets

CONSTANTS Producers, Consumers,
          MaxItems,    \* bound: items each producer enqueues
          Sizes,       \* the max_size arguments callers pass
          ScoreLimit   \* sub-queues try_dequeue scores at most (3)

ASSUME FiniteAssumption == IsFiniteSet(Producers) /\ IsFiniteSet(Consumers)
ASSUME SizesAssumption == Sizes \subseteq Nat \ {0}

VARIABLES
  list,      \* the producer list, newest first
  items,     \* items[p]: p's sub-queue
  sent,      \* sent[p]: items p has enqueued
  signalling,\* producers between inner.enqueue and sema->signal
  permits,   \* permits nobody has taken: m_count plus the waiting consumers
  pc,        \* pc[c]: where consumer c is
  call,      \* call[c]: [max, waits] of its current call
  count,     \* count[c]: items collected so far in it
  need,      \* need[c]: permits not yet turned into items
  scan,      \* scan[c]: sub-queues the current round has still to visit
  seen,      \* seen[c]: sub-queues the scoring round saw non-empty
  received   \* received[c]: all items it got, in order

cons == <<pc, call, count, need, scan, seen>>
vars == <<list, items, sent, signalling, permits, cons, received>>

NoCall == [max |-> 0, waits |-> FALSE]

Init ==
  /\ list = <<>> /\ signalling = {} /\ permits = 0
  /\ items = [p \in Producers |-> <<>>]
  /\ sent = [p \in Producers |-> 0]
  /\ pc = [c \in Consumers |-> "idle"]
  /\ call = [c \in Consumers |-> NoCall]
  /\ count = [c \in Consumers |-> 0]
  /\ need = [c \in Consumers |-> 0]
  /\ scan = [c \in Consumers |-> <<>>]
  /\ seen = [c \in Consumers |-> {}]
  /\ received = [c \in Consumers |-> <<>>]

Lesser(a, b) == IF a < b THEN a ELSE b

Waiting == {c \in Consumers : pc[c] = "waiting"}

\* m_count: what the semaphore's exchanges see.
Visible == permits - Cardinality(Waiting)

SizeApprox == IF Visible > 0 THEN Visible ELSE 0

-------------------------------------------------------------------------------
(* Enqueue *)

\* inner.enqueue: the item is in the sub-queue, which joins the producer list
\* with its first item.
InnerEnqueue(p) ==
  /\ p \notin signalling /\ sent[p] < MaxItems
  /\ list' = IF sent[p] = 0 THEN <<p>> \o list ELSE list
  /\ sent' = [sent EXCEPT ![p] = @ + 1]
  /\ items' = [items EXCEPT ![p] = Append(@, <<p, sent[p] + 1>>)]
  /\ signalling' = signalling \cup {p}
  /\ UNCHANGED <<permits, cons, received>>

\* Mutant of Signal: wakes a consumer only when the semaphore is at zero.
SignalWhenEmpty(p) ==
  /\ p \in signalling
  /\ signalling' = signalling \ {p}
  /\ permits' = IF permits = 0 THEN 1 ELSE permits
  /\ UNCHANGED <<list, items, sent, cons, received>>

Signal(p) ==
  /\ p \in signalling
  /\ signalling' = signalling \ {p}
  /\ permits' = permits + 1
  /\ UNCHANGED <<list, items, sent, cons, received>>

-------------------------------------------------------------------------------
(* The semaphore's part of TryDequeueBulk and WaitDequeueBulkTimed *)

inner == <<list, items, sent, signalling, received>>

GoTo(c, place) == pc' = [pc EXCEPT ![c] = place]

Begin(c, m, w) ==
  /\ pc[c] = "idle"
  /\ GoTo(c, "permits")
  /\ call' = [call EXCEPT ![c] = [max |-> m, waits |-> w]]
  /\ UNCHANGED <<inner, permits, count, need, scan, seen>>

TryDequeueBulk(c, m) == Begin(c, m, FALSE)
WaitDequeueBulkTimed(c, m) == Begin(c, m, TRUE)

Return(c) == /\ GoTo(c, "idle")
             /\ call' = [call EXCEPT ![c] = NoCall]
             /\ count' = [count EXCEPT ![c] = 0]

TakePermits(c, n) == /\ permits' = permits - n
                     /\ need' = [need EXCEPT ![c] = n]

\* Mutant of Wanted: step 2's item is forgotten.
WantedMax(c) == call[c].max

\* max_size at first, max_size - 1 after step 2 obtained an item.
Wanted(c) == call[c].max - count[c]

\* try_dequeue_bulk: tryWaitMany.
TryWaitMany(c) ==
  /\ pc[c] = "permits"
  /\ LET n == Lesser(SizeApprox, Wanted(c))
     IN \/ n > 0 /\ TakePermits(c, n) /\ GoTo(c, "bulk") /\ UNCHANGED <<call, count>>
        \/ /\ n = 0
           /\ IF call[c].waits /\ count[c] = 0
                THEN GoTo(c, "wait") /\ UNCHANGED <<call, count>>
                ELSE Return(c)
           /\ UNCHANGED <<permits, need>>
  /\ UNCHANGED <<inner, scan, seen>>

\* Step 2, wait_dequeue_timed: sema->wait(timeout).
Wait(c) ==
  /\ pc[c] = "wait"
  /\ IF Visible > 0 THEN TakePermits(c, 1) /\ GoTo(c, "single")
                    ELSE GoTo(c, "waiting") /\ UNCHANGED <<permits, need>>
  /\ UNCHANGED <<inner, call, count, scan, seen>>

Wake(c) ==
  /\ pc[c] = "waiting" /\ permits > 0
  /\ TakePermits(c, 1) /\ GoTo(c, "single")
  /\ UNCHANGED <<inner, call, count, scan, seen>>

\* The registration can be undone only while no permit covers it.
TimeOut(c) ==
  /\ pc[c] = "waiting" /\ Visible < 0
  /\ Return(c)
  /\ UNCHANGED <<inner, permits, need, scan, seen>>

-------------------------------------------------------------------------------
(* Collecting the items *)

\* How many items a visit to p gets: what is there, up to n.  When another
\* consumer's claim overlaps the visit it may be less, even nothing
\* (ImplicitProducer: ImplementsSubQueue, AloneGetsAll).
Yields(c, p, n) ==
  {k \in 0..Lesser(Len(items[p]), n) :
     k = Lesser(Len(items[p]), n) \/ Consumers # {c}}

\* Mutant of Dequeue: the newest items first.
DequeueNewest(c, p, k) ==
  /\ received' = [received EXCEPT ![c] =
                     @ \o SubSeq(items[p], Len(items[p]) - k + 1, Len(items[p]))]
  /\ items' = [items EXCEPT ![p] = SubSeq(@, 1, Len(@) - k)]
  /\ need' = [need EXCEPT ![c] = @ - k]
  /\ UNCHANGED <<list, sent, signalling, permits, seen>>

\* c dequeues k items of p.
Dequeue(c, p, k) ==
  /\ received' = [received EXCEPT ![c] = @ \o SubSeq(items[p], 1, k)]
  /\ items' = [items EXCEPT ![p] = SubSeq(@, k + 1, Len(@))]
  /\ need' = [need EXCEPT ![c] = @ - k]
  /\ UNCHANGED <<list, sent, signalling, permits, seen>>

\* Mutant of StartRound: starts after the newest producer.
StartRoundLate(c, from, to) ==
  /\ pc[c] = from
  /\ scan' = [scan EXCEPT ![c] = Tail(list)]
  /\ seen' = [seen EXCEPT ![c] = {}]
  /\ GoTo(c, to)
  /\ UNCHANGED <<inner, permits, call, count, need>>

StartRound(c, from, to) ==
  /\ pc[c] = from
  /\ scan' = [scan EXCEPT ![c] = list]
  /\ seen' = [seen EXCEPT ![c] = {}]
  /\ GoTo(c, to)
  /\ UNCHANGED <<inner, permits, call, count, need>>

\* try_dequeue_bulk: rounds over the list until every permit has its item.
StartBulkRound(c) == scan[c] = <<>> /\ StartRound(c, "bulk", "bulk")

VisitBulk(c) ==
  /\ pc[c] = "bulk" /\ scan[c] # <<>>
  /\ \E k \in Yields(c, Head(scan[c]), need[c]) :
       /\ Dequeue(c, Head(scan[c]), k)
       /\ IF k = need[c]
            THEN Return(c) /\ scan' = [scan EXCEPT ![c] = <<>>]
            ELSE /\ scan' = [scan EXCEPT ![c] = Tail(@)]
                 /\ count' = [count EXCEPT ![c] = @ + k]
                 /\ UNCHANGED <<pc, call>>

\* try_dequeue: look for non-empty sub-queues, at most ScoreLimit of them.
StartScoring(c) == StartRound(c, "single", "score")

Score(c) ==
  /\ pc[c] = "score"
  /\ scan[c] # <<>> /\ Cardinality(seen[c]) < ScoreLimit
  /\ seen' = [seen EXCEPT ![c] = IF items[Head(scan[c])] # <<>>
                                   THEN @ \cup {Head(scan[c])} ELSE @]
  /\ scan' = [scan EXCEPT ![c] = Tail(@)]
  /\ UNCHANGED <<inner, permits, pc, call, count, need>>

\* All looked empty: try_dequeue fails and is called again.
EndScoring(c) ==
  /\ pc[c] = "score"
  /\ scan[c] = <<>> \/ Cardinality(seen[c]) = ScoreLimit
  /\ GoTo(c, IF seen[c] = {} THEN "single" ELSE "best")
  /\ scan' = [scan EXCEPT ![c] = <<>>]
  /\ UNCHANGED <<inner, permits, call, count, need, seen>>

\* The item of step 2 is there; try_dequeue_bulk for the others comes next.
GotOne(c) == /\ GoTo(c, "permits")
             /\ count' = [count EXCEPT ![c] = 1]
             /\ scan' = [scan EXCEPT ![c] = <<>>]

\* The producers of the list but its i-th.
Others(i) == SubSeq(list, 1, i - 1) \o SubSeq(list, i + 1, Len(list))

\* The sub-queue with the best score first, then all the others.
TryBest(c) ==
  /\ pc[c] = "best"
  /\ \E p \in seen[c] : \E k \in Yields(c, p, 1) :
       /\ Dequeue(c, p, k)
       /\ \/ k = 1 /\ GotOne(c)
          \/ /\ k = 0
             /\ \E i \in DOMAIN list :
                  list[i] = p /\ scan' = [scan EXCEPT ![c] = Others(i)]
             /\ GoTo(c, "rest") /\ UNCHANGED count
  /\ UNCHANGED call

TryRest(c) ==
  /\ pc[c] = "rest" /\ scan[c] # <<>>
  /\ \E k \in Yields(c, Head(scan[c]), 1) :
       /\ Dequeue(c, Head(scan[c]), k)
       /\ \/ k = 1 /\ GotOne(c)
          \/ /\ k = 0
             /\ scan' = [scan EXCEPT ![c] = Tail(@)]
             /\ UNCHANGED <<pc, count>>
  /\ UNCHANGED call

\* try_dequeue found nothing after all and is called again.
RestEmpty(c) ==
  /\ pc[c] = "rest" /\ scan[c] = <<>>
  /\ GoTo(c, "single")
  /\ UNCHANGED <<inner, permits, call, count, need, scan, seen>>

-------------------------------------------------------------------------------
Produce(p) == InnerEnqueue(p) \/ Signal(p)

Start(c) == \E m \in Sizes : TryDequeueBulk(c, m) \/ WaitDequeueBulkTimed(c, m)

Continue(c) ==
  \/ TryWaitMany(c) \/ Wait(c) \/ Wake(c) \/ TimeOut(c)
  \/ StartBulkRound(c) \/ VisitBulk(c)
  \/ StartScoring(c) \/ Score(c) \/ EndScoring(c)
  \/ TryBest(c) \/ TryRest(c) \/ RestEmpty(c)

Next == \/ \E p \in Producers : Produce(p)
        \/ \E c \in Consumers : Start(c) \/ Continue(c)

Spec == Init /\ [][Next]_vars

\* A producer finishes the enqueue it began; the consumers call in a loop, as
\* RaftNode's apply fiber and the module test do.
FairSpec == /\ Spec
            /\ \A p \in Producers : WF_vars(Signal(p))
            /\ \A c \in Consumers : WF_vars(Start(c)) /\ WF_vars(Continue(c))

-------------------------------------------------------------------------------
\* The sum of f's values, as the size of the set that has f[x] elements for x.
Cells(f) == UNION {{x} \X (1..f[x]) : x \in DOMAIN f}
Total(f) == Cardinality(Cells(f))

Stored == Total([p \in Producers |-> Len(items[p])])

\* Every permit, taken or not, has its item in the inner queue, and an item
\* lacks its permit only until its producer signals: the loops that collect
\* items always have something left to find, and no item is stranded.
PermitsBacked == Stored = permits + Total(need) + Cardinality(signalling)

\* A call never delivers more items than the caller's buffer holds, counting
\* those its permits still promise (the buffer of ExecuteApplyUserLog_ is a
\* fixed array).
BufferFits ==
  \A c \in Consumers : pc[c] # "idle" => count[c] + need[c] <= call[c].max

\* Each producer's items reach the consumers in the order they were sent, each
\* exactly once.
Channel == INSTANCE FifoChannel WITH chan <- items
ImplementsFifoChannel == Channel!Spec

Delivered(p, i) == \E c \in Consumers : \E k \in DOMAIN received[c] : received[c][k] = <<p, i>>

\* Consumers that keep calling get every item that was enqueued; in
\* particular no call collects for ever.
EverythingDelivered ==
  \A p \in Producers, i \in 1..MaxItems : (sent[p] >= i) ~> Delivered(p, i)
===============================================================================
