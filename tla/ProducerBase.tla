----------------------------- MODULE ProducerBase -----------------------------
(***************************************************************************)
(* What the two kinds of sub-queue of the concurrent queue share           *)
(* (ProducerBase in concurrentqueue_impl.h, and code that ImplicitProducer *)
(* and ExplicitProducer repeat): one fiber appends elements to blocks, any *)
(* number of consumers take them from the front.                           *)
(*                                                                         *)
(* A consumer claims optimistically, learns from the tail how much of the  *)
(* claim is covered, gives the rest back as overcommit, and only then      *)
(* advances the head.  How it finds the elements, and what becomes of the  *)
(* emptied block, is left to the modules that extend this one.             *)
(*                                                                         *)
(* One step is one access to a shared atomic, with the private work around *)
(* it.  The four counters wrap around at W.  dequeue is dequeue_bulk with  *)
(* max = 1 and enqueue is enqueue_bulk with count = 1.  Fields of a call   *)
(* that are no longer used go back to their first value.                   *)
(***************************************************************************)
EXTENDS Integers, Sequences, FiniteSets

CONSTANTS Consumers, Blocks, Null,
          BLOCK_SIZE,
          W,         \* 2^w for the w bits of index_t
          MAX_SUBQUEUE_SIZE,   \* W or more: no limit
          Start,     \* elements that came and went before
          MaxItems,  \* bound: elements enqueued
          Counts,    \* the count arguments of the enqueues
          Sizes      \* the max arguments of the bulk dequeues

Multiple(x, y) == \E k \in 1..x : x = k * y

\* No enqueue is as long as half the range of the counters.
ASSUME SizesFit ==
  /\ BLOCK_SIZE \in Nat /\ BLOCK_SIZE > 1
  /\ W \in Nat /\ Multiple(W, 2 * BLOCK_SIZE)
  /\ Start \in Nat /\ Start % BLOCK_SIZE = 0
  /\ MAX_SUBQUEUE_SIZE \in Nat /\ MaxItems \in Nat
  /\ Counts \subseteq 1..(W \div 2 - BLOCK_SIZE) /\ Sizes \subseteq Nat \ {0}

ASSUME NullAssumption == Null \notin Blocks /\ \A n \in 1..MaxItems : n # Null
ASSUME FiniteAssumption == IsFiniteSet(Consumers)

VARIABLES
  tailIndex, headIndex, dequeueOptimisticCount, dequeueOvercommit,
  tailBlock,
  elems,        \* elems[b]: the elements constructed in b, Null elsewhere
  free,         \* the blocks of the pool
  sent,         \* elements enqueued so far
  call,         \* call[c]: consumer c's dequeue, see NoCall
  out           \* out[c]: what the call under way has put in the caller's buffer

counters == <<tailIndex, headIndex, dequeueOptimisticCount, dequeueOvercommit>>
stored == <<tailBlock, elems, free, sent>>
base == <<counters, stored, call, out>>

NoCall == [pc |-> "idle", max |-> 0,
           tail |-> 0, over |-> 0,     \* values read
           n |-> 0,                    \* elements wanted, then still to take
           at |-> 0,                   \* the claim, then the next index
           header |-> 0, pos |-> 0,    \* the place in the block index
           block |-> Null, k |-> 0,    \* being emptied, and of how many
           alone |-> FALSE,            \* no other dequeue since it began
           due |-> 0]                  \* what it should get then

Offsets == 0..(BLOCK_SIZE - 1)
Indexes == 0..(W - 1)

Minus(a, b) == (a - b) % W
Plus(a, b) == (a + b) % W
circular_less_than(a, b) == Minus(a, b) > W \div 2
Lesser(a, b) == IF a < b THEN a ELSE b

Base(i) == i - (i % BLOCK_SIZE)
Signed(x) == IF x >= W \div 2 THEN x - W ELSE x

\* Blocks from that of index i to that of index j.
BlocksBetween(i, j) == Signed(Minus(Base(j), Base(i))) \div BLOCK_SIZE

\* n elements came and went.
InitBase(n) ==
  /\ tailIndex = n % W /\ headIndex = n % W
  /\ dequeueOptimisticCount = n % W /\ dequeueOvercommit = 0
  /\ elems = [b \in Blocks |-> [o \in Offsets |-> Null]]
  /\ sent = 0
  /\ call = [c \in Consumers |-> NoCall]
  /\ out = [c \in Consumers |-> <<>>]

-------------------------------------------------------------------------------
(* enqueue and enqueue_bulk *)

\* How many blocks count elements need beyond the one the tail is in.
BlocksNeeded(count) == BlocksBetween(Minus(tailIndex, 1), Plus(tailIndex, count - 1))

\* Another block, at base b, might let the tail pass the head, or make the
\* sub-queue longer than its user allows.
Full(b) == \/ ~circular_less_than(headIndex, Plus(b, BLOCK_SIZE))
           \/ MAX_SUBQUEUE_SIZE - BLOCK_SIZE < Minus(b, headIndex)

\* The elements are constructed and the tail stored.  `chain' holds the blocks
\* found for them, beyond the tail block.
Construct(count, chain) ==
  LET Target(j) == LET n == BlocksBetween(Minus(tailIndex, 1), Plus(tailIndex, j))
                   IN <<IF n = 0 THEN tailBlock ELSE chain[n], Plus(tailIndex, j) % BLOCK_SIZE>>
  IN /\ elems' = [b \in Blocks |-> [o \in Offsets |->
                    IF \E j \in 0..(count - 1) : Target(j) = <<b, o>>
                      THEN sent + 1 + (CHOOSE j \in 0..(count - 1) : Target(j) = <<b, o>>)
                      ELSE elems[b][o]]]
     /\ tailBlock' = IF chain = <<>> THEN tailBlock ELSE chain[Len(chain)]
     /\ tailIndex' = Plus(tailIndex, count) /\ sent' = sent + count
     /\ UNCHANGED <<headIndex, dequeueOptimisticCount, dequeueOvercommit, free, call, out>>

-------------------------------------------------------------------------------
(* dequeue and dequeue_bulk *)

At(c, place) == call[c].pc = place

\* The first read of the tail; others are not alone any more.
Begin(c, m) ==
  /\ At(c, "idle")
  /\ LET alone == \A d \in Consumers \ {c} : At(d, "idle")
     IN call' = [d \in Consumers |->
          IF d = c THEN [NoCall EXCEPT !.pc = "overcommit", !.max = m, !.tail = tailIndex,
                           !.alone = alone,
                           !.due = IF alone THEN Lesser(m, Minus(tailIndex, headIndex)) ELSE 0]
                   ELSE [call[d] EXCEPT !.alone = FALSE, !.due = 0]]
  /\ UNCHANGED <<counters, stored, out>>

ReadOvercommit(c) ==
  /\ At(c, "overcommit")
  /\ call' = [call EXCEPT ![c].over = dequeueOvercommit, ![c].pc = "look"]
  /\ UNCHANGED <<counters, stored, out>>

\* How much a reader of these three values takes to be there.
Covered(tail, optimistic, over) ==
  LET n == Minus(tail, optimistic - over)
  IN IF circular_less_than(0, n) THEN n ELSE 0

Look(c) ==
  /\ At(c, "look")
  /\ LET n == Covered(call[c].tail, dequeueOptimisticCount, call[c].over)
     IN call' = [call EXCEPT ![c] = IF n = 0 THEN NoCall
                   ELSE [@ EXCEPT !.n = Lesser(n, call[c].max), !.pc = "claim",
                                        !.max = 0, !.tail = 0]]
  /\ UNCHANGED <<counters, stored, out>>

Claim(c) ==
  /\ At(c, "claim")
  /\ dequeueOptimisticCount' = Plus(dequeueOptimisticCount, call[c].n)
  /\ call' = [call EXCEPT ![c].at = dequeueOptimisticCount, ![c].pc = "settle"]
  /\ UNCHANGED <<tailIndex, headIndex, dequeueOvercommit, stored, out>>

\* Mutant of Granted: trusts the first look.
GrantedUnchecked(c) == call[c].n

\* The tail is read again: how much of the claim it covers.
Granted(c) == Lesser(call[c].n, Covered(tailIndex, call[c].at, call[c].over))

\* k is what is to be given back.
Settle(c) ==
  /\ At(c, "settle")
  /\ LET n == Granted(c)
     IN call' = [call EXCEPT ![c].n = n, ![c].k = call[c].n - n,
                             ![c].at = 0, ![c].over = 0,
                             ![c].pc = IF n < call[c].n THEN "giveback" ELSE "take"]
  /\ UNCHANGED <<counters, stored, out>>

\* Mutant of GiveBack: an empty-handed call keeps its claim.
GiveBackSome(c) ==
  /\ At(c, "giveback")
  /\ dequeueOvercommit' = Plus(dequeueOvercommit, IF call[c].n = 0 THEN 0 ELSE call[c].k)
  /\ call' = [call EXCEPT ![c] = IF @.n = 0 THEN NoCall
                                 ELSE [@ EXCEPT !.k = 0, !.pc = "take"]]
  /\ UNCHANGED <<tailIndex, headIndex, dequeueOptimisticCount, stored, out>>

GiveBack(c) ==
  /\ At(c, "giveback")
  /\ dequeueOvercommit' = Plus(dequeueOvercommit, call[c].k)
  /\ call' = [call EXCEPT ![c] = IF @.n = 0 THEN NoCall
                                 ELSE [@ EXCEPT !.k = 0, !.pc = "take"]]
  /\ UNCHANGED <<tailIndex, headIndex, dequeueOptimisticCount, stored, out>>

Take(c) ==
  /\ At(c, "take")
  /\ headIndex' = Plus(headIndex, call[c].n)
  /\ call' = [call EXCEPT ![c].at = headIndex, ![c].pc = "header",
                          ![c].alone = FALSE, ![c].due = 0]
  /\ UNCHANGED <<tailIndex, dequeueOptimisticCount, dequeueOvercommit, stored, out>>

\* All of it up to the head.
ClaimElements(c) ==
  \/ \E m \in Sizes \cup {1} : Begin(c, m)
  \/ ReadOvercommit(c) \/ Look(c) \/ Claim(c) \/ Settle(c) \/ GiveBack(c) \/ Take(c)

\* The elements c takes from block b are moved out and destroyed.
MoveOut(c, b) ==
  LET from == call[c].at % BLOCK_SIZE
      k == Lesser(call[c].n, BLOCK_SIZE - from)
  IN /\ out' = [out EXCEPT ![c] = @ \o [j \in 1..k |-> elems[b][from + j - 1]]]
     /\ elems' = [elems EXCEPT ![b] = [o \in Offsets |->
                    IF o \in from..(from + k - 1) THEN Null ELSE @[o]]]
     /\ call' = [call EXCEPT ![c].block = b, ![c].k = k, ![c].n = @ - k,
                             ![c].at = Plus(@, k), ![c].pc = "empty"]
     /\ UNCHANGED <<counters, tailBlock, free, sent>>

\* Done, or on to the next of an index of this size.
NextBlock(c, size) ==
  IF call[c].n = 0
    THEN call' = [call EXCEPT ![c] = NoCall] /\ out' = [out EXCEPT ![c] = <<>>]
    ELSE /\ call' = [call EXCEPT ![c].pos = (@ + 1) % size, ![c].block = Null,
                                 ![c].k = 0, ![c].pc = "fetch"]
         /\ UNCHANGED out

-------------------------------------------------------------------------------
Places == {"idle", "overcommit", "look", "claim", "settle", "giveback", "take",
           "header", "front", "key", "fetch", "empty", "clear", "free"}

Calls == [pc : Places, max : Sizes \cup {0, 1}, tail : Indexes, over : Indexes,
          n : Nat, at : Indexes, header : Nat, pos : Nat,
          block : Blocks \cup {Null}, k : 0..W, alone : BOOLEAN, due : Indexes]

BaseTypeOK ==
  /\ {tailIndex, headIndex, dequeueOptimisticCount, dequeueOvercommit} \subseteq Indexes
  /\ tailBlock \in Blocks \cup {Null} /\ free \subseteq Blocks
  /\ elems \in [Blocks -> [Offsets -> 1..MaxItems \cup {Null}]]
  /\ sent \in 0..MaxItems
  /\ call \in [Consumers -> Calls]
  /\ \A c \in Consumers : out[c] \in Seq(1..MaxItems \cup {Null})

Taking(c) == call[c].pc \in {"header", "front", "key", "fetch", "empty", "clear", "free"}

\* A dequeue that no other one overlaps gets all that was there when it began,
\* up to max: what others over-claimed has been given back in full.
AloneGetsAll ==
  [][\A c \in Consumers :
       /\ call[c].alone
       /\ call[c].pc \in {"look", "giveback", "take"}
       /\ call'[c].pc \in {"idle", "header"}
       => call[c].n = call[c].due]_call
===============================================================================
