--------------------------- MODULE ExplicitProducer ---------------------------
(***************************************************************************)
(* The sub-queue behind a producer token (ExplicitProducer in              *)
(* concurrentqueue_impl.h).  It never gives a block back: its blocks form  *)
(* a ring, and when the one ahead of the tail is empty the tail moves on   *)
(* to it; otherwise a new block is inserted.  The block index is a ring of *)
(* [base, block] entries, of which consumers know the current one, front;  *)
(* the producer alone knows how many are in use.                           *)
(*                                                                         *)
(* Block indexes are numbered, the current one is the last; there is none  *)
(* if the constructor could not allocate it.  BLOCK_SIZE is small enough   *)
(* for a flag per element (EXPLICIT_BLOCK_EMPTY_COUNTER_THRESHOLD).        *)
(***************************************************************************)
EXTENDS ProducerBase

CONSTANTS InitialIndexSize,   \* EXPLICIT_INITIAL_INDEX_SIZE
          MaxIndexSize,       \* bound: a larger block index is not allocated
          LateFailures        \* also failures that leave the index wrong

ASSUME IndexSizesFit ==
  /\ Multiple(InitialIndexSize, 2) /\ Multiple(MaxIndexSize, InitialIndexSize)
  /\ LateFailures \in BOOLEAN

VARIABLES
  headers,        \* the BlockIndexHeader objects: [front, entries]
  pr_blockIndexSlotsUsed, pr_blockIndexFront,
  next,           \* Block::next of the blocks in the ring, Null elsewhere
  emptyFlags,     \* emptyFlags[b]: the offsets whose flag is set
  producer        \* the enqueue under way, see NoEnqueue

index == <<headers, pr_blockIndexSlotsUsed, pr_blockIndexFront>>
ring == <<next, emptyFlags>>
vars == <<base, index, ring, producer>>

NoEnqueue == [pc |-> "idle", count |-> 0,
              chain |-> <<>>,              \* the blocks found for it
              front |-> 0, slots |-> 0]    \* what a failure goes back to

current == Len(headers)
Entries == headers[current].entries
Size(h) == Cardinality(DOMAIN h.entries)

\* pr_blockIndexSize
IndexSize == IF current = 0 THEN InitialIndexSize \div 2 ELSE Size(headers[current])

NoEntry == [base |-> 0, block |-> Null]
Unused(size) == [i \in 0..(size - 1) |-> NoEntry]

\* The constructor, which may fail to allocate the index.
Fresh ==
  /\ InitBase(0) /\ tailBlock = Null /\ free = Blocks
  /\ headers \in {<<>>, <<[front |-> -1, entries |-> Unused(InitialIndexSize)]>>}
  /\ pr_blockIndexSlotsUsed = 0 /\ pr_blockIndexFront = 0
  /\ next = [b \in Blocks |-> Null]

\* Elements came and went, one block sufficed for them.
Used(b, front) ==
  /\ InitBase(Start) /\ tailBlock = b /\ free = Blocks \ {b}
  /\ headers = <<[front |-> front, entries |-> [i \in 0..(InitialIndexSize - 1) |->
       LET back == BLOCK_SIZE * (1 + ((front - i) % InitialIndexSize))
       IN IF back > Start THEN NoEntry ELSE [base |-> Minus(Start, back), block |-> b]]]>>
  /\ pr_blockIndexSlotsUsed = 1 /\ pr_blockIndexFront = (front + 1) % InitialIndexSize
  /\ next = [d \in Blocks |-> IF d = b THEN b ELSE Null]

Init ==
  /\ \/ Fresh
     \/ Start > 0 /\ \E b \in Blocks : Used(b, ((Start \div BLOCK_SIZE) - 1) % InitialIndexSize)
  /\ emptyFlags = [b \in Blocks |-> Offsets]
  /\ producer = NoEnqueue

-------------------------------------------------------------------------------
(* enqueue and enqueue_bulk: the blocks *)

Producing(place) == producer.pc = place
GoTo(place) == producer' = [producer EXCEPT !.pc = place]

NewBase == Plus(Base(Minus(tailIndex, 1)), BLOCK_SIZE * (Len(producer.chain) + 1))

BeginEnqueue(count) ==
  /\ Producing("idle") /\ sent + count <= MaxItems /\ BlocksNeeded(count) > 0
  /\ producer' = [pc |-> "ahead", count |-> count, chain |-> <<>>,
                  front |-> pr_blockIndexFront, slots |-> pr_blockIndexSlotsUsed]
  /\ UNCHANGED <<base, index, ring>>

\* The block after which the next one comes.
Behind == IF producer.chain = <<>> THEN tailBlock ELSE producer.chain[Len(producer.chain)]

firstAllocatedBlock == IF producer.chain = <<>> THEN Null ELSE producer.chain[1]

is_empty(b) == emptyFlags[b] = Offsets

\* Mutant of Reusable: does not ask whether the block ahead is empty.
ReusableFull == Behind # Null /\ next[Behind] # firstAllocatedBlock

\* The block ahead is empty, and not one that this enqueue has taken already.
Reusable ==
  Behind # Null /\ next[Behind] # firstAllocatedBlock /\ is_empty(next[Behind])

More(found) == BlocksNeeded(producer.count) > found

\* b is the next block: its entry is overwritten, the tail moves on to it.
EnterIndex(b, place) ==
  /\ headers' = [headers EXCEPT ![current].entries[pr_blockIndexFront] =
                    [base |-> NewBase, block |-> b]]
  /\ pr_blockIndexFront' = (pr_blockIndexFront + 1) % IndexSize
  /\ producer' = [producer EXCEPT !.chain = Append(@, b),
       !.pc = IF More(Len(producer.chain) + 1) THEN place ELSE "front"]

ReuseBlock ==
  /\ Producing("ahead") /\ Reusable
  /\ EnterIndex(next[Behind], "ahead")
  /\ UNCHANGED <<base, ring, pr_blockIndexSlotsUsed>>

NothingAhead ==
  /\ Producing("ahead") /\ ~Reusable
  /\ GoTo("insert")
  /\ UNCHANGED <<base, index, ring>>

\* Undone, but the inserted blocks stay in the ring: the enqueue has failed.
Fail ==
  /\ LateFailures \/ producer.chain = <<>>
  /\ pr_blockIndexFront' = producer.front /\ pr_blockIndexSlotsUsed' = producer.slots
  /\ tailBlock' = IF tailBlock = Null THEN firstAllocatedBlock ELSE tailBlock
  /\ producer' = NoEnqueue
  /\ UNCHANGED <<counters, elems, free, sent, call, out, ring, headers>>

FailRoom == Producing("insert") /\ Full(NewBase) /\ Fail

\* Mutant of IndexFull: an index may be overwritten as soon as it is there.
IndexFullNever == current = 0

IndexFull == current = 0 \/ pr_blockIndexSlotsUsed = IndexSize

\* Mutant of Oldest: copies the old index without rotating it.
OldestFirst == 0

\* The place of the oldest entry in use.
Oldest == (pr_blockIndexFront - pr_blockIndexSlotsUsed) % IndexSize

\* new_block_index: twice the size, with the entries in use, oldest first.
AllocateIndex ==
  /\ 2 * IndexSize <= MaxIndexSize
  /\ headers' = Append(headers, [front |-> producer.slots - 1,
       entries |-> [i \in 0..(2 * IndexSize - 1) |->
          IF i < pr_blockIndexSlotsUsed THEN Entries[(Oldest + i) % IndexSize] ELSE NoEntry]])
  /\ pr_blockIndexFront' = pr_blockIndexSlotsUsed
  /\ producer' = [producer EXCEPT !.front = producer.slots]
  /\ UNCHANGED <<base, ring, pr_blockIndexSlotsUsed>>

NewBlockIndex ==
  /\ Producing("insert") /\ ~Full(NewBase) /\ IndexFull
  /\ AllocateIndex \/ Fail

\* requisition_block; the new block comes after the one behind it.
InsertBlock ==
  /\ Producing("insert") /\ ~Full(NewBase) /\ ~IndexFull
  /\ \E b \in free :
       /\ free' = free \ {b}
       /\ next' = IF Behind = Null THEN [next EXCEPT ![b] = b]
                  ELSE [next EXCEPT ![b] = next[Behind], ![Behind] = b]
       /\ emptyFlags' = [emptyFlags EXCEPT ![b] = Offsets]
       /\ EnterIndex(b, "insert")
  /\ pr_blockIndexSlotsUsed' = pr_blockIndexSlotsUsed + 1
  /\ UNCHANGED <<counters, tailBlock, elems, sent, call, out>>

\* No block is to be had (other sub-queues may hold the rest of the pool).
FailBlock == Producing("insert") /\ ~Full(NewBase) /\ ~IndexFull /\ Fail

-------------------------------------------------------------------------------
(* enqueue and enqueue_bulk: the elements *)

Found == {producer.chain[j] : j \in DOMAIN producer.chain}

\* Mutant of ExposeBlocks: reset_empty is forgotten.
ExposeUsed ==
  /\ Producing("front")
  /\ headers' = [headers EXCEPT ![current].front = (pr_blockIndexFront - 1) % IndexSize]
  /\ GoTo("publish")
  /\ UNCHANGED <<base, ring, pr_blockIndexSlotsUsed, pr_blockIndexFront>>

\* reset_empty of all blocks found, and the store of the index's front.
ExposeBlocks ==
  /\ Producing("front")
  /\ emptyFlags' = [b \in Blocks |-> IF b \in Found THEN {} ELSE emptyFlags[b]]
  /\ headers' = [headers EXCEPT ![current].front = (pr_blockIndexFront - 1) % IndexSize]
  /\ GoTo("publish")
  /\ UNCHANGED <<base, next, pr_blockIndexSlotsUsed, pr_blockIndexFront>>

Publish ==
  /\ Producing("publish")
  /\ Construct(producer.count, producer.chain)
  /\ producer' = NoEnqueue
  /\ UNCHANGED <<index, ring>>

\* The tail block has room for all.
AppendToTail ==
  /\ Producing("idle")
  /\ \E count \in Counts :
       /\ sent + count <= MaxItems /\ BlocksNeeded(count) = 0
       /\ Construct(count, <<>>)
  /\ UNCHANGED <<index, ring, producer>>

enqueue == 1 \in Counts /\ BeginEnqueue(1)
enqueue_bulk == \E count \in Counts \ {1} : BeginEnqueue(count)

-------------------------------------------------------------------------------
(* dequeue and dequeue_bulk: the elements *)

dequeue_bulk(c) == ClaimElements(c) /\ UNCHANGED <<index, ring, producer>>

\* The block index, its front and the base there are read one after the other.
LoadHeader(c) ==
  /\ At(c, "header")
  /\ call' = [call EXCEPT ![c].header = current, ![c].pc = "front"]
  /\ UNCHANGED <<counters, stored, out, index, ring, producer>>

LoadFront(c) ==
  /\ At(c, "front")
  /\ call' = [call EXCEPT ![c].pos = headers[call[c].header].front, ![c].pc = "key"]
  /\ UNCHANGED <<counters, stored, out, index, ring, producer>>

\* The place of index i's block, counted from that of the front.
PlaceOf(h, front, i) == (front + BlocksBetween(h.entries[front].base, i)) % Size(h)

LoadBase(c) ==
  /\ At(c, "key")
  /\ call' = [call EXCEPT
       ![c].pos = PlaceOf(headers[call[c].header], call[c].pos, call[c].at),
       ![c].pc = "fetch"]
  /\ UNCHANGED <<counters, stored, out, index, ring, producer>>

EntryOf(c) == headers[call[c].header].entries[call[c].pos]

Fetch(c) ==
  /\ At(c, "fetch") /\ EntryOf(c).block \in Blocks   \* always: LookupRight
  /\ MoveOut(c, EntryOf(c).block)
  /\ UNCHANGED <<index, ring, producer>>

\* Mutant of SetManyEmpty: flags from the start of the block.
SetFirstEmpty(c) ==
  /\ At(c, "empty")
  /\ emptyFlags' = [emptyFlags EXCEPT ![call[c].block] = @ \cup 0..(call[c].k - 1)]
  /\ NextBlock(c, Size(headers[call[c].header]))
  /\ UNCHANGED <<counters, stored, index, next, producer>>

\* set_many_empty: the flags of the elements taken.
SetManyEmpty(c) ==
  /\ At(c, "empty")
  /\ LET from == Minus(call[c].at, call[c].k) % BLOCK_SIZE
     IN emptyFlags' = [emptyFlags EXCEPT ![call[c].block] = @ \cup from..(from + call[c].k - 1)]
  /\ NextBlock(c, Size(headers[call[c].header]))
  /\ UNCHANGED <<counters, stored, index, next, producer>>

-------------------------------------------------------------------------------
Produce ==
  \/ enqueue \/ enqueue_bulk \/ ReuseBlock \/ NothingAhead
  \/ FailRoom \/ NewBlockIndex \/ InsertBlock \/ FailBlock
  \/ ExposeBlocks \/ Publish \/ AppendToTail

Consume(c) ==
  \/ dequeue_bulk(c) \/ LoadHeader(c) \/ LoadFront(c) \/ LoadBase(c) \/ Fetch(c)
  \/ SetManyEmpty(c)

Next == Produce \/ \E c \in Consumers : Consume(c)

Spec == Init /\ [][Next]_vars

-------------------------------------------------------------------------------
(* The destructor: what is destroyed when nobody is at work *)

\* Where the block is that the head is in the middle of.
HalfPlace ==
  LET Past(j) == circular_less_than(
                   Plus(Entries[(Oldest + j) % IndexSize].base, BLOCK_SIZE), headIndex)
  IN CHOOSE j \in 0..IndexSize : ~Past(j) /\ \A k \in 0..(j - 1) : Past(k)

halfDequeuedBlock == IF headIndex % BLOCK_SIZE = 0 THEN Null
                     ELSE Entries[(Oldest + HalfPlace) % IndexSize].block

\* Mutant of FirstToDestruct: every block from its beginning.
FirstOfBlock(b) == 0

FirstToDestruct(b) == IF b = halfDequeuedBlock THEN headIndex % BLOCK_SIZE ELSE 0

\* Up to the tail in the tail block, if the tail is in the middle of it.
Destructs(b, o) ==
  /\ next[b] # Null /\ ~is_empty(b)
  /\ o >= FirstToDestruct(b)
  /\ (b = tailBlock /\ tailIndex % BLOCK_SIZE # 0) => o < tailIndex % BLOCK_SIZE

-------------------------------------------------------------------------------
\* The types; the assertions of set_many_empty are in LookupRight.
TypeOK ==
  /\ BaseTypeOK
  /\ \A h \in 1..current :
       /\ headers[h].front \in {-1} \cup DOMAIN headers[h].entries
       /\ \A e \in DOMAIN headers[h].entries :
            headers[h].entries[e] \in [base : Indexes, block : Blocks \cup {Null}]
  /\ pr_blockIndexSlotsUsed \in 0..IndexSize /\ pr_blockIndexFront \in 0..(IndexSize - 1)
  /\ next \in [Blocks -> Blocks \cup {Null}] /\ emptyFlags \in [Blocks -> SUBSET Offsets]
  /\ producer.chain \in Seq(Blocks)
  /\ \A b \in Blocks : next[b] = Null <=> b \in free

\* A consumer finds the block of its element by counting from the front it
\* read, also when blocks are entered, the front is moved or the index is
\* replaced between its reads; the element's flag is not set yet (the
\* assertion of set_empty).
LookupRight ==
  \A c \in Consumers : At(c, "fetch") =>
    /\ EntryOf(c).base = Base(call[c].at) /\ EntryOf(c).block \in Blocks
    /\ call[c].at % BLOCK_SIZE \notin emptyFlags[EntryOf(c).block]

Awaited == {Plus(headIndex, j) : j \in 0..(Minus(tailIndex, headIndex) - 1)}
           \cup UNION {{Plus(call[c].at, j) : j \in 0..(call[c].n - 1)} :
                         c \in {d \in Consumers : Taking(d)}}

\* "guaranteed to be room since we're conceptually removing the last block from
\* it first": a block entered in the index overwrites no entry, and a larger
\* index leaves none out, that leads to an element somebody has yet to take.
RoomInIndex ==
  \A i \in Awaited : \E e \in DOMAIN Entries : Entries[e].base = Base(i)

Placed(i) == LET h == headers[current] IN h.entries[PlaceOf(h, h.front, i)]
Stored(i) == LET b == Placed(i).block
             IN IF b = Null THEN Null ELSE elems[b][i % BLOCK_SIZE]
Stretch(from, n) == [j \in 1..n |-> Stored(Plus(from, j - 1))]

\* The elements between head and tail are a first-in first-out stream, an
\* enqueue_bulk enters it as a whole, and what a consumer has taken is its own:
\* the producer does not come round the ring and overwrite it before the
\* consumer has moved it out.
Channel == INSTANCE SubQueue WITH
  chan <- Stretch(headIndex, Minus(tailIndex, headIndex)),
  out <- [c \in Consumers |->
            out[c] \o (IF Taking(c) THEN Stretch(call[c].at, call[c].n) ELSE <<>>)]
ImplementsSubQueue == Channel!Spec

Quiet == Producing("idle") /\ \A c \in Consumers : At(c, "idle")

\* When nobody is at work, the destructor destroys exactly the elements that
\* were not dequeued, each once: it finds its way by the index, the flags and
\* the two counters alone.
DestructorExact ==
  Quiet => \A b \in Blocks, o \in Offsets : Destructs(b, o) <=> elems[b][o] # Null
===============================================================================
