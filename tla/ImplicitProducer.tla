--------------------------- MODULE ImplicitProducer ---------------------------
(***************************************************************************)
(* One sub-queue of the concurrent queue (ImplicitProducer in              *)
(* concurrentqueue_impl.h): the fiber that owns it appends elements to     *)
(* blocks from the pool, one or many at a time; consumers take them from   *)
(* the front (ProducerBase).  A consumer finds the block of an element     *)
(* through the block index and, if it emptied the block, returns it to     *)
(* the pool.                                                               *)
(*                                                                         *)
(* Block indexes are numbered, the current one is the last.                *)
(***************************************************************************)
EXTENDS ProducerBase

CONSTANTS InitialIndexSize,  \* IMPLICIT_INITIAL_INDEX_SIZE
          MaxIndexSize       \* bound: a larger block index is not allocated

\* The blocks of an index, which is an array in memory, span no more than half
\* the range of the counters.
ASSUME IndexSizesFit ==
  /\ InitialIndexSize \in Nat /\ InitialIndexSize > 1
  /\ MaxIndexSize \in Nat /\ Multiple(MaxIndexSize, InitialIndexSize)
  /\ MaxIndexSize * BLOCK_SIZE <= W \div 2

VARIABLES
  key, value,   \* of the BlockIndexEntry objects, whose names are numbers
  headers,      \* the BlockIndexHeader objects: [tail, index]
  emptied,      \* emptied[b]: elementsCompletelyDequeued
  producer      \* the enqueue under way, see NoEnqueue

blockIndex == <<key, value, headers>>
vars == <<base, blockIndex, emptied, producer>>

INVALID_BLOCK_BASE == 1

NoEnqueue == [pc |-> "idle", count |-> 0,
              chain |-> <<>>,   \* the blocks it has allocated
              undone |-> 0]     \* of these, after a failure

Entries == 0..(MaxIndexSize - 1)
Capacity(h) == Cardinality(DOMAIN h.index)

\* Blocks numbered 0, 1, ... have passed through the entries in turn.
LastUser(e) == {q \in 0..(Start \div BLOCK_SIZE - 1) :
                  /\ q % InitialIndexSize = e
                  /\ q + InitialIndexSize >= Start \div BLOCK_SIZE}

Init ==
  /\ InitBase(Start)
  /\ tailBlock = Null /\ free = Blocks
  /\ key = [e \in Entries |->
              IF \E q \in LastUser(e) : TRUE
                THEN ((CHOOSE q \in LastUser(e) : TRUE) * BLOCK_SIZE) % W
                ELSE INVALID_BLOCK_BASE]
  /\ value = [e \in Entries |-> Null]
  /\ headers = <<[tail |-> (Start \div BLOCK_SIZE - 1) % InitialIndexSize,
                  index |-> [i \in 0..(InitialIndexSize - 1) |-> i]]>>
  /\ emptied = [b \in Blocks |-> 0]
  /\ producer = NoEnqueue

-------------------------------------------------------------------------------
(* enqueue and enqueue_bulk: the blocks *)

current == Len(headers)
NextTail(h) == (h.tail + 1) % Capacity(h)
NextEntry(h) == h.index[NextTail(h)]
TailEntry(h) == h.index[h.tail]

Producing(place) == producer.pc = place
GoTo(place) == producer' = [producer EXCEPT !.pc = place]

\* The base of the next block to allocate: currentTailIndex.
NewBase == Plus(Base(Minus(tailIndex, 1)), BLOCK_SIZE * (Len(producer.chain) + 1))

\* The elements need more blocks than the tail block.
BeginEnqueue(count) ==
  /\ Producing("idle") /\ sent + count <= MaxItems /\ BlocksNeeded(count) > 0
  /\ ~Full(NewBase)
  /\ producer' = [NoEnqueue EXCEPT !.pc = "insert", !.count = count]
  /\ UNCHANGED <<base, blockIndex, emptied>>

\* Is there room for one block more?
CheckRoom ==
  /\ Producing("room")
  /\ GoTo(IF Full(NewBase) THEN "undo" ELSE "insert")
  /\ UNCHANGED <<base, blockIndex, emptied>>

Reusable(e) == key[e] = INVALID_BLOCK_BASE \/ value[e] = Null

\* insert_block_index_entry: the next entry becomes this block's ...
InsertBlockIndexEntry ==
  /\ Producing("insert") /\ Reusable(NextEntry(headers[current]))
  /\ key' = [key EXCEPT ![NextEntry(headers[current])] = NewBase]
  /\ GoTo("advance")
  /\ UNCHANGED <<base, value, headers, emptied>>

\* ... and is the tail of the block index.
AdvanceIndexTail ==
  /\ Producing("advance")
  /\ headers' = [headers EXCEPT ![current].tail = NextTail(headers[current])]
  /\ GoTo("requisition")
  /\ UNCHANGED <<base, key, value, emptied>>

\* Mutant of Rotated: copies the old index without rotating it.
RotatedNot(h) == [i \in 0..(2 * Capacity(h) - 1) |->
                    IF i < Capacity(h) THEN h.index[i] ELSE i]

\* The old entries, oldest first, and as many new ones.
Rotated(h) == [i \in 0..(2 * Capacity(h) - 1) |->
                 IF i < Capacity(h) THEN h.index[(h.tail + 1 + i) % Capacity(h)] ELSE i]

\* new_block_index: twice the size.
AllocateIndex(h) ==
  /\ 2 * Capacity(h) <= MaxIndexSize
  /\ headers' = Append(headers, [tail |-> Capacity(h) - 1, index |-> Rotated(h)])

\* The next entry is in use: a larger index, or the enqueue fails.
NewBlockIndex ==
  /\ Producing("insert") /\ ~Reusable(NextEntry(headers[current]))
  /\ \/ AllocateIndex(headers[current]) /\ UNCHANGED producer
     \/ GoTo("undo") /\ UNCHANGED headers
  /\ UNCHANGED <<base, key, value, emptied>>

\* b is in the index and at the end of the chain.
EnterBlock(b) ==
  /\ free' = free \ {b}
  /\ value' = [value EXCEPT ![TailEntry(headers[current])] = b]
  /\ producer' = [producer EXCEPT
       !.chain = Append(@, b),
       !.pc = IF BlocksNeeded(producer.count) > Len(producer.chain) + 1 THEN "room" ELSE "publish"]

\* Mutant of RequisitionBlock: reset_empty is forgotten.
RequisitionUsed ==
  /\ Producing("requisition")
  /\ \E b \in free : EnterBlock(b)
  /\ UNCHANGED <<counters, tailBlock, elems, sent, call, out, key, headers, emptied>>

\* requisition_block, reset_empty; nobody else sees the block before the store
\* that enters it in the index.
RequisitionBlock ==
  /\ Producing("requisition")
  /\ \E b \in free : EnterBlock(b) /\ emptied' = [emptied EXCEPT ![b] = 0]
  /\ UNCHANGED <<counters, tailBlock, elems, sent, call, out, key, headers>>

RewindBlockIndexTail ==
  headers' = [headers EXCEPT ![current].tail = (@ - 1) % Capacity(headers[current])]

\* No block is to be had (other sub-queues may hold the rest of the pool).
FailBlock ==
  /\ Producing("requisition") /\ RewindBlockIndexTail
  /\ value' = [value EXCEPT ![TailEntry(headers[current])] = Null]
  /\ GoTo("undo")
  /\ UNCHANGED <<base, key, emptied>>

-------------------------------------------------------------------------------
(* enqueue and enqueue_bulk: the elements, or giving up *)

\* The place of index i's block, counted from that of the tail.
PlaceOf(h, tail, i) == (tail + BlocksBetween(key[h.index[tail]], i)) % Capacity(h)

Placed(i) == LET h == headers[current] IN h.index[PlaceOf(h, h.tail, i)]

\* Mutant of UndoBlock: the entry keeps the block.
UndoTail ==
  /\ Producing("undo") /\ producer.undone < Len(producer.chain)
  /\ RewindBlockIndexTail
  /\ producer' = [producer EXCEPT !.undone = @ + 1]
  /\ UNCHANGED <<base, key, value, emptied>>

\* The allocated blocks leave the index, the first one first ...
UndoBlock ==
  /\ Producing("undo") /\ producer.undone < Len(producer.chain)
  /\ LET i == Plus(Base(Minus(tailIndex, 1)), BLOCK_SIZE * (producer.undone + 1))
     IN value' = [value EXCEPT ![Placed(i)] = Null]
  /\ RewindBlockIndexTail
  /\ producer' = [producer EXCEPT !.undone = @ + 1]
  /\ UNCHANGED <<base, key, emptied>>

\* ... and go back to the pool: the enqueue has failed.
FreeChain ==
  /\ Producing("undo") /\ producer.undone = Len(producer.chain)
  /\ free' = free \cup {producer.chain[j] : j \in DOMAIN producer.chain}
  /\ producer' = NoEnqueue
  /\ UNCHANGED <<counters, tailBlock, elems, sent, call, out, blockIndex, emptied>>

Publish ==
  /\ Producing("publish")
  /\ Construct(producer.count, producer.chain)
  /\ producer' = NoEnqueue
  /\ UNCHANGED <<blockIndex, emptied>>

\* The tail block has room for all.
AppendToTail ==
  /\ Producing("idle")
  /\ \E count \in Counts :
       /\ sent + count <= MaxItems /\ BlocksNeeded(count) = 0
       /\ Construct(count, <<>>)
  /\ UNCHANGED <<producer, blockIndex, emptied>>

enqueue == 1 \in Counts /\ BeginEnqueue(1)
enqueue_bulk == \E count \in Counts \ {1} : BeginEnqueue(count)

-------------------------------------------------------------------------------
(* dequeue and dequeue_bulk: the elements *)

dequeue_bulk(c) == ClaimElements(c) /\ UNCHANGED <<blockIndex, emptied, producer>>

\* get_block_index_index_for_index reads the index, its tail and the tail's key.
LoadHeader(c) ==
  /\ At(c, "header")
  /\ call' = [call EXCEPT ![c].header = current, ![c].pc = "front"]
  /\ UNCHANGED <<counters, stored, out, blockIndex, emptied, producer>>

LoadTail(c) ==
  /\ At(c, "front")
  /\ call' = [call EXCEPT ![c].pos = headers[call[c].header].tail, ![c].pc = "key"]
  /\ UNCHANGED <<counters, stored, out, blockIndex, emptied, producer>>

LoadKey(c) ==
  /\ At(c, "key")
  /\ call' = [call EXCEPT
       ![c].pos = PlaceOf(headers[call[c].header], call[c].pos, call[c].at),
       ![c].pc = "fetch"]
  /\ UNCHANGED <<counters, stored, out, blockIndex, emptied, producer>>

EntryOf(c) == headers[call[c].header].index[call[c].pos]

Fetch(c) ==
  /\ At(c, "fetch") /\ value[EntryOf(c)] \in Blocks   \* always: LookupRight
  /\ MoveOut(c, value[EntryOf(c)])
  /\ UNCHANGED <<blockIndex, emptied, producer>>

OnToNext(c) == NextBlock(c, Capacity(headers[call[c].header]))

\* Mutant of SetManyEmpty: counts calls, not elements.
SetOneEmpty(c) ==
  /\ At(c, "empty")
  /\ emptied' = [emptied EXCEPT ![call[c].block] = @ + 1]
  /\ IF emptied[call[c].block] + 1 = BLOCK_SIZE
       THEN call' = [call EXCEPT ![c].pc = "clear"] /\ UNCHANGED out
       ELSE OnToNext(c)
  /\ UNCHANGED <<counters, stored, blockIndex, producer>>

\* set_many_empty: did this call empty the block?
SetManyEmpty(c) ==
  /\ At(c, "empty")
  /\ emptied' = [emptied EXCEPT ![call[c].block] = @ + call[c].k]
  /\ IF emptied[call[c].block] + call[c].k = BLOCK_SIZE
       THEN call' = [call EXCEPT ![c].pc = "clear"] /\ UNCHANGED out
       ELSE OnToNext(c)
  /\ UNCHANGED <<counters, stored, blockIndex, producer>>

ClearEntry(c) ==
  /\ At(c, "clear")
  /\ value' = [value EXCEPT ![EntryOf(c)] = Null]
  /\ call' = [call EXCEPT ![c].pc = "free"]
  /\ UNCHANGED <<counters, stored, out, key, headers, emptied, producer>>

\* add_block_to_free_list.
FreeBlock(c) ==
  /\ At(c, "free")
  /\ free' = free \cup {call[c].block}
  /\ OnToNext(c)
  /\ UNCHANGED <<counters, tailBlock, elems, sent, blockIndex, emptied, producer>>

-------------------------------------------------------------------------------
Produce ==
  \/ enqueue \/ enqueue_bulk \/ CheckRoom
  \/ InsertBlockIndexEntry \/ AdvanceIndexTail \/ NewBlockIndex
  \/ RequisitionBlock \/ FailBlock \/ UndoBlock \/ FreeChain \/ AppendToTail \/ Publish

Consume(c) ==
  \/ dequeue_bulk(c) \/ LoadHeader(c) \/ LoadTail(c) \/ LoadKey(c) \/ Fetch(c)
  \/ SetManyEmpty(c) \/ ClearEntry(c) \/ FreeBlock(c)

Next == Produce \/ \E c \in Consumers : Consume(c)

Spec == Init /\ [][Next]_vars

-------------------------------------------------------------------------------
(* The destructor: what is destroyed and given back when nobody is at work *)

Remaining == Minus(tailIndex, headIndex)
ValueOf(i) == value[Placed(i)]

\* The place of the j-th element that it destroys.
Destructed(j) == LET i == Plus(headIndex, j) IN <<ValueOf(Base(i)), i % BLOCK_SIZE>>

\* Each block but the last, when it comes to the next one.
FreedOnTheWay ==
  [n \in 1..BlocksBetween(headIndex, Minus(tailIndex, 1)) |->
     ValueOf(Plus(Base(headIndex), BLOCK_SIZE * (n - 1)))]

\* Mutant of forceFreeLastBlock: only a tail block that is partly filled.
ForceFreeNever == FALSE

forceFreeLastBlock == headIndex # tailIndex

\* The tail block, unless it was full and a dequeue has freed it.
FreedLast ==
  IF tailBlock # Null /\ (forceFreeLastBlock \/ tailIndex % BLOCK_SIZE # 0)
    THEN <<tailBlock>> ELSE <<>>

-------------------------------------------------------------------------------
\* The types; the assertions of set_many_empty and of new_block_index (an
\* emptied count never passes the block's size) are among them.
TypeOK ==
  /\ BaseTypeOK
  /\ key \in [Entries -> Indexes] /\ value \in [Entries -> Blocks \cup {Null}]
  /\ \A h \in 1..current : /\ headers[h].tail \in DOMAIN headers[h].index
                           /\ \A i \in DOMAIN headers[h].index : headers[h].index[i] \in Entries
  /\ emptied \in [Blocks -> 0..BLOCK_SIZE]
  /\ producer.chain \in Seq(Blocks) /\ producer.undone \in 0..Len(producer.chain)

\* The lookup of an index leads to the entry of its block, with the block in
\* it (the assertions of get_block_index_index_for_index, and the same for the
\* further blocks of a bulk dequeue, which are found by counting on): also
\* when the index is replaced by a larger one, entries are reused, or a failed
\* bulk enqueue takes its entries back meanwhile.
LookupRight ==
  \A c \in Consumers : At(c, "fetch") =>
    key[EntryOf(c)] = Base(call[c].at) /\ value[EntryOf(c)] \in Blocks

Stored(i) == LET b == value[Placed(i)]
             IN IF b = Null THEN Null ELSE elems[b][i % BLOCK_SIZE]
Stretch(from, n) == [j \in 1..n |-> Stored(Plus(from, j - 1))]

\* The elements between head and tail are a first-in first-out stream, and what
\* a consumer has taken is its own: nobody overwrites or destroys it before the
\* consumer has moved it out.
Channel == INSTANCE SubQueue WITH
  chan <- Stretch(headIndex, Minus(tailIndex, headIndex)),
  out <- [c \in Consumers |->
            out[c] \o (IF Taking(c) THEN Stretch(call[c].at, call[c].n) ELSE <<>>)]
ImplementsSubQueue == Channel!Spec

Quiet == Producing("idle") /\ \A c \in Consumers : At(c, "idle")
Live == {Base(Plus(headIndex, j)) : j \in 0..(Minus(tailIndex, headIndex) - 1)}
          \cup (IF tailIndex % BLOCK_SIZE = 0 THEN {} ELSE {Base(tailIndex)})

\* When nobody is at work the block index holds the blocks of the elements that
\* are left, under their keys, and no other: the entries of emptied blocks, and
\* of those that a failed enqueue had allocated, are clear.
IndexExact ==
  LET used == {e \in Entries : value[e] # Null}
  IN {key[e] : e \in used} = Live /\ Cardinality(used) = Cardinality(Live)

\* Then the destructor destroys exactly the elements that were not dequeued and
\* gives back exactly the blocks that are not in the pool, each once: it tells
\* by the tail alone whether the tail block is one of them.
DestructorExact ==
  LET freed == FreedOnTheWay \o FreedLast
  IN /\ {p \in Blocks \X Offsets : elems[p[1]][p[2]] # Null}
            = {Destructed(j) : j \in 0..(Remaining - 1)}
     /\ {freed[n] : n \in DOMAIN freed} = Blocks \ free
     /\ Len(freed) = Cardinality(Blocks \ free)

\* No element and no block is lost, in whatever way the enqueues and dequeues
\* met: what is not back in the pool when all is quiet can be found.
BlocksReclaimed == Quiet => IndexExact /\ DestructorExact
===============================================================================
