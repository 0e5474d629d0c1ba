# A TLA+ verification of traft

traft is a Raft implementation in progress on top of the tRPC-Cpp fiber
runtime. What exists today is a replication front end (a node that queues user
tasks and opens ballots for them), the ballot machinery, configuration types, a
storage stub, and the concurrent queue all of it is built on: a vendored and
modified copy of moodycamel's lock-free queue whose blocking parts were moved
from threads to fibers. Leader election, log replication, the state machine and
the RPCs are not there yet, so nothing here speaks of Raft's own safety: the
properties are those of the parts that exist and of how they fit together.

Paths are relative to `src/traft/`. `cqi.h` stands for
`concurrentqueue/concurrentqueue_impl.h`.

## 1. Inventory

| Part | Code | State | Operations | Module |
|---|---|---|---|---|
| Lightweight semaphore | `concurrentqueue/lightweightsemaphore.h` | `m_count`, `m_sema` | `tryWait`, `wait`, `tryWaitMany`, `waitMany`, `signal` | `LightweightSemaphore` |
| Blocking queue and facade | `concurrentqueue/blockingconcurrentqueue_impl.h`, `concurrentqueue/concurrentqueue.h` | inner queue, semaphore | `Enqueue`, `TryDequeueBulk`, `WaitDequeueBulkTimed`, `IsEmpty`, `SizeApprox` | `TraftQueue` |
| Producer list and dequeue scans | `cqi.h` 1132-1280 | list of sub-queues | `try_dequeue`, `try_dequeue_bulk` | `TraftQueue`, `ProducerHash` |
| Implicit producer and its blocks | `cqi.h` 2420-3035, 1558-1700 | tail, head, overcommit, blocks, block index | `enqueue`, `enqueue_bulk`, `dequeue`, `dequeue_bulk`, destructor | `ProducerBase`, `ImplicitProducer` |
| Free list and block pool | `cqi.h` 1437-1549, 3038-3113 | list head, reference counts | `add`, `try_get`, `requisition_block` | `BlockPool` |
| Producer hash | `cqi.h` 3226-3580 | fiber id to producer, chain of tables, unused producers | `get_or_add_implicit_producer`, thread exit | `ProducerHash` |
| Explicit producer | `cqi.h` 1768-2413 | the same counters, ring of blocks, block index | the same | `ProducerBase`, `ExplicitProducer` |
| Tokens | `cqi.h` 650-780, 1182-1280 | | not used by traft | not modelled |
| Ballot | `raft/ballot.h`, `raft/ballot.cc` | tickets and quorums of two configurations | `Ballot`, `GrantWithUpdateHint`, `IsGranted` | `Ballot` |
| Ballot box | `raft/ballot_box.h`, `raft/ballot_box.cc` | voting and waiting queue, `voting_index_`, `last_committed_index_`, `hint_` | `OpenAt`, `Close`, `LaunchBallot`, `CommitRange`, `SetLastCommittedIndex` | `BallotBox` |
| Raft node | `raft/node.h`, `raft/node.cc` | `apply_queue_`, `running_`, `current_term_` | `Apply`, the apply fiber, `DoApply_` | `RaftNode` |
| Configuration | `raft/configuration.h`, `.cc` | voters, learners, version; the pair of a change | add, remove, `Reset`, `IsStable` | `Configuration`, `LeaderNode` |
| Configuration manager | `raft/configuration_manager.*` | list of entries | `Add`, never called | not modelled |
| Segment, I/O manager | `storage/` | file descriptor; thread | `Open` | not modelled |
| Value types | `raft/log_entry.*`, `raft/identity.*`, `utils/` | | comparison, formatting | not modelled |

How they interact. User threads call `RaftNode::Apply`, which enqueues a task;
the queue raises the semaphore. One fiber runs `ExecuteApplyUserLog_`: it blocks
in `WaitDequeueBulkTimed` (the semaphore, then the sub-queues), takes the node's
mutex and, for every task whose expected term is the current one, calls
`BallotBox::LaunchBallot`, which enqueues a ballot in a second queue. Peers'
acknowledgements come in through `BallotBox::CommitRange`, which moves ballots
from that queue into `voting_queue_` and grants them.

What is hard, and what makes each part correct:

- *Semaphore*: a waiter whose time is over undoes its registration while a
  signaller that counted it is about to post. Posts, sleepers and the counter
  must balance; no permit may be invented, lost or left for nobody.
- *Queue*: an item is visible before its permit, so a permit may fetch another
  producer's item. Consumers *spin* until each permit has become an item:
  permits must never outnumber items. A producer's items stay in order; a
  caller's buffer is never overrun.
- *Implicit sub-queue*: dequeuers claim before they know what there is, look blocks up in
  an index that moves under them and free what they emptied, all on counters that
  wrap around. It must still be one first-in first-out stream, and nothing may be
  overwritten before it is moved out. A bulk enqueue that fails half-way takes its
  blocks out of the index again, and the destructor has only the index and the
  counters to find what is left.
- *Explicit sub-queue*: the same counters over a ring of blocks that the producer
  reuses as soon as their flags say they are empty, and an index of which only
  the producer knows how much is in use.
- *Block pool*: a lock-free stack whose blocks are taken and put back while others
  hold old pointers to them. No block in two hands, none lost.
- *Producer hash*: fibers find their sub-queue in tables that are replaced under
  them, and sub-queues outlive the fibers that made them. One writer per sub-queue,
  one sub-queue per fiber, a slot left in every table.
- *Ballots*: the hint that finds a ticket is shared between ballots and looked
  up by configuration version only. It must not lead outside a ballot's tickets,
  and repeated acknowledgements count once.
- *Ballot box*: a window of indexes over two queues, one of them filled without
  the mutex; the window, the committed index and the ballots must agree.
- *Node*: tasks of many threads are merged into batches while the term changes:
  order, at most one ballot per task, the right term, no task forgotten.
- *Node and box together*: `OpenAt` and `Close` replace a queue that `LaunchBallot` fills
  without the box's mutex, while leadership and configuration change. An open box
  must hold the ballots of its entries, in order, and no others.

`PROJECT.json` lists every hazard at its line with the properties that cover it. A few have
none, and a note that says why: the code goes wrong there and no property can hold
(configurations that share version 0, the call inside an assert, an index inside the leader's
window, a late failure of `enqueue_bulk`), or an assumption of the model excludes the
bad case (a thread that exits before its fibers).

## 2. Modules and their correspondence to the code

```
CountingSemaphore  <--implements--  LightweightSemaphore
FifoChannel        <--implements--  TraftQueue
SubQueue           <--implements--  ImplicitProducer, ExplicitProducer
ProducerBase       <--EXTENDS-----  ImplicitProducer, ExplicitProducer
BlockPool          ProducerHash
RaftNode           --INSTANCE-->    FifoChannel
BallotBox          --EXTENDS-->     Ballot
LeaderNode         --EXTENDS-->     RaftNode, Configuration
LeaderNode         --INSTANCE-->    BallotBox
```

The queue is modelled in layers, each using what the layer below was shown to do:
`TraftQueue` takes its semaphore to be the bag of permits of `CountingSemaphore` and a
sub-queue to be the sequence of `SubQueue`; `ImplicitProducer` takes a block from a
set where `BlockPool` shows what it takes to keep such a set; `ProducerHash` gives
each producer of `TraftQueue` the sub-queue to itself; `RaftNode` takes the queue to be
`FifoChannel`. The node and its ballot box are composed: `LeaderNode` takes joint steps of
the two modules. The layers of the queue are connected by these specifications, not by a product of
the models.

**LightweightSemaphore.** A waiter's step is one atomic operation on `m_count`
or `m_sema`; a load followed by a compare-exchange is the successful exchange,
since a failed one only reads again. `pc` names the loops of
`waitManyWithPartialSpinning`: `try`, `spin`, `sleep`, `adjust` (before the load
that takes back the decrement), `claim` (before `try_wait`), `more` (topping up
to `max`). `signal` is `Signal` (the `fetch_add`) and one `Post` for each sleeper it
counted; `owed` holds the posts not made yet. `wait` and `tryWait` are the calls
with `max = 1`. Spinning may end at any time, so `maxSpins` is any number. The
memory orders are taken to be sufficient: the model is sequentially consistent.
`CountingSemaphore` is what it promises: a bag of permits.

**TraftQueue.** One step is one visit to a sub-queue or one operation on the
semaphore, which is the bag of permits just described with its visible count
(`permits` minus the waiting consumers). `InnerEnqueue` and `Signal` are the two
halves of `Enqueue`; the item is there in between. `WaitDequeueBulkTimed` is the
facade's three steps: bulk without waiting, one item with waiting, bulk for the
rest of the buffer. `StartBulkRound`/`VisitBulk` is `try_dequeue_bulk` in the loop of
the blocking queue, `StartScoring` ... `RestEmpty` is `try_dequeue` with its scoring of
at most three non-empty sub-queues. A sub-queue is a sequence; a visit gets what
is there, or less if there are other consumers (`Yields`), because a dequeuer
that over-claims makes others see less for a moment. That is what `ImplicitProducer`
shows of a sub-queue: `ImplementsSubQueue`, and `AloneGetsAll` for a single consumer.
An enqueue that fails to allocate returns false and changes nothing: no action.
`FifoChannel` is what the queue promises: one FIFO stream per producer.

**ProducerBase.** What the two kinds of sub-queue share: the counters `tailIndex`, `headIndex`,
`dequeueOptimisticCount`, `dequeueOvercommit`, counted modulo `W`; the blocks and the elements
constructed in them; and a consumer's `dequeue` or `dequeue_bulk` from its first read of the
tail to the moment it has advanced the head (`Begin` ... `Take`), one step per access to a
shared atomic. Private work, and stores nobody can see yet, belong to the step that
publishes them. `call[c]` holds the locals of a dequeue, and two history fields: whether it
has been `alone`, and how much was `due` to it when it began. `out[c]` is what the call
under way has put into its caller's buffer. `SubQueue` is what a sub-queue promises: a
stream that an enqueue extends at once and from whose front each call takes one stretch.
Of the constants, `SizesFit` assumes that `W` is an even number of blocks, as a power of two is,
and that no enqueue is as long as half the range of the counters less a block: longer ones would
be 2^63 elements in one array.

**ImplicitProducer.** The owner enqueues one or several elements: `BeginEnqueue` when more
blocks are needed, then per block the insertion of an index entry (`InsertBlockIndexEntry`,
`AdvanceIndexTail`, or `NewBlockIndex`) and `RequisitionBlock`, with `CheckRoom` before the next;
`Publish` constructs the elements and stores the tail. If there is no room, no larger
index or no block, `UndoBlock` takes the blocks out of the index one by one and
`FreeChain` returns them. An element is found by `LoadHeader`, `LoadTail`, `LoadKey`, `Fetch`; whoever
empties a block clears its entry and frees it. Index entries and headers are numbered as
they are allocated; the header in use is the last. The state starts as after `Start`
elements that came and went. The destructor has no actions: `Destructed`, `FreedOnTheWay`,
`FreedLast` are what it would destroy and free in the present state. `IndexSizesFit` assumes that the
blocks of the largest index span at most half the range of the counters, which an array in
memory cannot exceed. Left out: the
recovery from a constructor or assignment that throws (ballots and tasks are moved
without).

**ExplicitProducer.** Blocks form a ring through `next`; `tailBlock` is its newest. An enqueue
moves on to the block ahead if its flags say it is empty, or inserts a new one, and
enters it in the index, which it may have to double. `front` of a header is what consumers
see, `pr_blockIndexSlotsUsed` and `pr_blockIndexFront` only the producer. The initial state is
either what the constructor leaves, with or without an index, or that of a
sub-queue that has lived on one block. `LateFailures` also lets an `enqueue_bulk` fail after
it has put blocks into the ring (see 4). Nothing in the repository creates a token, so
this code runs only when a user of the queue's full interface does. Left out as
above: throwing constructors.

**BlockPool.** One atomic operation per step. `fresh` is the blocks from
`initialBlockPoolIndex` on. `freeListRefs` is split into its count `refs` and its bit
`should`. `pc` follows `try_get` (`load`, `ref`, `next`, `take`, `got`, `unref`) and
`add_knowing_refcount_is_zero` (`top`, `link`, `count`, `push`, `undo`), which `add` runs for the
block it returns and `try_get` for one whose return it was left with. Blocks
allocated beyond the pool are destroyed after use and never come here.

**ProducerHash.** `tables` is the chain of hash tables, oldest first, so that `prev` is
the number before. `call[f]` is fiber `f`'s run through `get_or_add_implicit_producer`:
`Found`, `NotInTable`, `ProbeNext`, `ReAdd` look it up, `Count` ... `Fit` make room, `Recycle` and
`Create` get a producer, `Insert` and `Discount` enter it. `ExitThread`, `Forget`, `MarkInactive`
are the callback of an exiting thread, one at a time as they hold a mutex. Which
thread exits when is the fiber runtime's business. The model lets a thread exit
only after the fibers it gave a producer to have ended: if a worker thread exits
while a fiber it once served goes on, that fiber's producer is handed to another
and `OneFiber` fails, so this is a requirement on the runtime. The exit callback asks
for the current fiber's id, which may be that fiber's or one the table does not
know. Fiber ids are numbers here, not addresses as the comments at `cqi.h` 155-156
say; they are taken to differ from 0 and 1, which mark slots.

**Ballot.** Operators only. A ballot is a record of two sides, each with its peers,
version, marked offsets and remaining quorum. `NewPosition`, `OldPosition` and
`NewHint`, `OldHint` are the two halves of `GrantWithUpdateHint`, `Marks` what it does to
the tickets. A position past the end of the vector is undefined behaviour:
`Marks` then offers what reading a stray ticket could do.

**BallotBox.** The fields of the class plus `job`, the `CommitRange` that holds the
mutex (one turn of its loop per step), `launching`, the ballot `LaunchBallot` is moving
into the waiting queue without the mutex, and `ndebug`: whether asserts
are compiled in, chosen once. It matters, because the call that moves the ballots
*is* an assert's argument (`ballot_box.cc:54`). Undefined behaviour (a move of the
waiting queue under a concurrent enqueue, assigning to unconstructed elements,
indexing past the end) is a choice between a crash and the values a build can
produce. `open` and `last_log` belong to the caller: acknowledgements arrive only
while the node is leader and only for entries of its log. Callers of `OpenAt`,
`Close`, `CommitRange` are not in the repository; any order of calls is allowed. A
negative number of needed ballots makes `reserve()` throw before anything changes:
no action. What a stray ticket past the end would do to the shared hint is left
out.

**Configuration.** Operators only: an operation is a function from the configuration
before to the one after. `ForBallot` is what a ballot takes from it, the voters in the
order in which a `std::set` of `PeerId` lists them.

**RaftNode.** Composes `FifoChannel` for `apply_queue_`. The fiber's `pc` follows
`ExecuteApplyUserLog_` (`loop`, `dequeue`) and `DoApply_` (`locking`, `check`, `launch`).
`ChangeTerm`, `StartFiber`, `StopFiber` stand for code that does not exist yet: the
term changes only under the mutex, the fiber runs at most once at a time.
Tasks accepted after a stop stay in the queue. A refused `Apply` leaves the state as it was, but
`UserLog{task}` has already moved the caller's `data_` out (`node.cc:22`), which the model, where a
task has no data, does not say. `node.cc:34` passes an `int64` where
the facade takes a duration, which is taken to be the timeout it is meant to be,
and the subdirectories `raft/` and `storage/` are commented out in `CMakeLists.txt`; the
model is of the source as written. `LogVisitor` never sees a `QuitEntry` from `Apply`.

**LeaderNode.** It extends `RaftNode`; `LeaderInit`, `LeaderNext`, `LeaderSpec` are those of the
composition. Every action is a step of `RaftNode`, of `BallotBox` or of both at once. The
fiber's `Launch` is two steps, `BeginLaunch` and `EndLaunch`, the beginning and the end of
`LaunchBallot`, with the configurations of `conf_ctx_` at the first. `BecomeLeader` and
`StepDown` couple `OpenAt` and `Close` with a change of term, and `ChangeConfiguration` and
`LeaveOldConfiguration` replace `conf_ctx_`. Their callers are not in the repository; they are
assumed to hold the node's mutex, since term, leadership and `conf_ctx_` are members of the
node. `Acknowledge` and `CommitStep` are `CommitRange`, under the box's mutex only. `since` is a
history variable: the ballots launched since the box was opened. A stopped fiber and a
follower's log are left to the two modules.

Bounds in guards: `MaxCount`, `MaxSignal`, `MaxTake` (semaphore), `MaxItems` (queue and
sub-queue), `MaxIndex` (log index), `MaxTasks`, `MaxTerm` (node), `MaxEdits` (configuration changes) only stop new calls;
`MaxIndexSize` (a larger block index is not to be had) and `MaxFailures` (allocations
that fail in the hash) bound the environment.

## 3. Runs

| Run | Instance | Shows |
|---|---|---|
| `semaphore` | 2 signallers, 2 waiters, up to 2 permits a call, fairness | `Accounting`, implements `CountingSemaphore`, `NoLostWakeup`, `Settles` |
| `queue` | 2 producers, 2 consumers, 2 items each, buffers of 1 and 2 | `PermitsBacked`, `BufferFits`, implements `FifoChannel` |
| `queue_live` | 2 producers, 1 consumer, fairness | `EverythingDelivered` |
| `block_pool` | 3 threads, 2 blocks, fairness | `OneOwner`, `SuccessorCurrent`, `NothingLost`, `CallsEnd` |
| `implicit_producer` | 2 consumers, 5 elements in blocks of 2, 3 blocks, counters of 4 bits from 14 on | implements `SubQueue`; `LookupRight`, `BlocksReclaimed`, `AloneGetsAll` |
| `explicit_producer` | the same, index of 2 then 4 entries | implements `SubQueue`; `LookupRight`, `RoomInIndex`, `DestructorExact` |
| `producer_hash` | 3 fibers, one of which may end, tables from 4 slots on, fairness | `OneFiber`, `SameProducer`, `RoomLeft`, `CallsEnd` |
| `ballot_box` | 3 servers, 3 indexes; a joint change from one voter to three, and two configurations that share a version | `HintInRange`, `QuorumExact`, `InversionHarmless` |
| `ballots_available` | 2 indexes | violation: an assertion of `CommitRange` fails |
| `committed_regresses` | 2 indexes | violation: the committed index becomes -1 |
| `node` | 2 callers, 2 tasks each, batches of 2, 2 terms, fairness | `LaunchedInOrder`, `TermsMatch`, `NoneForgotten`, `EventuallySettled` |
| `leader_node` | 2 servers, voters and learners in every combination, 2 terms, 2 tasks, 1 configuration change | `BallotsOfTheLog`, `OneTicket` |

Most passing runs also check their module's `TypeOK`.

Why the bounds are enough. *Semaphore*: one waiter times out while a post meant
for it may be taken by the other, which may also arrive late; two signallers for
two sets of posts under way; counts of two so that one signal covers several
sleepers and one call takes several permits. The safety properties are proved for
any number of threads. *Queue*: two consumers contend and
cross over to the other's producer; two items and a buffer of two reach the
facade's third step; a third consumer adds no new kind of step. *Block pool*: the
stale head that comes back needs two blocks, and a third thread to take and put
back while one reads and one pushes; safety is proved for any number. *Sub-queues*: four-bit
counters that start at 14 wrap around within the first enqueue or two; a limit of
four elements (`MAX_SUBQUEUE_SIZE`) makes enqueues fail for lack of room, at once or
half-way (the other limit, half the counters' range, is beyond five elements); an
enqueue of three needs two blocks, so it can fail at its second one and
undo the first; three blocks in an index of two slots are reused and once force
a larger index, in the implicit sub-queue from a rotated ring; a dequeue of up to
three crosses from one block to the next; a second consumer claims, over-claims and
empties blocks at the same time as the first; of the implicit sub-queue all properties are
proved for any number of consumers and any width (see 5). *Producer hash*: four slots are crowded at the second fiber and too full for the
third, which must wait or grow the table itself; two colliding fibers, starting at the
last slot, probe on and around; a fiber that ends leaves a slot and a producer to
reuse. `RoomLeft` speaks of the time before a fiber ends, as it fails afterwards (see 4). *Ballots*: three
voters and a change from one make lists of different lengths, a voter in both
sides and voters in one only; three indexes give a window of several ballots
with different configurations; one voter and three under one version send votes to
places that a ballot does not have. The quorum of a ballot is not counted below 0 by votes
on stray memory, as only its sign is ever asked. *Node*: a batch of two with two callers mixes
accepted and refused tasks with a term change in between. *Leader node*: two terms and
two tasks give a leadership with ballots, its end, and a task launched
before, between or after; one configuration change gives ballots of three kinds.

Deadlock checking is off for the ballot box and the leader node only, where an abort or a
crash ends the process and the log is bounded.

**Fairness.** *Semaphore*: a thread in a call keeps running, a timer expires, a
sleeper on a positive fiber semaphore is woken (weak fairness of each thread);
nobody has to make new calls. `NoLostWakeup` speaks of waiters without a timeout:
threads that keep timing out can hide a permit from each other, and a newcomer
can overtake a sleeper, so it does not say *which* waiter is served. *Queue*:
consumers call in a loop, as the apply fiber and the module test do. *Block pool,
producer hash*: a thread in a call keeps running, as an operating system's scheduler
or the fiber runtime provides; nobody has to call. Exit callbacks need no fairness.
*Node*: weak fairness of the fiber; strong fairness of `Collect`, which is what
`EverythingDelivered` gives for the queue underneath.

## 4. Findings

1. `CommitRange` asks the waiting queue for ballots as if `voting_queue_` were
   empty and as if the first index needed none (`ballot_box.cc:53`): the second vote
   for an entry, or the first after a reset, fails the assertion on line 54. With
   NDEBUG no ballot is ever moved.
2. The test on line 67 is inverted: granted ballots are never recorded, and a call
   that granted nothing stores -1 as the committed index.

Three configurations find counterexamples that belong to no run:

- `MCBallotBoxWindow.cfg` (`MCBallotBox`, `WindowAboveCommitted`): `SetLastCommittedIndex` accepts
  indexes at or above the start of an open window (line 90), after which the
  window contains committed indexes, contrary to the assertion in `OpenAt` (line 20).
- `MCExplicitProducerLate.cfg` (`MCExplicitProducer`, `RoomInIndex`): an explicit `enqueue_bulk`
  that fails for a block (`cqi.h` 2103, 2118) leaves the blocks it inserted in the ring but
  sets `pr_blockIndexSlotsUsed` back, so that later reuse of those blocks makes the index
  hold more live blocks than it counts, and the entry of a new block overwrites
  that of a live one. The comment at `cqi.h` 1861-1862 says there is guaranteed to be
  room. The run `explicit_producer` excludes these failures (`LateFailures = FALSE`), so that
  its other properties speak of the rest of the code.
- `MCProducerHashFull.cfg` (`MCProducerHashFull`, `SlotFree`): a slot of the producer hash can be
  discounted twice (`cqi.h` 3514). A fiber that is in two tables was counted once:
  re-adding it in the newer table (3424-3439) counts nothing. When it has ended and its exit
  callback has cleared both slots, each is discounted as "already counted as a used slot"
  when it is taken again: the one in the newest table by a fiber that comes then, the one in
  the older table by a fiber that had read `implicitProducerHash` before the table was
  replaced. Each time `implicitProducerHashCount` falls one behind; it stays small, no larger
  table is made, and the newest table fills up. The search for an id that is not there
  then never ends, contrary to the comment at line 3411. No allocation has to fail; it takes
  as many fibers delayed in `get_or_add_implicit_producer` as there are slots to lose, and
  exit callbacks that run with the ended fiber's id. The module prescribes one such
  schedule of thirty fibers, tables of 8 and 16 slots: it shows that this one exists, not how
  common it is. Until a fiber ends the count is right: that is `RoomLeft`, which is proved.

Two places of `CommitRange` are undefined behaviour whatever the callers do: ballots are
move-assigned into reserved storage that holds none (line 40), and the voting queue is
indexed past its end (line 60) when line 53 did not ask for enough. The model offers a
crash, and for line 60 also a vote for either outcome; no property goes beyond that.

Also established, as properties that *hold*: with all configurations of version 0,
which is all the source creates, no ballot ever has two tickets marked (`OneTicket`),
so nothing with two voters or more is granted; and the inverted answer of
`IsEmpty`, or one that lags behind the queue (`size_approx`), never changes what
`SetLastCommittedIndex` decides (`InversionHarmless`).

## 5. Proofs

**LightweightSemaphore_proofs**, for any finite sets of threads and any bounds. The
invariant is `TypeOK /\ CallShape /\ Accounting`. `Accounting` says posts made or owed
equal the registered threads plus the (negative) part of the count below zero;
it needs only finite cardinalities, since every step adds or removes at most one
thread and the posts of one signaller. `CallShape` relates `got`, `max` and `pc`, which
the bound on a call's permits needs. From it: `TypeCorrect`, `AccountingHolds`,
`QuiescentCleanHolds`, and `Refinement`: every step is a step of `CountingSemaphore` or
a stutter, with `avail` mapped to `m_count` plus the registered threads.

**BlockPool_proofs**, for any finite sets of threads and blocks. The properties are
about the list; the invariant must say who may touch which block and when.
`Roles`: a block that must be put back is in no other use, and at most one thread
is taking it out or putting it back. `Counted`: a block's count is the number of threads
that hold a reference, plus one while
it is neither unused nor in use nor to be put back. `Duty`: a block
to be put back while others still hold it will be by the last of them. `Links`: what a
thread has read of, or written to, a next pointer is still there when it uses it.
`Chain`: the listed blocks form one
chain, in which no two have the same successor and all are reached from the head.
From it: `TypeCorrect`, `OneOwnerHolds`, `SuccessorCurrentHolds`, `NothingLostHolds`. The
steps that matter are `Take` and `Push`, which change the chain: `Counted` says a block
somebody holds is not listed a second time, which is what rules out the stale head.

**BallotBox_proofs**, for any servers, configurations and log bound. The invariant
strengthens `TypeOK` by two predicates that hold of every ballot in the voting queue,
the waiting queue and under launch: its sides are those of a configuration with
the quorum counted exactly (`CountedBallots`), and, while all versions are equal, its
marked offset is the one the hint remembers (`HintedBallots`); and by `HintOK`, that
the hint holds positions inside the configurations of the versions it names.
From it: `TypeCorrect`, `HintInRangeHolds`, `QuorumExactHolds`, `OneTicketHolds`,
`InversionHarmlessHolds`. The assumptions are those on the constants in the modules.
That its versions identify a ballot's configurations (`VersionsIdentify`) is a hypothesis of
the properties that need it, since the source does not guarantee it; it is asked of the
ballot only, so that other ballots, with versions that two configurations share, may be
in the box and use the same hint.

**TraftQueue_proofs**, for any finite sets of producers and consumers, numbers of items and
buffer sizes. Items and permits are sums over producers and consumers, counted as the sizes
of sets of pairs (`Cells`), so that a step that changes one summand changes the sum by as
much (`TotalChange`); this needs finite sets (`FiniteAssumption`). The invariant adds to
`PermitsBacked` and `BufferFits` what a consumer holds at each place (`Shape`): one permit in
the search for one item, none before it took any. From it: `PermitsBackedHolds`, `BufferFitsHolds`,
`SomethingToFindHolds` (a consumer that has taken permits and not yet its items will
find a sub-queue that is not empty), and `Refinement`: every step is one of `FifoChannel` or a
stutter.

**ProducerHash_proofs**, for any finite set of fibers, any hash and any size of the first
table (`IdsAssumption`, `HashAssumption`, `BoundsAssumption`). The invariant has four parts. *Ownership*:
a producer belongs to the fiber that subscribed to it last, and a fiber that asks for one has
none (`Own`). *Search*: a fiber with a producer is found in some table before an empty slot
(`InTable`), and one that goes through the tables has not passed the table it is in; only an empty
slot ends a search and no slot becomes empty again, so reused slots and
slots being given up do not hide an entry. *Count*: `hashCount` is at least the calls that
have counted themselves and not yet entered, and at most the fibers. *Supply*: there are
never more producers than fibers served, so that the model's finite set of
names is never exhausted. From it: `TypeCorrect`, `OneFiberHolds`,
`SameProducerHolds`. `RoomLeftHolds` has an invariant of its own: until a fiber ends no
slot is given up, the values that `fetch_add` returned are all different, and a fiber that enters
a table was counted with less than three quarters of its size or was counted
before the table was made, so the used slots inject into those numbers.

**LeaderNode_proofs**. Its first section is about `RaftNode`, which `LeaderNode` extends,
for any callers, batch size, number of tasks and terms. The
properties speak of ballots; the invariant says where each task is. `InQueue`: what of a
caller's tasks is in the queue is its last ones, in order. `InGot`, `GotInOrder`: what
was received of each caller comes before and is in order. `LaunchedSettled`:
a ballot is that of a task already dealt with. `CheckedTask`: between the
comparison of the term and the launch, both under the mutex, the comparison stays
true. `TermsReached`: no ballot is ahead of the current term. From it: `TypeCorrect`,
`LaunchedInOrderHolds`, `TermsMatchHolds`, `NoneForgottenHolds`, which are theorems of
`RaftNode`'s own `Spec`. The steps that matter are
`Collect`, where sequences are cut and joined, and `Launch`.

The rest is about the composition, for any servers, tasks, terms and changes of configuration. A
step of `LeaderNode` is a step of `BallotBox` and one of `RaftNode`, or leaves them alone
(`BoxRefined`, `NodeRefined`), so that the theorems about the two carry over: `OneTicketHolds`, and
`NodePromisesKept` for the order of launched ballots. That needs `BallotsExpected`: the ballot of
any configuration reached is one the box's theorems are about; `ForBallot` sorts by
choosing the ascending enumeration (`Ascending`), of which `AscendingSorts` shows that it exists
for every finite set of integers. Then
`BallotsOfTheLogHolds`, by an invariant that adds two facts: a ballot is under launch only while
the fiber holds the node's mutex (`LaunchUnderMutex`), and a closed box is empty (`ClosedEmpty`).
Without the first, `OpenAt` could replace the queue between the two halves of a launch.

**ImplicitProducer_proofs** and **ImplicitBlocks_proofs**, for any finite set of consumers, any
blocks, sizes and counts, and counters of any width (`SizesFit`, `IndexSizesFit`,
`NullAssumption`, `FiniteAssumption`).

Counters that wrap around, and keys of blocks that do, are reasoned about through
history variables that do not: `head`, `claimed` and `given` count what was taken, claimed and
given back since the beginning; `read[c]` is `given` when `c` read it, `place[c]` where `c`'s claim,
or what it has taken, begins; `number[e]` is the number of the block that an entry of the
index was last assigned to, `first[h]` the number that place 0 of an index would have.
`HSpec` is `Spec` with them: `HistNext` determines their next values in every state and never
restricts a step, so `HSpec` has the behaviours of `Spec`, and what it says of the program's variables
holds of `Spec`.

The theorems are of the form `HSpec /\ []Timely => []P`. `Timely` says that a consumer among several
does not stay behind: when it looks a second time, the place of its claim is at
most half the range of the counters past what was enqueued, as it counts it. It is needed: the
comparison `circular_less_than` reads counters modulo 2^64, and two consumers that keep claiming
too much and giving it back could take `dequeueOptimisticCount` and `dequeueOvercommit` round
once while a third sleeps between its first look and its claim, which then compares values
a whole turn apart. In the code that is 2^63 operations during one call. The source
makes the assumption without stating it. `Timely` asks nothing of a lone
consumer, by its definition, and that is how traft uses its queues: one fiber, or one holder of a
mutex at a time, takes elements out. That the sub-queue keeps its properties then, with no
hypothesis on the behaviour, is `ServesOneConsumer`.

The argument has five layers.

- *Claims* (`ClaimsHold`). `Numbers`: each counter is its history modulo `W`. `Balance`: what was
  claimed was dealt, given back, is owed or not looked at again. `Bounded`: there is a frontier
  `F`; what was dealt and all unsettled claims before `F` together do not pass the end,
  and an unsettled claim from `F` on, less the overcommit its call had read, begins no earlier
  than what was dealt and the unsettled claims before it. So a claim that is granted anything
  is granted only what is there. `ClaimsApart`: claims do not overlap. `Window`: from the
  head to the newest block is less than half the range, which is what the check for room is for.
  `Alone` follows a call that no other overlaps, from which `AloneGetsAllHolds`.
- *Blocks* (`BlocksFound`). `Intervals`: what the calls have taken and not yet counted are
  disjoint stretches below the head. `Indexed`: each header is one to one, the older ones agree
  with the current one on the entries they have, an entry's key is that of its number, and the
  numbers along the index are consecutive, also while blocks are inserted, taken out again,
  and when the index is rotated into a larger one. `Located`: the blocks from the
  first not yet emptied to the newest are in the index, no two entries hold one
  block, no block of the index is free, and `elementsCompletelyDequeued` counts the elements of a
  block that were moved out and counted. `Looking`: whatever header a consumer loaded, old or
  new, and whenever, its offset leads to its block. From it `LookupRightHolds`, and with the
  claims `TypeCorrect`.
- *Contents* (`ContentsHold`). A block in the index holds exactly the elements of its number
  that were enqueued and not moved out, and every other block is empty.
- *Refinement*. The stream is the run of numbers from the head to the end, and what a call has
  taken is the run it has taken: every step is one of `SubQueue` or a stutter.
- *Reclamation* (`NothingLost`, `BlocksReclaimedHolds`). A block whose elements have all been counted
  is about to leave the index in the hands of the one call that counted the last; every block is
  in the pool, in the index, or in one such hand. At rest the index therefore holds exactly the blocks of
  the elements left, and those are what the destructor goes through.

Only model-checked: liveness under fairness (`NoLostWakeup`, `Settles`, `EverythingDelivered`,
`CallsEnd` of two modules, `EventuallySettled`), which is out of the prover's reach; and the
explicit sub-queue (`LookupRight`, `RoomInIndex`, `DestructorExact`, `ImplementsSubQueue`, `TypeOK` of
`ExplicitProducer`), which runs only for users of tokens, and nothing in the repository
creates one. Its claims are those of `ProducerBase`, as in the implicit sub-queue; what it
does with its ring and its index is different.

## 6. Not modelled, and why

Tokens and the part of the queue's interface that takes them (nothing creates one; the
sub-queue behind a token is `ExplicitProducer`); queue construction and move, and the
destruction of what is not a sub-queue (sequential; the one use under concurrency is
`EmptyWaiting`); the recovery of the sub-queues from constructors and assignments that
throw; the untimed, token and bulk-enqueue variants of the blocking queue (nothing calls
them); the configuration manager (one append with an index test, and the node never
calls it); weak memory orders; formatting, logging, protobuf conversion; the I/O manager
(its thread's body returns at once) and the segment (only `Open` is defined); the build.

## 7. Plan

Done, in this order: semaphore, queue, ballots and box, node, block pool, implicit
sub-queue, producer hash, explicit sub-queue, configuration, leader node; proofs about the
semaphore, the box, the pool, the node, the queue, the producer hash, the leader node and
the implicit sub-queue.

What is left is the proof about the explicit sub-queue. Its claims layer is the one of
`ImplicitProducer_proofs`, which speaks of `ProducerBase`'s variables and steps; its own part is that
the ring from the head's block to the tail's lists the blocks in the order of their numbers,
that a block whose flags are all set is behind the head, and that the index holds the
ring's last `pr_blockIndexSlotsUsed` blocks, which is `RoomInIndex`, for as long as no
`enqueue_bulk` fails late (see 4). A second step would join the layers: `TraftQueue` with its sub-queues
taken from `SubQueue` instead of being sequences.
