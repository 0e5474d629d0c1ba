------------------------------- MODULE RaftNode -------------------------------
(***************************************************************************)
(* raft/node.h and raft/node.cc: user threads put tasks into apply_queue_; *)
(* one fiber takes them out in batches and, holding the node's mutex,      *)
(* gives every task the current term and launches its ballot.              *)
(*                                                                         *)
(* apply_queue_ is the channel TraftQueue implements; a task is <<c, i>>,  *)
(* the i-th task of caller c.  What the repository leaves to code that is  *)
(* not there yet is external: who starts and stops the fiber and who       *)
(* changes the term.  Tasks are always DataEntry, so LogVisitor does       *)
(* nothing; the ballot's configurations do not matter here.                *)
(***************************************************************************)
EXTENDS Integers, Sequences

CONSTANTS Callers,         \* threads that call Apply
          kRaftApplyBatch,
          MaxTasks,        \* bound: tasks per caller
          MaxTerm          \* bound: terms

ASSUME BatchAssumption == kRaftApplyBatch \in Nat \ {0}
ASSUME BoundsAssumption == MaxTasks \in Nat /\ MaxTerm \in Nat

kInvalidIndex == -1
Terms == 0..MaxTerm

VARIABLES
  chan, sent, received, \* apply_queue_, see FifoChannel
  expected_term,        \* expected_term[c]: the expected_term_ of c's tasks
  running,              \* running_
  current_term,         \* current_term_
  pc,                   \* where the fiber is
  settled,              \* how many of the tasks it received it has dealt with
  launched              \* ballots launched: [task, term]

queue == <<chan, sent, received, expected_term>>
vars == <<queue, running, current_term, pc, settled, launched>>

fiber == "fiber"
Channel == INSTANCE FifoChannel WITH Producers <- Callers, Consumers <- {fiber}

Init ==
  /\ Channel!Init
  /\ expected_term = [c \in Callers |-> <<>>]
  /\ running = FALSE /\ current_term = 0
  /\ pc = "left" /\ settled = 0 /\ launched = <<>>

-------------------------------------------------------------------------------
(* The callers and what is external *)

\* An enqueue that fails makes Apply return an error and changes nothing.
Apply(c, expected) ==
  /\ sent[c] < MaxTasks
  /\ Channel!Put(c)
  /\ expected_term' = [expected_term EXCEPT ![c] = Append(@, expected)]
  /\ UNCHANGED <<running, current_term, pc, settled, launched>>

\* Mutant of HoldsMutex: DoApply_ without its lock.
NoMutex == FALSE

HoldsMutex == pc \in {"check", "launch"}

ChangeTerm ==
  /\ ~HoldsMutex /\ current_term < MaxTerm
  /\ current_term' = current_term + 1
  /\ UNCHANGED <<queue, running, pc, settled, launched>>

StartFiber ==
  /\ pc = "left"
  /\ running' = TRUE /\ pc' = "loop"
  /\ UNCHANGED <<queue, current_term, settled, launched>>

StopFiber ==
  /\ running' = FALSE
  /\ UNCHANGED <<queue, current_term, pc, settled, launched>>

-------------------------------------------------------------------------------
(* ExecuteApplyUserLog_ *)

InBatch == Len(received[fiber]) - settled

TestRunning ==
  /\ pc = "loop"
  /\ pc' = IF running THEN "dequeue" ELSE "left"
  /\ UNCHANGED <<queue, running, current_term, settled, launched>>

\* Mutant of Room: the next visit forgets what the batch holds already.
WholeBatch == kRaftApplyBatch

Room == kRaftApplyBatch - InBatch

\* The queue hands out a batch in one or more visits to a caller's items.
Collect(c) ==
  /\ pc = "dequeue"
  /\ \E k \in 1..Len(chan[c]) : k <= Room /\ Channel!Get(fiber, c, k)
  /\ UNCHANGED <<expected_term, running, current_term, pc, settled, launched>>

\* Mutant of AfterDequeue: an empty batch ends the loop.
AfterDequeueBreaks(size) == IF size = 0 THEN "left" ELSE "locking"

AfterDequeue(size) == IF size = 0 THEN "loop" ELSE "locking"

\* The queue is empty, the buffer is full or the time is over.
WaitDequeueBulkTimed ==
  /\ pc = "dequeue"
  /\ pc' = AfterDequeue(InBatch)
  /\ UNCHANGED <<queue, running, current_term, settled, launched>>

-------------------------------------------------------------------------------
(* DoApply_ *)

Lock ==
  /\ pc = "locking"
  /\ pc' = "check"
  /\ UNCHANGED <<queue, running, current_term, settled, launched>>

Expected(task) == expected_term[task[1]][task[2]]

Task == received[fiber][settled + 1]

\* Mutant of Refused: the test for a task that expects no term is missing.
RefusedAlways(task) == Expected(task) # current_term

Refused(task) == Expected(task) # kInvalidIndex /\ Expected(task) # current_term

\* Mutant of NextTask: the loop does not move on.
SameTask == settled' = settled

NextTask == settled' = settled + 1

Check ==
  /\ pc = "check" /\ InBatch > 0
  /\ IF Refused(Task) THEN NextTask /\ UNCHANGED pc
                      ELSE pc' = "launch" /\ UNCHANGED settled
  /\ UNCHANGED <<queue, running, current_term, launched>>

\* SetTerm and LaunchBallot.
Launch ==
  /\ pc = "launch"
  /\ launched' = Append(launched, [task |-> Task, term |-> current_term])
  /\ NextTask /\ pc' = "check"
  /\ UNCHANGED <<queue, running, current_term>>

Unlock ==
  /\ pc = "check" /\ InBatch = 0
  /\ pc' = "loop"
  /\ UNCHANGED <<queue, running, current_term, settled, launched>>

-------------------------------------------------------------------------------
FiberStep == TestRunning \/ WaitDequeueBulkTimed \/ Lock \/ Check \/ Launch \/ Unlock

Next ==
  \/ \E c \in Callers, expected \in Terms \cup {kInvalidIndex} : Apply(c, expected)
  \/ ChangeTerm \/ StartFiber \/ StopFiber
  \/ FiberStep \/ \E c \in Callers : Collect(c)

Spec == Init /\ [][Next]_vars

\* The fiber is scheduled, and the queue it keeps calling hands out every
\* caller's tasks in the end (TraftQueue!EverythingDelivered).
FairSpec == Spec /\ WF_vars(FiberStep) /\ \A c \in Callers : SF_vars(Collect(c))

-------------------------------------------------------------------------------
Tasks == Callers \X (1..MaxTasks)

TypeOK ==
  /\ chan \in [Callers -> Seq(Tasks)] /\ sent \in [Callers -> 0..MaxTasks]
  /\ received \in [{fiber} -> Seq(Tasks)]
  /\ expected_term \in [Callers -> Seq(Terms \cup {kInvalidIndex})]
  /\ running \in BOOLEAN /\ current_term \in Terms
  /\ pc \in {"left", "loop", "dequeue", "locking", "check", "launch"}
  /\ settled \in 0..Len(received[fiber]) /\ InBatch <= kRaftApplyBatch
  /\ launched \in Seq([task : Tasks, term : Terms])

Before(i, j) == i < j /\ launched[i].task[1] = launched[j].task[1]

\* The ballots of one caller's tasks are launched in the order of its calls of
\* Apply, and no task has two: the ballots are then in the order of the log.
LaunchedInOrder ==
  \A i, j \in DOMAIN launched : Before(i, j) => launched[i].task[2] < launched[j].task[2]

\* Terms do not go back along the launched ballots, and a task that expects a
\* term gets no ballot in another: what was checked still holds when used.
TermsMatch ==
  \A i \in DOMAIN launched :
    /\ Expected(launched[i].task) \in {kInvalidIndex, launched[i].term}
    /\ \A j \in 1..i : launched[j].term <= launched[i].term

\* A task is in the queue, in the batch, or has a ballot, unless it expected a
\* term that is not, or no longer was, the node's.
Launched(task) == \E i \in DOMAIN launched : launched[i].task = task

NoneForgotten ==
  \A k \in 1..settled : LET task == received[fiber][k]
                        IN Launched(task) \/ Expected(task) # kInvalidIndex

\* While the fiber runs, every task that Apply accepted is dealt with.
Settled(task) == \E k \in 1..settled : received[fiber][k] = task

EventuallySettled ==
  <>[]running => \A c \in Callers, i \in 1..MaxTasks : (sent[c] >= i) ~> Settled(<<c, i>>)
===============================================================================
