--------------------------- MODULE LeaderNode_proofs ---------------------------
(***************************************************************************)
(* TLAPS proofs about RaftNode and LeaderNode.  Of RaftNode, the node      *)
(* alone: for any callers, batch size, tasks and terms, how ballots follow *)
(* from tasks.  The properties speak of launched and settled tasks; what   *)
(* carries them is where a task can be: a caller's tasks 1, 2, ... have    *)
(* been received in this order up to some number, and the rest is in the   *)
(* queue.                                                                  *)
(*                                                                         *)
(* Of the two together: the steps of LeaderNode are steps of the box and   *)
(* of the node, so that what is proved of each alone holds of both, and an *)
(* open box has the ballots of the log.                                    *)
(***************************************************************************)
EXTENDS LeaderNode, FiniteSetTheorems, SequenceTheorems, TLAPS

BoxAlone == INSTANCE BallotBox_proofs WITH Confs <- AllConfs

-------------------------------------------------------------------------------
(* The node alone: where its tasks are, and what its steps leave *)

Got == received[fiber]

\* Each caller's tasks in the queue are its last ones, in order.
InQueue ==
  \A c \in Callers :
    /\ Len(expected_term[c]) = sent[c]
    /\ Len(chan[c]) <= sent[c]
    /\ \A k \in 1..Len(chan[c]) : chan[c][k] = <<c, sent[c] - Len(chan[c]) + k>>

\* Those received are the ones before.
InGot ==
  \A k \in 1..Len(Got) : Got[k][2] <= sent[Got[k][1]] - Len(chan[Got[k][1]])

GotInOrder ==
  \A k \in 1..Len(Got) : \A j \in 1..(k - 1) :
    Got[j][1] = Got[k][1] => Got[j][2] < Got[k][2]

\* A ballot is that of a task the fiber is done with.
LaunchedSettled ==
  \A i \in 1..Len(launched) : \E k \in 1..settled : Got[k] = launched[i].task

\* The fiber launches the ballot of a task it has checked, under the mutex.
CheckedTask == pc = "launch" => InBatch > 0 /\ ~Refused(Task)

TermsReached == \A i \in 1..Len(launched) : launched[i].term <= current_term

\* The inductive invariant.
NodeInv ==
  /\ TypeOK
  /\ InQueue /\ InGot /\ GotInOrder
  /\ LaunchedSettled /\ CheckedTask /\ TermsReached
  /\ LaunchedInOrder /\ TermsMatch /\ NoneForgotten

LEMMA InitNodeInv == Init => NodeInv
<1> SUFFICES ASSUME Init PROVE NodeInv
  OBVIOUS
<1> USE BatchAssumption, BoundsAssumption
<1>1. /\ chan = [c \in Callers |-> <<>>] /\ sent = [c \in Callers |-> 0]
      /\ received = [c \in {fiber} |-> <<>>] /\ expected_term = [c \in Callers |-> <<>>]
      /\ launched = <<>> /\ settled = 0 /\ pc = "left" /\ current_term = 0 /\ running = FALSE
  BY DEF Init, Channel!Init
<1>2. Got = <<>>
  BY <1>1 DEF Got
<1>3. TypeOK
  <2>1. chan \in [Callers -> Seq(Tasks)] /\ sent \in [Callers -> 0..MaxTasks]
    BY <1>1
  <2>2. received \in [{fiber} -> Seq(Tasks)] /\ Len(received[fiber]) = 0
    BY <1>1, <1>2 DEF Got
  <2>3. expected_term \in [Callers -> Seq(Terms \cup {kInvalidIndex})]
    BY <1>1
  <2>4. launched \in Seq([task : Tasks, term : Terms])
    BY <1>1
  <2>5. settled \in 0..Len(received[fiber]) /\ InBatch <= kRaftApplyBatch
    BY <1>1, <2>2 DEF InBatch
  <2>6. current_term \in Terms
    BY <1>1 DEF Terms
  <2>7. running \in BOOLEAN
    BY <1>1
  <2>8. pc \in {"left", "loop", "dequeue", "locking", "check", "launch"}
    BY <1>1
  <2> QED BY <2>1, <2>2, <2>3, <2>4, <2>5, <2>6, <2>7, <2>8 DEF TypeOK
<1>4. InQueue /\ InGot /\ GotInOrder
  BY <1>1, <1>2 DEF InQueue, InGot, GotInOrder
<1>5. LaunchedSettled /\ CheckedTask /\ TermsReached
  BY <1>1 DEF LaunchedSettled, CheckedTask, TermsReached
<1>6. LaunchedInOrder /\ TermsMatch /\ NoneForgotten
  BY <1>1 DEF LaunchedInOrder, TermsMatch, NoneForgotten, Before
<1> QED BY <1>3, <1>4, <1>5, <1>6 DEF NodeInv

\* What the types say of the parts.
LEMMA NodeShapes ==
  ASSUME TypeOK
  PROVE  /\ Got \in Seq(Tasks) /\ Len(Got) \in Nat
         /\ \A k \in 1..Len(Got) : Got[k] \in Tasks
         /\ settled \in Nat /\ settled <= Len(Got)
         /\ launched \in Seq([task : Tasks, term : Terms]) /\ Len(launched) \in Nat
         /\ DOMAIN launched = 1..Len(launched)
         /\ \A i \in 1..Len(launched) : launched[i] \in [task : Tasks, term : Terms]
         /\ current_term \in Nat
         /\ \A c \in Callers : /\ chan[c] \in Seq(Tasks) /\ Len(chan[c]) \in Nat
                                /\ sent[c] \in Nat
                                /\ expected_term[c] \in Seq(Terms \cup {kInvalidIndex})
                                /\ Len(expected_term[c]) \in Nat
<1>1. /\ Got \in Seq(Tasks) /\ settled \in 0..Len(Got)
      /\ launched \in Seq([task : Tasks, term : Terms])
      /\ current_term \in Nat
      /\ \A c \in Callers : /\ chan[c] \in Seq(Tasks) /\ sent[c] \in Nat
                             /\ expected_term[c] \in Seq(Terms \cup {kInvalidIndex})
  BY BoundsAssumption DEF TypeOK, Got, Terms
<1>2. Len(Got) \in Nat /\ \A k \in 1..Len(Got) : Got[k] \in Tasks
  BY <1>1, LenProperties, ElementOfSeq
<1>3. /\ Len(launched) \in Nat /\ DOMAIN launched = 1..Len(launched)
      /\ \A i \in 1..Len(launched) : launched[i] \in [task : Tasks, term : Terms]
  BY <1>1, LenProperties, ElementOfSeq
<1> QED BY <1>1, <1>2, <1>3, LenProperties

\* A task received keeps what it expects when others are put in the queue.
LEMMA TaskKnown ==
  ASSUME NodeInv, NEW k \in 1..Len(Got)
  PROVE  /\ Got[k][1] \in Callers /\ Got[k][2] \in Nat
         /\ 1 <= Got[k][2] /\ Got[k][2] <= Len(expected_term[Got[k][1]])
<1>1. Got[k] \in Callers \X (1..MaxTasks)
  BY NodeShapes DEF NodeInv, Tasks
<1>2. Got[k][1] \in Callers /\ Got[k][2] \in 1..MaxTasks
  BY <1>1
<1>3. Got[k][2] <= sent[Got[k][1]] - Len(chan[Got[k][1]])
  BY DEF NodeInv, InGot
<1>4. \A c \in Callers : /\ Len(expected_term[c]) = sent[c]
                         /\ Len(chan[c]) \in Nat /\ sent[c] \in Nat
  BY NodeShapes DEF NodeInv, InQueue
<1>5. Got[k][2] \in Nat /\ 1 <= Got[k][2]
  BY <1>2, BoundsAssumption
<1> QED BY <1>2, <1>3, <1>4, <1>5

\* What the invariant says of the ballots and of what is settled does not
\* depend on the queue, beyond what was received and what is expected of it.
LEMMA BallotsKept ==
  ASSUME NodeInv,
         settled' = settled, launched' = launched,
         current_term <= current_term', current_term' \in Nat,
         Len(Got') \in Nat, Len(Got') >= Len(Got),
         \A k \in 1..Len(Got) : Got'[k] = Got[k] /\ Expected(Got[k])' = Expected(Got[k])
  PROVE  /\ LaunchedSettled' /\ TermsReached' /\ LaunchedInOrder'
         /\ TermsMatch' /\ NoneForgotten'
<1> USE NodeShapes DEF NodeInv
<1>1. \A k \in 1..settled : k \in 1..Len(Got)
  OBVIOUS
<1>2. LaunchedSettled'
  BY <1>1 DEF LaunchedSettled
<1>3. TermsReached'
  <2> SUFFICES ASSUME NEW i \in 1..Len(launched)
               PROVE  launched[i].term <= current_term'
    BY DEF TermsReached
  <2>1. launched[i].term <= current_term /\ launched[i].term \in Terms
    BY DEF TermsReached
  <2> QED BY <2>1, BoundsAssumption DEF Terms
<1>4. LaunchedInOrder'
  BY DEF LaunchedInOrder, Before
<1>5. TermsMatch'
  <2> SUFFICES ASSUME NEW i \in 1..Len(launched)
               PROVE  Expected(launched[i].task)' = Expected(launched[i].task)
    BY DEF TermsMatch
  <2>1. PICK k \in 1..settled : Got[k] = launched[i].task
    BY DEF LaunchedSettled
  <2> QED BY <1>1, <2>1
<1>6. NoneForgotten'
  BY <1>1 DEF NoneForgotten, Launched, Got
<1> QED BY <1>2, <1>3, <1>4, <1>5, <1>6

LEMMA ApplyStep ==
  ASSUME NodeInv, NEW c \in Callers, NEW expected \in Terms \cup {kInvalidIndex},
         Apply(c, expected)
  PROVE  NodeInv'
<1> DEFINE new == <<c, sent[c] + 1>>
           queued == Append(chan[c], new)
           expectations == Append(expected_term[c], expected)
<1>0. TypeOK
  BY DEF NodeInv
<1>1. /\ sent[c] < MaxTasks /\ sent' = [sent EXCEPT ![c] = @ + 1]
      /\ chan' = [chan EXCEPT ![c] = queued]
      /\ expected_term' = [expected_term EXCEPT ![c] = expectations]
      /\ UNCHANGED <<received, running, current_term, pc, settled, launched>>
  BY DEF Apply, Channel!Put
<1>2. Got' = Got /\ InBatch' = InBatch
  BY <1>1 DEF Got, InBatch
<1>3. \A d \in Callers :
        /\ Len(expected_term[d]) = sent[d] /\ Len(chan[d]) <= sent[d]
        /\ \A k \in 1..Len(chan[d]) : chan[d][k] = <<d, sent[d] - Len(chan[d]) + k>>
        /\ chan[d] \in Seq(Tasks) /\ Len(chan[d]) \in Nat /\ sent[d] \in Nat
        /\ expected_term[d] \in Seq(Terms \cup {kInvalidIndex})
        /\ Len(expected_term[d]) \in Nat
  BY <1>0, NodeShapes DEF NodeInv, InQueue
<1>4. new \in Tasks
  BY <1>1, <1>3, BoundsAssumption DEF Tasks
<1>5. /\ queued \in Seq(Tasks) /\ Len(queued) = Len(chan[c]) + 1
      /\ \A k \in 1..Len(chan[c]) : queued[k] = chan[c][k]
      /\ queued[Len(chan[c]) + 1] = new
  <2> HIDE DEF new
  <2> QED BY <1>3, <1>4, AppendProperties
<1>6. /\ expectations \in Seq(Terms \cup {kInvalidIndex})
      /\ Len(expectations) = Len(expected_term[c]) + 1
      /\ \A k \in 1..Len(expected_term[c]) : expectations[k] = expected_term[c][k]
  BY <1>3, AppendProperties
<1> HIDE DEF new, queued, expectations
<1>7. \A d \in Callers :
        /\ sent'[d] = IF d = c THEN sent[c] + 1 ELSE sent[d]
        /\ chan'[d] = IF d = c THEN queued ELSE chan[d]
        /\ expected_term'[d] = IF d = c THEN expectations ELSE expected_term[d]
  BY <1>0, <1>1 DEF TypeOK
<1>8. TypeOK'
  <2>1. chan' \in [Callers -> Seq(Tasks)]
    BY <1>0, <1>1, <1>5 DEF TypeOK
  <2>2. sent' \in [Callers -> 0..MaxTasks]
    BY <1>0, <1>1, BoundsAssumption DEF TypeOK
  <2>3. expected_term' \in [Callers -> Seq(Terms \cup {kInvalidIndex})]
    BY <1>0, <1>1, <1>6 DEF TypeOK
  <2> QED BY <2>1, <2>2, <2>3, <1>0, <1>1, <1>2 DEF TypeOK
<1>9. \A d \in Callers :
         /\ Len(expected_term'[d]) = sent'[d] /\ Len(chan'[d]) <= sent'[d]
         /\ sent'[d] - Len(chan'[d]) = sent[d] - Len(chan[d])
  <2> SUFFICES ASSUME NEW d \in Callers
               PROVE  /\ Len(expected_term'[d]) = sent'[d] /\ Len(chan'[d]) <= sent'[d]
                      /\ sent'[d] - Len(chan'[d]) = sent[d] - Len(chan[d])
    OBVIOUS
  <2>1. CASE d = c
    <3>1. chan'[d] = queued /\ expected_term'[d] = expectations /\ sent'[d] = sent[d] + 1
      BY <2>1, <1>7, Zenon
    <3>2. /\ Len(queued) = Len(chan[d]) + 1 /\ Len(expectations) = Len(expected_term[d]) + 1
          /\ Len(expected_term[d]) = sent[d] /\ Len(chan[d]) <= sent[d]
          /\ Len(chan[d]) \in Nat /\ sent[d] \in Nat
      BY <2>1, <1>3, <1>5, <1>6, Zenon
    <3>3. Len(chan'[d]) = Len(chan[d]) + 1 /\ Len(expected_term'[d]) = sent[d] + 1
      BY <3>1, <3>2, Zenon
    <3>4. ASSUME NEW x \in Nat, NEW y \in Nat, x <= y
          PROVE  x + 1 <= y + 1 /\ (y + 1) - (x + 1) = y - x
      BY <3>4
    <3>5. Len(chan[d]) + 1 <= sent[d] + 1
          /\ (sent[d] + 1) - (Len(chan[d]) + 1) = sent[d] - Len(chan[d])
      BY <3>2, <3>4, Zenon
    <3> QED BY <3>1, <3>3, <3>5, Zenon
  <2>2. CASE d # c
    <3>1. chan'[d] = chan[d] /\ expected_term'[d] = expected_term[d] /\ sent'[d] = sent[d]
      BY <2>2, <1>7, Zenon
    <3> QED BY <3>1, <1>3, Zenon
  <2> QED BY <2>1, <2>2
<1>10. InQueue'
  <2> SUFFICES ASSUME NEW d \in Callers, NEW k \in 1..Len(chan'[d])
               PROVE  chan'[d][k] = <<d, sent[d] - Len(chan[d]) + k>>
    BY <1>9, Zenon DEF InQueue
  <2>1. CASE d # c
    <3>1. chan'[d] = chan[d]
      BY <2>1, <1>7, Zenon
    <3> QED BY <3>1, <1>3, Zenon
  <2>2. CASE d = c
    <3>1. chan'[d] = queued /\ k \in 1..(Len(chan[c]) + 1)
      BY <2>2, <1>5, <1>7
    <3>2. CASE k = Len(chan[c]) + 1
      <4>1. sent[c] - Len(chan[c]) + k = sent[c] + 1
        BY <3>2, <1>3
      <4> QED BY <2>2, <3>1, <3>2, <4>1, <1>5, Zenon DEF new
    <3>3. CASE k # Len(chan[c]) + 1
      <4>1. k \in 1..Len(chan[c])
        BY <3>1, <3>3, <1>3
      <4> QED BY <2>2, <3>1, <4>1, <1>3, <1>5, Zenon
    <3> QED BY <3>2, <3>3
  <2> QED BY <2>1, <2>2
<1>11. \A k \in 1..Len(Got) :
         /\ Got[k][1] \in Callers /\ Got[k][2] \in 1..Len(expected_term[Got[k][1]])
  BY <1>3, TaskKnown
<1>12. InGot' /\ GotInOrder'
  <2>1. InGot /\ GotInOrder
    BY DEF NodeInv
  <2> QED BY <1>2, <1>9, <1>11, <2>1 DEF InGot, GotInOrder
<1>13. \A k \in 1..Len(Got) : Expected(Got[k])' = Expected(Got[k])
  <2> SUFFICES ASSUME NEW k \in 1..Len(Got)
               PROVE  expected_term'[Got[k][1]][Got[k][2]] = expected_term[Got[k][1]][Got[k][2]]
    BY <1>2 DEF Expected
  <2> QED BY <1>6, <1>7, <1>11
<1>14. /\ LaunchedSettled' /\ TermsReached' /\ LaunchedInOrder'
       /\ TermsMatch' /\ NoneForgotten'
  BY <1>0, <1>1, <1>2, <1>13, NodeShapes, BallotsKept
<1>15. CheckedTask'
  <2> SUFFICES ASSUME pc = "launch" PROVE InBatch > 0 /\ ~Refused(Task)'
    BY <1>1, <1>2 DEF CheckedTask
  <2>1. InBatch > 0 /\ ~Refused(Task)
    BY DEF NodeInv, CheckedTask
  <2>2. settled + 1 \in 1..Len(Got) /\ Task = Got[settled + 1] /\ Task' = Task
    BY <1>0, <1>1, <1>2, <2>1, NodeShapes DEF InBatch, Task, Got
  <2>3. Expected(Task)' = Expected(Task)
    BY <1>2, <1>13, <2>2
  <2>4. current_term' = current_term
    BY <1>1
  <2> QED BY <2>1, <2>3, <2>4, Zenon DEF Refused
<1> QED BY <1>8, <1>10, <1>12, <1>14, <1>15 DEF NodeInv

\* The fiber's steps that leave the queue and what is settled alone.
LEMMA NodeFrameStep ==
  ASSUME NodeInv, UNCHANGED <<queue, settled, launched>>,
         current_term' \in Terms, current_term <= current_term', running' \in BOOLEAN,
         pc' \in {"left", "loop", "dequeue", "locking", "check", "launch"},
         pc' = "launch" => InBatch > 0 /\ ~Refused(Task)'
  PROVE  NodeInv'
<1>1. /\ chan' = chan /\ sent' = sent /\ received' = received
      /\ expected_term' = expected_term /\ settled' = settled /\ launched' = launched
  BY DEF queue
<1>2. Got' = Got /\ InBatch' = InBatch
  BY <1>1 DEF Got, InBatch
<1>3. TypeOK /\ InQueue /\ InGot /\ GotInOrder
  BY DEF NodeInv
<1>4. TypeOK'
  BY <1>1, <1>2, <1>3 DEF TypeOK, Tasks, Terms
<1>5. InQueue' /\ InGot' /\ GotInOrder'
  BY <1>1, <1>2, <1>3 DEF InQueue, InGot, GotInOrder
<1>6. current_term' \in Nat /\ Len(Got') \in Nat /\ Len(Got') >= Len(Got)
  BY <1>2, <1>3, NodeShapes, BoundsAssumption DEF Terms
<1>7. \A k \in 1..Len(Got) : Got'[k] = Got[k] /\ Expected(Got[k])' = Expected(Got[k])
  BY <1>1, <1>2 DEF Expected
<1>8. /\ LaunchedSettled' /\ TermsReached' /\ LaunchedInOrder'
      /\ TermsMatch' /\ NoneForgotten'
  BY <1>1, <1>6, <1>7, BallotsKept
<1>9. CheckedTask'
  BY <1>2 DEF CheckedTask
<1> QED BY <1>4, <1>5, <1>8, <1>9 DEF NodeInv

\* A batch of c's oldest tasks goes to the end of what was received.
LEMMA CollectStep ==
  ASSUME NodeInv, NEW c \in Callers, Collect(c)
  PROVE  NodeInv'
<1>1. PICK n \in 1..Len(chan[c]) : n <= Room /\ Channel!Get(fiber, c, n)
  BY DEF Collect
<1> DEFINE front == SubSeq(chan[c], 1, n)
           rest == SubSeq(chan[c], n + 1, Len(chan[c]))
           left == sent[c] - Len(chan[c])
<1>2. TypeOK /\ InQueue /\ InGot /\ GotInOrder
  BY DEF NodeInv
<1>3. /\ received' = [received EXCEPT ![fiber] = @ \o front]
      /\ chan' = [chan EXCEPT ![c] = rest]
      /\ UNCHANGED <<sent, expected_term, running, current_term, settled, launched>>
      /\ pc = "dequeue" /\ pc' = "dequeue"
  BY <1>1 DEF Collect, Channel!Get
<1>4. /\ chan[c] \in Seq(Tasks) /\ Len(chan[c]) \in Nat /\ n \in Nat /\ n > 0
      /\ Got \in Seq(Tasks) /\ Len(Got) \in Nat /\ settled \in Nat /\ settled <= Len(Got)
      /\ left \in Int
      /\ \A k \in 1..Len(chan[c]) : chan[c][k] \in Tasks /\ chan[c][k] = <<c, left + k>>
      /\ \A d \in Callers : sent[d] \in Nat /\ Len(chan[d]) \in Nat /\ Len(chan[d]) <= sent[d]
  BY <1>1, <1>2, NodeShapes, ElementOfSeq DEF InQueue
<1>5. /\ front \in Seq(Tasks) /\ Len(front) = n
      /\ \A k \in 1..n : front[k] = chan[c][k]
  <2>1. \A k \in 1..n : chan[c][k] \in Tasks
    BY <1>1, <1>4
  <2> QED BY <1>4, <2>1, SubSeqProperties
<1>6. /\ rest \in Seq(Tasks) /\ Len(rest) = Len(chan[c]) - n
      /\ \A k \in 1..Len(rest) : rest[k] = chan[c][n + k]
  <2>1. \A k \in (n + 1)..Len(chan[c]) : chan[c][k] \in Tasks
    BY <1>1, <1>4
  <2>2. /\ SubSeq(chan[c], n + 1, Len(chan[c])) \in Seq(Tasks)
        /\ Len(rest) = IF n + 1 <= Len(chan[c]) THEN Len(chan[c]) - (n + 1) + 1 ELSE 0
        /\ \A k \in 1..(Len(chan[c]) - (n + 1) + 1) : rest[k] = chan[c][(n + 1) + k - 1]
    BY <1>4, <2>1, SubSeqProperties
  <2> HIDE DEF rest
  <2>3. Len(rest) = Len(chan[c]) - n
    BY <1>1, <1>4, <2>2
  <2>4. ASSUME NEW k \in 1..Len(rest) PROVE rest[k] = chan[c][n + k]
    <3>1. k \in 1..(Len(chan[c]) - (n + 1) + 1) /\ (n + 1) + k - 1 = n + k
      BY <1>1, <1>4, <2>3
    <3> QED BY <2>2, <3>1, Zenon
  <2> QED BY <2>2, <2>3, <2>4 DEF rest
<1> HIDE DEF front, rest
<1>7. Got' = Got \o front
  BY <1>2, <1>3 DEF Got, TypeOK
<1>8. /\ Got' \in Seq(Tasks) /\ Len(Got') = Len(Got) + n
      /\ \A k \in 1..Len(Got) : Got'[k] = Got[k]
      /\ \A k \in (Len(Got) + 1)..(Len(Got) + n) : Got'[k] = front[k - Len(Got)]
  <2>1. /\ Got \o front \in Seq(Tasks) /\ Len(Got \o front) = Len(Got) + Len(front)
        /\ \A k \in 1..(Len(Got) + Len(front)) :
             (Got \o front)[k] = IF k <= Len(Got) THEN Got[k] ELSE front[k - Len(Got)]
    BY <1>4, <1>5, ConcatProperties
  <2> DEFINE all == Got \o front
  <2> HIDE DEF all
  <2>2. /\ all \in Seq(Tasks) /\ Len(all) = Len(Got) + n
        /\ \A k \in 1..(Len(Got) + n) :
             all[k] = IF k <= Len(Got) THEN Got[k] ELSE front[k - Len(Got)]
    BY <2>1, <1>5 DEF all
  <2>3. /\ \A k \in 1..Len(Got) : all[k] = Got[k]
        /\ \A k \in (Len(Got) + 1)..(Len(Got) + n) : all[k] = front[k - Len(Got)]
    BY <2>2, <1>4
  <2> QED BY <1>7, <2>2, <2>3 DEF all
<1>9. \A k \in (Len(Got) + 1)..(Len(Got) + n) : Got'[k] = <<c, left + (k - Len(Got))>>
  <2> SUFFICES ASSUME NEW k \in (Len(Got) + 1)..(Len(Got) + n)
               PROVE  Got'[k] = <<c, left + (k - Len(Got))>>
    OBVIOUS
  <2>1. k - Len(Got) \in 1..n /\ k - Len(Got) \in 1..Len(chan[c])
    BY <1>1, <1>4
  <2> QED BY <1>4, <1>5, <1>8, <2>1, Zenon
<1>10. \A d \in Callers :
         /\ chan'[d] = IF d = c THEN rest ELSE chan[d]
         /\ sent'[d] = sent[d] /\ expected_term'[d] = expected_term[d]
  BY <1>2, <1>3 DEF TypeOK
<1>11. TypeOK'
  <2>1. chan' \in [Callers -> Seq(Tasks)] /\ received' \in [{fiber} -> Seq(Tasks)]
    BY <1>2, <1>3, <1>6, <1>7, <1>8 DEF TypeOK, Got
  <2>2. settled' \in 0..Len(received'[fiber]) /\ InBatch' <= kRaftApplyBatch
    <3>1. settled' = settled
      BY <1>3
    <3>2. received'[fiber] = Got' /\ InBatch' = Len(Got') - settled'
      BY DEF Got, InBatch
    <3>3. Len(Got') = Len(Got) + n
      BY <1>8
    <3>4. n <= kRaftApplyBatch - (Len(Got) - settled)
      BY <1>1 DEF Room, InBatch, Got
    <3>5. settled \in 0..(Len(Got) + n) /\ Len(Got) + n - settled <= kRaftApplyBatch
      BY <3>4, <1>4, BatchAssumption
    <3> QED BY <3>1, <3>2, <3>3, <3>5
  <2> QED BY <1>2, <1>3, <2>1, <2>2 DEF TypeOK, Tasks, Terms
<1>12. InQueue'
  <2> SUFFICES ASSUME NEW d \in Callers
               PROVE  /\ Len(expected_term'[d]) = sent'[d]
                      /\ Len(chan'[d]) <= sent'[d]
                      /\ \A k \in 1..Len(chan'[d]) :
                            chan'[d][k] = <<d, sent'[d] - Len(chan'[d]) + k>>
    BY DEF InQueue
  <2>1. CASE d # c
    BY <2>1, <1>2, <1>10 DEF InQueue
  <2>2. CASE d = c
    <3>1. Len(expected_term'[d]) = sent'[d] /\ Len(chan'[d]) <= sent'[d]
      BY <2>2, <1>2, <1>4, <1>6, <1>10 DEF InQueue
    <3>2. ASSUME NEW k \in 1..Len(rest)
          PROVE  rest[k] = <<c, sent[c] - Len(rest) + k>>
      <4>1. n + k \in 1..Len(chan[c]) /\ left + (n + k) = sent[c] - Len(rest) + k
        BY <1>1, <1>4, <1>6
      <4> QED BY <1>4, <1>6, <4>1, Zenon
    <3> QED BY <2>2, <1>10, <3>1, <3>2
  <2> QED BY <2>1, <2>2
<1>13. InGot'
  <2> SUFFICES ASSUME NEW k \in 1..Len(Got')
               PROVE  Got'[k][2] <= sent'[Got'[k][1]] - Len(chan'[Got'[k][1]])
    BY DEF InGot
  <2>1. CASE k \in 1..Len(Got)
    <3>1. /\ Got'[k] = Got[k] /\ Got[k][1] \in Callers /\ Got[k][2] \in Nat
          /\ Got[k][2] <= sent[Got[k][1]] - Len(chan[Got[k][1]])
      BY <2>1, <1>2, <1>8, TaskKnown DEF InGot
    <3> DEFINE d == Got[k][1]
    <3> HIDE DEF d
    <3>2. d \in Callers /\ Got[k][2] <= sent[d] - Len(chan[d])
      BY <3>1 DEF d
    <3>3. Len(chan'[d]) \in Nat /\ Len(chan'[d]) <= Len(chan[d]) /\ sent'[d] = sent[d]
      <4>1. CASE d = c
        BY <4>1, <1>1, <1>4, <1>6, <1>10
      <4>2. CASE d # c
        BY <4>2, <1>4, <1>10, <3>2
      <4> QED BY <4>1, <4>2
    <3>4. sent[d] \in Nat /\ Len(chan[d]) \in Nat
      BY <1>4, <3>2
    <3>5. Got[k][2] <= sent'[d] - Len(chan'[d])
      BY <3>1, <3>2, <3>3, <3>4
    <3> QED BY <3>1, <3>5 DEF d
  <2>2. CASE k \in (Len(Got) + 1)..(Len(Got) + n)
    <3>1. Got'[k][1] = c /\ Got'[k][2] = left + (k - Len(Got))
      BY <2>2, <1>9
    <3>2. sent'[c] - Len(chan'[c]) = left + n
      BY <1>4, <1>6, <1>10
    <3>3. left + (k - Len(Got)) <= left + n
      BY <2>2, <1>4
    <3> QED BY <3>1, <3>2, <3>3
  <2> QED BY <2>1, <2>2, <1>4, <1>8
<1>14. GotInOrder'
  <2> SUFFICES ASSUME NEW k \in 1..Len(Got'), NEW j \in 1..(k - 1), Got'[j][1] = Got'[k][1]
               PROVE  Got'[j][2] < Got'[k][2]
    BY DEF GotInOrder
  <2>1. CASE k \in 1..Len(Got)
    <3>1. j \in 1..Len(Got)
      BY <2>1, <1>4
    <3> QED BY <2>1, <3>1, <1>2, <1>8 DEF GotInOrder
  <2>2. CASE k \in (Len(Got) + 1)..(Len(Got) + n)
    <3>1. Got'[k][1] = c /\ Got'[k][2] = left + (k - Len(Got))
      BY <2>2, <1>9
    <3>2. CASE j \in 1..Len(Got)
      <4>1. Got'[j] = Got[j] /\ Got[j][1] = c /\ Got[j][2] \in Nat
        BY <3>1, <3>2, <1>8, TaskKnown
      <4>2. Got[j][2] <= left
        BY <3>2, <4>1, <1>2, Zenon DEF InGot
      <4>3. left < left + (k - Len(Got)) /\ left \in Int
        BY <2>2, <1>4
      <4> HIDE DEF left
      <4>4. Got'[j][2] = Got[j][2] /\ Got[j][2] < Got'[k][2]
        BY <3>1, <4>1, <4>2, <4>3, <2>2, <1>4
      <4> QED BY <4>4
    <3>3. CASE j \in (Len(Got) + 1)..(Len(Got) + n)
      <4>1. Got'[j][2] = left + (j - Len(Got))
        BY <3>3, <1>9
      <4> QED BY <2>2, <3>1, <3>3, <4>1, <1>4
    <3> QED BY <2>2, <3>2, <3>3, <1>4
  <2> QED BY <2>1, <2>2, <1>4, <1>8
<1>15. /\ LaunchedSettled' /\ TermsReached' /\ LaunchedInOrder'
       /\ TermsMatch' /\ NoneForgotten'
  <2>1. \A k \in 1..Len(Got) : Got'[k] = Got[k] /\ Expected(Got[k])' = Expected(Got[k])
    BY <1>3, <1>8 DEF Expected
  <2>2. current_term' = current_term /\ current_term \in Nat
    BY <1>2, <1>3, NodeShapes
  <2>3. Len(Got') \in Nat /\ Len(Got') >= Len(Got)
    BY <1>4, <1>8
  <2> QED BY <1>3, <2>1, <2>2, <2>3, BallotsKept
<1>16. CheckedTask'
  BY <1>3 DEF CheckedTask
<1> QED BY <1>11, <1>12, <1>13, <1>14, <1>15, <1>16 DEF NodeInv

\* The fiber is done with the task; what remains to show is that of the ballots.
LEMMA SettleStep ==
  ASSUME NodeInv, InBatch > 0, NextTask, pc' = "check",
         UNCHANGED <<queue, running, current_term>>,
         launched' \in Seq([task : Tasks, term : Terms]),
         LaunchedSettled', TermsReached', LaunchedInOrder', TermsMatch',
         NoneForgotten'
  PROVE  NodeInv'
<1>1. /\ chan' = chan /\ sent' = sent /\ received' = received
      /\ expected_term' = expected_term /\ settled' = settled + 1
      /\ running' = running /\ current_term' = current_term
  BY DEF queue, NextTask
<1>2. TypeOK /\ InQueue /\ InGot /\ GotInOrder
  BY DEF NodeInv
<1>3. Got' = Got
  BY <1>1 DEF Got
<1>4. Len(Got) \in Nat /\ settled \in Nat /\ InBatch = Len(Got) - settled
  BY <1>2, NodeShapes DEF InBatch, Got
<1>5. settled' \in 0..Len(received'[fiber]) /\ InBatch' <= kRaftApplyBatch
  <2>1. InBatch' = Len(Got) - settled' /\ received'[fiber] = Got
    BY <1>1 DEF InBatch, Got
  <2>2. InBatch <= kRaftApplyBatch
    BY <1>2 DEF TypeOK
  <2> QED BY <1>1, <1>4, <2>1, <2>2, BatchAssumption
<1>6. TypeOK'
  BY <1>1, <1>2, <1>5 DEF TypeOK, Tasks, Terms
<1>7. InQueue' /\ InGot' /\ GotInOrder'
  BY <1>1, <1>2, <1>3 DEF InQueue, InGot, GotInOrder
<1>8. CheckedTask'
  BY DEF CheckedTask
<1> QED BY <1>6, <1>7, <1>8 DEF NodeInv

\* A task that expects another term is passed over.
LEMMA RefuseStep ==
  ASSUME NodeInv, pc = "check", Check, Refused(Task)
  PROVE  NodeInv'
<1>1. InBatch > 0 /\ NextTask /\ pc' = "check"
      /\ UNCHANGED <<queue, running, current_term, launched>>
  BY DEF Check
<1>2. TypeOK
  BY DEF NodeInv
<1>3. settled' = settled + 1 /\ launched' = launched /\ received' = received
      /\ expected_term' = expected_term /\ current_term' = current_term
  BY <1>1 DEF NextTask, queue
<1>4. settled \in Nat /\ Len(Got) \in Nat /\ Got' = Got
  BY <1>2, <1>3, NodeShapes DEF Got
<1>5. LaunchedSettled' /\ TermsReached' /\ LaunchedInOrder' /\ TermsMatch'
  <2>1. LaunchedSettled /\ TermsReached /\ LaunchedInOrder /\ TermsMatch
    BY DEF NodeInv
  <2>2. \A k \in 1..settled : k \in 1..settled'
    BY <1>3, <1>4
  <2>3. LaunchedSettled'
    BY <1>3, <1>4, <2>1, <2>2 DEF LaunchedSettled
  <2> QED BY <1>3, <2>1, <2>3
         DEF TermsReached, LaunchedInOrder, Before, TermsMatch, Expected
<1>6. NoneForgotten'
  <2> SUFFICES ASSUME NEW k \in 1..settled'
               PROVE  Launched(Got[k]) \/ Expected(Got[k]) # kInvalidIndex
    BY <1>3 DEF NoneForgotten, Launched, Expected, Got
  <2>1. CASE k \in 1..settled
    BY <2>1 DEF NodeInv, NoneForgotten, Got
  <2>2. CASE k = settled + 1
    BY <2>2 DEF Refused, Task, Got
  <2> QED BY <2>1, <2>2, <1>3, <1>4
<1>7. launched' \in Seq([task : Tasks, term : Terms])
  BY <1>2, <1>3 DEF TypeOK
<1> QED BY <1>1, <1>5, <1>6, <1>7, SettleStep

\* The ballot of the task comes after those launched before.
LEMMA LaunchStep ==
  ASSUME NodeInv, Launch
  PROVE  NodeInv'
<1> DEFINE ballot == [task |-> Task, term |-> current_term]
           longer == Append(launched, ballot)
<1>1. launched' = longer /\ NextTask /\ pc' = "check"
      /\ UNCHANGED <<queue, running, current_term>>
  BY DEF Launch
<1>2. InBatch > 0 /\ ~Refused(Task)
  BY DEF NodeInv, CheckedTask, Launch
<1>3. TypeOK /\ LaunchedSettled /\ GotInOrder /\ TermsReached
      /\ LaunchedInOrder /\ TermsMatch /\ NoneForgotten
  BY DEF NodeInv
<1>4. /\ settled' = settled + 1 /\ received' = received
      /\ expected_term' = expected_term /\ current_term' = current_term /\ Got' = Got
  BY <1>1 DEF NextTask, queue, Got
<1>5. /\ settled \in Nat /\ Len(Got) \in Nat /\ Len(launched) \in Nat
      /\ DOMAIN launched = 1..Len(launched)
      /\ launched \in Seq([task : Tasks, term : Terms])
      /\ \A i \in 1..Len(launched) : launched[i] \in [task : Tasks, term : Terms]
      /\ current_term \in Terms /\ Terms \subseteq Nat
      /\ settled + 1 \in 1..Len(Got) /\ Task = Got[settled + 1] /\ Task \in Tasks
  <2>1. InBatch = Len(Got) - settled /\ Task = Got[settled + 1]
    BY DEF InBatch, Task, Got
  <2>2. settled + 1 \in 1..Len(Got)
    BY <1>2, <1>3, <2>1, NodeShapes
  <2> QED BY <1>3, <2>1, <2>2, NodeShapes, BoundsAssumption DEF TypeOK, Terms
<1>6. /\ ballot \in [task : Tasks, term : Terms]
      /\ ballot.task = Task /\ ballot.term = current_term
  BY <1>5
<1> HIDE DEF ballot
<1>7. /\ longer \in Seq([task : Tasks, term : Terms]) /\ Len(longer) = Len(launched) + 1
      /\ \A i \in 1..Len(launched) : longer[i] = launched[i]
      /\ longer[Len(launched) + 1] = ballot
      /\ DOMAIN longer = 1..(Len(launched) + 1)
  <2>1. /\ longer \in Seq([task : Tasks, term : Terms])
        /\ Len(longer) = Len(launched) + 1
        /\ \A i \in 1..Len(launched) : longer[i] = launched[i]
        /\ longer[Len(launched) + 1] = ballot
    BY <1>5, <1>6, AppendProperties
  <2> HIDE DEF longer
  <2> QED BY <2>1, LenProperties
<1> HIDE DEF longer
<1>8. \A i \in 1..(Len(launched) + 1) : i \in 1..Len(launched) \/ i = Len(launched) + 1
  BY <1>5
<1>9. \A i \in 1..Len(launched) : \E k \in 1..settled : launched[i].task = Got[k]
  BY <1>3 DEF LaunchedSettled
<1>10. LaunchedSettled'
  <2> SUFFICES ASSUME NEW i \in 1..(Len(launched) + 1)
               PROVE  \E k \in 1..(settled + 1) : Got[k] = longer[i].task
    BY <1>1, <1>4, <1>7 DEF LaunchedSettled
  <2>1. CASE i \in 1..Len(launched)
    BY <2>1, <1>5, <1>7, <1>9
  <2>2. CASE i = Len(launched) + 1
    BY <2>2, <1>5, <1>6, <1>7
  <2> QED BY <2>1, <2>2, <1>8
<1>11. TermsReached'
  <2> SUFFICES ASSUME NEW i \in 1..(Len(launched) + 1)
               PROVE  longer[i].term <= current_term
    BY <1>1, <1>4, <1>7 DEF TermsReached
  <2>1. CASE i \in 1..Len(launched)
    BY <2>1, <1>3, <1>7 DEF TermsReached
  <2>2. CASE i = Len(launched) + 1
    BY <2>2, <1>5, <1>6, <1>7
  <2> QED BY <2>1, <2>2, <1>8
<1>12. LaunchedInOrder'
  <2> SUFFICES ASSUME NEW i \in 1..(Len(launched) + 1), NEW j \in 1..(Len(launched) + 1),
                      i < j, longer[i].task[1] = longer[j].task[1]
               PROVE  longer[i].task[2] < longer[j].task[2]
    BY <1>1, <1>7 DEF LaunchedInOrder, Before
  <2>1. i \in 1..Len(launched)
    BY <1>5
  <2>2. CASE j \in 1..Len(launched)
    BY <2>1, <2>2, <1>3, <1>5, <1>7 DEF LaunchedInOrder, Before
  <2>3. CASE j = Len(launched) + 1
    <3>1. PICK k \in 1..settled : longer[i].task = Got[k]
      BY <2>1, <1>7, <1>9
    <3>2. longer[j].task = Got[settled + 1]
      BY <2>3, <1>5, <1>6, <1>7
    <3>3. k \in 1..((settled + 1) - 1)
      BY <1>5
    <3> QED BY <3>1, <3>2, <3>3, <1>3, <1>5 DEF GotInOrder
  <2> QED BY <2>2, <2>3, <1>8
<1>13. TermsMatch'
  <2> SUFFICES ASSUME NEW i \in 1..(Len(launched) + 1)
               PROVE  /\ Expected(longer[i].task) \in {kInvalidIndex, longer[i].term}
                      /\ \A j \in 1..i : longer[j].term <= longer[i].term
    BY <1>1, <1>4, <1>7 DEF TermsMatch, Expected
  <2>1. CASE i \in 1..Len(launched)
    <3>1. /\ Expected(launched[i].task) \in {kInvalidIndex, launched[i].term}
          /\ \A j \in 1..i : launched[j].term <= launched[i].term
      BY <2>1, <1>3, <1>5 DEF TermsMatch
    <3>2. \A j \in 1..i : j \in 1..Len(launched)
      BY <2>1, <1>5
    <3> QED BY <2>1, <3>1, <3>2, <1>7
  <2>2. CASE i = Len(launched) + 1
    <3>1. longer[i].task = Task /\ longer[i].term = current_term
      BY <2>2, <1>6, <1>7
    <3>2. Expected(Task) \in {kInvalidIndex, current_term}
      BY <1>2 DEF Refused
    <3>3. \A j \in 1..i : longer[j].term <= current_term
      BY <2>2, <1>1, <1>4, <1>7, <1>11 DEF TermsReached
    <3> QED BY <3>1, <3>2, <3>3
  <2> QED BY <2>1, <2>2, <1>8
<1>14. NoneForgotten'
  <2> SUFFICES ASSUME NEW k \in 1..(settled + 1)
               PROVE  (\E i \in DOMAIN longer : longer[i].task = Got[k])
                        \/ Expected(Got[k]) # kInvalidIndex
    BY <1>1, <1>4 DEF NoneForgotten, Launched, Expected, Got
  <2>1. CASE k \in 1..settled
    <3>1. \/ \E i \in 1..Len(launched) : launched[i].task = Got[k]
          \/ Expected(Got[k]) # kInvalidIndex
      BY <2>1, <1>3, <1>5 DEF NoneForgotten, Launched, Got
    <3>2. \A i \in 1..Len(launched) : i \in DOMAIN longer
      BY <1>5, <1>7
    <3> QED BY <3>1, <3>2, <1>7
  <2>2. CASE k = settled + 1
    <3>1. Len(launched) + 1 \in DOMAIN longer
      BY <1>5, <1>7
    <3> QED BY <2>2, <3>1, <1>5, <1>6, <1>7
  <2> QED BY <2>1, <2>2, <1>5
<1>15. launched' \in Seq([task : Tasks, term : Terms])
  BY <1>1, <1>7
<1> QED BY <1>1, <1>2, <1>10, <1>11, <1>12, <1>13, <1>14, <1>15, SettleStep

LEMMA NextNodeInv == NodeInv /\ [Next]_vars => NodeInv'
<1> SUFFICES ASSUME NodeInv, [Next]_vars PROVE NodeInv'
  OBVIOUS
<1>1. TypeOK /\ current_term \in Terms /\ Terms \subseteq Nat /\ running \in BOOLEAN
  BY BoundsAssumption DEF NodeInv, TypeOK, Terms
<1>2. pc \in {"left", "loop", "dequeue", "locking", "check", "launch"}
  BY <1>1 DEF TypeOK
<1>3. current_term <= current_term
  BY <1>1
<1>4. ASSUME NEW c \in Callers, NEW expected \in Terms \cup {kInvalidIndex},
             Apply(c, expected)
      PROVE  NodeInv'
  BY <1>4, ApplyStep
<1>5. CASE ChangeTerm
  <2>1. current_term' \in Terms /\ current_term <= current_term'
    BY <1>1, <1>5, BoundsAssumption DEF ChangeTerm, Terms
  <2>2. pc' = pc /\ pc # "launch" /\ running' = running
        /\ UNCHANGED <<queue, settled, launched>>
    BY <1>5 DEF ChangeTerm, HoldsMutex
  <2> QED BY <1>1, <1>2, <2>1, <2>2, NodeFrameStep
<1>6. CASE StartFiber
  <2>1. current_term' = current_term /\ running' = TRUE /\ pc' = "loop"
        /\ UNCHANGED <<queue, settled, launched>>
    BY <1>6 DEF StartFiber
  <2> QED BY <1>1, <1>3, <2>1, NodeFrameStep
<1>7. CASE StopFiber
  <2>1. current_term' = current_term /\ running' = FALSE /\ pc' = pc
        /\ UNCHANGED <<queue, settled, launched>>
    BY <1>7 DEF StopFiber
  <2>2. pc = "launch" => InBatch > 0 /\ ~Refused(Task)
    BY DEF NodeInv, CheckedTask
  <2>3. Refused(Task)' = Refused(Task)
    BY <2>1 DEF Refused, Task, Expected, queue
  <2> QED BY <1>1, <1>2, <1>3, <2>1, <2>2, <2>3, NodeFrameStep
<1>8. CASE TestRunning \/ WaitDequeueBulkTimed \/ Lock \/ Unlock
  <2>1. current_term' = current_term /\ running' = running
        /\ pc' \in {"left", "loop", "dequeue", "locking", "check"}
        /\ UNCHANGED <<queue, settled, launched>>
    BY <1>8 DEF TestRunning, WaitDequeueBulkTimed, AfterDequeue,
                Lock, Unlock
  <2>2. pc' # "launch"
    BY <2>1
  <2> QED BY <1>1, <1>3, <2>1, <2>2, NodeFrameStep
<1>9. CASE Check
  <2>1. CASE Refused(Task)
    BY <1>9, <2>1, RefuseStep DEF Check
  <2>2. CASE ~Refused(Task)
    <3>1. current_term' = current_term /\ running' = running /\ pc' = "launch" /\ InBatch > 0
          /\ UNCHANGED <<queue, settled, launched>>
      BY <1>9, <2>2 DEF Check
    <3>2. ~Refused(Task)'
      BY <2>2, <3>1 DEF Refused, Task, Expected, queue
    <3> QED BY <1>1, <1>3, <3>1, <3>2, NodeFrameStep
  <2> QED BY <2>1, <2>2
<1>10. CASE Launch
  BY <1>10, LaunchStep
<1>11. ASSUME NEW c \in Callers, Collect(c)
       PROVE  NodeInv'
  BY <1>11, CollectStep
<1>12. CASE UNCHANGED vars
  <2>1. current_term' = current_term /\ running' = running /\ pc' = pc
        /\ UNCHANGED <<queue, settled, launched>>
    BY <1>12 DEF vars
  <2>2. pc = "launch" => InBatch > 0 /\ ~Refused(Task)
    BY DEF NodeInv, CheckedTask
  <2>3. Refused(Task)' = Refused(Task)
    BY <2>1 DEF Refused, Task, Expected, queue
  <2> QED BY <1>1, <1>2, <1>3, <2>1, <2>2, <2>3, NodeFrameStep
<1> QED
  BY <1>4, <1>5, <1>6, <1>7, <1>8, <1>9, <1>10, <1>11, <1>12 DEF Next, FiberStep

-------------------------------------------------------------------------------
(* The configurations ballots are launched with *)

\* Every finite set of integers has an ascending order.
LEMMA AscendingSorts ==
  ASSUME NEW S \in SUBSET Int, IsFiniteSet(S)
  PROVE  /\ Ascending(S) \in [1..Cardinality(S) -> S]
         /\ \A i, j \in 1..Cardinality(S) : i < j => Ascending(S)[i] < Ascending(S)[j]
<1> DEFINE n == Cardinality(S)
           UpTo(x) == {y \in S : y <= x}
           rank == [x \in S |-> Cardinality(UpTo(x))]
<1>1. n \in Nat
  BY FS_CardinalityType
<1>2. \A x \in S : IsFiniteSet(UpTo(x)) /\ rank[x] \in 1..n
  <2> TAKE x \in S
  <2>1. UpTo(x) \in SUBSET S /\ x \in UpTo(x)
    OBVIOUS
  <2>2. IsFiniteSet(UpTo(x)) /\ Cardinality(UpTo(x)) <= n
    BY <2>1, FS_Subset
  <2>3. Cardinality(UpTo(x)) \in Nat /\ Cardinality(UpTo(x)) # 0
    BY <2>1, <2>2, FS_CardinalityType, FS_EmptySet
  <2> QED BY <1>1, <2>2, <2>3
<1>3. ASSUME NEW x \in S, NEW y \in S, x < y
      PROVE  rank[x] < rank[y]
  <2>0. x \in Int /\ y \in Int /\ \A z \in S : z \in Int
    OBVIOUS
  <2>1. UpTo(x) \in SUBSET UpTo(y) /\ y \in UpTo(y) /\ y \notin UpTo(x)
    <3>1. \A z \in S : z <= x => z <= y
      BY <1>3, <2>0
    <3>2. y <= y /\ ~(y <= x)
      BY <1>3, <2>0
    <3> QED BY <3>1, <3>2
  <2>2. IsFiniteSet(UpTo(y))
    BY <1>2
  <2>3. /\ Cardinality(UpTo(x)) <= Cardinality(UpTo(y))
        /\ Cardinality(UpTo(y)) = Cardinality(UpTo(x)) => UpTo(y) = UpTo(x)
    BY <2>1, <2>2, FS_Subset
  <2>4. rank[x] <= rank[y] /\ rank[x] # rank[y]
    BY <2>1, <2>3
  <2>5. rank[x] \in Int /\ rank[y] \in Int
    BY <1>1, <1>2
  <2> QED BY <2>4, <2>5
<1>4. \A x, y \in S : rank[x] = rank[y] => x = y
  <2> SUFFICES ASSUME NEW x \in S, NEW y \in S, x # y
               PROVE  rank[x] # rank[y]
    OBVIOUS
  <2>1. x < y \/ y < x
    OBVIOUS
  <2>2. rank[x] < rank[y] \/ rank[y] < rank[x]
    BY <2>1, <1>3
  <2>3. rank[x] \in Int /\ rank[y] \in Int
    BY <1>1, <1>2
  <2> QED BY <2>2, <2>3
<1>5. rank \in [S -> 1..n]
  BY <1>2
<1> HIDE DEF rank
<1>6. \A k \in 1..n : \E x \in S : rank[x] = k
  <2>1. rank \in Injection(S, 1..n)
    BY <1>4, <1>5 DEF Injection, IsInjective
  <2>2. IsFiniteSet(1..n) /\ Cardinality(1..n) = IF 1 > n THEN 0 ELSE n - 1 + 1
    BY <1>1, FS_Interval
  <2>3. Cardinality(S) = Cardinality(1..n)
    BY <1>1, <2>2
  <2>4. rank \in Surjection(S, 1..n)
    BY <2>1, <2>2, <2>3, FS_Injection
  <2> QED BY <2>4 DEF Surjection
<1> DEFINE s == [k \in 1..n |-> CHOOSE x \in S : rank[x] = k]
<1>7. \A k \in 1..n : s[k] \in S /\ rank[s[k]] = k
  BY <1>6
<1>8. s \in [1..n -> S]
  BY <1>7
<1>9. \A i, j \in DOMAIN s : i < j => s[i] < s[j]
  <2> SUFFICES ASSUME NEW i \in 1..n, NEW j \in 1..n, i < j
               PROVE  s[i] < s[j]
    BY <1>8
  <2> HIDE DEF s
  <2>1. s[i] \in S /\ s[j] \in S /\ rank[s[i]] = i /\ rank[s[j]] = j
    BY <1>7
  <2>2. i \in Int /\ j \in Int /\ s[i] \in Int /\ s[j] \in Int
    <3>1. \A x \in S : x \in Int
      OBVIOUS
    <3>2. i \in Int /\ j \in Int
      BY <1>1
    <3> QED BY <2>1, <3>1, <3>2
  <2>3. ~(rank[s[j]] < rank[s[i]])
    BY <2>1, <2>2
  <2>4. ~(s[j] < s[i])
    BY <1>3, <2>1, <2>3
  <2>5. s[i] # s[j]
    BY <2>1, <2>2
  <2> QED BY <2>2, <2>4, <2>5
<1> HIDE DEF s, n
<1>10. /\ Ascending(S) \in [1..n -> S]
       /\ \A i, j \in DOMAIN Ascending(S) : i < j => Ascending(S)[i] < Ascending(S)[j]
  BY <1>8, <1>9 DEF Ascending, n
<1>11. DOMAIN Ascending(S) = 1..n
  BY <1>10
<1> QED BY <1>10, <1>11 DEF n

\* What a ballot is launched with lists members of the order.
LEMMA ForBallotType ==
  ASSUME NEW c, NEW order \in Seq(Peers)
  PROVE  ForBallot(c, order).voters \in Seq(Peers) /\ ForBallot(c, order).version = c.version
<1> DEFINE P == Places(c, order)
<1>1. P \in SUBSET (1..Len(order)) /\ Len(order) \in Nat
  BY LenProperties DEF Places
<1>2. IsFiniteSet(P) /\ Cardinality(P) \in Nat
  <2> HIDE DEF P
  <2>1. 1 \in Int /\ Len(order) \in Int
    BY <1>1
  <2>2. IsFiniteSet(1..Len(order))
    BY <2>1, FS_Interval
  <2>3. IsFiniteSet(P)
    BY <1>1, <2>2, FS_Subset
  <2> QED BY <2>3, FS_CardinalityType
<1>3. Ascending(P) \in [1..Cardinality(P) -> P]
  BY <1>1, <1>2, AscendingSorts
<1> HIDE DEF P
<1>4. \A k \in 1..Cardinality(P) : order[Ascending(P)[k]] \in Peers
  BY <1>1, <1>3, ElementOfSeq
<1>5. ForBallot(c, order).voters = [k \in 1..Cardinality(P) |-> order[Ascending(P)[k]]]
  BY DEF ForBallot, P
<1>6. ForBallot(c, order).voters \in [1..Cardinality(P) -> Peers]
  BY <1>4, <1>5
<1> QED BY <1>2, <1>6, SeqDef DEF ForBallot

\* The configurations of the composition are what the box assumes of them.
LEMMA ConfsOK ==
  \A c \in AllConfs : \A x \in {c[1], c[2]} : x.voters \in Seq(Peers) /\ x.version \in Nat
<1> SUFFICES ASSUME NEW ctx \in [conf_ : Configurations, old_conf_ : Configurations]
             PROVE  \A x \in {ConfsOf(ctx)[1], ConfsOf(ctx)[2]} :
                      x.voters \in Seq(Peers) /\ x.version \in Nat
  BY DEF AllConfs
<1>1. ctx.conf_.version = 0 /\ ctx.old_conf_.version = 0
  BY DEF Configurations
<1>2. \A y \in {ctx.conf_, ctx.old_conf_} :
        ForBallot(y, PeerOrder).voters \in Seq(Peers) /\ ForBallot(y, PeerOrder).version = 0
  BY <1>1, PeerOrderAssumption, ForBallotType
<1> QED BY <1>2 DEF ConfsOf

-------------------------------------------------------------------------------
(* The box in the node is the box alone *)

\* The actions the composition uses are those the box's proofs are about.
LEMMA SameBox ==
  /\ Box!Init <=> BoxAlone!Init
  /\ Box!vars = BoxAlone!vars
  /\ Box!OpenAt <=> BoxAlone!OpenAt
  /\ Box!Close <=> BoxAlone!Close
  /\ Box!LaunchBallot <=> BoxAlone!LaunchBallot
  /\ Box!FinishLaunch <=> BoxAlone!FinishLaunch
  /\ \A start, end, peer :
       Box!CommitRange(start, end, peer) <=> BoxAlone!CommitRange(start, end, peer)
  /\ Box!GrantSlot <=> BoxAlone!GrantSlot
  /\ Box!GrantFaults <=> BoxAlone!GrantFaults
  /\ Box!GrantPastEnd <=> BoxAlone!GrantPastEnd
  /\ Box!FinishCommit <=> BoxAlone!FinishCommit
  /\ \A index : Box!SetLastCommittedIndex(index) <=> BoxAlone!SetLastCommittedIndex(index)
<1>1. Box!Init <=> BoxAlone!Init
  BY DEF Box!Init, BoxAlone!Init, Box!NoHint, BoxAlone!NoHint, Box!Unknown,
         BoxAlone!Unknown, Box!NoJob, BoxAlone!NoJob, Box!kInvalidIndex,
         BoxAlone!kInvalidIndex
<1>2. Box!vars = BoxAlone!vars
  BY DEF Box!vars, BoxAlone!vars, Box!box, BoxAlone!box, Box!caller,
         BoxAlone!caller
<1>3. Box!OpenAt <=> BoxAlone!OpenAt
  BY DEF Box!OpenAt, BoxAlone!OpenAt, Box!EmptyWaiting, BoxAlone!EmptyWaiting,
         Box!Running, BoxAlone!Running, Box!Unlocked, BoxAlone!Unlocked,
         Box!NoJob, BoxAlone!NoJob, Box!kInvalidIndex,
         BoxAlone!kInvalidIndex
<1>4. Box!Close <=> BoxAlone!Close
  BY DEF Box!Close, BoxAlone!Close, Box!ForgetVotes, BoxAlone!ForgetVotes,
         Box!NoHint, BoxAlone!NoHint, Box!Unknown, BoxAlone!Unknown,
         Box!EmptyWaiting, BoxAlone!EmptyWaiting, Box!Running,
         BoxAlone!Running, Box!Unlocked, BoxAlone!Unlocked, Box!NoJob,
         BoxAlone!NoJob, Box!kInvalidIndex, BoxAlone!kInvalidIndex
<1>5. Box!LaunchBallot <=> BoxAlone!LaunchBallot
  BY DEF Box!LaunchBallot, BoxAlone!LaunchBallot, Box!Launched,
         BoxAlone!Launched, Box!Running, BoxAlone!Running, Box!box,
         BoxAlone!box, Box!caller, BoxAlone!caller, Box!Side,
         BoxAlone!Side, Box!Majority, BoxAlone!Majority, Box!NewBallot,
         BoxAlone!NewBallot
<1>6. Box!FinishLaunch <=> BoxAlone!FinishLaunch
  BY DEF Box!FinishLaunch, BoxAlone!FinishLaunch, Box!Running, BoxAlone!Running
<1>7. \A start, end, peer :
       Box!CommitRange(start, end, peer) <=> BoxAlone!CommitRange(start, end, peer)
  BY DEF Box!CommitRange, BoxAlone!CommitRange, Box!Needed, BoxAlone!Needed,
         Box!Holding, BoxAlone!Holding, Box!Larger, BoxAlone!Larger,
         Box!caller, BoxAlone!caller, Box!Running, BoxAlone!Running,
         Box!Unlocked, BoxAlone!Unlocked, Box!NoJob, BoxAlone!NoJob,
         Box!kInvalidIndex, BoxAlone!kInvalidIndex
<1>8. Box!GrantSlot <=> BoxAlone!GrantSlot
  BY DEF Box!GrantSlot, BoxAlone!GrantSlot, Box!Looping, BoxAlone!Looping,
         Box!Slot, BoxAlone!Slot, Box!NextTurn, BoxAlone!NextTurn,
         Box!caller, BoxAlone!caller, Box!Running, BoxAlone!Running,
         Box!NoJob, BoxAlone!NoJob, Box!IsGranted, BoxAlone!IsGranted,
         Box!kInvalidIndex, BoxAlone!kInvalidIndex, Box!Find,
         BoxAlone!Find, Box!NewPosition, BoxAlone!NewPosition,
         Box!OldPosition, BoxAlone!OldPosition, Box!Remember,
         BoxAlone!Remember, Box!NewHint, BoxAlone!NewHint, Box!OldHint,
         BoxAlone!OldHint, Box!InVector, BoxAlone!InVector, Box!Defined,
         BoxAlone!Defined, Box!MarkVoted, BoxAlone!MarkVoted, Box!Marks,
         BoxAlone!Marks, Box!Grants, BoxAlone!Grants, Box!UpdatedHint,
         BoxAlone!UpdatedHint
<1>9. Box!GrantFaults <=> BoxAlone!GrantFaults
  BY DEF Box!GrantFaults, BoxAlone!GrantFaults, Box!Looping, BoxAlone!Looping,
         Box!Slot, BoxAlone!Slot, Box!box, BoxAlone!box, Box!caller,
         BoxAlone!caller, Box!Running, BoxAlone!Running, Box!NoJob,
         BoxAlone!NoJob, Box!kInvalidIndex, BoxAlone!kInvalidIndex,
         Box!Find, BoxAlone!Find, Box!NewPosition, BoxAlone!NewPosition,
         Box!OldPosition, BoxAlone!OldPosition, Box!InVector,
         BoxAlone!InVector, Box!Defined, BoxAlone!Defined
<1>10. Box!GrantPastEnd <=> BoxAlone!GrantPastEnd
  BY DEF Box!GrantPastEnd, BoxAlone!GrantPastEnd, Box!Looping, BoxAlone!Looping,
         Box!Slot, BoxAlone!Slot, Box!NextTurn, BoxAlone!NextTurn,
         Box!box, BoxAlone!box, Box!caller, BoxAlone!caller,
         Box!Running, BoxAlone!Running, Box!NoJob, BoxAlone!NoJob,
         Box!kInvalidIndex, BoxAlone!kInvalidIndex
<1>11. Box!FinishCommit <=> BoxAlone!FinishCommit
  BY DEF Box!FinishCommit, BoxAlone!FinishCommit, Box!Settled, BoxAlone!Settled,
         Box!Larger, BoxAlone!Larger, Box!caller, BoxAlone!caller,
         Box!Running, BoxAlone!Running, Box!NoJob, BoxAlone!NoJob,
         Box!kInvalidIndex, BoxAlone!kInvalidIndex
<1>12. \A index : Box!SetLastCommittedIndex(index) <=> BoxAlone!SetLastCommittedIndex(index)
  BY DEF Box!SetLastCommittedIndex, BoxAlone!SetLastCommittedIndex, Box!Accepts,
         BoxAlone!Accepts, Box!ReportsEmpty, BoxAlone!ReportsEmpty,
         Box!caller, BoxAlone!caller, Box!Running, BoxAlone!Running,
         Box!Unlocked, BoxAlone!Unlocked, Box!NoJob, BoxAlone!NoJob,
         Box!kInvalidIndex, BoxAlone!kInvalidIndex
<1> QED BY <1>1, <1>2, <1>3, <1>4, <1>5, <1>6, <1>7, <1>8, <1>9, <1>10, <1>11, <1>12, Zenon

\* The configurations in use are pairs of servers' sets.
CtxOK == conf_ctx \in [conf_ : Configurations, old_conf_ : Configurations]

LEMMA InitCtxOK == LeaderInit => CtxOK
<1> SUFFICES ASSUME LeaderInit PROVE CtxOK
  OBVIOUS
<1>1. PICK voters \in SUBSET Peers : \E learners \in SUBSET (Peers \ voters) :
        conf_ctx = [DefaultCtx EXCEPT !.conf_.voters = voters, !.conf_.learners = learners]
  BY DEF LeaderInit
<1>2. PICK learners \in SUBSET (Peers \ voters) :
        conf_ctx = [DefaultCtx EXCEPT !.conf_.voters = voters, !.conf_.learners = learners]
  BY <1>1
<1>3. conf_ctx = [conf_ |-> [voters |-> voters, learners |-> learners, version |-> 0],
                  old_conf_ |-> [voters |-> {}, learners |-> {}, version |-> 0]]
  BY <1>2 DEF DefaultCtx, Default
<1> QED BY <1>3 DEF CtxOK, Configurations

\* A change of one server makes a configuration of a configuration.
LEMMA EditedOK ==
  ASSUME NEW c \in Configurations
  PROVE  Edited(c) \subseteq Configurations
<1>1. c = [voters |-> c.voters, learners |-> c.learners, version |-> 0]
      /\ c.voters \in SUBSET Peers /\ c.learners \in SUBSET Peers
  BY DEF Configurations
<1>2. ASSUME NEW p \in Peers
      PROVE  /\ AddVoter(c, p) \in Configurations /\ AddLearner(c, p) \in Configurations
             /\ RemoveVoter(c, p) \in Configurations /\ RemoveLearner(c, p) \in Configurations
  <2>1. AddVoter(c, p) \in {c, [voters |-> c.voters \cup {p}, learners |-> c.learners, version |-> 0]}
    BY <1>1 DEF AddVoter
  <2>2. AddLearner(c, p) \in {c, [voters |-> c.voters, learners |-> c.learners \cup {p}, version |-> 0]}
    BY <1>1 DEF AddLearner
  <2>3. RemoveVoter(c, p) = [voters |-> c.voters \ {p}, learners |-> c.learners, version |-> 0]
    BY <1>1 DEF RemoveVoter
  <2>4. RemoveLearner(c, p) = [voters |-> c.voters, learners |-> c.learners \ {p}, version |-> 0]
    BY <1>1 DEF RemoveLearner
  <2> QED BY <1>1, <2>1, <2>2, <2>3, <2>4 DEF Configurations
<1> QED BY <1>2 DEF Edited

LEMMA NextCtxOK == CtxOK /\ [LeaderNext]_leaderVars => CtxOK'
<1> SUFFICES ASSUME CtxOK, [LeaderNext]_leaderVars PROVE CtxOK'
  OBVIOUS
<1>1. CASE ChangeConfiguration
  <2>1. PICK c \in Edited(conf_ctx.conf_) :
          conf_ctx' = [conf_ |-> c, old_conf_ |-> conf_ctx.conf_]
    BY <1>1 DEF ChangeConfiguration
  <2>2. conf_ctx.conf_ \in Configurations
    BY DEF CtxOK
  <2>3. c \in Configurations
    BY <2>1, <2>2, EditedOK
  <2> QED BY <2>1, <2>2, <2>3 DEF CtxOK
<1>2. CASE LeaveOldConfiguration
  <2>1. conf_ctx' = [conf_ctx EXCEPT !.old_conf_ = Reset(conf_ctx.old_conf_)]
    BY <1>2 DEF LeaveOldConfiguration
  <2>2. conf_ctx.old_conf_ \in Configurations
    BY DEF CtxOK
  <2>3. Reset(conf_ctx.old_conf_) \in Configurations
    BY <2>2 DEF Reset, Configurations
  <2> QED BY <2>1, <2>3 DEF CtxOK
<1>3. CASE ~ChangeConfiguration /\ ~LeaveOldConfiguration
  <2>1. conf_ctx' = conf_ctx
    BY <1>3 DEF LeaderNext, NodeStep, BeginLaunch, EndLaunch, BecomeLeader, StepDown,
                Acknowledge, CommitStep, LearnCommitted, configuration, leaderVars
  <2> QED BY <2>1 DEF CtxOK
<1> QED BY <1>1, <1>2, <1>3

\* The ballot of the moment is one the box expects, so that LaunchBallot never
\* has to wait for another configuration.
LEMMA BallotExpected ==
  ASSUME CtxOK
  PROVE  Box!NewBallot(ConfsOf(conf_ctx)[1], ConfsOf(conf_ctx)[2]) \in Box!Launched
<1>1. ConfsOf(conf_ctx) \in AllConfs
  BY DEF CtxOK, AllConfs
<1> QED BY <1>1 DEF Box!Launched

\* Every step of the composition is a step of the box, or leaves it alone.
LEMMA BoxStep == [LeaderNext]_leaderVars => [BoxAlone!Next]_(BoxAlone!vars)
<1> SUFFICES ASSUME [LeaderNext]_leaderVars
             PROVE  BoxAlone!Next \/ UNCHANGED BoxAlone!vars
  OBVIOUS
<1>1. CASE UNCHANGED box
  BY <1>1 DEF box, BoxAlone!vars, BoxAlone!box, BoxAlone!caller
<1>2. CASE NodeStep \/ ChangeConfiguration \/ LeaveOldConfiguration \/ UNCHANGED leaderVars
  BY <1>1, <1>2 DEF NodeStep, ChangeConfiguration, LeaveOldConfiguration, leaderVars
<1>3. CASE BeginLaunch
  <2>1. Box!LaunchBallot
    BY <1>3 DEF BeginLaunch
  <2> QED BY <2>1, SameBox DEF BoxAlone!Next
<1>4. CASE EndLaunch
  BY <1>4, SameBox DEF EndLaunch, BoxAlone!Next
<1>5. CASE BecomeLeader
  BY <1>5, SameBox DEF BecomeLeader, BoxAlone!Next
<1>6. CASE StepDown
  BY <1>6, SameBox DEF StepDown, BoxAlone!Next
<1>7. CASE Acknowledge
  <2>1. PICK end \in 1..last_log, peer \in Peers : Box!CommitRange(1, end, peer)
    BY <1>7 DEF Acknowledge
  <2>2. 1 \in 1..end /\ BoxAlone!CommitRange(1, end, peer)
    BY <2>1, SameBox
  <2> QED BY <2>2 DEF BoxAlone!Next
<1>8. CASE CommitStep
  BY <1>8, SameBox DEF CommitStep, BoxAlone!Next
<1>9. CASE LearnCommitted
  BY <1>9, SameBox DEF LearnCommitted, BoxAlone!Next
<1> QED BY <1>2, <1>3, <1>4, <1>5, <1>6, <1>7, <1>8, <1>9 DEF LeaderNext

-------------------------------------------------------------------------------
(* The node with its box is the node alone *)

\* Every step of the composition is a step of the node, or leaves it alone.
LEMMA NodeAloneStep == [LeaderNext]_leaderVars => [Next]_vars
<1> SUFFICES ASSUME [LeaderNext]_leaderVars
             PROVE  Next \/ UNCHANGED vars
  OBVIOUS
<1>1. CASE UNCHANGED node
  BY <1>1 DEF node, vars, queue
<1>2. CASE NodeStep
  <2>1. CASE \E c \in Callers : Apply(c, kInvalidIndex) \/ Collect(c)
    <3>1. PICK c \in Callers : Apply(c, kInvalidIndex) \/ Collect(c)
      BY <2>1
    <3>2. kInvalidIndex \in Terms \cup {kInvalidIndex}
      OBVIOUS
    <3>3. Apply(c, kInvalidIndex) \/ Collect(c)
      BY <3>1
    <3> QED BY <3>2, <3>3 DEF Next
  <2> QED BY <1>2, <2>1 DEF NodeStep, Next, FiberStep
<1>3. CASE EndLaunch
  BY <1>3 DEF EndLaunch, Next, FiberStep
<1>4. CASE BecomeLeader
  BY <1>4 DEF BecomeLeader, Next
<1>5. CASE StepDown
  BY <1>1, <1>5 DEF StepDown, Next
<1>6. CASE ~NodeStep /\ ~EndLaunch /\ ~BecomeLeader /\ ~StepDown
  <2>1. UNCHANGED node
    BY <1>6 DEF LeaderNext, BeginLaunch, ChangeConfiguration, LeaveOldConfiguration,
                Acknowledge, CommitStep, LearnCommitted, leaderVars
  <2> QED BY <1>1, <2>1
<1> QED BY <1>2, <1>3, <1>4, <1>5, <1>6

-------------------------------------------------------------------------------
(* Sequences of ballots as they were launched *)

\* A ballot that is launched is as it was launched.
LEMMA LaunchedUnvoted ==
  ASSUME NEW b \in BoxAlone!Launched
  PROVE  Unvoted(b) = b
<1>1. PICK c \in AllConfs : b = BoxAlone!NewBallot(c[1], c[2])
  BY DEF BoxAlone!Launched
<1>2. /\ b.new.peers = c[1].voters /\ b.new.version = c[1].version
      /\ b.old.peers = c[2].voters /\ b.old.version = c[2].version
  BY <1>1 DEF BoxAlone!NewBallot, BoxAlone!Side
<1> QED BY <1>1, <1>2 DEF Unvoted, Box!NewBallot, Box!Side, Box!Majority,
           BoxAlone!NewBallot, BoxAlone!Side, BoxAlone!Majority

\* What a ballot was launched with is the same after a vote.
LEMMA VoteKeepsUnvoted ==
  ASSUME NEW b \in BoxAlone!Ballots, NEW p, NEW h, NEW g \in BoxAlone!Grants(b, p, h)
  PROVE  Unvoted(g) = Unvoted(b)
<1>1. b.new \in BoxAlone!Sides(BoxAlone!NewConfs) /\ b.old \in BoxAlone!Sides(BoxAlone!OldConfs)
  BY DEF BoxAlone!Ballots
<1>2. /\ g.new \in BoxAlone!Marks(b.new, BoxAlone!NewPosition(b, p, h))
      /\ g.old \in {b.old} \cup BoxAlone!Marks(b.old, BoxAlone!OldPosition(b, p, h))
  BY DEF BoxAlone!Grants
<1>3. ASSUME NEW C, NEW side \in BoxAlone!Sides(C), NEW q, NEW s \in BoxAlone!Marks(side, q)
      PROVE  s.peers = side.peers /\ s.version = side.version
  BY DEF BoxAlone!Sides, BoxAlone!Marks, BoxAlone!MarkVoted
<1>4. /\ g.new.peers = b.new.peers /\ g.new.version = b.new.version
      /\ g.old.peers = b.old.peers /\ g.old.version = b.old.version
  BY <1>1, <1>2, <1>3
<1> QED BY <1>4 DEF Unvoted

\* Undoing the votes keeps the length and the places of a sequence.
LEMMA UnvotedAllSeq ==
  ASSUME NEW S, NEW q \in Seq(S)
  PROVE  /\ UnvotedAll(q) \in Seq({Unvoted(b) : b \in S})
         /\ Len(UnvotedAll(q)) = Len(q)
         /\ \A i \in 1..Len(q) : UnvotedAll(q)[i] = Unvoted(q[i])
<1>1. Len(q) \in Nat /\ DOMAIN q = 1..Len(q) /\ \A i \in 1..Len(q) : q[i] \in S
  BY LenProperties, ElementOfSeq
<1>2. UnvotedAll(q) \in [1..Len(q) -> {Unvoted(b) : b \in S}]
  BY <1>1 DEF UnvotedAll
<1>3. UnvotedAll(q) \in Seq({Unvoted(b) : b \in S})
  BY <1>1, <1>2, SeqDef
<1>4. DOMAIN UnvotedAll(q) = 1..Len(q) /\ DOMAIN UnvotedAll(q) = 1..Len(UnvotedAll(q))
      /\ Len(UnvotedAll(q)) \in Nat
  BY <1>2, <1>3, LenProperties
<1>5. Len(UnvotedAll(q)) = Len(q)
  BY <1>1, <1>4
<1> QED BY <1>1, <1>3, <1>5 DEF UnvotedAll

\* Sequences that differ in votes only were launched alike.
LEMMA UnvotedAllSame ==
  ASSUME NEW S, NEW q \in Seq(S), NEW r \in Seq(S), Len(q) = Len(r),
         \A i \in 1..Len(q) : Unvoted(q[i]) = Unvoted(r[i])
  PROVE  UnvotedAll(q) = UnvotedAll(r)
<1>1. DOMAIN q = 1..Len(q) /\ DOMAIN r = 1..Len(q)
  BY LenProperties
<1> QED BY <1>1 DEF UnvotedAll

LEMMA UnvotedAllAppend ==
  ASSUME NEW S, NEW q \in Seq(S), NEW b \in S
  PROVE  UnvotedAll(Append(q, b)) = UnvotedAll(q) \o <<Unvoted(b)>>
<1> DEFINE U == {Unvoted(x) : x \in S}
           l == UnvotedAll(Append(q, b))
           r == UnvotedAll(q) \o <<Unvoted(b)>>
<1>0. Len(q) \in Nat
  BY LenProperties
<1>1. /\ Append(q, b) \in Seq(S) /\ Len(Append(q, b)) = Len(q) + 1
      /\ \A i \in 1..Len(q) : Append(q, b)[i] = q[i]
      /\ Append(q, b)[Len(q) + 1] = b
  BY AppendProperties
<1>2. /\ l \in Seq(U) /\ Len(l) = Len(q) + 1
      /\ \A i \in 1..(Len(q) + 1) : l[i] = Unvoted(Append(q, b)[i])
  BY <1>1, UnvotedAllSeq
<1>3. UnvotedAll(q) \in Seq(U) /\ Len(UnvotedAll(q)) = Len(q)
      /\ \A i \in 1..Len(q) : UnvotedAll(q)[i] = Unvoted(q[i])
  BY UnvotedAllSeq
<1>4. <<Unvoted(b)>> \in Seq(U) /\ Len(<<Unvoted(b)>>) = 1 /\ <<Unvoted(b)>>[1] = Unvoted(b)
  <2>1. Unvoted(b) \in U
    OBVIOUS
  <2> HIDE DEF U
  <2> QED BY <2>1
<1> HIDE DEF U, l
<1>5. /\ r \in Seq(U) /\ Len(r) = Len(q) + 1
      /\ \A i \in 1..(Len(q) + 1) :
           r[i] = IF i <= Len(q) THEN UnvotedAll(q)[i] ELSE <<Unvoted(b)>>[i - Len(q)]
  BY <1>3, <1>4, ConcatProperties
<1> HIDE DEF r
<1>6. ASSUME NEW i \in 1..(Len(q) + 1)
      PROVE  l[i] = r[i]
  <2>1. CASE i \in 1..Len(q)
    <3>1. i <= Len(q)
      BY <1>0, <2>1
    <3> QED BY <1>1, <1>2, <1>3, <1>5, <2>1, <3>1
  <2>2. CASE i \notin 1..Len(q)
    <3>1. i = Len(q) + 1 /\ ~(i <= Len(q)) /\ i - Len(q) = 1
      BY <1>0, <2>2
    <3> QED BY <1>1, <1>2, <1>4, <1>5, <3>1
  <2> QED BY <2>1, <2>2
<1>7. l = r
  BY <1>2, <1>5, <1>6, SeqEqual
<1> QED BY <1>7 DEF l, r, U

-------------------------------------------------------------------------------
(* The inductive invariant *)

\* At most one ballot is being launched, by the fiber and under the node's
\* mutex: that keeps it apart from OpenAt and Close.
LaunchUnderMutex ==
  launching # {} => pc = "launch" /\ \E b \in launching : launching = {b}

\* A closed box votes on nothing.
ClosedEmpty == ~open => voting = <<>> /\ job = Box!NoJob

\* With the box's own invariant, for the types of its ballots and indices.
LInv == LaunchUnderMutex /\ ClosedEmpty /\ BallotsOfTheLog

BoxInv == BoxAlone!IInv

LEMMA BoxTypes ==
  ASSUME BoxInv
  PROVE  /\ voting \in Seq(BoxAlone!Ballots) /\ waiting \in Seq(BoxAlone!Ballots)
         /\ launching \subseteq BoxAlone!Launched /\ launching \subseteq BoxAlone!Ballots
         /\ voting_index \in Nat
BY DEF BoxInv, BoxAlone!IInv, BoxAlone!TypeOK, BoxAlone!LaunchOK

LEMMA InitLInv == LeaderInit => LInv
<1> SUFFICES ASSUME LeaderInit PROVE LInv
  OBVIOUS
<1>1. launching = {} /\ open = FALSE /\ voting = <<>> /\ job = Box!NoJob
  BY DEF LeaderInit, Box!Init
<1> QED BY <1>1 DEF LInv, LaunchUnderMutex, ClosedEmpty, BallotsOfTheLog

LEMMA NextLaunchUnderMutex == LaunchUnderMutex /\ [LeaderNext]_leaderVars => LaunchUnderMutex'
<1> SUFFICES ASSUME LaunchUnderMutex, [LeaderNext]_leaderVars PROVE LaunchUnderMutex'
  OBVIOUS
<1> USE DEF LaunchUnderMutex
<1>1. CASE NodeStep
  <2>1. launching' = launching
    BY <1>1 DEF NodeStep, box
  <2>2. ASSUME pc = "launch" PROVE pc' = pc
    BY <1>1, <2>2 DEF NodeStep, Apply, Collect, StartFiber, TestRunning,
       WaitDequeueBulkTimed, Lock, Check, Unlock
  <2> QED BY <2>1, <2>2
<1>2. CASE BeginLaunch
  BY <1>2 DEF BeginLaunch, node, vars, queue
<1>3. CASE EndLaunch
  BY <1>3 DEF EndLaunch, Box!FinishLaunch
<1>4. CASE BecomeLeader \/ StepDown
  <2>1. ~HoldsMutex /\ pc' = pc
    BY <1>4 DEF BecomeLeader, StepDown, ChangeTerm, node, vars, queue
  <2>2. launching = {}
    BY <2>1 DEF HoldsMutex
  <2>3. launching' = {}
    BY <1>4, <2>2 DEF BecomeLeader, StepDown, Box!OpenAt, Box!Close, Box!EmptyWaiting
  <2> QED BY <2>3
<1>5. CASE ~NodeStep /\ ~BeginLaunch /\ ~EndLaunch /\ ~BecomeLeader /\ ~StepDown
  <2>1. pc' = pc /\ launching' = launching
    BY <1>5 DEF LeaderNext, ChangeConfiguration, LeaveOldConfiguration, Acknowledge, CommitStep,
       LearnCommitted, Box!CommitRange, Box!GrantSlot, Box!GrantFaults, Box!GrantPastEnd,
       Box!FinishCommit, Box!SetLastCommittedIndex, box, node, vars, queue, leaderVars
  <2> QED BY <2>1
<1> QED BY <1>1, <1>2, <1>3, <1>4, <1>5

LEMMA NextClosedEmpty == ClosedEmpty /\ [LeaderNext]_leaderVars => ClosedEmpty'
<1> SUFFICES ASSUME ClosedEmpty, [LeaderNext]_leaderVars PROVE ClosedEmpty'
  OBVIOUS
<1> USE DEF ClosedEmpty
<1>0. Box!NoJob' = Box!NoJob
  BY DEF Box!NoJob, Box!kInvalidIndex
<1>1. CASE UNCHANGED box
  BY <1>0, <1>1 DEF box
<1>2. CASE NodeStep \/ ChangeConfiguration \/ LeaveOldConfiguration \/ UNCHANGED leaderVars
  BY <1>1, <1>2 DEF NodeStep, ChangeConfiguration, LeaveOldConfiguration, leaderVars
<1>3. CASE BeginLaunch \/ EndLaunch
  BY <1>0, <1>3 DEF BeginLaunch, EndLaunch, Box!LaunchBallot, Box!FinishLaunch, Box!box, Box!caller
<1>4. CASE BecomeLeader
  BY <1>0, <1>4 DEF BecomeLeader, Box!OpenAt
<1>5. CASE StepDown
  BY <1>0, <1>5 DEF StepDown, Box!Close, Box!ForgetVotes, Box!Unlocked
<1>6. CASE Acknowledge
  BY <1>0, <1>6 DEF Acknowledge, Box!CommitRange, Box!caller
<1>7. CASE CommitStep
  BY <1>0, <1>7 DEF CommitStep, Box!GrantSlot, Box!GrantFaults, Box!GrantPastEnd, Box!FinishCommit,
     Box!Looping, Box!box, Box!caller
<1>8. CASE LearnCommitted
  BY <1>0, <1>8 DEF LearnCommitted, Box!SetLastCommittedIndex, Box!caller
<1> QED BY <1>2, <1>3, <1>4, <1>5, <1>6, <1>7, <1>8 DEF LeaderNext

\* The ballots stay those of the log when none moves.
LEMMA BallotsStay ==
  ASSUME BallotsOfTheLog,
         UnvotedAll(voting \o waiting)' = UnvotedAll(voting \o waiting),
         launching' = launching, since' = since,
         open' /\ Box!Running' => open /\ Box!Running
  PROVE  BallotsOfTheLog'
BY DEF BallotsOfTheLog

LEMMA BeginLaunchBallots ==
  ASSUME BoxInv, BallotsOfTheLog, BeginLaunch
  PROVE  BallotsOfTheLog'
<1>1. PICK b : launching' = {b} /\ since' = Append(since, b)
  BY DEF BeginLaunch
<1>2. /\ launching = {} /\ voting' = voting /\ waiting' = waiting
      /\ open' = open /\ status' = status
  BY DEF BeginLaunch, Box!LaunchBallot, Box!box, Box!caller
<1> SUFFICES ASSUME open, Box!Running
             PROVE  UnvotedAll(voting \o waiting) \o <<b>> = Append(since, b)
  BY <1>1, <1>2 DEF BallotsOfTheLog, Box!Running
<1> DEFINE l == UnvotedAll(voting \o waiting)
           S == {Unvoted(x) : x \in BoxAlone!Ballots}
<1>3. l \in Seq(S)
  BY BoxTypes, ConcatProperties, UnvotedAllSeq
<1>4. l \o <<>> = since
  BY <1>2 DEF BallotsOfTheLog
<1> HIDE DEF l, S
<1>5. since = l
  BY <1>3, <1>4, ConcatEmptySeq
<1>6. l \in Seq(S \cup {b}) /\ b \in S \cup {b}
  BY <1>3, SeqMonotonic
<1>7. Append(l, b) = l \o <<b>>
  BY <1>6, AppendIsConcat
<1> QED BY <1>5, <1>7 DEF l

LEMMA EndLaunchBallots ==
  ASSUME BoxInv, LaunchUnderMutex, BallotsOfTheLog, EndLaunch
  PROVE  BallotsOfTheLog'
<1>1. PICK b \in launching : waiting' = Append(waiting, b)
  BY DEF EndLaunch, Box!FinishLaunch
<1>2. /\ launching' = {} /\ voting' = voting /\ since' = since
      /\ open' = open /\ status' = status
  BY DEF EndLaunch, Box!FinishLaunch
<1>3. launching = {b} /\ b \in BoxAlone!Launched /\ b \in BoxAlone!Ballots
  BY BoxTypes DEF LaunchUnderMutex
<1> SUFFICES ASSUME open, Box!Running
             PROVE  UnvotedAll(voting \o Append(waiting, b)) \o <<>> = since
  BY <1>1, <1>2 DEF BallotsOfTheLog, Box!Running
<1>4. UnvotedAll(voting \o waiting) \o <<b>> = since
  <2>1. (CHOOSE x \in {b} : TRUE) = b
    OBVIOUS
  <2> QED BY <1>3, <2>1 DEF BallotsOfTheLog
<1>5. voting \in Seq(BoxAlone!Ballots) /\ waiting \in Seq(BoxAlone!Ballots)
  BY BoxTypes
<1>6. <<b>> \in Seq(BoxAlone!Ballots)
  BY <1>3
<1>7. Append(waiting, b) = waiting \o <<b>>
  BY <1>3, <1>5, AppendIsConcat
<1>8. voting \o Append(waiting, b) = (voting \o waiting) \o <<b>>
  BY <1>5, <1>6, <1>7, ConcatAssociative
<1> DEFINE q == voting \o waiting
<1>9. q \in Seq(BoxAlone!Ballots)
  BY <1>5, ConcatProperties
<1>10. q \o <<b>> \in Seq(BoxAlone!Ballots)
  <2> HIDE DEF q
  <2> QED BY <1>6, <1>9, ConcatProperties
<1>11. UnvotedAll(q \o <<b>>) = since
  <2> HIDE DEF q
  <2>1. q \o <<b>> = Append(q, b)
    BY <1>3, <1>9, AppendIsConcat
  <2>2. UnvotedAll(Append(q, b)) = UnvotedAll(q) \o <<Unvoted(b)>>
    BY <1>3, <1>9, UnvotedAllAppend
  <2>3. Unvoted(b) = b
    BY <1>3, LaunchedUnvoted
  <2> QED BY <1>4, <2>1, <2>2, <2>3 DEF q
<1>12. UnvotedAll(q \o <<b>>) \in Seq({Unvoted(x) : x \in BoxAlone!Ballots})
  BY <1>10, UnvotedAllSeq
<1> HIDE DEF q
<1>13. UnvotedAll(q \o <<b>>) \o <<>> = UnvotedAll(q \o <<b>>)
  BY <1>12, ConcatEmptySeq
<1> QED BY <1>8, <1>11, <1>13 DEF q

LEMMA BecomeLeaderBallots ==
  ASSUME LaunchUnderMutex, ClosedEmpty, BecomeLeader
  PROVE  BallotsOfTheLog'
<1>1. launching = {} /\ voting = <<>> /\ since' = <<>>
  BY DEF BecomeLeader, Box!OpenAt, ChangeTerm, HoldsMutex, LaunchUnderMutex, ClosedEmpty
<1>2. voting' = <<>> /\ (Box!Running' => waiting' = <<>> /\ launching' = {})
  BY <1>1 DEF BecomeLeader, Box!OpenAt, Box!EmptyWaiting, Box!Running
<1>3. UnvotedAll(<<>> \o <<>>) \o <<>> = <<>>
  BY DEF UnvotedAll
<1> QED BY <1>1, <1>2, <1>3 DEF BallotsOfTheLog

\* CommitRange moves ballots from the front of one queue to the end of the
\* other.
LEMMA CommitRangeBallots ==
  ASSUME BoxInv, BallotsOfTheLog, Acknowledge
  PROVE  BallotsOfTheLog'
<1>1. PICK end \in 1..last_log, peer \in Peers : Box!CommitRange(1, end, peer)
  BY DEF Acknowledge
<1>2. /\ launching' = launching /\ since' = since /\ open' = open
      /\ Box!Running
  BY <1>1 DEF Acknowledge, Box!CommitRange, Box!caller, Box!Unlocked
<1> DEFINE n == IF ndebug THEN 0 ELSE Box!Needed(end)
<1>3. n \in Int
  BY BoxTypes DEF Box!Needed
<1> SUFFICES ASSUME Box!Running'
             PROVE  voting' \o waiting' = voting \o waiting
  BY <1>2, BallotsStay, Zenon DEF BallotsOfTheLog
<1>4. /\ n >= 0 /\ n <= Len(waiting)
      /\ voting' = voting \o SubSeq(waiting, 1, n)
      /\ waiting' = SubSeq(waiting, n + 1, Len(waiting))
  BY <1>1 DEF Box!CommitRange, Box!Running
<1> HIDE DEF n
<1> DEFINE front == SubSeq(waiting, 1, n)
           rest == SubSeq(waiting, n + 1, Len(waiting))
<1>5. /\ voting \in Seq(BoxAlone!Ballots) /\ waiting \in Seq(BoxAlone!Ballots)
      /\ Len(waiting) \in Nat
  BY BoxTypes, LenProperties
<1>6. front \in Seq(BoxAlone!Ballots) /\ rest \in Seq(BoxAlone!Ballots)
  <2>1. /\ \A i \in 1..n : waiting[i] \in BoxAlone!Ballots
        /\ \A i \in (n + 1)..Len(waiting) : waiting[i] \in BoxAlone!Ballots
    BY <1>3, <1>4, <1>5, ElementOfSeq
  <2>2. n + 1 \in Int /\ 1 \in Int /\ Len(waiting) \in Int
    BY <1>3, <1>5
  <2> QED BY <1>3, <2>1, <2>2, SubSeqProperties
<1>7. front \o rest = waiting
  <2>1. 1 \in 1..(Len(waiting) + 1) /\ n \in (1 - 1)..Len(waiting)
        /\ Len(waiting) \in n..Len(waiting)
    BY <1>3, <1>4, <1>5
  <2>2. front \o rest = SubSeq(waiting, 1, Len(waiting))
    BY <1>5, <2>1, ConcatAdjacentSubSeq
  <2> QED BY <1>5, <2>2, SubSeqFull
<1> HIDE DEF front, rest
<1>8. (voting \o front) \o rest = voting \o (front \o rest)
  BY <1>5, <1>6, ConcatAssociative
<1> QED BY <1>4, <1>7, <1>8 DEF front, rest

\* A vote changes what was voted on a ballot, not what it was launched with.
LEMMA GrantSlotBallots ==
  ASSUME BoxInv, BallotsOfTheLog, Box!GrantSlot, since' = since
  PROVE  BallotsOfTheLog'
<1>1. Box!GrantSlot <=> BoxAlone!GrantSlot
  BY SameBox
<1>2. PICK b \in BoxAlone!Grants(voting[BoxAlone!Slot], job.peer, hint) :
        voting' = [voting EXCEPT ![BoxAlone!Slot] = b]
  BY <1>1 DEF BoxAlone!GrantSlot
<1>3. /\ waiting' = waiting /\ launching' = launching /\ open' = open /\ status' = status
  BY DEF Box!GrantSlot, Box!caller
<1>4. /\ voting \in Seq(BoxAlone!Ballots) /\ waiting \in Seq(BoxAlone!Ballots)
      /\ Len(voting) \in Nat /\ DOMAIN voting = 1..Len(voting)
  BY BoxTypes, LenProperties
<1> SUFFICES UnvotedAll(voting' \o waiting) = UnvotedAll(voting \o waiting)
  BY <1>3, BallotsStay, Zenon DEF Box!Running
<1> DEFINE k == BoxAlone!Slot
<1>5. CASE k \notin 1..Len(voting)
  <2>1. voting' = voting
    BY <1>2, <1>4, <1>5
  <2> QED BY <2>1
<1>6. CASE k \in 1..Len(voting)
  <2>1. voting[k] \in BoxAlone!Ballots
    BY <1>4, <1>6, ElementOfSeq
  <2> HIDE DEF k
  <2>2. b \in BoxAlone!Ballots /\ Unvoted(b) = Unvoted(voting[k])
    <3>1. b \in BoxAlone!Grants(voting[k], job.peer, hint)
      BY <1>2 DEF k
    <3>2. hint \in BoxAlone!Hints
      BY DEF BoxInv, BoxAlone!IInv, BoxAlone!TypeOK, BoxAlone!Hints
    <3>3. BoxAlone!Grants(voting[k], job.peer, hint) \subseteq BoxAlone!Ballots
      BY <2>1, <3>2, ConfsOK, BoxAssumption, BoxAlone!GrantTypes
    <3> QED BY <2>1, <3>1, <3>3, VoteKeepsUnvoted
  <2>3. voting' = [voting EXCEPT ![k] = b]
    BY <1>2 DEF k
  <2>4. /\ voting' \in Seq(BoxAlone!Ballots) /\ Len(voting') = Len(voting)
        /\ \A j \in 1..Len(voting) : voting'[j] = IF j = k THEN b ELSE voting[j]
    BY <1>4, <1>6, <2>2, <2>3, ExceptSeq
  <2>5. \A j \in 1..Len(voting) : Unvoted(voting'[j]) = Unvoted(voting[j])
    BY <2>2, <2>4
  <2> DEFINE q == voting \o waiting
             r == voting' \o waiting
  <2>6. /\ q \in Seq(BoxAlone!Ballots) /\ Len(q) = Len(voting) + Len(waiting)
        /\ \A i \in 1..(Len(voting) + Len(waiting)) :
             q[i] = IF i <= Len(voting) THEN voting[i] ELSE waiting[i - Len(voting)]
    BY <1>4, ConcatProperties
  <2>7. /\ r \in Seq(BoxAlone!Ballots) /\ Len(r) = Len(voting') + Len(waiting)
        /\ \A i \in 1..(Len(voting') + Len(waiting)) :
             r[i] = IF i <= Len(voting') THEN voting'[i] ELSE waiting[i - Len(voting')]
    BY <1>4, <2>4, ConcatProperties
  <2> HIDE DEF q, r
  <2>8. ASSUME NEW i \in 1..Len(q)
        PROVE  Unvoted(q[i]) = Unvoted(r[i])
    <3>1. Len(waiting) \in Nat
      BY <1>4, LenProperties
    <3>2. i \in 1..Len(voting) \/ ~(i <= Len(voting))
      BY <1>4, <2>6, <3>1
    <3>3. CASE i \in 1..Len(voting)
      <4>1. i <= Len(voting)
        BY <1>4, <3>3
      <4> QED BY <2>4, <2>5, <2>6, <2>7, <3>3, <4>1
    <3>4. CASE ~(i <= Len(voting))
      BY <2>4, <2>6, <2>7, <3>4
    <3> QED BY <3>2, <3>3, <3>4
  <2>9. UnvotedAll(q) = UnvotedAll(r)
    BY <2>4, <2>6, <2>7, <2>8, UnvotedAllSame
  <2> QED BY <2>9 DEF q, r
<1> QED BY <1>5, <1>6

\* CommitRange never removes a ballot: it stores an index only where none was
\* granted, and removes those before the first then.
LEMMA FinishCommitBallots ==
  ASSUME BoxInv, BallotsOfTheLog, Box!FinishCommit, since' = since
  PROVE  BallotsOfTheLog'
<1>1. /\ waiting' = waiting /\ launching' = launching /\ open' = open /\ status' = status
  BY DEF Box!FinishCommit, Box!caller
<1>2. voting \in Seq(BoxAlone!Ballots) /\ voting_index \in Nat
  BY BoxTypes
<1>3. voting' = voting
  <2>1. CASE Box!Settled(job.best)
    BY <2>1 DEF Box!FinishCommit
  <2>2. CASE ~Box!Settled(job.best)
    <3>1. voting' = SubSeq(voting, Box!Larger(0, job.best - voting_index + 1) + 1, Len(voting))
          /\ job.best = -1
      BY <2>2 DEF Box!FinishCommit, Box!Settled, Box!kInvalidIndex
    <3>2. Box!Larger(0, job.best - voting_index + 1) + 1 = 1
      BY <1>2, <3>1 DEF Box!Larger
    <3> QED BY <1>2, <3>1, <3>2, SubSeqFull
  <2> QED BY <2>1, <2>2
<1> QED BY <1>1, <1>3, BallotsStay DEF Box!Running

LEMMA NextBallotsOfTheLog == BoxInv /\ LInv /\ [LeaderNext]_leaderVars => BallotsOfTheLog'
<1> SUFFICES ASSUME BoxInv, LInv, [LeaderNext]_leaderVars PROVE BallotsOfTheLog'
  OBVIOUS
<1>0. LaunchUnderMutex /\ ClosedEmpty /\ BallotsOfTheLog
  BY DEF LInv
<1>1. CASE UNCHANGED <<box, since>>
  BY <1>0, <1>1, BallotsStay DEF box, Box!Running
<1>2. CASE NodeStep \/ ChangeConfiguration \/ LeaveOldConfiguration \/ UNCHANGED leaderVars
  BY <1>1, <1>2 DEF NodeStep, ChangeConfiguration, LeaveOldConfiguration, leaderVars
<1>3. CASE BeginLaunch
  BY <1>0, <1>3, BeginLaunchBallots
<1>4. CASE EndLaunch
  BY <1>0, <1>4, EndLaunchBallots
<1>5. CASE BecomeLeader
  BY <1>0, <1>5, BecomeLeaderBallots
<1>6. CASE StepDown
  <2>1. open' = FALSE
    BY <1>6 DEF StepDown, Box!Close
  <2> QED BY <2>1 DEF BallotsOfTheLog
<1>7. CASE Acknowledge
  BY <1>0, <1>7, CommitRangeBallots
<1>8. CASE CommitStep
  <2>1. since' = since
    BY <1>8 DEF CommitStep
  <2>2. CASE Box!GrantSlot
    BY <1>0, <2>1, <2>2, GrantSlotBallots
  <2>3. CASE Box!FinishCommit
    BY <1>0, <2>1, <2>3, FinishCommitBallots
  <2>4. CASE Box!GrantFaults \/ Box!GrantPastEnd
    <3>1. UNCHANGED <<waiting, voting, launching, open>> /\ (Box!Running' => Box!Running)
      BY <2>4 DEF Box!GrantFaults, Box!GrantPastEnd, Box!box, Box!caller, Box!Looping, Box!Running
    <3> QED BY <1>0, <2>1, <3>1, BallotsStay
  <2> QED BY <1>8, <2>2, <2>3, <2>4 DEF CommitStep
<1>9. CASE LearnCommitted
  <2>1. UNCHANGED <<waiting, voting, launching, open, status, since>>
    BY <1>9 DEF LearnCommitted, Box!SetLastCommittedIndex, Box!caller
  <2> QED BY <1>0, <2>1, BallotsStay DEF Box!Running
<1> QED BY <1>2, <1>3, <1>4, <1>5, <1>6, <1>7, <1>8, <1>9 DEF LeaderNext

LEMMA NextLInv == BoxInv /\ LInv /\ [LeaderNext]_leaderVars => LInv'
BY NextLaunchUnderMutex, NextClosedEmpty, NextBallotsOfTheLog DEF LInv

-------------------------------------------------------------------------------
(* The theorems *)

THEOREM NodeInvariant == Spec => []NodeInv
BY InitNodeInv, NextNodeInv, PTL DEF Spec

\* What the queue, the batch and the ballots hold are tasks and terms, and the
\* batch never exceeds kRaftApplyBatch, over however many visits it is filled.
THEOREM TypeCorrect == Spec => []TypeOK
<1>1. NodeInv => TypeOK
  BY DEF NodeInv
<1> QED BY <1>1, NodeInvariant, PTL

\* For any callers and batches, DoApply_ launches the ballots of each caller's
\* tasks in the order of its calls of Apply, one for a task at most.
THEOREM LaunchedInOrderHolds == Spec => []LaunchedInOrder
<1>1. NodeInv => LaunchedInOrder
  BY DEF NodeInv
<1> QED BY <1>1, NodeInvariant, PTL

\* However often the term changes, no task that expects a term has a ballot of
\* another, and the terms of the ballots never go back.
THEOREM TermsMatchHolds == Spec => []TermsMatch
<1>1. NodeInv => TermsMatch
  BY DEF NodeInv
<1> QED BY <1>1, NodeInvariant, PTL

\* Every task that the fiber has dealt with has a ballot or expected a term.
THEOREM NoneForgottenHolds == Spec => []NoneForgotten
<1>1. NodeInv => NoneForgotten
  BY DEF NodeInv
<1> QED BY <1>1, NodeInvariant, PTL

\* The node and its configuration use the box as BallotBox describes it:
\* whatever is proved of the box alone is true of the box in the node.
THEOREM BoxRefined == LeaderSpec => BoxAlone!Spec
<1>1. LeaderInit => BoxAlone!Init
  BY SameBox DEF LeaderInit
<1> QED BY <1>1, BoxStep, PTL DEF LeaderSpec, BoxAlone!Spec

\* Beside its box, the node does what RaftNode describes.
THEOREM NodeRefined == LeaderSpec => Spec
<1>1. LeaderInit => Init
  BY DEF LeaderInit
<1> QED BY <1>1, NodeAloneStep, PTL DEF LeaderSpec, Spec

\* Whatever the configuration, DoApply_ can launch its ballot.
THEOREM BallotsExpected ==
  LeaderSpec => [](Box!NewBallot(ConfsOf(conf_ctx)[1], ConfsOf(conf_ctx)[2]) \in Box!Launched)
BY InitCtxOK, NextCtxOK, BallotExpected, PTL DEF LeaderSpec

LEMMA BoxInvariant == LeaderSpec => []BoxInv
<1>1. BoxAlone!Spec => []BoxAlone!IInv
  BY ConfsOK, BoxAssumption, BoxAlone!Invariant
<1>2. BoxAlone!IInv => BoxInv
  BY DEF BoxInv
<1> QED BY <1>1, <1>2, BoxRefined, PTL

\* For any servers, tasks, terms and changes of configuration: an open box holds
\* the ballots of the entries launched since it was opened, in their order, with
\* the configurations of their time, and no others.
THEOREM BallotsOfTheLogHolds == LeaderSpec => []BallotsOfTheLog
<1>1. LInv => BallotsOfTheLog
  BY DEF LInv
<1> QED BY <1>1, InitLInv, NextLInv, BoxInvariant, PTL DEF LeaderSpec

\* For any configurations the group goes through, no ballot ever has the votes
\* of two servers: their versions never differ.
THEOREM OneTicketHolds ==
  LeaderSpec => [](OneTicket /\ \A b \in Box!InBoxes :
               Cardinality(b.new.voted) <= 1 /\ Cardinality(b.old.voted) <= 1)
<1>1. BoxAlone!Spec => []BoxAlone!OneTicket
  BY ConfsOK, BoxAssumption, BoxAlone!OneTicketHolds
<1>2. BoxAlone!OneTicket => OneTicket
  BY DEF BoxAlone!OneTicket, OneTicket, Box!OneTicket, Box!InBoxes, BoxAlone!InBoxes,
     Box!OneVersion, BoxAlone!OneVersion, Box!Versions, BoxAlone!Versions,
     Box!NewConfs, BoxAlone!NewConfs, Box!OldConfs, BoxAlone!OldConfs,
     Box!Cardinality, BoxAlone!Cardinality
<1>3. Box!OneVersion
  <2>1. \A c \in AllConfs : c[1].version = 0 /\ c[2].version = 0
    BY DEF AllConfs, ConfsOf, ForBallot, Configurations
  <2> QED BY <2>1 DEF Box!OneVersion, Box!Versions, Box!NewConfs, Box!OldConfs
<1>4. OneTicket => \A b \in Box!InBoxes :
        Cardinality(b.new.voted) <= 1 /\ Cardinality(b.old.voted) <= 1
  BY <1>3 DEF OneTicket, Box!OneTicket, Box!Cardinality, Cardinality
<1> QED BY <1>1, <1>2, <1>4, BoxRefined, PTL

\* Also with its box at work and its leadership changing, the node launches the
\* ballots of each caller's tasks in order and drops none that has no term.
THEOREM NodePromisesKept == LeaderSpec => [](LaunchedInOrder /\ NoneForgotten)
BY LaunchedInOrderHolds, NoneForgottenHolds, NodeRefined, PTL
===============================================================================
