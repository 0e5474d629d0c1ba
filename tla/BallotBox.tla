------------------------------ MODULE BallotBox ------------------------------
(***************************************************************************)
(* raft/ballot_box.h and raft/ballot_box.cc: the leader's ballots.         *)
(* LaunchBallot queues a ballot per appended entry without taking the      *)
(* mutex; the other operations hold it.  CommitRange is one step per turn  *)
(* of its loop, so that LaunchBallot runs in between.                      *)
(*                                                                         *)
(* Undefined behaviour is a choice: the process dies ("crashed") or goes   *)
(* on with one of the values the memory may hold.  A negative count makes  *)
(* reserve() throw before anything changes, so that is no action.          *)
(***************************************************************************)
EXTENDS Ballot, FiniteSets

CONSTANTS Peers,     \* the servers that acknowledge entries
          Confs,     \* pairs <<conf, old_conf>> ballots are launched with
          MaxIndex   \* bound: last log index

ASSUME ConfsAssumption ==
  \A c \in Confs : \A x \in {c[1], c[2]} : x.voters \in Seq(Peers) /\ x.version \in Nat
ASSUME MaxIndexAssumption == MaxIndex \in Nat

VARIABLES
  ndebug,         \* built with NDEBUG: an assert evaluates nothing
  status,         \* "running", "aborted" by an assert, "crashed"
  waiting,        \* waiting_queue_, launched ballots not yet voted on
  voting,         \* voting_queue_
  voting_index,   \* voting_index_
  last_committed, \* last_committed_index_
  hint,           \* hint_
  job,            \* the CommitRange that holds the mutex, or NoJob
  launching,      \* the ballot LaunchBallot is moving into waiting_queue_
  open,           \* the node is leader: OpenAt was called, Close not yet
  last_log        \* last index of the node's log (kept by its caller)

box == <<waiting, voting, voting_index, last_committed, hint>>
caller == <<ndebug, open, last_log>>
vars == <<box, caller, status, job, launching>>

NoJob == [peer |-> "none", at |-> 0, end |-> -1, best |-> kInvalidIndex]
Launched == {NewBallot(c[1], c[2]) : c \in Confs}

Init ==
  /\ ndebug \in BOOLEAN /\ status = "running"
  /\ waiting = <<>> /\ voting = <<>>
  /\ voting_index = 0 /\ last_committed = kInvalidIndex
  /\ hint = NoHint /\ job = NoJob /\ launching = {}
  /\ open = FALSE /\ last_log = 0

Running == status = "running"
Unlocked == Running /\ job = NoJob

-------------------------------------------------------------------------------
(* OpenAt, Close, LaunchBallot *)

\* waiting_queue_ = {}: a move assignment, which nobody may do to a queue in
\* use.  Under a LaunchBallot the process dies or the ballot may be lost.
EmptyWaiting ==
  \/ waiting' = <<>> /\ UNCHANGED <<launching, status>>
  \/ /\ launching # {}
     /\ waiting' = <<>> /\ launching' = {} /\ UNCHANGED status
  \/ launching # {} /\ status' = "crashed" /\ UNCHANGED <<waiting, launching>>

\* The leader votes on what it appends from here on.
OpenAt ==
  /\ Unlocked /\ ~open
  /\ IF last_log + 1 > last_committed \/ ndebug
       THEN /\ voting_index' = last_log + 1
            /\ EmptyWaiting
            /\ open' = TRUE
       ELSE /\ status' = "aborted"
            /\ UNCHANGED <<voting_index, waiting, launching, open>>
  /\ UNCHANGED <<voting, last_committed, hint, job, ndebug, last_log>>

\* Mutant of ForgetVotes: the ballots stay.
ForgetHint == UNCHANGED voting /\ hint' = NoHint

ForgetVotes == voting' = <<>> /\ hint' = NoHint

Close ==
  /\ Unlocked /\ open
  /\ ForgetVotes
  /\ voting_index' = 0
  /\ EmptyWaiting
  /\ open' = FALSE
  /\ UNCHANGED <<last_committed, job, ndebug, last_log>>

\* DoApply_ calls it whether or not the node is leader.
LaunchBallot ==
  /\ Running /\ launching = {} /\ last_log < MaxIndex
  /\ launching' \in {{b} : b \in Launched}
  /\ UNCHANGED <<box, status, job, caller>>

\* The entry follows its ballot into the log.
FinishLaunch ==
  /\ Running
  /\ \E b \in launching : waiting' = Append(waiting, b)
  /\ launching' = {} /\ last_log' = last_log + 1
  /\ UNCHANGED <<voting, voting_index, last_committed, hint, ndebug, open, status, job>>

\* A follower's log grows without ballots.
AppendAsFollower ==
  /\ Running /\ ~open /\ launching = {} /\ last_log < MaxIndex
  /\ last_log' = last_log + 1
  /\ UNCHANGED <<box, status, job, launching, ndebug, open>>

-------------------------------------------------------------------------------
(* CommitRange *)

\* Mutant of Larger: the smaller of the two.
LargerSwapped(a, b) == IF a > b THEN b ELSE a

Larger(a, b) == IF a > b THEN a ELSE b

\* Ballots CommitRange asks for, whatever voting_queue_ already holds.
Needed(end) == end - voting_index

Holding(peer, start, end) ==
  [peer |-> peer, at |-> Larger(voting_index, start), end |-> end,
   best |-> kInvalidIndex]

\* assert(BeginVotingBallots_(need)): a build with NDEBUG moves no ballot.
CommitRange(start, end, peer) ==
  /\ Unlocked /\ open
  /\ LET need == IF ndebug THEN 0 ELSE Needed(end)
     IN /\ need >= 0
        /\ \/ /\ need <= Len(waiting)
              /\ voting' = voting \o SubSeq(waiting, 1, need)
              /\ waiting' = SubSeq(waiting, need + 1, Len(waiting))
              /\ job' = Holding(peer, start, end)
              /\ UNCHANGED status
           \/ /\ need > Len(waiting)
              /\ status' = "aborted"
              /\ UNCHANGED <<voting, waiting, job>>
           \* ballots are moved into reserved, never constructed storage
           \/ /\ need > 0 /\ waiting # <<>>
              /\ status' = "crashed"
              /\ UNCHANGED <<voting, waiting, job>>
  /\ UNCHANGED <<voting_index, last_committed, hint, launching, caller>>

Slot == job.at - voting_index + 1

Looping == Running /\ job # NoJob /\ job.at <= job.end

\* The next turn, with or without the ballot of this one granted.
NextTurn(granted) ==
  job' = [job EXCEPT !.at = @ + 1, !.best = IF granted THEN job.at ELSE @]

GrantSlot ==
  /\ Looping /\ Slot <= Len(voting)
  /\ \E b \in Grants(voting[Slot], job.peer, hint) :
       /\ voting' = [voting EXCEPT ![Slot] = b]
       /\ NextTurn(IsGranted(b))
  /\ hint' = UpdatedHint(voting[Slot], job.peer, hint)
  /\ UNCHANGED <<waiting, voting_index, last_committed, caller, status, launching>>

\* A hinted position outside the vector may also be no memory at all.
GrantFaults ==
  /\ Looping /\ Slot <= Len(voting)
  /\ ~Defined(voting[Slot], job.peer, hint)
  /\ status' = "crashed"
  /\ UNCHANGED <<box, caller, job, launching>>

\* voting_queue_[k] past its end.
GrantPastEnd ==
  /\ Looping /\ Slot > Len(voting)
  /\ \/ (\E granted \in BOOLEAN : NextTurn(granted)) /\ UNCHANGED status
     \/ status' = "crashed" /\ UNCHANGED job
  /\ UNCHANGED <<box, caller, launching>>

\* The test of line 67.
Settled(best) == best # kInvalidIndex

FinishCommit ==
  /\ Running /\ job # NoJob /\ job.at > job.end
  /\ IF Settled(job.best)
       THEN UNCHANGED <<voting, voting_index, last_committed>>
       ELSE /\ voting' = SubSeq(voting, Larger(0, job.best - voting_index + 1) + 1, Len(voting))
            /\ voting_index' = job.best + 1
            /\ last_committed' = job.best
  /\ job' = NoJob
  /\ UNCHANGED <<waiting, hint, caller, status, launching>>

-------------------------------------------------------------------------------
(* SetLastCommittedIndex *)

\* waiting_queue_.IsEmpty() answers whether the queue has elements.
ReportsEmpty == waiting # <<>>

\* Mutant of Accepts: voting_index_ itself is refused too.
AcceptsAbove(index, reports_empty) ==
  /\ (voting_index # 0 \/ voting # <<>> \/ ~reports_empty) => index > voting_index
  /\ index > last_committed

Accepts(index, reports_empty) ==
  /\ (voting_index # 0 \/ voting # <<>> \/ ~reports_empty) => index >= voting_index
  /\ index > last_committed

SetLastCommittedIndex(index) ==
  /\ Unlocked
  /\ Accepts(index, ReportsEmpty)
  /\ last_committed' = index
  /\ UNCHANGED <<waiting, voting, voting_index, hint, caller, status, job, launching>>

-------------------------------------------------------------------------------
Next ==
  \/ OpenAt \/ Close \/ LaunchBallot \/ FinishLaunch \/ AppendAsFollower
  \/ \E end \in 1..last_log : \E start \in 1..end, peer \in Peers :
       CommitRange(start, end, peer)
  \/ GrantSlot \/ GrantFaults \/ GrantPastEnd \/ FinishCommit
  \/ \E index \in 0..last_log : SetLastCommittedIndex(index)

Spec == Init /\ [][Next]_vars

-------------------------------------------------------------------------------
\* Every ballot that may still be voted on.
InBoxes == launching \cup {waiting[i] : i \in 1..Len(waiting)}
                     \cup {voting[i] : i \in 1..Len(voting)}

NewConfs == {c[1] : c \in Confs}
OldConfs == {c[2] : c \in Confs}
Versions == {x.version : x \in NewConfs \cup OldConfs}

\* The tickets of a side are those of a configuration.
Sides(confs) ==
  {s \in [peers : {x.voters : x \in confs}, version : Versions,
          voted : SUBSET Nat, quorum : Int] :
     \E x \in confs : s.peers = x.voters /\ s.version = x.version}

Ballots == [new : Sides(NewConfs), old : Sides(OldConfs)]
Knowledge == [version : Versions \cup {-1}, offset : Nat \cup {-1}]

JobOK == job # NoJob =>
  /\ job.peer \in Peers /\ job.at \in Nat /\ job.end \in 1..last_log
  /\ job.best \in -1..job.end /\ job.at >= voting_index

TypeOK ==
  /\ ndebug \in BOOLEAN /\ open \in BOOLEAN
  /\ status \in {"running", "aborted", "crashed"}
  /\ launching \subseteq Ballots /\ waiting \in Seq(Ballots) /\ voting \in Seq(Ballots)
  /\ hint \in [new : Knowledge, old : Knowledge]
  /\ voting_index \in Nat /\ last_committed \in -1..last_log /\ last_log \in 0..MaxIndex
  /\ JobOK

\* The configurations that ballots look votes up in.
Named == NewConfs \cup {x \in OldConfs : x.voters # <<>>}

\* They are the same if they have this version: what GetVersion() is for.
Identifies(v) == \A x, y \in Named : x.version = v /\ y.version = v => x.voters = y.voters

VersionsIdentify(ballot) ==
  Identifies(ballot.new.version) /\ (ballot.old.peers # <<>> => Identifies(ballot.old.version))

\* If its versions identify its configurations, the shared hint never sends a
\* vote outside the tickets of a ballot, whatever peers and ballots it served,
\* those with doubtful versions included.
HintInRange ==
  \A ballot \in InBoxes : VersionsIdentify(ballot) => \A p \in Peers : Defined(ballot, p, hint)

Initially(side, isOld) ==
  IF isOld /\ side.peers = <<>> THEN 0 ELSE Len(side.peers) \div 2 + 1

\* A side of such a ballot lacks as many votes as its majority minus its marked
\* tickets: a vote repeated by a retry or found through the hint counts once.
QuorumExact ==
  \A ballot \in InBoxes : VersionsIdentify(ballot) =>
    /\ ballot.new.quorum = Initially(ballot.new, FALSE) - Cardinality(ballot.new.voted)
    /\ ballot.old.quorum = Initially(ballot.old, TRUE) - Cardinality(ballot.old.voted)

OneVersion == \A v, w \in Versions : v = w

\* While every configuration has the same version (nothing in the source calls
\* SetVersion), all votes of a term go to the ticket the first voter was found
\* at: no ballot ever has two marked tickets, so none with two voters or more
\* is granted within its tickets.
OneTicket ==
  OneVersion => \A b \in InBoxes :
    Cardinality(b.new.voted) <= 1 /\ Cardinality(b.old.voted) <= 1

\* SetLastCommittedIndex decides the same as with an IsEmpty that answers what
\* its name says: the inverted answer only matters when the box is closed and
\* empty, and then no index is both below voting_index_ and new.
InversionHarmless ==
  \A index \in -1..MaxIndex : Accepts(index, ReportsEmpty) = Accepts(index, ~ReportsEmpty)

-------------------------------------------------------------------------------
\* "assert(BeginVotingBallots_(need_voting_ballots))": the ballots a vote is
\* for are there.
BallotsAvailable == status # "aborted"

\* "node changes to leader, but last_committed_index={} is smaller than
\* current={}": the committed index does not go back.
CommittedNeverRegresses == [][last_committed' >= last_committed]_vars

\* "assert(voting_index > last_committed_index_)" and "node changes to leader,
\* pending_index={}": a leader's open window lies above what is committed.
WindowAboveCommitted == Unlocked /\ open => voting_index > last_committed
===============================================================================
