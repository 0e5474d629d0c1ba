------------------------------ MODULE LeaderNode ------------------------------
(***************************************************************************)
(* The node, its ballot box and its configuration together (raft/node.h):  *)
(* the apply fiber launches a ballot per task with the configuration of    *)
(* the moment, while the node gains and loses leadership, peers            *)
(* acknowledge, and the configuration changes.                             *)
(*                                                                         *)
(* LaunchBallot takes no mutex of the box.  What makes OpenAt and Close    *)
(* safe beside it is the node's mutex: the code that will change the term, *)
(* the leadership and conf_ctx_, all members guarded by mutex_, is not     *)
(* there yet, and is assumed to hold it.  CommitRange, called for a peer's *)
(* answer, holds the box's mutex only.  Of the steps of RaftNode and       *)
(* BallotBox those are left out that do not concern both: a stopped fiber, *)
(* a follower's log that grows without ballots.                            *)
(*                                                                         *)
(* RaftNode is extended, with its own Init, Next and Spec; those of the    *)
(* two together are LeaderInit, LeaderNext and LeaderSpec.                 *)
(***************************************************************************)
EXTENDS RaftNode, Configuration

CONSTANTS Peers, MaxIndex,  \* see BallotBox
          PeerOrder,        \* the peers in the order of their PeerId
          MaxEdits          \* bound: configuration changes

ASSUME BoxAssumption == MaxIndex \in Nat
ASSUME PeerOrderAssumption == PeerOrder \in Seq(Peers)

VARIABLES
  ndebug, status, waiting, voting, voting_index,    \* see BallotBox
  last_committed, hint, job, launching, open, last_log,
  conf_ctx,     \* conf_ctx_
  edits,        \* how often it was changed
  since         \* the ballots launched since the box was opened, in order

ConfsOf(ctx) == <<ForBallot(ctx.conf_, PeerOrder), ForBallot(ctx.old_conf_, PeerOrder)>>
Configurations == [voters : SUBSET Peers, learners : SUBSET Peers, version : {0}]
AllConfs == {ConfsOf(ctx) : ctx \in [conf_ : Configurations, old_conf_ : Configurations]}

Box == INSTANCE BallotBox WITH Confs <- AllConfs

node == vars
box == <<ndebug, status, waiting, voting, voting_index,
         last_committed, hint, job, launching, open, last_log>>
configuration == <<conf_ctx, edits>>
leaderVars == <<node, box, configuration, since>>

\* Some of the servers are voters, others are learners.
LeaderInit ==
  /\ Init /\ Box!Init
  /\ \E voters \in SUBSET Peers : \E learners \in SUBSET (Peers \ voters) :
       conf_ctx = [DefaultCtx EXCEPT !.conf_.voters = voters, !.conf_.learners = learners]
  /\ edits = 0 /\ since = <<>>

-------------------------------------------------------------------------------
(* Under the node's mutex *)

NodeStep ==
  /\ \/ \E c \in Callers : Apply(c, kInvalidIndex) \/ Collect(c)
     \/ StartFiber \/ TestRunning \/ WaitDequeueBulkTimed
     \/ Lock \/ Check \/ Unlock
  /\ UNCHANGED <<box, configuration, since>>

\* DoApply_ calls LaunchBallot(GetConfiguration(), GetOldConfiguration()) ...
BeginLaunch ==
  /\ pc = "launch"
  /\ LET ballot == Box!NewBallot(ConfsOf(conf_ctx)[1], ConfsOf(conf_ctx)[2])
     IN /\ Box!LaunchBallot /\ launching' = {ballot}
        /\ since' = Append(since, ballot)
  /\ UNCHANGED <<node, configuration>>

\* ... which returns.
EndLaunch ==
  /\ Launch /\ Box!FinishLaunch
  /\ UNCHANGED <<configuration, since>>

BecomeLeader ==
  /\ ChangeTerm /\ Box!OpenAt
  /\ since' = <<>>
  /\ UNCHANGED configuration

\* In a new term or in the old one.
StepDown ==
  /\ \/ ChangeTerm
     \/ ~HoldsMutex /\ UNCHANGED node
  /\ Box!Close
  /\ UNCHANGED <<configuration, since>>

Edited(c) == {AddVoter(c, p) : p \in Peers} \cup {AddLearner(c, p) : p \in Peers}
        \cup {RemoveVoter(c, p) : p \in Peers} \cup {RemoveLearner(c, p) : p \in Peers}

\* A change of one server begins: votes in both configurations count.
ChangeConfiguration ==
  /\ Box!Running /\ ~HoldsMutex /\ IsStable(conf_ctx) /\ edits < MaxEdits
  /\ \E c \in Edited(conf_ctx.conf_) :
       conf_ctx' = [conf_ |-> c, old_conf_ |-> conf_ctx.conf_]
  /\ edits' = edits + 1
  /\ UNCHANGED <<node, box, since>>

\* The change is over.
LeaveOldConfiguration ==
  /\ Box!Running /\ ~HoldsMutex /\ ~IsStable(conf_ctx)
  /\ conf_ctx' = [conf_ctx EXCEPT !.old_conf_ = Reset(@)]
  /\ UNCHANGED <<node, box, edits, since>>

-------------------------------------------------------------------------------
(* Under the box's mutex only *)

\* A peer has acknowledged the log up to `end'.
Acknowledge ==
  /\ \E end \in 1..last_log, peer \in Peers : Box!CommitRange(1, end, peer)
  /\ UNCHANGED <<node, configuration, since>>

CommitStep ==
  /\ Box!GrantSlot \/ Box!GrantFaults \/ Box!GrantPastEnd \/ Box!FinishCommit
  /\ UNCHANGED <<node, configuration, since>>

LearnCommitted ==
  /\ \E index \in 0..last_log : Box!SetLastCommittedIndex(index)
  /\ UNCHANGED <<node, configuration, since>>

-------------------------------------------------------------------------------
LeaderNext ==
  \/ NodeStep \/ BeginLaunch \/ EndLaunch
  \/ BecomeLeader \/ StepDown \/ ChangeConfiguration \/ LeaveOldConfiguration
  \/ Acknowledge \/ CommitStep \/ LearnCommitted

LeaderSpec == LeaderInit /\ [][LeaderNext]_leaderVars

-------------------------------------------------------------------------------
\* What a ballot was launched with.
Unvoted(b) == Box!NewBallot([voters |-> b.new.peers, version |-> b.new.version],
                            [voters |-> b.old.peers, version |-> b.old.version])

UnvotedAll(q) == [i \in DOMAIN q |-> Unvoted(q[i])]

\* An open box holds the ballot of every entry launched since it was opened,
\* in the order of the log, with the configurations of its time, and no other:
\* none is left from an earlier leadership, none is lost when OpenAt and Close
\* replace waiting_queue_.  (None is ever removed either: see FinishCommit.)
BallotsOfTheLog ==
  open /\ Box!Running =>
    UnvotedAll(voting \o waiting) \o (IF launching = {} THEN <<>> ELSE <<CHOOSE b \in launching : TRUE>>)
      = since

\* Whatever configurations the group goes through, no ballot ever gets the
\* votes of two servers: their versions are never set (BallotBox).
OneTicket == Box!OneTicket
===============================================================================
