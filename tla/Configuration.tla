----------------------------- MODULE Configuration -----------------------------
(***************************************************************************)
(* raft/configuration.h and raft/configuration.cc: the voters and learners *)
(* of a Raft group, and the pair of configurations of a change under way   *)
(* (ConfigurationCtx, joint consensus).  An operation is a function from   *)
(* the configuration before to the one after; that it changed nothing is   *)
(* what the source reports by false.                                       *)
(***************************************************************************)
EXTENDS Integers, Sequences, FiniteSets

Default == [voters |-> {}, learners |-> {}, version |-> 0]

\* The version stays.
Reset(c) == [c EXCEPT !.voters = {}, !.learners = {}]

IsEmptyConf(c) == c.voters = {} /\ c.learners = {}

ContainsVoter(c, peer) == peer \in c.voters
ContainsLearner(c, peer) == peer \in c.learners

AddVoter(c, peer) ==
  IF ContainsLearner(c, peer) THEN c ELSE [c EXCEPT !.voters = @ \cup {peer}]

AddLearner(c, peer) ==
  IF ContainsVoter(c, peer) THEN c ELSE [c EXCEPT !.learners = @ \cup {peer}]

RemoveVoter(c, peer) == [c EXCEPT !.voters = @ \ {peer}]
RemoveLearner(c, peer) == [c EXCEPT !.learners = @ \ {peer}]

\* A finite set of numbers from the smallest to the largest.
Ascending(S) ==
  CHOOSE s \in [1..Cardinality(S) -> S] : \A i, j \in DOMAIN s : i < j => s[i] < s[j]

Places(c, peer_order) == {i \in DOMAIN peer_order : peer_order[i] \in c.voters}

\* A std::set lists its members in the order of PeerId's <=>.
ForBallot(c, peer_order) ==
  LET nth == Ascending(Places(c, peer_order))
  IN [voters |-> [k \in 1..Cardinality(Places(c, peer_order)) |-> peer_order[nth[k]]],
      version |-> c.version]

-------------------------------------------------------------------------------
(* ConfigurationCtx: [conf_, old_conf_] *)

DefaultCtx == [conf_ |-> Default, old_conf_ |-> Default]

IsStable(ctx) == IsEmptyConf(ctx.old_conf_)
===============================================================================
