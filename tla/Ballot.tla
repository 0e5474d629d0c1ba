-------------------------------- MODULE Ballot --------------------------------
(***************************************************************************)
(* raft/ballot.h and raft/ballot.cc: the votes on one log entry.  A ballot *)
(* has a ticket per voter of the configuration and of the old one (joint   *)
(* consensus).  The position hint remembers, per configuration version,    *)
(* where the ticket of the last voter was found; it is looked up by        *)
(* version alone, whoever votes.                                           *)
(*                                                                         *)
(* A configuration is [voters, version], its voters in the order of the    *)
(* std::set.  A vector offset counts from 0, as in the source.             *)
(***************************************************************************)
EXTENDS Integers, Sequences

kInvalidIndex == -1

-------------------------------------------------------------------------------
(* The ballot *)

\* The tickets for one configuration: `voted' holds the offsets marked.
Side(conf, quorum) ==
  [peers |-> conf.voters, version |-> conf.version, voted |-> {}, quorum |-> quorum]

Majority(conf) == Len(conf.voters) \div 2 + 1

NewBallot(conf, old) ==
  [new |-> Side(conf, Majority(conf)),
   old |-> Side(old, IF old.voters = <<>> THEN 0 ELSE Majority(old))]

IsGranted(b) == b.new.quorum <= 0 /\ b.old.quorum <= 0

-------------------------------------------------------------------------------
(* The hint *)

Unknown == [version |-> kInvalidIndex, offset |-> kInvalidIndex]
NoHint == [new |-> Unknown, old |-> Unknown]

\* std::find: the offset of the peer, or of the end.
Find(peers, peer) ==
  IF \E i \in 1..Len(peers) : peers[i] = peer
    THEN (CHOOSE i \in 1..Len(peers) : peers[i] = peer) - 1
    ELSE Len(peers)

NewPosition(b, peer, h) ==
  IF b.new.version = h.new.version THEN h.new.offset ELSE Find(b.new.peers, peer)

OldPosition(b, peer, h) ==
  IF b.old.version = h.old.version THEN h.old.offset
  ELSE IF b.old.version = h.new.version THEN h.new.offset
  ELSE Find(b.old.peers, peer)

Remember(side, position) == [version |-> side.version, offset |-> position]

\* Mutant of NewHint: remembered under the old configuration's version.
NewHintOldVersion(b, peer, h) ==
  IF b.new.version # h.new.version /\ NewPosition(b, peer, h) < Len(b.new.peers)
    THEN Remember(b.old, NewPosition(b, peer, h)) ELSE h.new

NewHint(b, peer, h) ==
  IF b.new.version # h.new.version /\ NewPosition(b, peer, h) < Len(b.new.peers)
    THEN Remember(b.new, NewPosition(b, peer, h)) ELSE h.new

OldHint(b, peer, h) ==
  IF /\ b.old.peers # <<>> /\ b.old.version # h.old.version
     /\ b.old.version = h.new.version \/ OldPosition(b, peer, h) < Len(b.old.peers)
    THEN Remember(b.old, OldPosition(b, peer, h)) ELSE h.old

-------------------------------------------------------------------------------
(* GrantWithUpdateHint *)

\* A hinted position past the end is outside the vector.
InVector(side, position) == position \in 0..Len(side.peers)

Defined(b, peer, h) ==
  /\ InVector(b.new, NewPosition(b, peer, h))
  /\ b.old.peers # <<>> => InVector(b.old, OldPosition(b, peer, h))

\* Mutant of MarkVoted: the quorum is counted down by a repeated vote too.
MarkVotedAgain(side, position) ==
  IF position < Len(side.peers)
    THEN [side EXCEPT !.voted = @ \cup {position}, !.quorum = @ - 1]
    ELSE side

\* MarkVoted() and the count down, unless the position is the end.
MarkVoted(side, position) ==
  IF position < Len(side.peers) /\ position \notin side.voted
    THEN [side EXCEPT !.voted = @ \cup {position}, !.quorum = @ - 1]
    ELSE side

\* What marking may do to a side.  Outside the vector some memory is taken for
\* a ticket that is voted already or not; all quorums below 1 are alike.
Marks(side, position) ==
  IF InVector(side, position)
    THEN {MarkVoted(side, position)}
  ELSE IF side.quorum > 0
    THEN {side, [side EXCEPT !.quorum = @ - 1]}
  ELSE {side}

Grants(b, peer, h) ==
  [new : Marks(b.new, NewPosition(b, peer, h)),
   old : IF b.old.peers = <<>> THEN {b.old}
         ELSE Marks(b.old, OldPosition(b, peer, h))]

\* Mutant of UpdatedHint: the hint is not shared between votes.
UpdatedHintLocal(b, peer, h) == NoHint

UpdatedHint(b, peer, h) == [new |-> NewHint(b, peer, h), old |-> OldHint(b, peer, h)]
===============================================================================
