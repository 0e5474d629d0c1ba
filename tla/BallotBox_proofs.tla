--------------------------- MODULE BallotBox_proofs ---------------------------
(***************************************************************************)
(* TLAPS proofs about BallotBox, for every set of servers, every set of    *)
(* configurations and every length of the log.                             *)
(***************************************************************************)
EXTENDS BallotBox, FiniteSetTheorems, SequenceTheorems, TLAPS

-------------------------------------------------------------------------------
(* The parts of the inductive invariant *)

\* What is known is the offset of a voter of a configuration of that version,
\* unless others share the version.
KnownAt(k, confs) ==
  k.version # kInvalidIndex /\ Identifies(k.version) =>
    \E x \in confs : x.version = k.version /\ k.offset \in 0..(Len(x.voters) - 1)

HintOK(h) == KnownAt(h.new, NewConfs) /\ KnownAt(h.old, Named)

\* The marked tickets are voters, and the missing votes are counted right.
Counted(side, isOld) ==
  /\ side.voted \subseteq 0..(Len(side.peers) - 1)
  /\ side.quorum = Initially(side, isOld) - Cardinality(side.voted)

CountedBallots ==
  {b \in Ballots : VersionsIdentify(b) => Counted(b.new, FALSE) /\ Counted(b.old, TRUE)}

\* Only the ticket the hint knows is marked.
OnlyHinted(side, k) ==
  side.voted \subseteq (IF k.version = kInvalidIndex THEN {} ELSE {k.offset})

HintedBallots(h) ==
  {b \in Ballots : OneVersion =>
     OnlyHinted(b.new, h.new) /\ OnlyHinted(b.old, h.old)}

Hints == [new : Knowledge, old : Knowledge]

\* Ballots that are not voted on yet are as they were launched; the room for a
\* ballot being launched is kept in the log.
LaunchOK ==
  /\ launching \subseteq Launched /\ waiting \in Seq(Launched)
  /\ launching # {} => last_log < MaxIndex

\* The inductive invariant.  The hint matches the configurations it was taken
\* from; without that, a vote could be taken outside a ballot's tickets and the
\* count of votes would say nothing.
IInv ==
  /\ TypeOK
  /\ LaunchOK
  /\ HintOK(hint)
  /\ voting \in Seq(CountedBallots)
  /\ voting \in Seq(HintedBallots(hint))

-------------------------------------------------------------------------------
(* Ballots and hints, as values *)

\* A configuration's voters are a sequence and its version is a natural.
LEMMA ConfTypes ==
  \A x \in NewConfs \cup OldConfs :
    x.voters \in Seq(Peers) /\ Len(x.voters) \in Nat /\ x.version \in Nat
      /\ x.version \in Versions
BY ConfsAssumption, LenProperties DEF NewConfs, OldConfs, Versions

\* The tickets of a ballot are those of a configuration.
LEMMA BallotTypes ==
  ASSUME NEW b \in Ballots
  PROVE  /\ \E x \in NewConfs : b.new.peers = x.voters /\ b.new.version = x.version
         /\ \E x \in OldConfs : b.old.peers = x.voters /\ b.old.version = x.version
         /\ Len(b.new.peers) \in Nat /\ Len(b.old.peers) \in Nat
         /\ b.new.version \in Nat /\ b.old.version \in Nat
         /\ b.new.version \in Versions /\ b.old.version \in Versions
         /\ b.new.voted \subseteq Nat /\ b.old.voted \subseteq Nat
         /\ b.new.quorum \in Int /\ b.old.quorum \in Int
<1>1. b.new \in Sides(NewConfs) /\ b.old \in Sides(OldConfs)
  BY DEF Ballots
<1>2. /\ \E x \in NewConfs : b.new.peers = x.voters /\ b.new.version = x.version
      /\ b.new.voted \subseteq Nat /\ b.new.quorum \in Int
  BY <1>1 DEF Sides
<1>3. /\ \E x \in OldConfs : b.old.peers = x.voters /\ b.old.version = x.version
      /\ b.old.voted \subseteq Nat /\ b.old.quorum \in Int
  BY <1>1 DEF Sides
<1> QED BY <1>2, <1>3, ConfTypes

\* A launched ballot has no marked ticket and lacks its whole majority.
LEMMA LaunchedBallots ==
  ASSUME NEW h
  PROVE  Launched \subseteq Ballots \cap CountedBallots \cap HintedBallots(h)
<1> SUFFICES ASSUME NEW c \in Confs
             PROVE  NewBallot(c[1], c[2]) \in Ballots \cap CountedBallots \cap HintedBallots(h)
  BY DEF Launched
<1> DEFINE b == NewBallot(c[1], c[2])
<1>1. c[1] \in NewConfs /\ c[2] \in OldConfs
  BY DEF NewConfs, OldConfs
<1>2. Len(c[1].voters) \in Nat /\ Len(c[2].voters) \in Nat
  BY <1>1, ConfTypes
<1>3. /\ b.new = [peers |-> c[1].voters, version |-> c[1].version, voted |-> {},
                  quorum |-> Len(c[1].voters) \div 2 + 1]
      /\ b.old = [peers |-> c[2].voters, version |-> c[2].version, voted |-> {},
                  quorum |-> IF c[2].voters = <<>> THEN 0 ELSE Len(c[2].voters) \div 2 + 1]
      /\ b = [new |-> b.new, old |-> b.old]
  BY DEF NewBallot, Side, Majority
<1>4. b.new \in Sides(NewConfs)
  <2>1. b.new \in [peers : {x.voters : x \in NewConfs}, version : Versions,
                   voted : SUBSET Nat, quorum : Int]
    BY <1>1, <1>2, <1>3, ConfTypes
  <2> QED BY <1>1, <1>3, <2>1 DEF Sides
<1>5. b.old \in Sides(OldConfs)
  <2>1. b.old \in [peers : {x.voters : x \in OldConfs}, version : Versions,
                   voted : SUBSET Nat, quorum : Int]
    BY <1>1, <1>2, <1>3, ConfTypes
  <2> QED BY <1>1, <1>3, <2>1 DEF Sides
<1>6. b \in Ballots
  <2> HIDE DEF b
  <2> QED BY <1>3, <1>4, <1>5 DEF Ballots
<1>7. Counted(b.new, FALSE) /\ Counted(b.old, TRUE)
  <2> HIDE DEF b
  <2>1. Cardinality({}) = 0
    BY FS_EmptySet
  <2>2. b.new.voted = {} /\ b.old.voted = {}
    BY <1>3
  <2>3. b.new.quorum = Initially(b.new, FALSE) /\ b.old.quorum = Initially(b.old, TRUE)
    BY <1>3 DEF Initially
  <2>4. b.new.quorum \in Int /\ b.old.quorum \in Int
    BY <1>2, <1>3
  <2>5. /\ b.new.quorum = b.new.quorum - Cardinality(b.new.voted)
        /\ b.old.quorum = b.old.quorum - Cardinality(b.old.voted)
    BY <2>1, <2>2, <2>4
  <2>6. b.new.voted \subseteq 0..(Len(b.new.peers) - 1) /\ b.old.voted \subseteq 0..(Len(b.old.peers) - 1)
    BY <2>2
  <2> QED BY <2>3, <2>5, <2>6, Zenon DEF Counted
<1>8. OnlyHinted(b.new, h.new) /\ OnlyHinted(b.old, h.old)
  BY <1>3 DEF OnlyHinted
<1> HIDE DEF b
<1>9. b \in CountedBallots /\ b \in HintedBallots(h)
  BY <1>6, <1>7, <1>8 DEF CountedBallots, HintedBallots
<1> QED BY <1>6, <1>9 DEF b

\* A vote is looked up at an offset or at the end of the tickets.
LEMMA FindType ==
  ASSUME NEW peers, Len(peers) \in Nat, NEW peer
  PROVE  Find(peers, peer) \in 0..Len(peers)
BY DEF Find

\* Positions are integers, naturals unless they come from what is unknown.
LEMMA PositionTypes ==
  ASSUME NEW b \in Ballots, NEW p, NEW h \in Hints
  PROVE  NewPosition(b, p, h) \in Nat \cup {-1} /\ OldPosition(b, p, h) \in Nat \cup {-1}
<1>1. Find(b.new.peers, p) \in Nat /\ Find(b.old.peers, p) \in Nat
  BY BallotTypes, FindType
<1>2. h.new.offset \in Nat \cup {-1} /\ h.old.offset \in Nat \cup {-1}
  BY DEF Hints, Knowledge
<1> QED BY <1>1, <1>2 DEF NewPosition, OldPosition

\* Marking a position keeps the shape of a side.
LEMMA MarksType ==
  ASSUME NEW C, NEW side \in Sides(C), NEW q \in Nat \cup {-1}
  PROVE  Marks(side, q) \subseteq Sides(C)
<1> DEFINE Shape == [peers : {x.voters : x \in C}, version : Versions,
                     voted : SUBSET Nat, quorum : Int]
<1>0. side \in Shape /\ \E x \in C : side.peers = x.voters /\ side.version = x.version
  BY DEF Sides
<1>1. ASSUME NEW v \in SUBSET Nat
      PROVE  [side EXCEPT !.voted = v, !.quorum = side.quorum - 1] \in Sides(C)
  <2> DEFINE s == [side EXCEPT !.voted = v, !.quorum = side.quorum - 1]
  <2>1. side.quorum - 1 \in Int
    BY <1>0
  <2>2. s \in Shape /\ s.peers = side.peers /\ s.version = side.version
    BY <1>0, <2>1
  <2> QED BY <1>0, <2>2 DEF Sides
<1>2. [side EXCEPT !.quorum = side.quorum - 1] \in Sides(C)
  BY DEF Sides
<1>3. InVector(side, q) => side.voted \cup {q} \in SUBSET Nat
  BY DEF InVector, Sides
<1>4. MarkVoted(side, q) \in {side, [side EXCEPT !.voted = side.voted \cup {q}, !.quorum = side.quorum - 1]}
  BY DEF MarkVoted
<1> QED BY <1>1, <1>2, <1>3, <1>4 DEF Marks

\* A vote makes ballots from ballots and hints from hints.
LEMMA GrantTypes ==
  ASSUME NEW b \in Ballots, NEW p, NEW h \in Hints
  PROVE  Grants(b, p, h) \subseteq Ballots /\ UpdatedHint(b, p, h) \in Hints
<1>1. Marks(b.new, NewPosition(b, p, h)) \subseteq Sides(NewConfs)
  BY PositionTypes, MarksType DEF Ballots
<1>2. Marks(b.old, OldPosition(b, p, h)) \subseteq Sides(OldConfs)
  BY PositionTypes, MarksType DEF Ballots
<1>3. b.old \in Sides(OldConfs)
  BY DEF Ballots
<1>4. Grants(b, p, h) \subseteq Ballots
  BY <1>1, <1>2, <1>3 DEF Grants, Ballots
<1>5. /\ Remember(b.new, NewPosition(b, p, h)) \in Knowledge
      /\ Remember(b.old, OldPosition(b, p, h)) \in Knowledge
  BY PositionTypes, BallotTypes DEF Remember, Knowledge
<1>6. h.new \in Knowledge /\ h.old \in Knowledge
  BY DEF Hints
<1>7. NewHint(b, p, h) \in Knowledge /\ OldHint(b, p, h) \in Knowledge
  BY <1>5, <1>6 DEF NewHint, OldHint
<1> QED BY <1>4, <1>7 DEF UpdatedHint, Hints

-------------------------------------------------------------------------------
(* What a vote does to the hint and to the count *)

\* If its version identifies a configuration, a known offset is one of its
\* voters, and a vote goes to a ticket or to the end of them.
LEMMA VoteStaysInside ==
  ASSUME NEW b \in Ballots, NEW p, NEW h \in Hints, HintOK(h)
  PROVE  /\ Identifies(b.new.version) => InVector(b.new, NewPosition(b, p, h))
         /\ b.old.peers # <<>> /\ Identifies(b.old.version)
              => InVector(b.old, OldPosition(b, p, h))
<1>1. b.new.version # kInvalidIndex /\ b.old.version # kInvalidIndex
  BY BallotTypes DEF kInvalidIndex
<1>2. KnownAt(h.new, NewConfs) /\ KnownAt(h.old, Named)
  BY DEF HintOK
<1>3. NewConfs \subseteq Named /\ \A x \in Named : Len(x.voters) \in Nat
  BY ConfTypes DEF Named
<1>5. PICK n \in NewConfs : b.new.peers = n.voters /\ b.new.version = n.version
  BY BallotTypes
<1>6. PICK o \in OldConfs : b.old.peers = o.voters /\ b.old.version = o.version
  BY BallotTypes
<1>7. ASSUME Identifies(b.new.version)
      PROVE  InVector(b.new, NewPosition(b, p, h))
  <2>1. CASE b.new.version = h.new.version
    <3>1. PICK x \in NewConfs : x.version = h.new.version /\ h.new.offset \in 0..(Len(x.voters) - 1)
      BY <1>1, <1>2, <1>7, <2>1 DEF KnownAt
    <3>2. x.voters = b.new.peers
      BY <1>3, <1>5, <1>7, <2>1, <3>1 DEF Identifies
    <3> QED BY <1>3, <2>1, <3>1, <3>2 DEF NewPosition, InVector
  <2>2. CASE b.new.version # h.new.version
    BY <2>2, FindType, BallotTypes DEF NewPosition, InVector
  <2> QED BY <2>1, <2>2
<1>8. ASSUME b.old.peers # <<>>, Identifies(b.old.version)
      PROVE  InVector(b.old, OldPosition(b, p, h))
  <2>1. o \in Named
    BY <1>6, <1>8 DEF Named
  <2>2. CASE b.old.version = h.old.version
    <3>1. PICK x \in Named : x.version = h.old.version /\ h.old.offset \in 0..(Len(x.voters) - 1)
      BY <1>1, <1>2, <1>8, <2>2 DEF KnownAt
    <3>2. x.voters = b.old.peers
      BY <1>6, <1>8, <2>1, <2>2, <3>1 DEF Identifies
    <3> QED BY <1>3, <2>2, <3>1, <3>2 DEF OldPosition, InVector
  <2>3. CASE b.old.version # h.old.version /\ b.old.version = h.new.version
    <3>1. PICK x \in NewConfs : x.version = h.new.version /\ h.new.offset \in 0..(Len(x.voters) - 1)
      BY <1>1, <1>2, <1>8, <2>3 DEF KnownAt
    <3>2. x.voters = b.old.peers
      BY <1>3, <1>6, <1>8, <2>1, <2>3, <3>1 DEF Identifies
    <3> QED BY <1>3, <2>3, <3>1, <3>2 DEF OldPosition, InVector
  <2>4. CASE b.old.version # h.old.version /\ b.old.version # h.new.version
    BY <2>4, FindType, BallotTypes DEF OldPosition, InVector
  <2> QED BY <2>2, <2>3, <2>4
<1> QED BY <1>7, <1>8

LEMMA VoteKeepsHint ==
  ASSUME NEW b \in Ballots, NEW p, NEW h \in Hints, HintOK(h)
  PROVE  HintOK(UpdatedHint(b, p, h))
<1>1. b.new.version # kInvalidIndex /\ b.old.version # kInvalidIndex
  BY BallotTypes DEF kInvalidIndex
<1>2. KnownAt(h.new, NewConfs) /\ KnownAt(h.old, Named)
  BY DEF HintOK
<1>3. Identifies(b.new.version) => InVector(b.new, NewPosition(b, p, h))
  BY VoteStaysInside
<1>4. KnownAt(NewHint(b, p, h), NewConfs)
  <2>1. CASE NewHint(b, p, h) = h.new
    BY <1>2, <2>1
  <2>2. CASE NewHint(b, p, h) # h.new
    <3>1. /\ NewHint(b, p, h) = Remember(b.new, NewPosition(b, p, h))
          /\ NewPosition(b, p, h) < Len(b.new.peers)
      BY <2>2 DEF NewHint
    <3>2. Identifies(b.new.version) => NewPosition(b, p, h) \in 0..(Len(b.new.peers) - 1)
      BY <1>3, <3>1, BallotTypes DEF InVector
    <3> QED BY <3>1, <3>2, BallotTypes DEF Remember, KnownAt
  <2> QED BY <2>1, <2>2
<1>5. KnownAt(OldHint(b, p, h), Named)
  <2>1. CASE OldHint(b, p, h) = h.old
    BY <1>2, <2>1
  <2>2. CASE OldHint(b, p, h) # h.old
    <3>1. /\ OldHint(b, p, h) = Remember(b.old, OldPosition(b, p, h))
          /\ b.old.peers # <<>> /\ b.old.version # h.old.version
          /\ b.old.version = h.new.version \/ OldPosition(b, p, h) < Len(b.old.peers)
      BY <2>2 DEF OldHint
    <3>2. PICK o \in OldConfs : b.old.peers = o.voters /\ b.old.version = o.version
      BY BallotTypes
    <3>3. o \in Named
      BY <3>1, <3>2 DEF Named
    <3>4. CASE b.old.version = h.new.version
      <4>1. OldPosition(b, p, h) = h.new.offset
        BY <3>1, <3>4 DEF OldPosition
      <4>2. NewConfs \subseteq Named
        BY DEF Named
      <4>3. Identifies(h.new.version) =>
              \E x \in Named : x.version = h.new.version /\ h.new.offset \in 0..(Len(x.voters) - 1)
        BY <1>1, <1>2, <3>4, <4>2 DEF KnownAt
      <4> QED BY <3>1, <3>4, <4>1, <4>3 DEF Remember, KnownAt
    <3>5. CASE b.old.version # h.new.version
      <4>1. OldPosition(b, p, h) < Len(b.old.peers)
        BY <3>1, <3>5
      <4>2. Identifies(b.old.version) => InVector(b.old, OldPosition(b, p, h))
        BY <3>1, VoteStaysInside
      <4>3. Identifies(b.old.version) => OldPosition(b, p, h) \in 0..(Len(b.old.peers) - 1)
        BY <4>1, <4>2, BallotTypes DEF InVector
      <4> QED BY <3>1, <3>2, <3>3, <4>3 DEF Remember, KnownAt
    <3> QED BY <3>4, <3>5
  <2> QED BY <2>1, <2>2
<1> QED BY <1>4, <1>5 DEF HintOK, UpdatedHint

\* A ticket is counted when it is marked for the first time.
LEMMA MarkKeepsCount ==
  ASSUME NEW side, Len(side.peers) \in Nat, side.quorum \in Int,
         NEW isOld \in BOOLEAN, Counted(side, isOld),
         NEW q, InVector(side, q),
         side = [peers |-> side.peers, version |-> side.version,
                 voted |-> side.voted, quorum |-> side.quorum]
  PROVE  \A s \in Marks(side, q) : Counted(s, isOld)
<1> SUFFICES Counted(MarkVoted(side, q), isOld)
  BY DEF Marks
<1>1. CASE MarkVoted(side, q) = side
  BY <1>1
<1>2. CASE MarkVoted(side, q) # side
  <2> DEFINE s == [side EXCEPT !.voted = side.voted \cup {q}, !.quorum = side.quorum - 1]
  <2>1. MarkVoted(side, q) = s /\ q < Len(side.peers) /\ q \notin side.voted
    BY <1>2 DEF MarkVoted
  <2>2. /\ s.peers = side.peers
        /\ s.voted = side.voted \cup {q}
        /\ s.quorum = side.quorum - 1
    OBVIOUS
  <2>3. s.voted \subseteq 0..(Len(s.peers) - 1)
    <3>1. q \in 0..(Len(side.peers) - 1)
      BY <2>1 DEF InVector
    <3> QED BY <2>2, <3>1 DEF Counted
  <2>4. IsFiniteSet(side.voted)
    <3>1. 0 \in Int /\ Len(side.peers) - 1 \in Int
      OBVIOUS
    <3> HIDE DEF s
    <3>2. IsFiniteSet(0..(Len(side.peers) - 1))
      BY <3>1, FS_Interval
    <3> QED BY <3>2, FS_Subset DEF Counted
  <2>5. Cardinality(s.voted) = Cardinality(side.voted) + 1 /\ Cardinality(side.voted) \in Nat
    BY <2>1, <2>2, <2>4, FS_AddElement, FS_CardinalityType
  <2> HIDE DEF s
  <2>6. Initially(s, isOld) = Initially(side, isOld) /\ Initially(side, isOld) \in Int
    BY <2>2 DEF Initially
  <2>7. side.quorum = Initially(side, isOld) - Cardinality(side.voted)
    BY DEF Counted
  <2>8. s.quorum = Initially(s, isOld) - Cardinality(s.voted)
    BY <2>2, <2>5, <2>6, <2>7
  <2> QED BY <2>1, <2>3, <2>8 DEF Counted
<1> QED BY <1>1, <1>2

LEMMA VoteKeepsCount ==
  ASSUME NEW b \in CountedBallots, NEW p, NEW h \in Hints, HintOK(h),
         NEW g \in Grants(b, p, h)
  PROVE  g \in CountedBallots
<1>1. b \in Ballots
  BY DEF CountedBallots
<1>2. g \in Ballots
  BY <1>1, GrantTypes
<1>3. /\ g.new \in Marks(b.new, NewPosition(b, p, h))
      /\ g.old \in IF b.old.peers = <<>> THEN {b.old} ELSE Marks(b.old, OldPosition(b, p, h))
  BY DEF Grants
<1>4. ASSUME VersionsIdentify(g)
      PROVE  Counted(g.new, FALSE) /\ Counted(g.old, TRUE)
  <2>0. VersionsIdentify(b)
    <3>1. b.new \in Sides(NewConfs) /\ b.old \in Sides(OldConfs)
      BY <1>1 DEF Ballots
    <3>2. g.new.version = b.new.version /\ g.old.version = b.old.version
          /\ g.old.peers = b.old.peers
      BY <1>3, <3>1 DEF Sides, Marks, MarkVoted
    <3> QED BY <1>4, <3>2 DEF VersionsIdentify
  <2>1. Counted(b.new, FALSE) /\ Counted(b.old, TRUE)
    BY <2>0 DEF CountedBallots
  <2>2. Defined(b, p, h)
    BY <1>1, <2>0, VoteStaysInside DEF VersionsIdentify, Defined
  <2>3. /\ b.new = [peers |-> b.new.peers, version |-> b.new.version,
                    voted |-> b.new.voted, quorum |-> b.new.quorum]
        /\ b.old = [peers |-> b.old.peers, version |-> b.old.version,
                    voted |-> b.old.voted, quorum |-> b.old.quorum]
    <3>1. b.new \in Sides(NewConfs) /\ b.old \in Sides(OldConfs)
      BY <1>1 DEF Ballots
    <3> QED BY <3>1 DEF Sides
  <2>4. /\ Len(b.new.peers) \in Nat /\ b.new.quorum \in Int
        /\ Len(b.old.peers) \in Nat /\ b.old.quorum \in Int
    BY <1>1, BallotTypes
  <2>5. Counted(g.new, FALSE)
    <3>1. InVector(b.new, NewPosition(b, p, h))
      BY <2>2 DEF Defined
    <3> QED BY <1>3, <2>1, <2>3, <2>4, <3>1, MarkKeepsCount
  <2>6. CASE b.old.peers = <<>>
    BY <1>3, <2>1, <2>5, <2>6
  <2>7. CASE b.old.peers # <<>>
    <3>1. InVector(b.old, OldPosition(b, p, h))
      BY <2>2, <2>7 DEF Defined
    <3>2. g.old \in Marks(b.old, OldPosition(b, p, h))
      BY <1>3, <2>7
    <3>3. Counted(g.old, TRUE)
      BY <2>1, <2>3, <2>4, <3>1, <3>2, MarkKeepsCount
    <3> QED BY <2>5, <3>3
  <2> QED BY <2>6, <2>7
<1> QED BY <1>2, <1>4 DEF CountedBallots

\* With one version, a vote goes to the ticket the hint knows or, if it knows
\* none, is remembered when it marks one.
LEMMA VoteGoesToHint ==
  ASSUME NEW b \in Ballots, NEW p, NEW h \in Hints, OneVersion,
         OnlyHinted(b.new, h.new), OnlyHinted(b.old, h.old),
         NEW g \in Grants(b, p, h)
  PROVE  /\ OnlyHinted(g.new, NewHint(b, p, h))
         /\ OnlyHinted(g.old, OldHint(b, p, h))
         /\ h.new.version # kInvalidIndex => NewHint(b, p, h) = h.new
         /\ h.old.version # kInvalidIndex => OldHint(b, p, h) = h.old
<1>1. /\ b.new.version \in Versions /\ b.new.version # kInvalidIndex
      /\ b.old.version \in Versions /\ b.old.version # kInvalidIndex
  BY BallotTypes DEF kInvalidIndex
<1>2. /\ h.new.version \in Versions \cup {kInvalidIndex}
      /\ h.old.version \in Versions \cup {kInvalidIndex}
  BY DEF Hints, Knowledge, kInvalidIndex
<1>3. /\ h.new.version # kInvalidIndex => h.new.version = b.new.version /\ h.new.version = b.old.version
      /\ h.old.version # kInvalidIndex => h.old.version = b.old.version
  BY <1>1, <1>2 DEF OneVersion
<1>4. g.new \in Marks(b.new, NewPosition(b, p, h))
  BY DEF Grants
<1>5. g.old \in IF b.old.peers = <<>> THEN {b.old} ELSE Marks(b.old, OldPosition(b, p, h))
  BY DEF Grants
<1>6. b.new \in Sides(NewConfs) /\ b.old \in Sides(OldConfs)
  BY DEF Ballots
<1>7. \/ g.new.voted = b.new.voted
      \/ /\ g.new.voted = b.new.voted \cup {NewPosition(b, p, h)}
         /\ NewPosition(b, p, h) < Len(b.new.peers)
  BY <1>4, <1>6 DEF Marks, MarkVoted, Sides
<1>8. \/ g.old.voted = b.old.voted
      \/ /\ g.old.voted = b.old.voted \cup {OldPosition(b, p, h)}
         /\ OldPosition(b, p, h) < Len(b.old.peers) /\ b.old.peers # <<>>
  BY <1>5, <1>6 DEF Marks, MarkVoted, Sides
<1>9. /\ OnlyHinted(g.new, NewHint(b, p, h))
      /\ h.new.version # kInvalidIndex => NewHint(b, p, h) = h.new
  <2>1. CASE h.new.version # kInvalidIndex
    <3>1. NewHint(b, p, h) = h.new /\ NewPosition(b, p, h) = h.new.offset
      BY <1>3, <2>1 DEF NewHint, NewPosition
    <3> QED BY <1>7, <2>1, <3>1 DEF OnlyHinted
  <2>2. CASE h.new.version = kInvalidIndex
    <3>1. b.new.voted = {} /\ b.new.version # h.new.version
      BY <1>1, <2>2 DEF OnlyHinted
    <3>2. CASE NewPosition(b, p, h) < Len(b.new.peers)
      <4>1. NewHint(b, p, h) = [version |-> b.new.version, offset |-> NewPosition(b, p, h)]
        BY <3>1, <3>2 DEF NewHint, Remember
      <4> QED BY <1>1, <1>7, <2>2, <3>1, <4>1 DEF OnlyHinted
    <3>3. CASE ~(NewPosition(b, p, h) < Len(b.new.peers))
      BY <1>7, <2>2, <3>1, <3>3 DEF OnlyHinted
    <3> QED BY <3>2, <3>3
  <2> QED BY <2>1, <2>2
<1>10. /\ OnlyHinted(g.old, OldHint(b, p, h))
       /\ h.old.version # kInvalidIndex => OldHint(b, p, h) = h.old
  <2>1. CASE h.old.version # kInvalidIndex
    <3>1. OldHint(b, p, h) = h.old /\ OldPosition(b, p, h) = h.old.offset
      BY <1>3, <2>1 DEF OldHint, OldPosition
    <3> QED BY <1>8, <2>1, <3>1 DEF OnlyHinted
  <2>2. CASE h.old.version = kInvalidIndex
    <3>1. b.old.voted = {} /\ b.old.version # h.old.version
      BY <1>1, <2>2 DEF OnlyHinted
    <3>2. CASE b.old.peers # <<>> /\ OldPosition(b, p, h) < Len(b.old.peers)
      <4>1. OldHint(b, p, h) = [version |-> b.old.version, offset |-> OldPosition(b, p, h)]
        BY <3>1, <3>2 DEF OldHint, Remember
      <4> QED BY <1>1, <1>8, <2>2, <3>1, <4>1 DEF OnlyHinted
    <3>3. CASE ~(b.old.peers # <<>> /\ OldPosition(b, p, h) < Len(b.old.peers))
      BY <1>8, <2>2, <3>1, <3>3 DEF OnlyHinted
    <3> QED BY <3>2, <3>3
  <2> QED BY <2>1, <2>2
<1> QED BY <1>9, <1>10

\* What the hint knew it still knows, so the other ballots stay hinted too.
LEMMA VoteKeepsTickets ==
  ASSUME NEW b \in Ballots, NEW p, NEW h \in Hints, b \in HintedBallots(h)
  PROVE  /\ Grants(b, p, h) \subseteq HintedBallots(UpdatedHint(b, p, h))
         /\ HintedBallots(h) \subseteq HintedBallots(UpdatedHint(b, p, h))
<1>1. CASE ~OneVersion
  BY <1>1, GrantTypes DEF HintedBallots
<1>2. CASE OneVersion
  <2>1. /\ UpdatedHint(b, p, h).new = NewHint(b, p, h)
        /\ UpdatedHint(b, p, h).old = OldHint(b, p, h)
    BY DEF UpdatedHint
  <2>2. OnlyHinted(b.new, h.new) /\ OnlyHinted(b.old, h.old)
    BY <1>2 DEF HintedBallots
  <2>3. ASSUME NEW g \in Grants(b, p, h)
        PROVE  g \in HintedBallots(UpdatedHint(b, p, h))
    <3>1. g \in Ballots
      BY GrantTypes
    <3>2. OnlyHinted(g.new, NewHint(b, p, h)) /\ OnlyHinted(g.old, OldHint(b, p, h))
      BY <1>2, <2>2, VoteGoesToHint
    <3> QED BY <2>1, <3>1, <3>2 DEF HintedBallots
  <2>4. ASSUME NEW c \in HintedBallots(h)
        PROVE  c \in HintedBallots(UpdatedHint(b, p, h))
    <3>1. c \in Ballots /\ OnlyHinted(c.new, h.new) /\ OnlyHinted(c.old, h.old)
      BY <1>2 DEF HintedBallots
    <3>2. \E g : g \in Grants(b, p, h)
      <4>1. PICK n : n \in Marks(b.new, NewPosition(b, p, h))
        BY DEF Marks
      <4>2. PICK o : o \in IF b.old.peers = <<>> THEN {b.old}
                          ELSE Marks(b.old, OldPosition(b, p, h))
        BY DEF Marks
      <4>3. [new |-> n, old |-> o] \in Grants(b, p, h)
        BY <4>1, <4>2 DEF Grants
      <4> QED BY <4>3
    <3>3. /\ h.new.version # kInvalidIndex => NewHint(b, p, h) = h.new
          /\ h.old.version # kInvalidIndex => OldHint(b, p, h) = h.old
      BY <1>2, <2>2, <3>2, VoteGoesToHint
    <3>4. OnlyHinted(c.new, NewHint(b, p, h)) /\ OnlyHinted(c.old, OldHint(b, p, h))
      BY <3>1, <3>3 DEF OnlyHinted
    <3> QED BY <2>1, <3>1, <3>4 DEF HintedBallots
  <2> QED BY <2>3, <2>4
<1> QED BY <1>1, <1>2

-------------------------------------------------------------------------------
(* The invariant *)

\* Slices and joined queues hold what the queues held.
LEMMA Slices ==
  ASSUME NEW S, NEW q \in Seq(S), NEW k \in Nat
  PROVE  SubSeq(q, k + 1, Len(q)) \in Seq(S)
<1>1. Len(q) \in Nat /\ k + 1 \in Int /\ Len(q) \in Int
  BY LenProperties
<1>2. \A i \in (k + 1)..Len(q) : q[i] \in S
  <2> TAKE i \in (k + 1)..Len(q)
  <2>1. i \in 1..Len(q)
    BY <1>1
  <2> QED BY <2>1, ElementOfSeq
<1> QED BY <1>1, <1>2, SubSeqProperties

LEMMA Prefixes ==
  ASSUME NEW S, NEW q \in Seq(S), NEW k \in Nat, k <= Len(q)
  PROVE  SubSeq(q, 1, k) \in Seq(S)
<1>1. 1 \in Int /\ k \in Int /\ Len(q) \in Nat
  BY LenProperties
<1>2. \A i \in 1..k : q[i] \in S
  <2> TAKE i \in 1..k
  <2>1. i \in 1..Len(q)
    BY <1>1
  <2> QED BY <2>1, ElementOfSeq
<1> QED BY <1>1, <1>2, SubSeqProperties

FlagsOK ==
  /\ ndebug \in BOOLEAN /\ open \in BOOLEAN
  /\ status \in {"running", "aborted", "crashed"}

NumbersOK ==
  /\ voting_index \in Nat /\ last_committed \in -1..last_log /\ last_log \in 0..MaxIndex
  /\ JobOK

LEMMA TypeParts ==
  TypeOK <=> /\ FlagsOK /\ NumbersOK
             /\ launching \subseteq Ballots /\ waiting \in Seq(Ballots) /\ voting \in Seq(Ballots)
             /\ hint \in Hints
BY Zenon DEF TypeOK, FlagsOK, NumbersOK, Hints

LEMMA InitIInv == Init => IInv
<1> SUFFICES ASSUME Init PROVE IInv
  OBVIOUS
<1> USE DEF Init
<1>1. <<>> \in Seq(Ballots) /\ <<>> \in Seq(Launched) /\ <<>> \in Seq(CountedBallots)
      /\ <<>> \in Seq(HintedBallots(hint))
  BY EmptySeq
<1>2. hint \in [new : Knowledge, old : Knowledge]
  BY DEF NoHint, Unknown, Knowledge, kInvalidIndex
<1>3. HintOK(hint)
  BY DEF HintOK, KnownAt, NoHint, Unknown
<1>4. FlagsOK /\ NumbersOK
  <2>1. FlagsOK
    BY Zenon DEF FlagsOK
  <2>2. NumbersOK
    BY MaxIndexAssumption DEF NumbersOK, JobOK, kInvalidIndex
  <2> QED BY <2>1, <2>2
<1>5. launching \subseteq Ballots
  OBVIOUS
<1> QED BY <1>1, <1>2, <1>3, <1>4, <1>5, TypeParts DEF IInv, LaunchOK, Hints

\* Ballots that wait leave the queue of waiting ballots as they were launched.
LEMMA EmptyWaitingKeeps ==
  ASSUME LaunchOK, EmptyWaiting
  PROVE  /\ launching' \subseteq launching
         /\ waiting' \in Seq(Launched)
         /\ status' \in {status, "crashed"}
BY EmptySeq DEF LaunchOK, EmptyWaiting

LEMMA NextLaunchOK == TypeOK /\ LaunchOK /\ [Next]_vars => LaunchOK'
<1> SUFFICES ASSUME TypeOK, LaunchOK, [Next]_vars
             PROVE  LaunchOK'
  OBVIOUS
<1>1. CASE OpenAt
  <2>1. launching' \subseteq launching /\ waiting' \in Seq(Launched) /\ last_log' = last_log
    BY <1>1, EmptyWaitingKeeps DEF OpenAt, LaunchOK
  <2> QED BY <2>1 DEF LaunchOK
<1>2. CASE Close
  <2>1. launching' \subseteq launching /\ waiting' \in Seq(Launched) /\ last_log' = last_log
    BY <1>2, EmptyWaitingKeeps DEF Close
  <2> QED BY <2>1 DEF LaunchOK
<1>3. CASE LaunchBallot
  BY <1>3 DEF LaunchBallot, box, caller, LaunchOK
<1>4. CASE FinishLaunch
  <2>1. PICK b \in launching : waiting' = Append(waiting, b)
    BY <1>4 DEF FinishLaunch
  <2>2. waiting' \in Seq(Launched)
    BY <2>1, AppendProperties DEF LaunchOK
  <2> QED BY <1>4, <2>2 DEF FinishLaunch, LaunchOK
<1>5. CASE AppendAsFollower
  BY <1>5 DEF AppendAsFollower, box, LaunchOK
<1>6. ASSUME NEW end \in 1..last_log, NEW start \in 1..end, NEW peer \in Peers,
             CommitRange(start, end, peer)
      PROVE  LaunchOK'
  <2>1. launching' = launching /\ last_log' = last_log
    BY <1>6 DEF CommitRange, caller
  <2>2. waiting' \in Seq(Launched)
    <3> DEFINE need == IF ndebug THEN 0 ELSE Needed(end)
    <3>1. need \in Int
      BY DEF Needed, TypeOK
    <3>2. CASE UNCHANGED waiting
      BY <3>2 DEF LaunchOK
    <3>3. CASE need >= 0 /\ waiting' = SubSeq(waiting, need + 1, Len(waiting))
      <4> HIDE DEF need
      <4> QED BY <3>1, <3>3, Slices DEF LaunchOK
    <3> QED BY <1>6, <3>2, <3>3 DEF CommitRange
  <2> QED BY <2>1, <2>2 DEF LaunchOK
<1>7. CASE GrantSlot
  BY <1>7 DEF GrantSlot, caller, LaunchOK
<1>8. CASE GrantFaults
  BY <1>8 DEF GrantFaults, box, caller, LaunchOK
<1>9. CASE GrantPastEnd
  BY <1>9 DEF GrantPastEnd, box, caller, LaunchOK
<1>10. CASE FinishCommit
  BY <1>10 DEF FinishCommit, caller, LaunchOK
<1>11. ASSUME NEW index \in 0..last_log, SetLastCommittedIndex(index)
       PROVE  LaunchOK'
  BY <1>11 DEF SetLastCommittedIndex, caller, LaunchOK
<1>12. CASE UNCHANGED vars
  BY <1>12 DEF vars, box, caller, LaunchOK
<1> QED
  BY <1>1, <1>2, <1>3, <1>4, <1>5, <1>6, <1>7, <1>8, <1>9, <1>10, <1>11, <1>12 DEF Next

LEMMA NextFlagsOK == FlagsOK /\ LaunchOK /\ [Next]_vars => FlagsOK'
<1> SUFFICES ASSUME FlagsOK, LaunchOK, [Next]_vars
             PROVE  FlagsOK'
  OBVIOUS
<1>1. ndebug' = ndebug
  BY DEF Next, vars, caller, OpenAt, Close, LaunchBallot, FinishLaunch, AppendAsFollower,
         CommitRange, GrantSlot, GrantFaults, GrantPastEnd, FinishCommit, SetLastCommittedIndex
<1>2. open' \in {open, TRUE, FALSE}
  BY DEF Next, vars, caller, OpenAt, Close, LaunchBallot, FinishLaunch, AppendAsFollower,
         CommitRange, GrantSlot, GrantFaults, GrantPastEnd, FinishCommit, SetLastCommittedIndex
<1>3. status' \in {status, "aborted", "crashed"}
  BY EmptyWaitingKeeps
     DEF Next, vars, OpenAt, Close, LaunchBallot, FinishLaunch, AppendAsFollower,
         CommitRange, GrantSlot, GrantFaults, GrantPastEnd, FinishCommit, SetLastCommittedIndex
<1>4. ndebug' \in BOOLEAN /\ open' \in BOOLEAN
  BY <1>1, <1>2, Zenon DEF FlagsOK
<1> QED BY <1>3, <1>4 DEF FlagsOK

\* While a vote is being taken the window does not move and the log only grows.
LEMMA NextNumbersOK == NumbersOK /\ LaunchOK /\ [Next]_vars => NumbersOK'
<1> SUFFICES ASSUME NumbersOK, LaunchOK, [Next]_vars
             PROVE  NumbersOK'
  OBVIOUS
<1> USE DEF NumbersOK
<1>1. CASE OpenAt
  BY <1>1 DEF OpenAt, Unlocked, JobOK
<1>2. CASE Close
  BY <1>2 DEF Close, Unlocked, JobOK
<1>3. CASE LaunchBallot
  BY <1>3 DEF LaunchBallot, box, caller, JobOK
<1>4. CASE FinishLaunch
  <2>1. last_log < MaxIndex
    BY <1>4 DEF FinishLaunch, LaunchOK
  <2> QED BY <1>4, <2>1, MaxIndexAssumption DEF FinishLaunch, JobOK
<1>5. CASE AppendAsFollower
  BY <1>5, MaxIndexAssumption DEF AppendAsFollower, box, JobOK
<1>6. ASSUME NEW end \in 1..last_log, NEW start \in 1..end, NEW peer \in Peers,
             CommitRange(start, end, peer)
      PROVE  NumbersOK'
  <2>1. UNCHANGED <<voting_index, last_committed, last_log>>
    BY <1>6 DEF CommitRange, caller
  <2>2. job' \in {job, Holding(peer, start, end)}
    BY <1>6 DEF CommitRange
  <2> DEFINE taken == Holding(peer, start, end)
  <2>3. /\ taken.peer \in Peers /\ taken.at \in Nat /\ taken.end \in 1..last_log
        /\ taken.best \in -1..taken.end /\ taken.at >= voting_index
    BY DEF Holding, Larger, kInvalidIndex
  <2> HIDE DEF taken
  <2>4. JobOK'
    BY <2>1, <2>2, <2>3 DEF JobOK, taken
  <2> QED BY <2>1, <2>4
<1>7. ASSUME Looping, NEW granted \in BOOLEAN, NextTurn(granted),
             UNCHANGED <<voting_index, last_committed, last_log>>
      PROVE  NumbersOK'
  <2>1. /\ job.peer \in Peers /\ job.at \in Nat /\ job.end \in 1..last_log
        /\ job.best \in -1..job.end /\ job.at >= voting_index /\ job.at <= job.end
    BY <1>7 DEF Looping, JobOK
  <2>2. PICK best \in {job.best, job.at} : job' = [job EXCEPT !.at = @ + 1, !.best = best]
    BY <1>7, Zenon DEF NextTurn
  <2>3. JobOK'
    BY <1>7, <2>1, <2>2 DEF JobOK
  <2> QED BY <1>7, <2>3
<1>8. CASE GrantSlot
  <2>1. PICK b : NextTurn(IsGranted(b))
    BY <1>8 DEF GrantSlot
  <2>2. IsGranted(b) \in BOOLEAN
    BY DEF IsGranted
  <2> QED BY <1>7, <1>8, <2>1, <2>2 DEF GrantSlot, caller
<1>9. CASE GrantFaults
  BY <1>9 DEF GrantFaults, box, caller, JobOK
<1>10. CASE GrantPastEnd
  <2>1. CASE UNCHANGED job
    BY <1>10, <2>1 DEF GrantPastEnd, box, caller, JobOK
  <2>2. CASE \E granted \in BOOLEAN : NextTurn(granted)
    BY <1>7, <1>10, <2>2 DEF GrantPastEnd, box, caller
  <2> QED BY <1>10, <2>1, <2>2 DEF GrantPastEnd
<1>11. CASE FinishCommit
  <2>1. job.best \in -1..last_log
    BY <1>11 DEF FinishCommit, JobOK
  <2>2. voting_index' \in Nat /\ last_committed' \in -1..last_log /\ last_log' = last_log
    BY <1>11, <2>1 DEF FinishCommit, caller, Settled, kInvalidIndex
  <2>3. JobOK'
    BY <1>11 DEF FinishCommit, JobOK
  <2> QED BY <2>2, <2>3
<1>12. ASSUME NEW index \in 0..last_log, SetLastCommittedIndex(index)
       PROVE  NumbersOK'
  BY <1>12 DEF SetLastCommittedIndex, caller, JobOK
<1>13. CASE UNCHANGED vars
  BY <1>13 DEF vars, box, caller, JobOK
<1> QED
  BY <1>1, <1>2, <1>3, <1>4, <1>5, <1>6, <1>8, <1>9, <1>10, <1>11, <1>12, <1>13 DEF Next

\* What is said of the hint and of the ballots being voted on.
VotingOK ==
  /\ hint \in Hints
  /\ HintOK(hint)
  /\ voting \in Seq(CountedBallots)
  /\ voting \in Seq(HintedBallots(hint))

\* Nothing is voted on and nothing is known.
LEMMA ForgetVotesOK == ForgetVotes => VotingOK'
<1> SUFFICES ASSUME ForgetVotes PROVE VotingOK'
  OBVIOUS
<1>1. hint' \in Hints /\ HintOK(hint)'
  BY DEF ForgetVotes, Hints, Knowledge, HintOK, KnownAt, NoHint, Unknown, kInvalidIndex
<1>2. voting' \in Seq(CountedBallots) /\ voting' \in Seq(HintedBallots(hint'))
  BY EmptySeq DEF ForgetVotes
<1> QED BY <1>1, <1>2 DEF VotingOK

LEMMA NextVotingOK == NumbersOK /\ LaunchOK /\ VotingOK /\ [Next]_vars => VotingOK'
<1> SUFFICES ASSUME NumbersOK, LaunchOK, VotingOK, [Next]_vars
             PROVE  VotingOK'
  OBVIOUS
<1>1. CASE UNCHANGED <<voting, hint>>
  BY <1>1 DEF VotingOK
<1>2. CASE Close
  BY <1>2, ForgetVotesOK DEF Close
<1>3. ASSUME NEW end \in 1..last_log, NEW start \in 1..end, NEW peer \in Peers,
             CommitRange(start, end, peer)
      PROVE  VotingOK'
  <2> DEFINE need == IF ndebug THEN 0 ELSE Needed(end)
  <2>1. need \in Int
    BY DEF Needed, NumbersOK
  <2>2. hint' = hint
    BY <1>3 DEF CommitRange
  <2>3. CASE UNCHANGED voting
    BY <1>1, <2>2, <2>3
  <2>4. CASE /\ need >= 0 /\ need <= Len(waiting)
             /\ voting' = voting \o SubSeq(waiting, 1, need)
    <3> HIDE DEF need
    <3>1. SubSeq(waiting, 1, need) \in Seq(Launched)
      BY <2>1, <2>4, Prefixes DEF LaunchOK
    <3>2. /\ SubSeq(waiting, 1, need) \in Seq(CountedBallots)
          /\ SubSeq(waiting, 1, need) \in Seq(HintedBallots(hint))
      <4>1. Launched \subseteq CountedBallots /\ Launched \subseteq HintedBallots(hint)
        BY LaunchedBallots
      <4> QED BY <3>1, <4>1, SeqMonotonic
    <3>3. voting' \in Seq(CountedBallots) /\ voting' \in Seq(HintedBallots(hint))
      BY <2>4, <3>2, ConcatProperties DEF VotingOK
    <3> QED BY <2>2, <3>3 DEF VotingOK
  <2> QED BY <1>3, <2>3, <2>4 DEF CommitRange
<1>4. CASE GrantSlot
  <2>1. /\ Looping /\ Slot <= Len(voting)
        /\ hint' = UpdatedHint(voting[Slot], job.peer, hint)
    BY <1>4 DEF GrantSlot
  <2>2. PICK g \in Grants(voting[Slot], job.peer, hint) : voting' = [voting EXCEPT ![Slot] = g]
    BY <1>4 DEF GrantSlot
  <2>3. Slot \in 1..Len(voting)
    <3>1. Slot \in Int /\ Slot >= 1 /\ Len(voting) \in Nat
      <4>1. Len(voting) \in Nat
        BY LenProperties DEF VotingOK
      <4> QED BY <2>1, <4>1 DEF Looping, NumbersOK, JobOK, Slot
    <3> QED BY <2>1, <3>1
  <2> DEFINE b == voting[Slot]
  <2>4. b \in CountedBallots /\ b \in HintedBallots(hint)
    BY <2>3, ElementOfSeq DEF VotingOK
  <2>5. b \in Ballots /\ hint \in Hints /\ HintOK(hint)
    BY <2>4 DEF CountedBallots, VotingOK
  <2> HIDE DEF b
  <2>6. hint' \in Hints /\ HintOK(hint')
    BY <2>1, <2>5, GrantTypes, VoteKeepsHint DEF b
  <2>7. g \in CountedBallots
    BY <2>2, <2>4, <2>5, VoteKeepsCount DEF b
  <2>8. g \in HintedBallots(hint') /\ HintedBallots(hint) \subseteq HintedBallots(hint')
    BY <2>1, <2>2, <2>4, <2>5, VoteKeepsTickets DEF b
  <2>9. voting' \in Seq(CountedBallots)
    BY <2>2, <2>3, <2>7, ExceptSeq DEF VotingOK
  <2>10. voting \in Seq(HintedBallots(hint'))
    BY <2>8, SeqMonotonic DEF VotingOK
  <2>11. voting' \in Seq(HintedBallots(hint'))
    BY <2>2, <2>3, <2>8, <2>10, ExceptSeq
  <2> QED BY <2>6, <2>9, <2>11 DEF VotingOK
<1>5. CASE FinishCommit
  <2>1. hint' = hint
    BY <1>5 DEF FinishCommit
  <2>2. CASE UNCHANGED voting
    BY <1>1, <2>1, <2>2
  <2>3. CASE voting' = SubSeq(voting, Larger(0, job.best - voting_index + 1) + 1, Len(voting))
    <3> DEFINE k == Larger(0, job.best - voting_index + 1)
    <3>1. k \in Nat
      BY <1>5 DEF Larger, NumbersOK, JobOK, FinishCommit
    <3> HIDE DEF k
    <3>2. voting' \in Seq(CountedBallots) /\ voting' \in Seq(HintedBallots(hint))
      BY <2>3, <3>1, Slices DEF VotingOK, k
    <3> QED BY <2>1, <3>2 DEF VotingOK
  <2> QED BY <1>5, <2>2, <2>3 DEF FinishCommit
<1>6. CASE OpenAt \/ LaunchBallot \/ FinishLaunch \/ AppendAsFollower
  BY <1>1, <1>6 DEF OpenAt, LaunchBallot, FinishLaunch, AppendAsFollower, box
<1>7. CASE GrantFaults \/ GrantPastEnd
  BY <1>1, <1>7 DEF GrantFaults, GrantPastEnd, box
<1>8. ASSUME NEW index \in 0..last_log, SetLastCommittedIndex(index)
      PROVE  VotingOK'
  BY <1>1, <1>8 DEF SetLastCommittedIndex
<1>9. CASE UNCHANGED vars
  BY <1>1, <1>9 DEF vars, box
<1> QED BY <1>2, <1>3, <1>4, <1>5, <1>6, <1>7, <1>8, <1>9 DEF Next

LEMMA NextIInv == IInv /\ [Next]_vars => IInv'
<1> SUFFICES ASSUME IInv, [Next]_vars PROVE IInv'
  OBVIOUS
<1>1. FlagsOK /\ NumbersOK /\ LaunchOK /\ VotingOK
  BY TypeParts DEF IInv, VotingOK
<1>2. FlagsOK' /\ NumbersOK' /\ LaunchOK' /\ VotingOK'
  BY <1>1, TypeParts, NextFlagsOK, NextNumbersOK, NextLaunchOK, NextVotingOK DEF IInv
<1>3. Launched \subseteq Ballots /\ CountedBallots \subseteq Ballots
  BY LaunchedBallots DEF CountedBallots
<1>4. launching' \subseteq Ballots /\ waiting' \in Seq(Ballots) /\ voting' \in Seq(Ballots)
  BY <1>2, <1>3, SeqMonotonic DEF LaunchOK, VotingOK
<1>5. hint' \in [new : Knowledge, old : Knowledge]
  BY <1>2 DEF VotingOK, Hints
<1>6. TypeOK'
  BY <1>2, <1>4, <1>5, Zenon DEF TypeOK, FlagsOK, NumbersOK
<1> QED BY <1>2, <1>6, Zenon DEF IInv, VotingOK

THEOREM Invariant == Spec => []IInv
BY InitIInv, NextIInv, PTL DEF Spec

-------------------------------------------------------------------------------
(* The theorems *)

\* Every field keeps its type; while a vote is taken, its turn is not below the
\* window and its end is an index of the log.
THEOREM TypeCorrect == Spec => []TypeOK
<1>1. IInv => TypeOK
  BY DEF IInv
<1> QED BY <1>1, Invariant, PTL

\* Every ballot in the box is counted right and hinted right.
LEMMA InBoxesOK ==
  ASSUME IInv
  PROVE  InBoxes \subseteq Ballots \cap CountedBallots \cap HintedBallots(hint)
<1>1. Launched \subseteq Ballots \cap CountedBallots \cap HintedBallots(hint)
  BY LaunchedBallots
<1>2. launching \subseteq Launched /\ \A i \in 1..Len(waiting) : waiting[i] \in Launched
  BY ElementOfSeq DEF IInv, LaunchOK
<1>3. \A i \in 1..Len(voting) : voting[i] \in CountedBallots /\ voting[i] \in HintedBallots(hint)
  BY ElementOfSeq DEF IInv
<1> QED BY <1>1, <1>2, <1>3 DEF InBoxes, CountedBallots

\* GrantWithUpdateHint never indexes the tickets of a ballot outside the vector
\* if the versions of this ballot identify its configurations.
THEOREM HintInRangeHolds == Spec => []HintInRange
<1>1. IInv => HintInRange
  <2> SUFFICES ASSUME IInv, NEW b \in InBoxes, VersionsIdentify(b), NEW p \in Peers
               PROVE  Defined(b, p, hint)
    BY Zenon DEF HintInRange
  <2>1. b \in Ballots /\ hint \in Hints /\ HintOK(hint)
    BY InBoxesOK DEF IInv, TypeOK, Hints
  <2> QED BY <2>1, VoteStaysInside DEF VersionsIdentify, Defined
<1> QED BY <1>1, Invariant, PTL

\* The missing votes of a side are its majority minus its marked tickets.
THEOREM QuorumExactHolds == Spec => []QuorumExact
<1>1. IInv => QuorumExact
  <2> SUFFICES ASSUME IInv, NEW b \in InBoxes, VersionsIdentify(b)
               PROVE  /\ b.new.quorum = Initially(b.new, FALSE) - Cardinality(b.new.voted)
                      /\ b.old.quorum = Initially(b.old, TRUE) - Cardinality(b.old.voted)
    BY Zenon DEF QuorumExact
  <2>1. Counted(b.new, FALSE) /\ Counted(b.old, TRUE)
    BY InBoxesOK, Zenon DEF CountedBallots
  <2> QED BY <2>1, Zenon DEF Counted
<1> QED BY <1>1, Invariant, PTL

\* With one version for all configurations no ballot has two marked tickets.
THEOREM OneTicketHolds == Spec => []OneTicket
<1>1. ASSUME NEW side, NEW k, OnlyHinted(side, k)
      PROVE  Cardinality(side.voted) <= 1
  <2>1. side.voted \subseteq {k.offset}
    BY <1>1 DEF OnlyHinted
  <2>2. IsFiniteSet({k.offset}) /\ Cardinality({k.offset}) = 1
    BY FS_Singleton
  <2> QED BY <2>1, <2>2, FS_Subset
<1>2. IInv => OneTicket
  <2> SUFFICES ASSUME IInv, OneVersion, NEW b \in InBoxes
               PROVE  Cardinality(b.new.voted) <= 1 /\ Cardinality(b.old.voted) <= 1
    BY DEF OneTicket
  <2>1. OnlyHinted(b.new, hint.new) /\ OnlyHinted(b.old, hint.old)
    BY InBoxesOK DEF HintedBallots
  <2> QED BY <1>1, <2>1
<1> QED BY <1>2, Invariant, PTL

\* What IsEmpty answers never decides what SetLastCommittedIndex does.
THEOREM InversionHarmlessHolds == Spec => []InversionHarmless
<1>1. IInv => InversionHarmless
  BY MaxIndexAssumption DEF IInv, TypeOK, InversionHarmless, Accepts
<1> QED BY <1>1, Invariant, PTL
===============================================================================
