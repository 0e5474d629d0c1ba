-------------------------- MODULE MCProducerHashFull ---------------------------
(***************************************************************************)
(* ProducerHash along one schedule, which fills a table although the count *)
(* of its slots stays small.                                               *)
(*                                                                         *)
(* `first' enters the initial table, and the larger one when there is one. *)
(* Both forget it when it ends.  One fiber reuses its slot in the larger   *)
(* table, and one that still works on the initial table reuses the other   *)
(* slot: each is one less for a slot that had been counted once.  The      *)
(* latter fiber is entered in the larger table as well, ends, and the same *)
(* begins again.                                                           *)
(***************************************************************************)
EXTENDS ProducerHash, SequencesExt

CONSTANT Rounds   \* how often it begins again

Late(n) == "late" \o ToString(n)     \* works on the initial table
Young(n) == "young" \o ToString(n)   \* comes when there is a larger one
Cast == {"first", "grower"} \cup {Late(n) : n \in 1..Rounds} \cup {Young(n) : n \in 1..Rounds}
EndingCast == {"first"} \cup {Late(n) : n \in 1..Rounds}
ZeroHash == [id \in Ids |-> 0]
NoFiber == "nobody"
OneEach == Cardinality(Fibers)

\* Turns of the schedule: a fiber and how far it goes.
Turn(f, until) == [fiber |-> f, until |-> until]
Parting(n) == IF n = 1 THEN "first" ELSE Late(n - 1)
Round(n) == <<Turn(Parting(n), "returned"), Turn(Parting(n), "forgotten"),
              Turn(Young(n), "returned"), Turn(Late(n), "returned")>>

\* Two of the late are counted already when the grower comes, which is the
\* fourth; the others have only read which table is the current one.
Schedule ==
  <<Turn("first", "returned"), Turn(Late(1), "counted"), Turn(Late(2), "counted")>>
    \o [n \in 1..(Rounds - 2) |-> Turn(Late(n + 2), "looking")]
    \o <<Turn("grower", "returned")>>
    \o FlattenSeq([n \in 1..Rounds |-> Round(n)])
    \o <<Turn(Late(Rounds), "returned")>>

VARIABLE turn   \* the place in the schedule

Reached(f, until) ==
  CASE until = "looking" -> call'[f].pc = "probe"
    [] until = "counted" -> call'[f].pc = "recycle"
    [] until = "returned" -> call'[f].pc = "idle"
    [] until = "forgotten" -> f \in ended /\ exiting' = NoExit

\* Whoever's turn it is takes a step.
Act(f, until) ==
  IF until = "forgotten"
    THEN \/ End(f) \/ Forget \/ MarkInactive
         \/ \E p \in Producers : subscriber[p] = f /\ ExitThread(p) /\ exiting'.id = f
    ELSE Enqueue(f) \/ Continue(f)

AlongSchedule ==
  /\ turn <= Len(Schedule)
  /\ Act(Schedule[turn].fiber, Schedule[turn].until)
  /\ turn' = IF Reached(Schedule[turn].fiber, Schedule[turn].until) THEN turn + 1 ELSE turn

ScheduledSpec == Init /\ turn = 1 /\ [][Next /\ AlongSchedule]_<<vars, turn>>
===============================================================================
