------------------------------- MODULE SubQueue -------------------------------
(***************************************************************************)
(* What one producer's sub-queue promises: the elements sent are numbered  *)
(* 1, 2, ... and leave from the front, each into the buffer of the one     *)
(* call that takes it.                                                     *)
(***************************************************************************)
EXTENDS Naturals, Sequences

CONSTANTS Consumers,
          Counts     \* how many elements one enqueue puts

VARIABLES chan,   \* the elements nobody has taken yet
          sent,   \* how many have been enqueued
          out     \* out[c]: the buffer of the call that c is in

vars == <<chan, sent, out>>

Init == chan = <<>> /\ sent = 0 /\ out = [c \in Consumers |-> <<>>]

\* An enqueue puts all its elements there at once, or none.
Put(k) == /\ sent' = sent + k
          /\ chan' = chan \o [i \in 1..k |-> sent + i]
          /\ UNCHANGED out

Return(c) == out' = [out EXCEPT ![c] = <<>>] /\ UNCHANGED <<chan, sent>>

\* A call takes once, before anything else is in its buffer.
Get(c, k) ==
  /\ out[c] = <<>> /\ k <= Len(chan)
  /\ out' = [out EXCEPT ![c] = SubSeq(chan, 1, k)]
  /\ chan' = SubSeq(chan, k + 1, Len(chan))
  /\ UNCHANGED sent

Next == \/ \E k \in Counts : Put(k)
        \/ \E c \in Consumers : Return(c) \/ \E k \in 1..Len(chan) : Get(c, k)

Spec == Init /\ [][Next]_vars
===============================================================================
