----------------------------- MODULE FifoChannel -----------------------------
(***************************************************************************)
(* What the concurrent queue promises its users: one first-in first-out    *)
(* stream per producer, from which every consumer takes from the front.    *)
(* Nothing is promised about the order of two producers' items.            *)
(***************************************************************************)
EXTENDS Naturals, Sequences

CONSTANTS Producers, Consumers

VARIABLES chan,      \* chan[p]: p's items that nobody has taken yet
          sent,      \* sent[p]: how many items p has enqueued, 1..sent[p]
          received   \* received[c]: items <<p, i>> in the order c got them

vars == <<chan, sent, received>>

Init == /\ chan = [p \in Producers |-> <<>>]
        /\ sent = [p \in Producers |-> 0]
        /\ received = [c \in Consumers |-> <<>>]

Put(p) == /\ sent' = [sent EXCEPT ![p] = @ + 1]
          /\ chan' = [chan EXCEPT ![p] = Append(@, <<p, sent[p] + 1>>)]
          /\ UNCHANGED received

\* c takes the k oldest items of p.
Get(c, p, k) ==
  /\ k <= Len(chan[p])
  /\ received' = [received EXCEPT ![c] = @ \o SubSeq(chan[p], 1, k)]
  /\ chan' = [chan EXCEPT ![p] = SubSeq(@, k + 1, Len(@))]
  /\ UNCHANGED sent

Next == \/ \E p \in Producers : Put(p)
        \/ \E c \in Consumers, p \in Producers : \E k \in 1..Len(chan[p]) : Get(c, p, k)

Spec == Init /\ [][Next]_vars
==============================================================================
