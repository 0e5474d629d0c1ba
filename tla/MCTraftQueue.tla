----------------------------- MODULE MCTraftQueue -----------------------------
(* Model-checking instance: producers and consumers as model values.       *)
EXTENDS TraftQueue, TLC

CONSTANTS p1, p2, c1, c2

TwoProducers == {p1, p2}
OneConsumer == {c1}
TwoConsumers == {c1, c2}

Symmetry == Permutations(Producers) \cup Permutations(Consumers)
===============================================================================
