--------------------------- MODULE MCImplicitProducer --------------------------
(* Model-checking instance: consumers and blocks as model values.          *)
EXTENDS ImplicitProducer, TLC

CONSTANTS c1, c2, b1, b2, b3

TwoConsumers == {c1, c2}
ThreeBlocks == {b1, b2, b3}

Symmetry == Permutations(Consumers) \cup Permutations(Blocks)
===============================================================================
