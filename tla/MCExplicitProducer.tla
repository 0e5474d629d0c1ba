--------------------------- MODULE MCExplicitProducer --------------------------
(* Model-checking instance: consumers and blocks as model values.          *)
EXTENDS ExplicitProducer, TLC

CONSTANTS c1, c2, b1, b2, b3, b4

OneConsumer == {c1}
TwoConsumers == {c1, c2}
ThreeBlocks == {b1, b2, b3}
FourBlocks == {b1, b2, b3, b4}

Symmetry == Permutations(Consumers) \cup Permutations(Blocks)
===============================================================================
