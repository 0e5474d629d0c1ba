----------------------------- MODULE MCBlockPool -----------------------------
(* Model-checking instance: threads and blocks as model values.            *)
EXTENDS BlockPool

CONSTANTS t1, t2, t3, b1, b2

ThreeThreads == {t1, t2, t3}
TwoBlocks == {b1, b2}
==============================================================================
