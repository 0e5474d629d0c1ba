---------------------------- MODULE MCProducerHash -----------------------------
(* Model-checking instance: three fibers, two of which collide, with a hash *)
(* that starts at the last slot; one of them may end.                       *)
EXTENDS ProducerHash, TLC

CONSTANTS f1, f2, f3

ThreeFibers == {f1, f2, f3}
OneFiberEnds == {f1}
Colliding == f1 :> 3 @@ f2 :> 3 @@ f3 :> 0 @@ Other :> 3
===============================================================================
