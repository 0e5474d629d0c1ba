------------------------ MODULE MCLightweightSemaphore ------------------------
(* Model-checking instance: the threads as model values.                   *)
EXTENDS LightweightSemaphore

CONSTANTS s1, s2, w1, w2

TwoSignallers == {s1, s2}
TwoWaiters == {w1, w2}
===============================================================================
