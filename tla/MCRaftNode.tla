------------------------------ MODULE MCRaftNode ------------------------------
(* Model-checking instance: callers as model values.                       *)
EXTENDS RaftNode

CONSTANTS a, b

TwoCallers == {a, b}
===============================================================================
