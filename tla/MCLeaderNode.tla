----------------------------- MODULE MCLeaderNode -----------------------------
(* Model-checking instance: servers and a caller as model values.          *)
EXTENDS LeaderNode

CONSTANTS a, b, u

TwoServers == {a, b}
InOrder == <<a, b>>
OneCaller == {u}
===============================================================================
