-------------------------- MODULE CountingSemaphore --------------------------
(***************************************************************************)
(* What a LightweightSemaphore promises: a bag of `avail' permits.  A      *)
(* signal adds permits, a call takes some that are there, and nobody ever  *)
(* takes a permit that was not signalled.  How a thread sleeps, wakes or   *)
(* times out is not visible here.                                          *)
(***************************************************************************)
EXTENDS Integers

CONSTANTS Waiters,       \* the threads that call wait, tryWait or waitMany
          InitialCount,  \* permits at construction
          MaxSignal,     \* largest argument of one signal()
          MaxTake        \* largest `max' of one call

VARIABLES avail,  \* permits nobody has taken yet
          got     \* got[t]: permits the current (or last) call of t obtained

vars == <<avail, got>>

Init == avail = InitialCount /\ got = [t \in Waiters |-> 0]

Signal(n) == avail' = avail + n /\ UNCHANGED got

\* A new call starts with nothing.
Begin(t) == got' = [got EXCEPT ![t] = 0] /\ UNCHANGED avail

\* A call obtains n permits, possibly in two instalments, never above `max'.
Take(t, n) ==
  /\ n <= avail
  /\ got[t] + n <= MaxTake
  /\ avail' = avail - n
  /\ got' = [got EXCEPT ![t] = @ + n]

Next == \/ \E n \in 1..MaxSignal : Signal(n)
        \/ \E t \in Waiters : Begin(t) \/ \E n \in 1..MaxTake : Take(t, n)

Spec == Init /\ [][Next]_vars
==============================================================================
