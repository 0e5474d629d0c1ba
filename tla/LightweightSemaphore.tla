------------------------- MODULE LightweightSemaphore -------------------------
(***************************************************************************)
(* traft/concurrentqueue/lightweightsemaphore.h: the atomic counter        *)
(* m_count in front of the blocking semaphore m_sema.  m_count > 0 counts  *)
(* permits; m_count < 0 counts threads that gave up spinning and that no   *)
(* signal has covered yet.  A thread's step is one atomic operation on     *)
(* m_count or m_sema; a load followed by a compare-exchange is the         *)
(* successful exchange (a failed one only tries again).                    *)
(*                                                                         *)
(* wait() and tryWait() are waitMany() and tryWaitMany() with max = 1.     *)
(***************************************************************************)
EXTENDS Integers, FiniteSets

CONSTANTS Signallers,    \* threads that call signal()
          Waiters,       \* threads that call wait(), tryWait(), waitMany(), ...
          InitialCount,  \* constructor argument
          MaxSignal,     \* bound: largest argument of signal()
          MaxTake,       \* bound: largest `max' of one call
          MaxCount       \* bound: signal() is not called past this m_count

ASSUME ThreadsAssumption == IsFiniteSet(Waiters) /\ IsFiniteSet(Signallers)
ASSUME CountsAssumption ==
  /\ InitialCount \in Nat   \* asserted by the constructor
  /\ MaxSignal \in Nat /\ MaxTake \in Nat /\ MaxCount \in Nat

VARIABLES
  m_count,  \* std::atomic<ssize_t> m_count
  m_sema,   \* value of the fiber semaphore
  owed,     \* {<<s, i>>}: the i-th last Post() signaller s still has to make
  pc,       \* pc[t]: where waiter t is
  max,      \* max[t]: argument of its current call
  timeout,  \* timeout[t]: how its current call may block
  got       \* got[t]: permits its current (or last) call obtained

vars == <<m_count, m_sema, owed, pc, max, timeout, got>>

\* "try" never blocks; "zero", "timed" and "forever" are timeout_usecs = 0,
\* > 0 and < 0.
Timeouts == {"try", "zero", "timed", "forever"}

\* idle: in no call.  try: in tryWaitMany.  spin: in the spin loop.
\* sleep: in m_sema.wait or timed_wait.  adjust, claim: in the loop that
\* takes back the decrement, before the load and before try_wait.
\* more: has one permit, about to tryWaitMany for the others.
Places == {"idle", "try", "spin", "sleep", "adjust", "claim", "more"}

\* Threads that decremented m_count without getting a permit.
Registered == {t \in Waiters : pc[t] \in {"sleep", "adjust", "claim"}}

Init ==
  /\ m_count = InitialCount /\ m_sema = 0 /\ owed = {}
  /\ pc = [t \in Waiters |-> "idle"]
  /\ max = [t \in Waiters |-> 0]
  /\ timeout = [t \in Waiters |-> "try"]
  /\ got = [t \in Waiters |-> 0]

-------------------------------------------------------------------------------
(* signal() *)

Smaller(a, b) == IF a < b THEN a ELSE b

\* Mutants of ToRelease: a post per permit; one sleeper too few.
ToReleasePerPermit(old, n) == n
ToReleaseOneLess(old, n) == Smaller(-old - 1, n)

\* Sleepers a signal of n must wake, given the count it added to.
ToRelease(old, n) == Smaller(-old, n)

Signal(s, n) ==
  /\ \A i \in 1..MaxSignal : <<s, i>> \notin owed
  /\ m_count + n <= MaxCount
  /\ m_count' = m_count + n
  /\ owed' = owed \cup ({s} \X (1..ToRelease(m_count, n)))
  /\ UNCHANGED <<m_sema, pc, max, timeout, got>>

\* One turn of Semaphore::signal(int)'s loop.
Post(s) ==
  \E i \in 1..MaxSignal :
    /\ <<s, i>> \in owed /\ <<s, i + 1>> \notin owed
    /\ owed' = owed \ {<<s, i>>}
    /\ m_sema' = m_sema + 1
    /\ UNCHANGED <<m_count, pc, max, timeout, got>>

-------------------------------------------------------------------------------
(* tryWait, tryWaitMany, wait, waitMany *)

GoTo(t, place) == pc' = [pc EXCEPT ![t] = place]
Keep(t) == UNCHANGED <<max, timeout>>
Return(t) == /\ GoTo(t, "idle")
             /\ max' = [max EXCEPT ![t] = 0]
             /\ timeout' = [timeout EXCEPT ![t] = "try"]

Call(t, m, w) ==
  /\ pc[t] = "idle"
  /\ GoTo(t, "try")
  /\ max' = [max EXCEPT ![t] = m] /\ timeout' = [timeout EXCEPT ![t] = w]
  /\ got' = [got EXCEPT ![t] = 0]
  /\ UNCHANGED <<m_count, m_sema, owed>>

\* Mutants of Share: `max' ignored; `max' taken whatever is there.
ShareAll(count, limit) == count
ShareUnchecked(count, limit) == limit

\* Permits one exchange takes from a positive count.
Share(count, limit) == Smaller(count, limit)

\* The exchange of tryWaitMany and of the spin loop, and the one that tops
\* up a call that was woken.
Grab(t) ==
  /\ pc[t] \in {"try", "spin", "more"}
  /\ m_count > 0 /\ max[t] > got[t]
  /\ LET n == Share(m_count, max[t] - got[t])
     IN m_count' = m_count - n /\ got' = [got EXCEPT ![t] = @ + n]
  /\ Return(t)
  /\ UNCHANGED <<m_sema, owed>>

\* tryWaitMany obtains nothing (more): the call ends, or goes on to spin.
GrabNothing(t) ==
  /\ pc[t] \in {"try", "more"}
  /\ m_count <= 0 \/ max[t] = got[t]
  /\ IF pc[t] = "try" /\ timeout[t] # "try" /\ max[t] > 0
       THEN GoTo(t, "spin") /\ Keep(t)
       ELSE Return(t)
  /\ UNCHANGED <<m_count, m_sema, owed, got>>

\* The spins are used up: fetch_sub.
Register(t) ==
  /\ pc[t] = "spin"
  /\ m_count' = m_count - 1
  /\ IF m_count > 0
       THEN GoTo(t, "more") /\ got' = [got EXCEPT ![t] = 1]
       ELSE /\ GoTo(t, IF timeout[t] = "zero" THEN "adjust" ELSE "sleep")
            /\ UNCHANGED got
  /\ Keep(t)
  /\ UNCHANGED <<m_sema, owed>>

\* m_sema.wait() or timed_wait() succeeds, or the loop's try_wait() does.
Obtain(t) ==
  /\ m_sema > 0
  /\ m_sema' = m_sema - 1
  /\ got' = [got EXCEPT ![t] = 1]
  /\ GoTo(t, "more") /\ Keep(t)
  /\ UNCHANGED <<m_count, owed>>

Wake(t) == pc[t] = "sleep" /\ Obtain(t)
Claim(t) == pc[t] = "claim" /\ Obtain(t)

Move(t, from, to) ==
  /\ pc[t] = from /\ GoTo(t, to) /\ Keep(t)
  /\ UNCHANGED <<m_count, m_sema, owed, got>>

TimeOut(t) == timeout[t] = "timed" /\ Move(t, "sleep", "adjust")

\* oldCount >= 0: a signal was meant for this thread too, take its post.
LateSignal(t) == m_count >= 0 /\ Move(t, "adjust", "claim")

\* Mutant of ClaimFails: tries again without reading m_count again.
ClaimFailsNoReload(t) == m_sema = 0 /\ Move(t, "claim", "claim")

\* try_wait() fails: its post has not been made, or another thread has it.
ClaimFails(t) == m_sema = 0 /\ Move(t, "claim", "adjust")

\* oldCount < 0: no signal covers this thread, undo the decrement.
Readjust(t) ==
  /\ pc[t] = "adjust"
  /\ m_count < 0
  /\ m_count' = m_count + 1
  /\ Return(t)
  /\ UNCHANGED <<m_sema, owed, got>>

-------------------------------------------------------------------------------
\* What a thread does once it is in a call.
Continue(t) ==
  \/ Grab(t) \/ GrabNothing(t) \/ Register(t) \/ Wake(t) \/ TimeOut(t)
  \/ LateSignal(t) \/ Claim(t) \/ ClaimFails(t) \/ Readjust(t)

Start == \/ \E s \in Signallers, n \in 1..MaxSignal : Signal(s, n)
         \/ \E t \in Waiters, m \in 0..MaxTake, w \in Timeouts : Call(t, m, w)

Next == \/ Start
        \/ \E s \in Signallers : Post(s)
        \/ \E t \in Waiters : Continue(t)

Spec == Init /\ [][Next]_vars

\* A running thread is scheduled again, a timer expires, a sleeper of a
\* positive semaphore is woken; nobody has to make a new call.
Fairness == /\ \A s \in Signallers : WF_vars(Post(s))
            /\ \A t \in Waiters : WF_vars(Continue(t))

FairSpec == Spec /\ Fairness

-------------------------------------------------------------------------------
TypeOK ==
  /\ m_count \in Int /\ m_sema \in Nat
  /\ owed \in SUBSET (Signallers \X (1..MaxSignal))
  /\ pc \in [Waiters -> Places]
  /\ max \in [Waiters -> 0..MaxTake]
  /\ timeout \in [Waiters -> Timeouts]
  /\ got \in [Waiters -> 0..MaxTake]

Negative(c) == IF c < 0 THEN c ELSE 0

\* Every registered thread is either counted below zero in m_count or has a
\* post, made or owed, and there are no other posts.  A signal that releases
\* one sleeper too few strands a thread, one too many lets a later thread
\* through without a permit.
Accounting ==
  m_sema + Cardinality(owed) = Cardinality(Registered) + Negative(m_count)

\* When no thread is inside a call, nothing is left over from the timeouts
\* and late signals that happened: the fiber semaphore is back at zero (a
\* leftover would release a later waiter without a permit) and the counter
\* shows no phantom sleepers (they would swallow later posts).
QuiescentClean ==
  (owed = {} /\ \A t \in Waiters : pc[t] = "idle") => m_sema = 0 /\ m_count >= 0

\* The permits as the queue sees them.
Permits == m_count + Cardinality(Registered)

\* The semaphore implements a bag of permits: a call obtains only permits
\* that were signalled, each permit goes to one call, and a call that times
\* out neither keeps a permit nor loses one.
Abstract == INSTANCE CountingSemaphore WITH avail <- Permits
RefinesCountingSemaphore == Abstract!Spec

Obtains == \E t \in Waiters : got'[t] > got[t]

Sleeping(t) == pc[t] = "sleep" /\ timeout[t] = "forever"

\* Permits are not stranded: as long as there are permits and a thread sleeps
\* for one without a timeout, some thread obtains one.  (Which one is open: a
\* newcomer may overtake a sleeper for ever.  For sleepers with a timeout it
\* does not hold: threads that keep timing out hide a permit from each other.)
NoLostWakeup ==
  []<><<Obtains>>_vars \/ []<>(Permits = 0 \/ \A t \in Waiters : ~Sleeping(t))

\* If calls stop arriving, every call ends, except untimed ones that sleep
\* with no permit left for them; the loop that undoes a timed-out
\* registration does not run for ever.
Settles ==
  <>[][~Start]_vars =>
    <>[](\A t \in Waiters : pc[t] = "idle" \/ (Sleeping(t) /\ Permits = 0))
===============================================================================
