--------------------- MODULE LightweightSemaphore_proofs ---------------------
(***************************************************************************)
(* TLAPS proofs about LightweightSemaphore, for every set of threads and   *)
(* every bound: the accounting of permits, sleepers and posts, and that    *)
(* the semaphore implements CountingSemaphore.                             *)
(***************************************************************************)
EXTENDS LightweightSemaphore, FiniteSetTheorems, TLAPS

\* Until a call obtains its first permit it has none, and a call that spins,
\* sleeps or adjusts wants at least one.
CallShape ==
  \A t \in Waiters :
    /\ pc[t] \in {"try", "spin", "sleep", "adjust", "claim"} => got[t] = 0
    /\ pc[t] \in {"spin", "sleep", "adjust", "claim"} => max[t] > 0

\* The inductive invariant.  The accounting needs the type; the type of `got'
\* needs CallShape (a woken call obtains one permit because it asked for one).
IInv == TypeOK /\ CallShape /\ Accounting

\* The registered threads and the posts still to make are finite sets, so
\* their cardinalities are naturals.
LEMMA Finiteness ==
  ASSUME TypeOK
  PROVE  /\ IsFiniteSet(Registered) /\ Cardinality(Registered) \in Nat
         /\ IsFiniteSet(owed) /\ Cardinality(owed) \in Nat
<1>1. IsFiniteSet(Registered)
  BY FS_Subset, ThreadsAssumption DEF Registered
<1>2. IsFiniteSet(Signallers \X (1..MaxSignal))
  <2>1. IsFiniteSet(1..MaxSignal)
    BY FS_Interval, CountsAssumption
  <2> QED BY <2>1, FS_Product, ThreadsAssumption
<1>3. IsFiniteSet(owed)
  BY <1>2, FS_Subset DEF TypeOK
<1> QED BY <1>1, <1>3, FS_CardinalityType

\* Making one post takes exactly one from what is owed.
LEMMA PostAccounting ==
  ASSUME TypeOK, NEW s \in Signallers, Post(s)
  PROVE  /\ Cardinality(owed') = Cardinality(owed) - 1
         /\ m_sema' = m_sema + 1
         /\ owed' \in SUBSET owed
<1>1. PICK i \in 1..MaxSignal : <<s, i>> \in owed /\ owed' = owed \ {<<s, i>>}
                                /\ m_sema' = m_sema + 1
  BY DEF Post
<1> QED BY <1>1, Finiteness, FS_RemoveElement

\* A signal of n owes as many new posts as there are uncovered sleepers, but
\* at most n.
LEMMA SignalAccounting ==
  ASSUME TypeOK, NEW s \in Signallers, NEW n \in 1..MaxSignal, Signal(s, n)
  PROVE  /\ Cardinality(owed') = Cardinality(owed)
              + (IF ToRelease(m_count, n) > 0 THEN ToRelease(m_count, n) ELSE 0)
         /\ owed' \in SUBSET (Signallers \X (1..MaxSignal))
<1> DEFINE k == ToRelease(m_count, n)
           new == {s} \X (1..k)
<1>1. k \in Int /\ k <= n /\ n \in Nat /\ n <= MaxSignal
  BY CountsAssumption DEF TypeOK, ToRelease, Smaller
<1>2. /\ IsFiniteSet(1..k)
      /\ Cardinality(1..k) = IF k > 0 THEN k ELSE 0
  <2> HIDE DEF k
  <2>1. /\ IsFiniteSet(1..k)
        /\ Cardinality(1..k) = IF 1 > k THEN 0 ELSE k - 1 + 1
    BY <1>1, FS_Interval
  <2> QED BY <1>1, <2>1
<1>3. IsFiniteSet({s}) /\ Cardinality({s}) = 1
  BY FS_Singleton
<1>4. IsFiniteSet(new) /\ Cardinality(new) = Cardinality({s}) * Cardinality(1..k)
  BY <1>2, <1>3, FS_Product
<1>5. Cardinality(new) = IF k > 0 THEN k ELSE 0
  BY <1>1, <1>2, <1>3, <1>4
<1>6. new \subseteq {s} \X (1..MaxSignal)
  BY <1>1, CountsAssumption
<1>7. owed' = owed \cup new
  BY DEF Signal
<1>8. owed \cap new = {}
  BY <1>6 DEF Signal
<1>9. Cardinality(owed \cup new) = Cardinality(owed) + Cardinality(new)
                                   - Cardinality(owed \cap new)
  BY <1>4, Finiteness, FS_Union
<1>10. Cardinality(owed \cap new) = 0
  BY <1>8, FS_EmptySet
<1>11. owed' \in SUBSET (Signallers \X (1..MaxSignal))
  BY <1>6, <1>7 DEF TypeOK
<1>12. Cardinality(owed') = Cardinality(owed) + Cardinality(new)
  <2> HIDE DEF new
  <2> QED BY <1>4, <1>7, <1>9, <1>10, Finiteness, FS_CardinalityType
<1> QED BY <1>5, <1>11, <1>12

\* 1 for a place where a thread is registered, 0 elsewhere.
Weight(place) == IF place \in {"sleep", "adjust", "claim"} THEN 1 ELSE 0

\* Moving one thread changes the number of registered threads by the weights
\* of where it comes from and where it goes.
LEMMA MoveAccounting ==
  ASSUME TypeOK, NEW t \in Waiters, NEW place, GoTo(t, place)
  PROVE  Cardinality(Registered')
           = Cardinality(Registered) - Weight(pc[t]) + Weight(place)
<1>1. Registered' = (Registered \ {t}) \cup (IF Weight(place) = 1 THEN {t} ELSE {})
  BY DEF GoTo, Registered, Weight, TypeOK
<1>2. t \in Registered <=> Weight(pc[t]) = 1
  BY DEF Registered, Weight
<1>3. /\ IsFiniteSet(Registered \ {t})
      /\ Cardinality(Registered \ {t}) = Cardinality(Registered) - Weight(pc[t])
  BY <1>2, Finiteness, FS_RemoveElement DEF Weight
<1>4. Cardinality((Registered \ {t}) \cup {t}) = Cardinality(Registered \ {t}) + 1
  BY <1>3, FS_AddElement
<1>5. CASE Weight(place) = 1
  BY <1>1, <1>3, <1>4, <1>5, Finiteness DEF Weight
<1>6. CASE Weight(place) = 0
  <2>1. Registered' = Registered \ {t}
    BY <1>1, <1>6
  <2> QED BY <1>3, <1>6, <2>1, Finiteness DEF Weight
<1> QED BY <1>5, <1>6 DEF Weight

\* The initial state: no thread registered, no post made or owed.
LEMMA InitAccounting == Init => IInv
<1> SUFFICES ASSUME Init PROVE IInv
  OBVIOUS
<1>1. TypeOK /\ CallShape
  BY CountsAssumption DEF Init, TypeOK, CallShape, Timeouts, Places
<1>2. Registered = {} /\ owed = {}
  BY DEF Init, Registered
<1>3. Cardinality(Registered) = 0 /\ Cardinality(owed) = 0
  BY <1>2, FS_EmptySet
<1> QED BY <1>1, <1>3, CountsAssumption DEF IInv, Accounting, Init, Negative

\* A thread inside a call keeps the type and the accounting: the step moves
\* its weight, the counter and the fiber semaphore in step.
LEMMA ContinueAccounting ==
  ASSUME IInv, NEW t \in Waiters, Continue(t)
  PROVE  IInv'
<1> USE DEF IInv
<1> DEFINE R == Cardinality(Registered)  P == Cardinality(owed)
<1>0. /\ m_count \in Int /\ m_sema \in Nat /\ R \in Nat /\ P \in Nat
      /\ m_sema + P = R + Negative(m_count)
      /\ pc[t] \in {"spin", "sleep", "adjust", "claim"} => max[t] > 0
      /\ max[t] \in 0..MaxTake /\ got[t] \in 0..MaxTake /\ MaxTake \in Nat
  BY Finiteness, CountsAssumption DEF TypeOK, CallShape, Accounting
<1>1. CASE Grab(t)
  <2>1. /\ pc[t] \in {"try", "spin", "more"} /\ GoTo(t, "idle")
        /\ m_count > 0 /\ m_count' \in Nat
        /\ got' = [got EXCEPT ![t] = got[t] + Share(m_count, max[t] - got[t])]
        /\ UNCHANGED <<m_sema, owed>>
    BY <1>0, <1>1 DEF Grab, Return, Share, Smaller
  <2>2. got[t] + Share(m_count, max[t] - got[t]) \in 0..MaxTake
    BY <1>0, <1>1 DEF Grab, Share, Smaller
  <2>3. (TypeOK /\ CallShape)'
    BY <2>1, <2>2, <1>1, CountsAssumption
    DEF TypeOK, CallShape, Grab, Return, GoTo, Places, Timeouts
  <2>4. Cardinality(Registered') = R
    BY <1>0, <2>1, MoveAccounting DEF Weight
  <2> QED BY <1>0, <2>1, <2>3, <2>4 DEF Accounting, Negative
<1>2. CASE GrabNothing(t)
  <2>1. /\ pc[t] \in {"try", "more"} /\ (GoTo(t, "idle") \/ GoTo(t, "spin"))
        /\ UNCHANGED <<m_count, m_sema, owed>>
    BY <1>2 DEF GrabNothing, Return
  <2>2. (TypeOK /\ CallShape)'
    BY <1>2, CountsAssumption
    DEF TypeOK, CallShape, GrabNothing, Return, Keep, GoTo, Places, Timeouts
  <2>3. Cardinality(Registered') = R
    BY <1>0, <2>1, MoveAccounting DEF Weight
  <2> QED BY <1>0, <2>1, <2>2, <2>3 DEF Accounting, Negative
<1>3. CASE Register(t)
  <2>1. /\ pc[t] = "spin" /\ m_count' = m_count - 1 /\ UNCHANGED <<m_sema, owed>>
        /\ \/ m_count > 0 /\ GoTo(t, "more")
           \/ m_count <= 0 /\ (GoTo(t, "adjust") \/ GoTo(t, "sleep"))
    BY <1>0, <1>3 DEF Register
  <2>2. (TypeOK /\ CallShape)'
    BY <1>3, CountsAssumption DEF TypeOK, CallShape, Register, Keep, GoTo, Places, Timeouts
  <2>3. Cardinality(Registered') = IF m_count > 0 THEN R ELSE R + 1
    BY <1>0, <2>1, MoveAccounting DEF Weight
  <2> QED BY <1>0, <2>1, <2>2, <2>3 DEF Accounting, Negative
<1>4. CASE Wake(t) \/ Claim(t)
  <2>1. /\ pc[t] \in {"sleep", "claim"} /\ GoTo(t, "more")
        /\ m_sema > 0 /\ m_sema' = m_sema - 1 /\ UNCHANGED <<m_count, owed>>
    BY <1>4 DEF Wake, Claim, Obtain
  <2>2. (TypeOK /\ CallShape)'
    BY <1>0, <1>4, CountsAssumption
    DEF TypeOK, CallShape, Wake, Claim, Obtain, Keep, GoTo, Places, Timeouts
  <2>3. Cardinality(Registered') = R - 1
    BY <1>0, <2>1, MoveAccounting DEF Weight
  <2> QED BY <1>0, <2>1, <2>2, <2>3 DEF Accounting, Negative
<1>5. CASE TimeOut(t) \/ LateSignal(t) \/ ClaimFails(t)
  <2>1. /\ pc[t] \in {"sleep", "adjust", "claim"}
        /\ GoTo(t, "adjust") \/ GoTo(t, "claim")
        /\ UNCHANGED <<m_count, m_sema, owed>>
    BY <1>5 DEF TimeOut, LateSignal, ClaimFails, Move
  <2>2. (TypeOK /\ CallShape)'
    BY <1>5 DEF TypeOK, CallShape, TimeOut, LateSignal, ClaimFails, Move, Keep, GoTo, Places
  <2>3. Cardinality(Registered') = R
    BY <1>0, <2>1, MoveAccounting DEF Weight
  <2> QED BY <1>0, <2>1, <2>2, <2>3 DEF Accounting, Negative
<1>6. CASE Readjust(t)
  <2>1. /\ pc[t] = "adjust" /\ GoTo(t, "idle")
        /\ m_count < 0 /\ m_count' = m_count + 1 /\ UNCHANGED <<m_sema, owed>>
    BY <1>6 DEF Readjust, Return
  <2>2. (TypeOK /\ CallShape)'
    BY <1>6, CountsAssumption DEF TypeOK, CallShape, Readjust, Return, GoTo, Places, Timeouts
  <2>3. Cardinality(Registered') = R - 1
    BY <1>0, <2>1, MoveAccounting DEF Weight
  <2> QED BY <1>0, <2>1, <2>2, <2>3 DEF Accounting, Negative
<1> QED BY <1>1, <1>2, <1>3, <1>4, <1>5, <1>6 DEF Continue

\* Signals, posts and new calls keep the type and the accounting.
LEMMA OtherAccounting ==
  ASSUME IInv, Start \/ \E s \in Signallers : Post(s)
  PROVE  IInv'
<1> USE DEF IInv
<1> DEFINE R == Cardinality(Registered)  P == Cardinality(owed)
<1>0. /\ m_count \in Int /\ m_sema \in Nat /\ R \in Nat /\ P \in Nat
      /\ m_sema + P = R + Negative(m_count)
  BY Finiteness DEF TypeOK, Accounting
<1>1. ASSUME NEW s \in Signallers, NEW n \in 1..MaxSignal, Signal(s, n)
      PROVE  IInv'
  <2>1. /\ m_count' = m_count + n /\ n \in Nat
        /\ UNCHANGED <<m_sema, pc, max, timeout, got>>
    BY <1>1, CountsAssumption DEF Signal
  <2>2. (TypeOK /\ CallShape)'
    BY <1>0, <1>1, <2>1, SignalAccounting DEF TypeOK, CallShape
  <2>3. Registered' = Registered
    BY <2>1 DEF Registered
  <2>4. Cardinality(owed') =
          P + (IF ToRelease(m_count, n) > 0 THEN ToRelease(m_count, n) ELSE 0)
    BY <1>1, SignalAccounting
  <2> QED BY <1>0, <2>1, <2>2, <2>3, <2>4
          DEF Accounting, Negative, ToRelease, Smaller
<1>2. ASSUME NEW s \in Signallers, Post(s)
      PROVE  IInv'
  <2>1. UNCHANGED <<m_count, pc, max, timeout, got>>
    BY <1>2 DEF Post
  <2>2. (TypeOK /\ CallShape)'
    BY <1>0, <1>2, <2>1, PostAccounting DEF TypeOK, CallShape
  <2>3. Registered' = Registered
    BY <2>1 DEF Registered
  <2> QED BY <1>0, <1>2, <2>1, <2>2, <2>3, PostAccounting DEF Accounting, Negative
<1>3. ASSUME NEW t \in Waiters, NEW m \in 0..MaxTake, NEW w \in Timeouts, Call(t, m, w)
      PROVE  IInv'
  <2>1. /\ pc[t] = "idle" /\ GoTo(t, "try") /\ UNCHANGED <<m_count, m_sema, owed>>
    BY <1>3 DEF Call
  <2>2. (TypeOK /\ CallShape)'
    BY <1>3, CountsAssumption DEF TypeOK, CallShape, Call, GoTo, Places
  <2>3. Cardinality(Registered') = R
    BY <1>0, <2>1, MoveAccounting DEF Weight
  <2> QED BY <1>0, <2>1, <2>2, <2>3 DEF Accounting, Negative
<1> QED BY <1>1, <1>2, <1>3 DEF Start

\* Every step keeps the inductive invariant.
LEMMA StepAccounting == IInv /\ [Next]_vars => IInv'
<1>1. ASSUME IInv, UNCHANGED vars PROVE IInv'
  BY <1>1 DEF IInv, TypeOK, CallShape, Accounting, Registered, vars
<1> QED BY <1>1, ContinueAccounting, OtherAccounting DEF Next

\* The invariant holds in every reachable state.
LEMMA Invariance == Spec => []IInv
BY InitAccounting, StepAccounting, PTL DEF Spec

\* Every variable keeps its type; in particular the fiber semaphore is never
\* waited below zero and no call obtains more than MaxTake permits.
THEOREM TypeCorrect == Spec => []TypeOK
BY Invariance, PTL DEF IInv

\* The permits, sleepers and posts of the semaphore balance in every
\* reachable state: lightweightsemaphore.h never loses a wake-up for good and
\* never leaves one behind, whatever the threads, signals and timeouts.
THEOREM AccountingHolds == Spec => []Accounting
BY Invariance, PTL DEF IInv

\* When no thread is inside a call, no post and no phantom sleeper is left.
THEOREM QuiescentCleanHolds == Spec => []QuiescentClean
<1>1. IInv => QuiescentClean
  <2> SUFFICES ASSUME IInv, owed = {}, \A t \in Waiters : pc[t] = "idle"
               PROVE  m_sema = 0 /\ m_count >= 0
    BY DEF QuiescentClean
  <2>1. Registered = {}
    BY DEF Registered
  <2>2. Cardinality(Registered) = 0 /\ Cardinality(owed) = 0
    BY <2>1, FS_EmptySet
  <2> QED BY <2>2 DEF IInv, Accounting, Negative, TypeOK
<1> QED BY <1>1, Invariance, PTL

\* A step inside a call takes permits that are there, or is invisible.
LEMMA ContinueRefines ==
  ASSUME IInv, NEW t \in Waiters, Continue(t)
  PROVE  Abstract!Next \/ UNCHANGED Abstract!vars
<1> DEFINE R == Cardinality(Registered)
<1>0. /\ m_count \in Int /\ m_sema \in Nat /\ R \in Nat /\ Cardinality(owed) \in Nat
      /\ m_sema + Cardinality(owed) = R + Negative(m_count)
      /\ max[t] \in 0..MaxTake /\ got[t] \in 0..MaxTake /\ MaxTake \in Nat
      /\ got \in [Waiters -> 0..MaxTake]
      /\ pc[t] \in {"spin", "sleep", "adjust", "claim"} => max[t] > 0 /\ got[t] = 0
  BY Finiteness, CountsAssumption DEF IInv, TypeOK, CallShape, Accounting
<1>a. ASSUME NEW n \in 1..MaxTake, n <= Permits, got[t] + n <= MaxTake,
             Permits' = Permits - n, got' = [got EXCEPT ![t] = @ + n]
      PROVE  Abstract!Next
  <2>1. Abstract!Take(t, n)
    BY <1>a DEF Abstract!Take
  <2> QED BY <2>1 DEF Abstract!Next
<1>b. ASSUME Permits' = Permits, got' = got
      PROVE  UNCHANGED Abstract!vars
  BY <1>b DEF Abstract!vars
<1>1. CASE Grab(t)
  <2> DEFINE n == Share(m_count, max[t] - got[t])
  <2>1. /\ pc[t] \in {"try", "spin", "more"} /\ GoTo(t, "idle")
        /\ m_count > 0 /\ max[t] > got[t] /\ m_count' = m_count - n
        /\ got' = [got EXCEPT ![t] = @ + n]
    BY <1>1 DEF Grab, Return
  <2>2. n \in 1..MaxTake /\ n <= m_count /\ got[t] + n <= MaxTake
    BY <1>0, <2>1 DEF Share, Smaller
  <2>3. Cardinality(Registered') = R
    BY <1>0, <2>1, MoveAccounting DEF IInv, Weight
  <2>4. n <= Permits /\ Permits' = Permits - n
    <3> HIDE DEF n
    <3> QED BY <1>0, <2>1, <2>2, <2>3 DEF Permits
  <2> HIDE DEF n
  <2> QED BY <1>a, <2>1, <2>2, <2>4
<1>2. CASE GrabNothing(t)
  <2>1. /\ pc[t] \in {"try", "more"} /\ (GoTo(t, "idle") \/ GoTo(t, "spin"))
        /\ UNCHANGED <<m_count, got>>
    BY <1>2 DEF GrabNothing, Return
  <2>2. Cardinality(Registered') = R
    BY <1>0, <2>1, MoveAccounting DEF IInv, Weight
  <2> QED BY <1>b, <2>1, <2>2 DEF Permits
<1>3. CASE Register(t) /\ m_count > 0
  <2>1. /\ pc[t] = "spin" /\ m_count' = m_count - 1 /\ GoTo(t, "more")
        /\ got' = [got EXCEPT ![t] = @ + 1]
    BY <1>0, <1>3 DEF Register
  <2>2. Cardinality(Registered') = R
    BY <1>0, <2>1, MoveAccounting DEF IInv, Weight
  <2>3. 1 <= Permits /\ Permits' = Permits - 1
    BY <1>0, <1>3, <2>1, <2>2 DEF Permits
  <2>4. 1 \in 1..MaxTake /\ got[t] + 1 <= MaxTake
    BY <1>0, <2>1
  <2> QED BY <1>a, <2>1, <2>3, <2>4
<1>4. CASE Register(t) /\ m_count <= 0
  <2>1. /\ pc[t] = "spin" /\ m_count' = m_count - 1
        /\ GoTo(t, "adjust") \/ GoTo(t, "sleep")
        /\ UNCHANGED got
    BY <1>0, <1>4 DEF Register
  <2>2. Cardinality(Registered') = R + 1
    BY <1>0, <2>1, MoveAccounting DEF IInv, Weight
  <2> QED BY <1>0, <1>b, <2>1, <2>2 DEF Permits
<1>5. CASE Wake(t) \/ Claim(t)
  <2>1. /\ pc[t] \in {"sleep", "claim"} /\ m_sema > 0 /\ m_count' = m_count
        /\ GoTo(t, "more") /\ got' = [got EXCEPT ![t] = @ + 1]
    BY <1>0, <1>5 DEF Wake, Claim, Obtain
  <2>2. Cardinality(Registered') = R - 1
    BY <1>0, <2>1, MoveAccounting DEF IInv, Weight
  <2>3. 1 <= Permits /\ Permits' = Permits - 1
    BY <1>0, <2>1, <2>2 DEF Permits, Negative
  <2>4. 1 \in 1..MaxTake /\ got[t] + 1 <= MaxTake
    BY <1>0, <2>1
  <2> QED BY <1>a, <2>1, <2>3, <2>4
<1>6. CASE TimeOut(t) \/ LateSignal(t) \/ ClaimFails(t)
  <2>1. /\ pc[t] \in {"sleep", "adjust", "claim"}
        /\ GoTo(t, "adjust") \/ GoTo(t, "claim")
        /\ UNCHANGED <<m_count, got>>
    BY <1>6 DEF TimeOut, LateSignal, ClaimFails, Move
  <2>2. Cardinality(Registered') = R
    BY <1>0, <2>1, MoveAccounting DEF IInv, Weight
  <2> QED BY <1>b, <2>1, <2>2 DEF Permits
<1>7. CASE Readjust(t)
  <2>1. /\ pc[t] = "adjust" /\ GoTo(t, "idle") /\ m_count' = m_count + 1
        /\ UNCHANGED got
    BY <1>7 DEF Readjust, Return
  <2>2. Cardinality(Registered') = R - 1
    BY <1>0, <2>1, MoveAccounting DEF IInv, Weight
  <2> QED BY <1>0, <1>b, <2>1, <2>2 DEF Permits
<1>8. m_count > 0 \/ m_count <= 0
  BY <1>0
<1> QED BY <1>1, <1>2, <1>3, <1>4, <1>5, <1>6, <1>7, <1>8 DEF Continue

\* Signals add permits, a new call clears what the caller got, a post is
\* invisible.
LEMMA OtherRefines ==
  ASSUME IInv, Start \/ \E s \in Signallers : Post(s)
  PROVE  Abstract!Next \/ UNCHANGED Abstract!vars
<1>0. m_count \in Int /\ Cardinality(Registered) \in Nat
  BY Finiteness DEF IInv, TypeOK
<1>1. ASSUME NEW s \in Signallers, NEW n \in 1..MaxSignal, Signal(s, n)
      PROVE  Abstract!Next
  <2>1. m_count' = m_count + n /\ Registered' = Registered /\ UNCHANGED got
    BY <1>1 DEF Signal, Registered
  <2>2. n \in Int
    OBVIOUS
  <2>3. Abstract!Signal(n)
    BY <1>0, <2>1, <2>2 DEF Abstract!Signal, Permits
  <2> QED BY <2>3 DEF Abstract!Next
<1>2. ASSUME NEW s \in Signallers, Post(s)
      PROVE  UNCHANGED Abstract!vars
  BY <1>2 DEF Post, Registered, Permits, Abstract!vars
<1>3. ASSUME NEW t \in Waiters, NEW m \in 0..MaxTake, NEW w \in Timeouts, Call(t, m, w)
      PROVE  Abstract!Next
  <2>1. pc[t] = "idle" /\ GoTo(t, "try") /\ UNCHANGED m_count
    BY <1>3 DEF Call
  <2>2. Cardinality(Registered') = Cardinality(Registered)
    BY <1>0, <2>1, MoveAccounting DEF IInv, Weight
  <2>3. Permits' = Permits /\ got' = [got EXCEPT ![t] = 0]
    BY <1>3, <2>1, <2>2 DEF Permits, Call
  <2>4. Abstract!Begin(t)
    BY <2>3 DEF Abstract!Begin
  <2> QED BY <2>4 DEF Abstract!Next
<1> QED BY <1>1, <1>2, <1>3 DEF Start

\* The semaphore implements a bag of permits: what a call obtains was
\* signalled, once, and a call that times out leaves every permit where it is.
THEOREM Refinement == Spec => RefinesCountingSemaphore
<1>1. Init => Abstract!Init
  <2> SUFFICES ASSUME Init PROVE Abstract!Init
    OBVIOUS
  <2>1. Registered = {}
    BY DEF Init, Registered
  <2>2. Cardinality(Registered) = 0
    BY <2>1, FS_EmptySet
  <2>3. Permits = InitialCount
    BY <2>2, CountsAssumption DEF Init, Permits
  <2> QED BY <2>3 DEF Init, Abstract!Init
<1>2. IInv /\ [Next]_vars => [Abstract!Next]_(Abstract!vars)
  <2>1. ASSUME UNCHANGED vars PROVE UNCHANGED Abstract!vars
    BY <2>1 DEF vars, Abstract!vars, Permits, Registered
  <2> QED BY <2>1, ContinueRefines, OtherRefines DEF Next
<1> QED
  BY <1>1, <1>2, Invariance, PTL DEF Spec, RefinesCountingSemaphore, Abstract!Spec
==============================================================================
