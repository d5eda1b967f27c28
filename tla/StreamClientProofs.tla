------------------------- MODULE StreamClientProofs -------------------------
(***************************************************************************)
(* The streaming transport is at-most-once and in order, and reconnects on *)
(* an exponential backoff, for every number of events and every initial    *)
(* backoff and cap.                                                        *)
(***************************************************************************)
EXTENDS StreamClient, Recursion, TLAPS

\* An event about to be POSTed is the last one the consumer handed out and the
\* sink has not seen it; one whose answer is awaited, it has.
Fresh == /\ pc = "emit" => line = consumer /\ consumer \notin received
         /\ pc = "reply" => line \in received

IInv == TypeOK /\ Fresh

\* Nothing is read, sent or slept on before the first session.
LEMMA InitIInv == Init => IInv
  <1> SUFFICES ASSUME Init PROVE IInv
    OBVIOUS
  <1> USE StreamAssumption DEF Init
  <1>1. gotEvent \in BOOLEAN /\ ctxDone \in BOOLEAN
    OBVIOUS
  <1>2. TypeOK
    BY <1>1 DEF TypeOK
  <1>3. Fresh
    BY DEF Fresh
  <1> QED BY <1>2, <1>3 DEF IInv

\* Every step of run, streamOnce, the server and the sink keeps the types, the
\* backoff between its bounds and the event in hand fresh.
LEMMA NextIInv == IInv /\ [Next]_vars => IInv'
  <1> SUFFICES ASSUME IInv, [Next]_vars PROVE IInv'
    OBVIOUS
  <1> USE StreamAssumption DEF IInv, TypeOK, Fresh, Events
  <1>0. CASE Publish
    BY <1>0 DEF Publish
  <1>1. CASE SessionEnd \/ ScanEnd \/ Crash
    BY <1>1 DEF SessionEnd, ScanEnd, Crash
  <1>2. CASE Start
    <2>1. gotEvent' \in BOOLEAN /\ ctxDone' \in BOOLEAN
      BY <1>2 DEF Start
    <2> QED BY <1>2, <2>1 DEF Start
  <1>3. CASE CtxDone
    BY <1>3 DEF CtxDone
  <1>4. CASE DialOK \/ DialFail
    <2>1. gotEvent' \in BOOLEAN
      BY <1>4 DEF DialOK, DialFail
    <2> QED BY <1>4, <2>1 DEF DialOK, DialFail
  <1>5. CASE Scan
    <2>1. consumer' \in 0..published' /\ consumer' = consumer + 1
      BY <1>5 DEF Scan
    <2>2. consumer' \notin received
      BY <2>1
    <2> QED BY <1>5, <2>1, <2>2 DEF Scan
  <1>6. ASSUME NEW e \in Events, Post(e) PROVE IInv'
    BY <1>6 DEF Post
  <1>7. CASE SendOK
    <2>1. gotEvent' \in BOOLEAN
      BY <1>7 DEF SendOK
    <2> QED BY <1>7, <2>1 DEF SendOK
  <1>8. CASE SendFail
    <2>1. gotEvent' \in BOOLEAN
      BY <1>8 DEF SendFail
    <2> QED BY <1>8, <2>1 DEF SendFail
  <1>9. CASE Disconnected
    BY <1>9 DEF Disconnected
  <1>10. CASE Wait
    BY <1>10 DEF Wait, CountWait
  <1>11. CASE UNCHANGED vars
    BY <1>11 DEF vars
  <1> QED
    BY <1>0, <1>1, <1>2, <1>3, <1>4, <1>5, <1>6, <1>7, <1>8, <1>9, <1>10, <1>11
    DEF Next

\* Types and bounds hold in every reachable state; in particular the reconnect
\* backoff stays between streamBackoffInitial and streamBackoffCap.
THEOREM TypeCorrect == Spec => []TypeOK
  <1>1. IInv => TypeOK
    BY DEF IInv
  <1> QED BY InitIInv, NextIInv, <1>1, PTL DEF Spec

\* No event reaches the sink twice, or before an earlier one, over streaming.
THEOREM StreamOnceInOrder == Spec => OnceInOrder
  <1>1. IInv => (\A e \in Events : Post(e) => \A f \in received : f < e)
    <2> SUFFICES ASSUME IInv, NEW e \in Events, Post(e), NEW f \in received
                 PROVE  f < e
      OBVIOUS
    <2> QED BY StreamAssumption DEF IInv, TypeOK, Fresh, Post, Events
  <1>2. IInv /\ [Next]_vars
          => [\A e \in Events : Post(e) => \A f \in received : f < e]_vars
    BY <1>1
  <1> QED BY InitIInv, NextIInv, <1>2, PTL DEF Spec, OnceInOrder
-----------------------------------------------------------------------------
(* The backoff.                                                            *)

\* Doubled is what its recursion says.
LEMMA DoubledDef ==
  /\ Doubled[0] = BackoffInitial
  /\ \A n \in Nat : Doubled[n] \in Nat /\ Doubled[n + 1] = 2 * Doubled[n]
  <1> DEFINE Rec(f) == f = [n \in Nat |-> IF n = 0 THEN BackoffInitial ELSE 2 * f[n - 1]]
             step == [k \in Nat |-> [v \in Nat |-> 2 * v]]
  <1>1. step \in [Nat -> [Nat -> Nat]] /\ \A k, v \in Nat : step[k][v] = 2 * v
    OBVIOUS
  <1> HIDE DEF step
  <1>2. \E f : RecursionOf(f, Nat, BackoffInitial, step)
    BY <1>1, NatRecursion, StreamAssumption
  <1>3. PICK f : /\ f \in [Nat -> Nat] /\ f[0] = BackoffInitial
                 /\ \A n \in Nat : f[n + 1] = step[n][f[n]]
    BY <1>2 DEF RecursionOf
  <1>4. ASSUME NEW n \in Nat
        PROVE  f[n] = IF n = 0 THEN BackoffInitial ELSE 2 * f[n - 1]
    <2>1. CASE n = 0
      BY <1>3, <2>1
    <2>2. CASE n # 0
      <3>1. n - 1 \in Nat /\ (n - 1) + 1 = n
        BY <2>2
      <3> QED BY <1>1, <1>3, <2>2, <3>1
    <2> QED BY <2>1, <2>2
  <1>5. \E g : Rec(g)
    BY <1>3, <1>4
  <1>6. Doubled = CHOOSE g : Rec(g)
    BY DEF Doubled
  <1>7. Rec(Doubled)
    <2> HIDE DEF Rec
    <2> QED BY <1>5, <1>6
  <1>8. Doubled[0] = BackoffInitial /\ \A n \in Nat : Doubled[n + 1] = 2 * Doubled[n]
    BY <1>7
  <1> DEFINE P == {n \in Nat : Doubled[n] \in Nat}
  <1>9. 0 \in P /\ \A n \in Nat : n \in P => n + 1 \in P
    BY <1>8, StreamAssumption
  <1> HIDE DEF P
  <1>10. \A n \in Nat : n \in P
    BY <1>9, NatInduct
  <1> QED BY <1>8, <1>10 DEF P

\* Doubling and capping commute: one more wait is one more doubling.
LEMMA CapDoubled ==
  ASSUME NEW n \in Nat, NEW b,
         b = IF Doubled[n] > BackoffCap THEN BackoffCap ELSE Doubled[n]
  PROVE  (IF 2 * b > BackoffCap THEN BackoffCap ELSE 2 * b)
           = IF Doubled[n + 1] > BackoffCap THEN BackoffCap ELSE Doubled[n + 1]
  BY DoubledDef, StreamAssumption

\* Every step keeps the schedule, also once the count of waits is at its bound.
LEMMA NextBackoff == TypeOK /\ BackoffSchedule /\ [Next]_vars => BackoffSchedule'
  <1> SUFFICES ASSUME TypeOK, BackoffSchedule, [Next]_vars PROVE BackoffSchedule'
    OBVIOUS
  <1> USE DEF BackoffSchedule
  <1>1. CASE Start
    BY <1>1, DoubledDef, StreamAssumption DEF Start
  <1>2. CASE Disconnected
    BY <1>2, DoubledDef, StreamAssumption DEF Disconnected
  <1>3. CASE Wait
    <2>1. /\ pc = "wait" /\ waits \in 0..MaxWaits
          /\ waits' = IF waits < MaxWaits THEN waits + 1 ELSE waits
          /\ backoff' = IF 2 * backoff > BackoffCap THEN BackoffCap ELSE 2 * backoff
      BY <1>3 DEF Wait, CountWait, TypeOK
    <2>2. backoff' = IF Doubled[waits + 1] > BackoffCap THEN BackoffCap ELSE Doubled[waits + 1]
      BY <2>1, CapDoubled, StreamAssumption
    <2>3. CASE waits < MaxWaits
      BY <2>1, <2>2, <2>3
    <2>4. CASE waits = MaxWaits
      <3>1. /\ Doubled[waits] \in Nat /\ Doubled[waits] >= BackoffCap
            /\ Doubled[waits + 1] = 2 * Doubled[waits]
        BY <2>1, <2>4, DoubledDef, WaitsAssumption, StreamAssumption
      <3> QED BY <2>1, <2>2, <2>4, <3>1, StreamAssumption
    <2> QED BY <2>1, <2>3, <2>4, StreamAssumption
  <1>4. CASE Publish \/ CtxDone \/ SessionEnd \/ DialOK \/ DialFail \/ Scan \/ ScanEnd
             \/ (\E e \in Events : Post(e)) \/ SendOK \/ SendFail \/ Crash
    BY <1>4 DEF Publish, CtxDone, SessionEnd, DialOK, DialFail, Scan, ScanEnd, Post,
                SendOK, SendFail, Crash
  <1>5. CASE UNCHANGED vars
    BY <1>5 DEF vars
  <1> QED BY <1>1, <1>2, <1>3, <1>4, <1>5 DEF Next

\* The wait before every reconnect is the initial backoff, doubled for every
\* wait since the last event and capped (run's backoff, for every schedule).
THEOREM BackoffDoubles == Spec => []BackoffSchedule
  <1>1. Init => BackoffSchedule
    BY DEF Init, BackoffSchedule
  <1>2. Spec => []TypeOK
    BY TypeCorrect
  <1> QED BY <1>1, <1>2, NextBackoff, PTL DEF Spec
=============================================================================
