-------------------------- MODULE PollClientProofs --------------------------
(***************************************************************************)
(* What PollClient's runs check on small instances, proved for every       *)
(* number of events, every set of malformed and poisoned ones, and every   *)
(* combination of faults.                                                  *)
(***************************************************************************)
EXTENDS PollClient, TLAPS

\* The batch in hand, while Run works on it: what is left of it reaches back to
\* settled events without a gap, and so does the cursor it will commit.
BatchInv ==
  /\ pc \in {"emit", "reply", "commit"} =>
       /\ next # 0 => \A f \in Events : f <= next => f \in Settled \cup events
       /\ \A e \in events : \A f \in Events : f < e => f \in Settled \cup events
  /\ pc = "commit" => events = {}

IInv == TypeOK /\ NoLoss /\ NoOvertaking /\ BatchInv

\* The initial state satisfies the inductive invariant: nothing is published,
\* received or persisted before Run's first session.
LEMMA InitIInv == Init => IInv
  <1> SUFFICES ASSUME Init PROVE IInv
    OBVIOUS
  <1> USE PollAssumption DEF Init
  <1>0. ctxDone \in BOOLEAN
    OBVIOUS
  <1>1. TypeOK
    BY <1>0 DEF TypeOK, Positions
  <1>2. NoLoss /\ NoOvertaking /\ BatchInv
    BY DEF NoLoss, NoOvertaking, BatchInv, Events
  <1> QED BY <1>1, <1>2 DEF IInv

\* Every step of Run, the server, the sink and the kubelet keeps the inductive
\* invariant.
LEMMA NextIInv == IInv /\ [Next]_vars => IInv'
  <1> SUFFICES ASSUME IInv, [Next]_vars PROVE IInv'
    OBVIOUS
  <1> USE PollAssumption DEF IInv, Positions, Events, Settled
  <1>1. CASE Publish
    BY <1>1 DEF Publish, local, history, TypeOK, NoLoss, NoOvertaking, BatchInv
  <1>2. CASE Start
    <2>1. ctxDone' \in BOOLEAN
      BY <1>2 DEF Start
    <2>2. TypeOK'
      BY <1>2, <2>1 DEF Start, readCursor, history, TypeOK
    <2>3. NoLoss' /\ NoOvertaking' /\ BatchInv'
      BY <1>2 DEF Start, readCursor, history, TypeOK, NoLoss, NoOvertaking, BatchInv
    <2> QED BY <2>2, <2>3
  <1>3. CASE CtxDone
    BY <1>3 DEF CtxDone, history, TypeOK, NoLoss, NoOvertaking, BatchInv
  <1>4. CASE SessionEnd \/ Tick \/ FetchFail
    BY <1>4 DEF SessionEnd, Tick, FetchFail, local, history,
                TypeOK, NoLoss, NoOvertaking, BatchInv
  <1>5. CASE Fetch
    <2> PICK s \in Positions, n \in Positions, nx \in Positions : FetchOK(s, n, nx)
      BY <1>5 DEF Fetch
    <2>1. TypeOK'
      BY DEF FetchOK, TypeOK
    <2>2. skipped \subseteq skipped' /\ received' = received /\ acked' = acked
      BY DEF FetchOK
    <2>3. NoLoss' /\ NoOvertaking'
      BY <2>2 DEF FetchOK, NoLoss, NoOvertaking
    <2>4. ASSUME NEW f \in Events, f <= n PROVE f \in (Settled \cup events)'
      <3>1. CASE f <= s
        BY <3>1 DEF FetchOK, NoLoss, TypeOK
      <3>2. CASE f > s
        BY <3>2, <2>4 DEF FetchOK, TypeOK
      <3> QED BY <3>1, <3>2
    <2>5. next' \in {0, n} /\ \A e \in events' : e <= n
      BY DEF FetchOK, TypeOK
    <2>6. pc' = "commit" => events' = {}
      BY DEF FetchOK
    <2>7. \A f \in Events : f <= n => f \in (Settled \cup events)'
      BY <2>4
    <2>8. events' \subseteq Events
      BY <2>1 DEF TypeOK
    <2>9. \A e \in events' : \A f \in Events : f < e => f \in (Settled \cup events)'
      <3> SUFFICES ASSUME NEW e \in events', NEW f \in Events, f < e
                   PROVE  f \in (Settled \cup events)'
        OBVIOUS
      <3>1. e \in Nat /\ e <= n /\ f \in Nat
        BY <2>5, <2>8
      <3> QED BY <3>1, <2>4
    <2>10. BatchInv'
      BY <2>5, <2>6, <2>7, <2>9 DEF BatchInv
    <2> QED BY <2>1, <2>3, <2>10
  <1>6. ASSUME NEW e \in Events, Post(e) PROVE IInv'
    <2>1. TypeOK' /\ NoLoss'
      BY <1>6 DEF Post, IsHead, local, TypeOK, NoLoss
    <2>2. NoOvertaking'
      <3>1. \A f \in Events : f < e => f \in Settled
        BY <1>6 DEF Post, IsHead, BatchInv
      <3> QED BY <1>6, <3>1 DEF Post, NoOvertaking
    <2>3. BatchInv'
      BY <1>6 DEF Post, local, BatchInv
    <2> QED BY <2>1, <2>2, <2>3
  <1>7. ASSUME NEW e \in Events, SendOK(e) PROVE IInv'
    <2>1. TypeOK' /\ NoLoss' /\ NoOvertaking'
      BY <1>7 DEF SendOK, IsHead, TypeOK, NoLoss, NoOvertaking
    <2>2. (Settled \cup events)' = Settled \cup events
      BY <1>7 DEF SendOK, IsHead
    <2>3. /\ pc = "reply" /\ next' = next
          /\ events' \subseteq events
          /\ pc' = "commit" => events' = {}
      BY <1>7 DEF SendOK
    <2>4. BatchInv'
      BY <2>2, <2>3 DEF BatchInv
    <2> QED BY <2>1, <2>4
  <1>8. CASE SendFail
    BY <1>8 DEF SendFail, local, history, TypeOK, NoLoss, NoOvertaking, BatchInv
  <1>9. CASE Commit
    <2>1. TypeOK' /\ NoOvertaking'
      BY <1>9 DEF Commit, writeCursor, history, TypeOK, NoOvertaking
    <2>2. NoLoss'
      BY <1>9 DEF Commit, writeCursor, history, TypeOK, NoLoss, BatchInv
    <2>3. BatchInv'
      BY <1>9 DEF Commit, writeCursor, BatchInv
    <2> QED BY <2>1, <2>2, <2>3
  <1>10. CASE Crash
    BY <1>10 DEF Crash, local, history, TypeOK, NoLoss, NoOvertaking, BatchInv
  <1>11. CASE Evict
    <2>1. file' = 0 /\ pc' = "down" /\ UNCHANGED <<published, cursor, next, events, ctxDone,
                                                 received, acked, skipped>>
      BY <1>11 DEF Evict, local, history
    <2>2. TypeOK'
      BY <2>1 DEF TypeOK
    <2>3. NoLoss' /\ NoOvertaking' /\ BatchInv'
      BY <2>1 DEF TypeOK, NoLoss, NoOvertaking, BatchInv
    <2> QED BY <2>2, <2>3
  <1>12. CASE UNCHANGED vars
    BY <1>12 DEF vars, local, history, TypeOK, NoLoss, NoOvertaking, BatchInv
  <1> QED
    BY <1>1, <1>2, <1>3, <1>4, <1>5, <1>6, <1>7, <1>8, <1>9, <1>10, <1>11, <1>12
    DEF Next

\* Run, whatever fails around it, keeps the inductive invariant.
THEOREM Invariance == Spec => []IInv
  BY InitIInv, NextIInv, PTL DEF Spec

\* Every variable keeps its type: no cursor, batch or history mentions an event
\* the server has not published.
THEOREM TypeCorrect == Spec => []TypeOK
  <1>1. IInv => TypeOK
    BY DEF IInv
  <1> QED BY Invariance, <1>1, PTL

\* At-least-once for the polling transport: neither cursor is ever past an event
\* the sink has not accepted.
THEOREM PollNoLoss == Spec => []NoLoss
  <1>1. IInv => NoLoss
    BY DEF IInv
  <1> QED BY Invariance, <1>1, PTL

\* In-order delivery for the polling transport: a failed event holds back every
\* later one.
THEOREM PollNoOvertaking == Spec => []NoOvertaking
  <1>1. IInv => NoOvertaking
    BY DEF IInv
  <1> QED BY Invariance, <1>1, PTL

-----------------------------------------------------------------------------
(* With a readable cursor file the in-memory cursor is never behind the    *)
(* persisted one, so nothing persisted is fetched again.                   *)

FileBehindCursor ==
  /\ pc # "down" => file <= cursor
  /\ pc \in {"emit", "reply", "commit"} =>
       /\ \A e \in events : cursor < e
       /\ next # 0 => cursor <= next

\* readCursor and the write-after-success order of Run keep the file behind the
\* in-memory cursor, and the batch in hand beyond both.
LEMMA NextFileBehind ==
  ASSUME "read" \notin Faults, IInv, FileBehindCursor, [Next]_vars
  PROVE  FileBehindCursor'
  <1> USE PollAssumption DEF IInv, TypeOK, Positions, Events, FileBehindCursor
  <1>1. CASE Publish \/ CtxDone \/ SessionEnd \/ Tick \/ FetchFail
    BY <1>1 DEF Publish, CtxDone, SessionEnd, Tick, FetchFail, local, history
  <1>2. CASE Start
    BY <1>2 DEF Start, readCursor, history
  <1>3. CASE Fetch
    <2> PICK s \in Positions, n \in Positions, nx \in Positions : FetchOK(s, n, nx)
      BY <1>3 DEF Fetch
    <2>1. /\ UNCHANGED <<file, cursor>> /\ pc = "fetch"
          /\ cursor <= s /\ s <= n /\ next' \in {0, n}
          /\ events' = ((s + 1)..n) \ Malformed
      BY DEF FetchOK
    <2>2. \A e \in events' : cursor < e
      BY <2>1
    <2>3. next' # 0 => cursor <= next'
      BY <2>1
    <2> QED BY <2>1, <2>2, <2>3
  <1>4. ASSUME NEW e \in Events, Post(e) \/ SendOK(e) PROVE FileBehindCursor'
    BY <1>4 DEF Post, SendOK, local
  <1>5. CASE SendFail \/ Crash
    BY <1>5 DEF SendFail, Crash, local, history
  <1>6. CASE Commit
    BY <1>6 DEF Commit, writeCursor, history
  <1>7. CASE Evict
    BY <1>7 DEF Evict
  <1>8. CASE UNCHANGED vars
    BY <1>8 DEF vars, local, history
  <1> QED
    BY <1>1, <1>2, <1>3, <1>4, <1>5, <1>6, <1>7, <1>8 DEF Next

\* The file never overtakes the cursor of a running session.
LEMMA FileBehind ==
  ASSUME "read" \notin Faults PROVE Spec => [](IInv /\ FileBehindCursor)
  <1>1. Init => FileBehindCursor
    BY DEF Init, FileBehindCursor
  <1>2. IInv /\ FileBehindCursor /\ [Next]_vars => FileBehindCursor'
    BY NextFileBehind
  <1> QED BY <1>1, <1>2, InitIInv, NextIInv, PTL DEF Spec

\* No event at or before the persisted cursor is POSTed a second time, as long
\* as the cursor file can be read.
THEOREM PollNoReplay == ASSUME "read" \notin Faults PROVE Spec => NoReplay
  <1>1. IInv /\ FileBehindCursor /\ [Next]_vars
          => [\A e \in Events : Post(e) => e > file]_vars
    <2> SUFFICES ASSUME IInv, FileBehindCursor, NEW e \in Events, Post(e)
                 PROVE  e > file
      OBVIOUS
    <2> QED BY PollAssumption
            DEF IInv, TypeOK, Positions, Events, FileBehindCursor, Post, IsHead
  <1> QED BY FileBehind, <1>1, PTL DEF Spec, NoReplay

\* The cursor file goes back only when its volume is lost: a commit writes a
\* position the cursor, and so the file, is not beyond.
THEOREM PollCursorNeverRegresses ==
  ASSUME "read" \notin Faults PROVE Spec => CursorNeverRegresses
  <1>1. IInv /\ FileBehindCursor /\ [Next]_vars => [file' < file => Evict]_vars
    <2> SUFFICES ASSUME IInv, FileBehindCursor, Next, ~Evict
                 PROVE  ~(file' < file)
      OBVIOUS
    <2> USE PollAssumption DEF IInv, TypeOK, Positions
    <2>1. CASE Commit
      BY <2>1 DEF Commit, writeCursor, FileBehindCursor
    <2>2. CASE file' = file
      BY <2>2
    <2>3. Commit \/ file' = file
      BY DEF Next, Publish, Start, CtxDone, SessionEnd, Tick, FetchFail, Fetch, FetchOK,
             Post, SendOK, SendFail, Crash
    <2> QED BY <2>1, <2>2, <2>3
  <1> QED BY FileBehind, <1>1, PTL DEF Spec, CursorNeverRegresses

\* A pod that has a cursor file never leaves the starting point to the server.
THEOREM PollResumes ==
  ASSUME "read" \notin Faults PROVE Spec => ResumesWhereItLeftOff
  <1>1. IInv /\ FileBehindCursor /\ [Next]_vars => [file # 0 => skipped' = skipped]_vars
    <2> SUFFICES ASSUME IInv, FileBehindCursor, Next, file # 0
                 PROVE  skipped' = skipped
      OBVIOUS
    <2>1. CASE Fetch
      <3>1. cursor # 0
        BY <2>1, PollAssumption
        DEF Fetch, FetchOK, IInv, TypeOK, Positions, FileBehindCursor
      <3> QED BY <2>1, <3>1 DEF Fetch, FetchOK
    <2>2. CASE ~Fetch
      BY <2>2 DEF Next, Publish, Start, CtxDone, SessionEnd, Tick, FetchFail,
                  Post, SendOK, SendFail, Commit, Crash, Evict, history
    <2> QED BY <2>1, <2>2
  <1> QED BY FileBehind, <1>1, PTL DEF Spec, ResumesWhereItLeftOff

\* The polling transport implements the delivery promise.
THEOREM PollImplementsDelivery == ASSUME "read" \notin Faults PROVE Spec => Promise
  <1>1. Init => D!DeliveryInit
    BY DEF Init, D!DeliveryInit
  <1>2. ASSUME IInv, FileBehindCursor, [Next]_vars
        PROVE  [D!DeliveryNext]_(D!dvars)
    <2> USE <1>2, PollAssumption
        DEF D!dvars, D!Events, D!Settled, Events, Settled, Positions
    <2>1. CASE Publish
      BY <2>1 DEF Publish, history, D!DeliveryNext, D!Append
    <2>2. CASE Start \/ CtxDone \/ SessionEnd \/ Tick \/ FetchFail \/ SendFail \/ Crash
      BY <2>2 DEF Start, readCursor, CtxDone, SessionEnd, Tick, FetchFail, SendFail, Crash,
                  history
    <2>3. CASE Fetch
      <3> PICK s \in Positions, n \in Positions, nx \in Positions : FetchOK(s, n, nx)
        BY <2>3 DEF Fetch
      <3>1. CASE cursor = 0
        <4>1. file = 0
          BY <3>1 DEF FetchOK, IInv, TypeOK, FileBehindCursor
        <4>2. D!StartAt(s)
          BY <3>1, <4>1 DEF FetchOK, IInv, TypeOK, D!StartAt
        <4> QED BY <4>2 DEF D!DeliveryNext
      <3>2. CASE cursor # 0
        BY <3>2 DEF FetchOK
      <3> QED BY <3>1, <3>2
    <2>4. ASSUME NEW e \in Events, Post(e) PROVE [D!DeliveryNext]_(D!dvars)
      BY <2>4 DEF Post
    <2>5. ASSUME NEW e \in Events, SendOK(e) PROVE [D!DeliveryNext]_(D!dvars)
      <3>1. \A f \in Events : f < e => f \in Settled
        BY <2>5 DEF SendOK, IsHead, IInv, BatchInv
      <3>2. D!Deliver(e)
        BY <2>5, <3>1 DEF SendOK, IsHead, IInv, TypeOK, D!Deliver
      <3> QED BY <3>2 DEF D!DeliveryNext
    <2>6. CASE Commit
      <3>1. CASE next # 0 /\ next # cursor /\ file' = next
        <4>1. next \in Events /\ next > file /\ next <= published
          BY <2>6, <3>1 DEF Commit, writeCursor, IInv, TypeOK, FileBehindCursor
        <4>2. \A e \in Events : e <= next => e \in Settled
          BY <2>6, <3>1 DEF Commit, writeCursor, IInv, BatchInv
        <4>3. D!Advance(next)
          BY <2>6, <3>1, <4>1, <4>2 DEF Commit, writeCursor, history, D!Advance
        <4> QED BY <4>1, <4>3 DEF D!DeliveryNext
      <3>2. CASE file' = file
        BY <2>6, <3>2 DEF Commit, writeCursor, history
      <3> QED BY <2>6, <3>1, <3>2 DEF Commit, writeCursor
    <2>7. CASE Evict
      BY <2>7 DEF Evict, history, D!DeliveryNext, D!Forget
    <2>8. CASE UNCHANGED vars
      BY <2>8 DEF vars, history
    <2> QED
      BY <2>1, <2>2, <2>3, <2>4, <2>5, <2>6, <2>7, <2>8 DEF Next
  <1> QED BY <1>1, <1>2, FileBehind, PTL DEF Spec, Promise, D!DeliverySpec
=============================================================================
