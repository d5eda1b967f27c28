--------------------------- MODULE RolloutProofs ---------------------------
(***************************************************************************)
(* The safety properties of Rollout, for every number of pods and events,  *)
(* every choice of modes and every set of malformed events.                *)
(***************************************************************************)
EXTENDS Rollout, TLAPS

\* What a pod in a poll session has in hand reaches back to settled events.
PollInv == \A p \in Pods :
  /\ pc[p] \in {"emit", "commit"} =>
       /\ \A f \in Events : f <= next[p] => f \in Settled \cup batch[p]
       /\ \A e \in batch[p] : e <= next[p]
  /\ pc[p] = "commit" => batch[p] = {}

\* Lines in hand are behind the consumer, not POSTed yet, and in one hand.
StreamInv ==
  /\ \A e \in streamed : e <= consumer
  /\ \A p \in Pods : pc[p] = "line" =>
       \A e \in batch[p] : e <= consumer /\ e \notin streamed
  /\ \A p, q \in Pods : p # q /\ pc[p] = "line" /\ pc[q] = "line" =>
       \A e \in batch[p] : e \notin batch[q]

IInv == TypeOK /\ CursorSound /\ PollInv /\ StreamInv

\* The initial state satisfies the inductive invariant.
LEMMA InitIInv == Init => IInv
  BY RolloutAssumption
  DEF Init, IInv, TypeOK, CursorSound, PollInv, StreamInv, Events, Pods

\* A pod that drops what it has in hand: the others keep theirs.
LEMMA DoneFacts ==
  ASSUME TypeOK, NEW p \in Pods, NEW l \in {"down", "poll", "stream"}, Done(p, l)
  PROVE  /\ pc' \in [Pods -> {"down", "poll", "emit", "commit", "stream", "line"}]
         /\ next' \in [Pods -> 0..published]
         /\ batch' \in [Pods -> SUBSET (1..published)]
         /\ pc'[p] = l
         /\ \A q \in Pods \ {p} : pc'[q] = pc[q] /\ next'[q] = next[q] /\ batch'[q] = batch[q]
  <1>1. /\ pc \in [Pods -> {"down", "poll", "emit", "commit", "stream", "line"}]
        /\ next \in [Pods -> 0..published]
        /\ batch \in [Pods -> SUBSET (1..published)]
        /\ 0 \in 0..published
    BY RolloutAssumption DEF TypeOK
  <1>2. /\ pc' = [pc EXCEPT ![p] = l] /\ next' = [next EXCEPT ![p] = 0]
        /\ batch' = [batch EXCEPT ![p] = {}]
    BY DEF Done, Goto
  <1> QED BY <1>1, <1>2

\* Dropping what is in hand keeps the invariants about hands, also when the
\* dropped line was POSTed.
LEMMA DoneKeeps ==
  ASSUME TypeOK, PollInv, StreamInv,
         NEW p \in Pods, NEW l \in {"down", "poll", "stream"}, Done(p, l),
         acked' = acked, skipped' = skipped, consumer' = consumer,
         \A e \in streamed' : e \in streamed \/ (pc[p] = "line" /\ e \in batch[p])
  PROVE  PollInv' /\ StreamInv'
  <1>1. /\ pc'[p] = l
        /\ \A q \in Pods \ {p} : pc'[q] = pc[q] /\ next'[q] = next[q] /\ batch'[q] = batch[q]
    BY DoneFacts
  <1>2. PollInv'
    BY <1>1 DEF PollInv, Settled
  <1>3. \A e \in streamed' : e <= consumer'
    BY DEF StreamInv
  <1>4. \A q \in Pods : pc'[q] = "line" =>
          \A e \in batch'[q] : e <= consumer' /\ e \notin streamed'
    BY <1>1 DEF StreamInv
  <1>5. \A q, r \in Pods : q # r /\ pc'[q] = "line" /\ pc'[r] = "line" =>
          \A e \in batch'[q] : e \notin batch'[r]
    BY <1>1 DEF StreamInv
  <1> QED BY <1>2, <1>3, <1>4, <1>5 DEF StreamInv

\* Steps that move a pod between waiting places, or the rollout on, keep it.
LEMMA IdleStep ==
  ASSUME IInv, NEW p \in Pods,
         Create(p) \/ Terminate(p) \/ Exit(p) \/ SessionEnd(p)
           \/ \E mode \in {"poll", "stream"} : SessionStart(p, mode)
  PROVE  IInv'
  <1> USE RolloutAssumption DEF IInv, Pods, Events, Settled
  <1>1. CASE Create(p) \/ Terminate(p)
    <2>1. UNCHANGED <<server, session, file, history>>
      BY <1>1 DEF Create, Terminate
    <2>2. TypeOK'
      BY <1>1, <2>1 DEF Create, Terminate, server, session, history, TypeOK
    <2>3. CursorSound' /\ PollInv' /\ StreamInv'
      BY <2>1 DEF server, session, history, CursorSound, PollInv, StreamInv
    <2> QED BY <2>2, <2>3
  <1>2. CASE Exit(p)
    <2>1. /\ Done(p, "down") /\ UNCHANGED <<published, consumer, file, acked, streamed, skipped>>
          /\ phase' = [phase EXCEPT ![p] = "gone"]
      BY <1>2 DEF Exit, server, history
    <2>2. TypeOK'
      BY <2>1, DoneFacts DEF TypeOK
    <2>3. CursorSound'
      BY <2>1 DEF CursorSound
    <2>4. PollInv' /\ StreamInv'
      BY <2>1, DoneKeeps
    <2> QED BY <2>2, <2>3, <2>4
  <1>3. CASE SessionEnd(p) \/ \E mode \in {"poll", "stream"} : SessionStart(p, mode)
    <2>1. TypeOK' /\ CursorSound'
      BY <1>3 DEF SessionEnd, SessionStart, Goto, server, history, TypeOK, CursorSound
    <2>2. /\ UNCHANGED <<server, next, batch, history>>
          /\ pc'[p] \in {"down", "poll", "stream"}
          /\ \A q \in Pods \ {p} : pc'[q] = pc[q]
      BY <1>3 DEF SessionEnd, SessionStart, Goto, TypeOK
    <2>3. PollInv'
      BY <2>2 DEF server, history, PollInv
    <2>4. StreamInv'
      BY <2>2 DEF server, history, StreamInv
    <2> QED BY <2>1, <2>3, <2>4
  <1> QED BY <1>1, <1>2, <1>3

\* A poll response: from the cursor to its end everything is settled or in hand.
LEMMA FetchStep ==
  ASSUME IInv, NEW p \in Pods, NEW s \in 0..NumEvents, NEW n \in 0..NumEvents,
         Fetch(p, s, n)
  PROVE  IInv'
  <1> USE RolloutAssumption DEF IInv, Pods, Events, Settled
  <1>1. TypeOK'
    <2>1. /\ UNCHANGED <<published, consumer, phase, file, acked, streamed>>
          /\ \E l \in {"commit", "emit"} : pc' = [pc EXCEPT ![p] = l]
          /\ next' = [next EXCEPT ![p] = n]
          /\ batch' = [batch EXCEPT ![p] = ((s + 1)..n) \ Malformed]
          /\ skipped' \in {skipped, skipped \cup 1..s}
          /\ s <= n /\ n <= published
      BY DEF Fetch, Goto, server
    <2>2. /\ published \in Nat /\ n \in 0..published
          /\ 1..s \subseteq 1..published /\ (s + 1)..n \subseteq 1..published
      BY <2>1 DEF TypeOK
    <2>3. pc' \in [Pods -> {"down", "poll", "emit", "commit", "stream", "line"}]
      BY <2>1 DEF TypeOK
    <2>4. next' \in [Pods -> 0..published]
      BY <2>1, <2>2 DEF TypeOK
    <2>5. batch' \in [Pods -> SUBSET (1..published)]
      BY <2>1, <2>2 DEF TypeOK
    <2>6. skipped' \subseteq 1..published
      BY <2>1, <2>2 DEF TypeOK
    <2> QED BY <2>1, <2>3, <2>4, <2>5, <2>6 DEF TypeOK
  <1>2. /\ skipped \subseteq skipped' /\ acked' = acked /\ streamed' = streamed
        /\ file' = file /\ consumer' = consumer
        /\ next'[p] = n /\ batch'[p] = ((s + 1)..n) \ Malformed
        /\ pc'[p] \in {"commit", "emit"} /\ (pc'[p] = "commit" => batch'[p] = {})
        /\ \A q \in Pods \ {p} : /\ pc'[q] = pc[q] /\ next'[q] = next[q]
                                 /\ batch'[q] = batch[q]
    BY DEF Fetch, Goto, server, TypeOK
  <1>3. CursorSound'
    BY <1>2 DEF CursorSound
  <1>4. ASSUME NEW f \in Events, f <= n PROVE f \in (Settled \cup batch[p])'
    <2>1. CASE f <= s
      BY <2>1 DEF Fetch, CursorSound, TypeOK
    <2>2. CASE f > s
      BY <2>2, <1>4, <1>2
    <2> QED BY <2>1, <2>2
  <1>5. \A e \in batch'[p] : e <= next'[p]
    BY <1>2
  <1>6. PollInv'
    BY <1>2, <1>4, <1>5 DEF PollInv
  <1>7. StreamInv'
    BY <1>2 DEF StreamInv
  <1> QED BY <1>1, <1>3, <1>6, <1>7

\* A line of the stream: the consumer's new position is in nobody's hand.
LEMMA ScanStep ==
  ASSUME IInv, NEW p \in Pods, Scan(p)
  PROVE  IInv'
  <1> USE RolloutAssumption DEF IInv, Pods, Events, Settled
  <1>1. TypeOK'
    <2>1. /\ UNCHANGED <<published, phase, next, file, acked, streamed, skipped>>
          /\ consumer < published /\ consumer' = consumer + 1
          /\ batch' = [batch EXCEPT ![p] = {consumer + 1} \ Malformed]
          /\ \E l \in {"stream", "line"} : pc' = [pc EXCEPT ![p] = l]
      BY DEF Scan, Goto, history
    <2>2. consumer' \in 0..published /\ {consumer + 1} \subseteq 1..published
      BY <2>1 DEF TypeOK
    <2>3. pc' \in [Pods -> {"down", "poll", "emit", "commit", "stream", "line"}]
      BY <2>1 DEF TypeOK
    <2>4. batch' \in [Pods -> SUBSET (1..published)]
      BY <2>1, <2>2 DEF TypeOK
    <2> QED BY <2>1, <2>2, <2>3, <2>4 DEF TypeOK
  <1>2. /\ acked' = acked /\ skipped' = skipped /\ streamed' = streamed
        /\ file' = file /\ next' = next /\ consumer \in Nat /\ consumer' = consumer + 1
        /\ batch'[p] \subseteq {consumer + 1} /\ pc'[p] \in {"stream", "line"}
        /\ \A q \in Pods \ {p} : pc'[q] = pc[q] /\ batch'[q] = batch[q]
    BY DEF Scan, Goto, history, TypeOK
  <1>3. CursorSound' /\ PollInv'
    BY <1>2 DEF CursorSound, PollInv
  <1>4. streamed \subseteq Nat /\ \A q \in Pods : batch[q] \subseteq Nat
    BY DEF TypeOK
  <1>5. \A e \in streamed' : e <= consumer'
    BY <1>2, <1>4 DEF StreamInv
  <1>6. consumer + 1 \notin streamed
        /\ \A q \in Pods \ {p} : pc[q] = "line" => consumer + 1 \notin batch[q]
    BY <1>2, <1>4 DEF StreamInv
  <1>7. \A q \in Pods : pc'[q] = "line" =>
          \A e \in batch'[q] : e <= consumer' /\ e \notin streamed'
    <2> SUFFICES ASSUME NEW q \in Pods, pc'[q] = "line", NEW e \in batch'[q]
                 PROVE  e <= consumer' /\ e \notin streamed'
      OBVIOUS
    <2>1. CASE q = p
      BY <2>1, <1>2, <1>6
    <2>2. CASE q # p
      BY <2>2, <1>2, <1>4 DEF StreamInv
    <2> QED BY <2>1, <2>2
  <1>8. \A q, r \in Pods : q # r /\ pc'[q] = "line" /\ pc'[r] = "line" =>
          \A e \in batch'[q] : e \notin batch'[r]
    <2> SUFFICES ASSUME NEW q \in Pods, NEW r \in Pods, q # r,
                        pc'[q] = "line", pc'[r] = "line", NEW e \in batch'[q]
                 PROVE  e \notin batch'[r]
      OBVIOUS
    <2>1. CASE q = p
      BY <2>1, <1>2, <1>6
    <2>2. CASE r = p
      BY <2>2, <1>2, <1>6
    <2>3. CASE q # p /\ r # p
      BY <2>3, <1>2 DEF StreamInv
    <2> QED BY <2>1, <2>2, <2>3
  <1>9. StreamInv'
    BY <1>5, <1>7, <1>8 DEF StreamInv
  <1> QED BY <1>1, <1>3, <1>9

\* The sink's answer, or none.
LEMMA SendStep ==
  ASSUME IInv, NEW p \in Pods,
         \/ \E e \in Events : SendOK(p, e) \/ SendFail(p, e)
         \/ SendStopped(p)
  PROVE  IInv'
  <1> USE RolloutAssumption DEF IInv, Pods, Events, Settled
  <1>1. ASSUME NEW e \in Events, SendOK(p, e) PROVE IInv'
    <2>0. /\ published' = published /\ consumer' = consumer /\ phase' = phase
          /\ file' = file /\ next' = next /\ skipped' = skipped
          /\ e \in batch[p] /\ acked' = acked \cup {e}
          /\ streamed' \in {streamed, streamed \cup {e}}
          /\ \E l \in {"stream", "emit", "commit"} : pc' = [pc EXCEPT ![p] = l]
          /\ batch' = [batch EXCEPT ![p] = @ \ {e}]
      BY <1>1 DEF SendOK, Post, IsHead, Goto, server
    <2>1. TypeOK'
      BY <2>0 DEF TypeOK
    <2>2. /\ acked' = acked \cup {e} /\ skipped' = skipped /\ e \in batch[p]
          /\ file' = file /\ next' = next /\ consumer' = consumer
          /\ batch'[p] = batch[p] \ {e}
          /\ \A q \in Pods \ {p} : pc'[q] = pc[q] /\ batch'[q] = batch[q]
      BY <1>1 DEF SendOK, Post, IsHead, Goto, server, TypeOK
    <2>3. \/ pc[p] = "line" /\ pc'[p] = "stream" /\ streamed' = streamed \cup {e}
          \/ /\ pc[p] = "emit" /\ streamed' = streamed
             /\ pc'[p] \in {"emit", "commit"} /\ (pc'[p] = "commit" => batch'[p] = {})
      BY <1>1 DEF SendOK, Post, Goto, TypeOK
    <2>4. CursorSound' /\ PollInv'
      BY <2>2, <2>3 DEF CursorSound, PollInv
    <2>5. StreamInv'
      BY <2>2, <2>3 DEF StreamInv
    <2> QED BY <2>1, <2>4, <2>5
  <1>2. ASSUME NEW e \in Events, SendFail(p, e) PROVE IInv'
    <2> DEFINE l == IF pc[p] = "line" THEN "stream" ELSE "poll"
    <2>1. /\ Done(p, l) /\ UNCHANGED <<published, consumer, phase, file, acked, skipped>>
          /\ e \in batch[p]
          /\ streamed' = IF pc[p] = "line" THEN streamed \cup {e} ELSE streamed
      BY <1>2 DEF SendFail, Post, IsHead, server
    <2>2. l \in {"down", "poll", "stream"}
      OBVIOUS
    <2> HIDE DEF l
    <2>3. streamed' \subseteq 1..published
      BY <2>1 DEF TypeOK
    <2>4. TypeOK'
      BY <2>1, <2>2, <2>3, DoneFacts DEF TypeOK
    <2>5. CursorSound'
      BY <2>1 DEF CursorSound
    <2>6. PollInv' /\ StreamInv'
      BY <2>1, <2>2, DoneKeeps
    <2> QED BY <2>4, <2>5, <2>6
  <1>3. CASE SendStopped(p)
    <2> DEFINE l == IF pc[p] = "line" THEN "stream" ELSE "poll"
    <2>1. Done(p, l) /\ UNCHANGED <<published, consumer, phase, file, acked, streamed, skipped>>
      BY <1>3 DEF SendStopped, server, history
    <2>2. l \in {"down", "poll", "stream"}
      OBVIOUS
    <2> HIDE DEF l
    <2>3. TypeOK'
      BY <2>1, <2>2, DoneFacts DEF TypeOK
    <2>4. CursorSound'
      BY <2>1 DEF CursorSound
    <2>5. PollInv' /\ StreamInv'
      BY <2>1, <2>2, DoneKeeps
    <2> QED BY <2>3, <2>4, <2>5
  <1> QED BY <1>1, <1>2, <1>3

\* The commit of a batch: everything up to the new cursor is settled.
LEMMA CommitStep ==
  ASSUME IInv, NEW p \in Pods, Commit(p)
  PROVE  IInv'
  <1> USE RolloutAssumption DEF IInv, Pods, Events, Settled
  <1>1. /\ Done(p, "poll") /\ UNCHANGED <<published, consumer, phase, acked, streamed, skipped>>
        /\ pc[p] = "commit" /\ file' = [file EXCEPT ![p] = next[p]]
    BY DEF Commit, server, history
  <1>2. file' \in [Pods -> 0..published]
    BY <1>1 DEF TypeOK
  <1>3. TypeOK'
    BY <1>1, <1>2, DoneFacts DEF TypeOK
  <1>4. \A f \in 1..next[p] : f \in Settled
    BY <1>1 DEF PollInv, TypeOK
  <1>5. CursorSound'
    BY <1>1, <1>4 DEF CursorSound, TypeOK
  <1>6. PollInv' /\ StreamInv'
    BY <1>1, DoneKeeps
  <1> QED BY <1>3, <1>5, <1>6

\* Every step keeps the inductive invariant.
LEMMA NextIInv == IInv /\ [Next]_vars => IInv'
  <1> SUFFICES ASSUME IInv, [Next]_vars PROVE IInv'
    OBVIOUS
  <1>1. CASE Publish
    <2> USE DEF IInv
    <2>1. /\ published \in Nat /\ published < NumEvents /\ published' = published + 1
          /\ UNCHANGED <<consumer, phase, pc, next, batch, file, acked, streamed, skipped>>
      BY <1>1, RolloutAssumption DEF Publish, session, history, TypeOK
    <2>2. 0..published \subseteq 0..published' /\ 1..published \subseteq 1..published'
      BY <2>1
    <2>3. published' \in 0..NumEvents
      BY <2>1, RolloutAssumption
    <2>4. TypeOK'
      BY <2>1, <2>2, <2>3 DEF TypeOK
    <2>5. CursorSound' /\ PollInv' /\ StreamInv'
      BY <2>1 DEF CursorSound, PollInv, StreamInv, Settled
    <2> QED BY <2>4, <2>5
  <1>2. CASE UNCHANGED vars
    BY <1>2 DEF vars, server, session, history, IInv, TypeOK, CursorSound, PollInv,
                StreamInv, Settled
  <1> QED BY <1>1, <1>2, IdleStep, FetchStep, ScanStep, SendStep, CommitStep DEF Next

\* The invariant holds throughout.
LEMMA Invariance == Spec => []IInv
  BY InitIInv, NextIInv, PTL DEF Spec

\* Types: in particular no cursor, line or batch is ahead of the log.
THEOREM TypeCorrect == Spec => []TypeOK
  BY Invariance, PTL DEF IInv

\* No pod's cursor file ever passes an event that is not settled, through mode
\* switches and rolling updates (Run's poll and stream sessions).
THEOREM RolloutCursorSound == Spec => []CursorSound
  BY Invariance, PTL DEF IInv

\* A polling pod sends no event while an earlier one is unsettled (the break of
\* PollClient.Run's emit loop).
THEOREM RolloutPollInOrder == Spec => PollInOrder
  <1>1. ASSUME IInv PROVE
          \A p \in Pods : \A e \in Events :
            pc[p] = "emit" /\ (SendOK(p, e) \/ SendFail(p, e))
              => \A f \in 1..(e - 1) : f \in Settled
    <2> SUFFICES ASSUME NEW p \in Pods, NEW e \in Events, pc[p] = "emit", IsHead(p, e),
                        NEW f \in 1..(e - 1)
                 PROVE  f \in Settled
      BY DEF SendOK, SendFail, Post
    <2>1. e <= next[p] /\ next[p] \in Nat
      BY <1>1, RolloutAssumption DEF IInv, PollInv, IsHead, TypeOK
    <2>2. f \in Events /\ f <= next[p] /\ f < e
      BY <2>1, RolloutAssumption DEF Events
    <2>3. f \notin batch[p]
      BY <2>2, RolloutAssumption DEF IsHead, Events
    <2> QED BY <1>1, <2>2, <2>3 DEF IInv, PollInv
  <1> QED BY <1>1, Invariance, PTL DEF PollInOrder

\* No event is POSTed from the stream twice, by one pod or by two (streamOnce).
THEOREM RolloutStreamAtMostOnce == Spec => StreamAtMostOnce
  <1>1. ASSUME IInv PROVE
          \A p \in Pods : \A e \in Events :
            pc[p] = "line" /\ (SendOK(p, e) \/ SendFail(p, e)) => e \notin streamed
    BY <1>1 DEF IInv, StreamInv, SendOK, SendFail, Post, IsHead
  <1> QED BY <1>1, Invariance, PTL DEF StreamAtMostOnce
=============================================================================
