------------------------------ MODULE Rollout ------------------------------
(***************************************************************************)
(* The receive adapter across mode switches and rolling updates: the run   *)
(* loop of run.go choosing poll or stream anew for every session, in the   *)
(* pods of one adapter Deployment (resources/deployment.go), of which an   *)
(* update runs two at a time (main.go).  PollClient and StreamClient have  *)
(* the details of one transport in one pod; here a Send is one step, the   *)
(* backoff is left out, and reading and writing the cursor file succeed,   *)
(* so that the file is the cursor.                                         *)
(*                                                                         *)
(* Every pod has a cursor file of its own, on an emptyDir.  The durable    *)
(* consumer of the stream is the server's, one for all pods; it gives a    *)
(* line to one of them and counts it when the scanner has returned it.     *)
(***************************************************************************)
EXTENDS Naturals

CONSTANTS NumEvents,   \* bound: how many events the server ever publishes
          NumPods,     \* bound: pods the Deployment ever has, one per template
          Malformed,   \* events whose envelope does not decode
          Modes        \* pod -> the modes ResolveMode can come to in it

ASSUME RolloutAssumption ==
  /\ NumEvents \in Nat
  /\ NumPods \in Nat \ {0}
  /\ Malformed \subseteq 1..NumEvents
  /\ Modes \in [1..NumPods -> SUBSET {"poll", "stream"}]

Events == 1..NumEvents
Pods == 1..NumPods

VARIABLES
  published,   \* server: the log is 1..published
  consumer,    \* server: position of the durable consumer
  phase,       \* pod -> its place in the rollout; "term" after SIGTERM
  pc,          \* pod -> where its run loop is; "down" between two sessions
  file,        \* pod -> its cursor file, 0 when there is none
  next,        \* pod -> next_cursor of the response being worked on
  batch,       \* pod -> events of the response, or the line, not yet emitted
  acked,       \* events for which some Send returned nil (history)
  streamed,    \* events some stream session has POSTed (history)
  skipped      \* events the server passed over for want of a since (history)

server == <<published, consumer>>
session == <<pc, next, batch>>
history == <<acked, streamed, skipped>>
vars == <<server, phase, session, file, history>>

Settled == acked \cup skipped \cup Malformed

TypeOK == /\ published \in 0..NumEvents
          /\ consumer \in 0..published
          /\ phase \in [Pods -> {"absent", "up", "term", "gone"}]
          /\ pc \in [Pods -> {"down", "poll", "emit", "commit", "stream", "line"}]
          /\ file \in [Pods -> 0..published]
          /\ next \in [Pods -> 0..published]
          /\ batch \in [Pods -> SUBSET (1..published)]
          /\ acked \subseteq 1..published
          /\ streamed \subseteq 1..published
          /\ skipped \subseteq 1..published

Init == /\ published = 0 /\ consumer = 0
        /\ phase = [p \in Pods |-> IF p = 1 THEN "up" ELSE "absent"]
        /\ pc = [p \in Pods |-> "down"]
        /\ file = [p \in Pods |-> 0]
        /\ next = [p \in Pods |-> 0]
        /\ batch = [p \in Pods |-> {}]
        /\ acked = {} /\ streamed = {} /\ skipped = {}

Goto(p, l) == pc' = [pc EXCEPT ![p] = l]

\* Back to waiting for a tick or for the next line, or out of the session.
Done(p, l) == /\ Goto(p, l)
              /\ next' = [next EXCEPT ![p] = 0]
              /\ batch' = [batch EXCEPT ![p] = {}]

Publish == /\ published < NumEvents
           /\ published' = published + 1
           /\ UNCHANGED <<consumer, phase, session, file, history>>

-----------------------------------------------------------------------------
(* The rolling update: one pod more than wanted, none less.                *)

\* A new template: its pod is created beside the running one.
Create(p) == /\ phase[p] = "absent" /\ phase[p - 1] = "up"
             /\ phase' = [phase EXCEPT ![p] = "up"]
             /\ UNCHANGED <<server, session, file, history>>

\* /readyz answers as soon as the process listens, before Run has resolved a
\* mode or fetched anything; the older pod then gets its SIGTERM.
Terminate(p) == /\ phase[p] = "up" /\ \E q \in Pods : q > p /\ phase[q] = "up"
                /\ phase' = [phase EXCEPT ![p] = "term"]
                /\ UNCHANGED <<server, session, file, history>>

\* Run returns at its look at the context, and main with it; or the grace period
\* is over.
Exit(p) == /\ phase[p] = "term"
           /\ phase' = [phase EXCEPT ![p] = "gone"]
           /\ Done(p, "down")
           /\ UNCHANGED <<server, file, history>>

-----------------------------------------------------------------------------
(* The run loop of pod p.  "term" is a context that is done.               *)

SessionStart(p, mode) == /\ pc[p] = "down" /\ phase[p] = "up"
                         /\ mode \in Modes[p]
                         /\ Goto(p, mode)
                         /\ UNCHANGED <<server, phase, next, batch, file, history>>

\* The refresh window is over.
SessionEnd(p) == /\ pc[p] \in {"poll", "stream"}
                 /\ Goto(p, "down")
                 /\ UNCHANGED <<server, phase, next, batch, file, history>>

\* A poll request from the pod's own cursor; without one the server starts
\* where it likes.
Fetch(p, s, n) ==
  /\ pc[p] = "poll" /\ phase[p] = "up"
  /\ s <= n /\ n <= published
  /\ file[p] # 0 => s = file[p]
  /\ skipped' = IF file[p] = 0 THEN skipped \cup 1..s ELSE skipped
  /\ next' = [next EXCEPT ![p] = n]
  /\ batch' = [batch EXCEPT ![p] = ((s + 1)..n) \ Malformed]
  /\ Goto(p, IF batch'[p] = {} THEN "commit" ELSE "emit")
  /\ UNCHANGED <<server, phase, file, acked, streamed>>

\* Variant: the stream keeps the cursor file up to date as well.
ScanCommits(p) == /\ pc[p] = "stream"
                  /\ consumer < published
                  /\ consumer' = consumer + 1
                  /\ file' = [file EXCEPT ![p] = consumer']
                  /\ batch' = [batch EXCEPT ![p] = {consumer'} \ Malformed]
                  /\ Goto(p, IF batch'[p] = {} THEN "stream" ELSE "line")
                  /\ UNCHANGED <<published, phase, next, history>>

\* A line of the stream.  Lines already buffered come even after SIGTERM.
Scan(p) == /\ pc[p] = "stream"
           /\ consumer < published
           /\ consumer' = consumer + 1
           /\ batch' = [batch EXCEPT ![p] = {consumer'} \ Malformed]
           /\ Goto(p, IF batch'[p] = {} THEN "stream" ELSE "line")
           /\ UNCHANGED <<published, phase, next, file, history>>

IsHead(p, e) == e \in batch[p] /\ \A f \in batch[p] : e <= f

\* Send reaches the sink for e; a done context stops it first.
Post(p, e) == /\ pc[p] \in {"emit", "line"} /\ phase[p] = "up"
              /\ IsHead(p, e)
              /\ streamed' = IF pc[p] = "line" THEN streamed \cup {e} ELSE streamed

\* A 2xx.
SendOK(p, e) == /\ Post(p, e)
                /\ acked' = acked \cup {e}
                /\ batch' = [batch EXCEPT ![p] = @ \ {e}]
                /\ Goto(p, IF pc[p] = "line" THEN "stream"
                           ELSE IF batch'[p] = {} THEN "commit" ELSE "emit")
                /\ UNCHANGED <<server, phase, next, file, skipped>>

\* Variant: a failed event counts as delivered.
SendFailIgnored(p, e) == /\ Post(p, e)
                         /\ batch' = [batch EXCEPT ![p] = @ \ {e}]
                         /\ Goto(p, IF pc[p] = "line" THEN "stream"
                                    ELSE IF batch'[p] = {} THEN "commit" ELSE "emit")
                         /\ UNCHANGED <<server, phase, next, file, acked, skipped>>

\* Variant: the rest of the batch is emitted before it is fetched again.
SendFailNoBreak(p, e) == /\ Post(p, e)
                         /\ batch' = [batch EXCEPT ![p] = @ \ {e}]
                         /\ Goto(p, IF pc[p] = "line" THEN "stream"
                                    ELSE IF batch'[p] = {} THEN "poll" ELSE "emit")
                         /\ UNCHANGED <<server, phase, next, file, acked, skipped>>

\* Variant: a failed emit is retried in both transports.
SendFailRetried(p, e) == /\ Post(p, e)
                         /\ UNCHANGED <<server, phase, session, file, acked, skipped>>

\* Any other answer, or none: poll gives up the batch, stream the event.
SendFail(p, e) == /\ Post(p, e)
                  /\ Done(p, IF pc[p] = "line" THEN "stream" ELSE "poll")
                  /\ UNCHANGED <<server, phase, file, acked, skipped>>

\* The same, before the sink has seen the event: no connection, or a done
\* context.
SendStopped(p) == /\ pc[p] \in {"emit", "line"}
                  /\ Done(p, IF pc[p] = "line" THEN "stream" ELSE "poll")
                  /\ UNCHANGED <<server, phase, file, history>>

\* Variant: the cursor kept is that of the next event to come.
CommitPastEnd(p) == /\ pc[p] = "commit"
                    /\ file' = [file EXCEPT ![p] = next[p] + 1]
                    /\ Done(p, "poll")
                    /\ UNCHANGED <<server, phase, history>>

\* The whole batch was accepted.
Commit(p) == /\ pc[p] = "commit"
             /\ file' = [file EXCEPT ![p] = next[p]]
             /\ Done(p, "poll")
             /\ UNCHANGED <<server, phase, history>>

Next == \/ Publish
        \/ \E p \in Pods :
             \/ Create(p) \/ Terminate(p) \/ Exit(p)
             \/ \E mode \in {"poll", "stream"} : SessionStart(p, mode)
             \/ SessionEnd(p)
             \/ \E s, n \in 0..NumEvents : Fetch(p, s, n)
             \/ Scan(p)
             \/ \E e \in Events : SendOK(p, e)
             \/ \E e \in Events : SendFail(p, e)
             \/ SendStopped(p)
             \/ Commit(p)

Spec == Init /\ [][Next]_vars

-----------------------------------------------------------------------------
(* Properties.                                                             *)

\* No pod's cursor is past an event that nobody delivered: an event the stream
\* dropped because its Send failed is still ahead of the cursor when the run
\* loop switches back to polling (streamOnce goes on after a failed emit, Run's
\* poll session starts from the file).
CursorSound == \A p \in Pods : \A e \in 1..file[p] : e \in Settled

\* A polling pod POSTs no event while an earlier one is unsettled, whatever the
\* other pod and the stream sessions in between have delivered or dropped.
PollInOrder ==
  [][\A p \in Pods : \A e \in Events :
       pc[p] = "emit" /\ (SendOK(p, e) \/ SendFail(p, e))
         => \A f \in 1..(e - 1) : f \in Settled]_vars

\* An event is POSTed from the stream at most once, also when two pods stream
\* from the same consumer: streamOnce does not retry.
StreamAtMostOnce ==
  [][\A p \in Pods : \A e \in Events :
       pc[p] = "line" /\ (SendOK(p, e) \/ SendFail(p, e)) => e \notin streamed]_vars

-----------------------------------------------------------------------------
(* Liveness.                                                               *)

\* The new pod is created and its run loop goes on; its windows are longer than a
\* poll interval, and neither the server nor the sink fails it for ever, nor for
\* ever on batches of one size.  Nothing is asked of the older pods.
Fairness ==
  /\ WF_vars(\E p \in Pods : Create(p))
  /\ WF_vars(SessionStart(NumPods, "poll"))
  /\ SF_vars(Fetch(NumPods, file[NumPods], published))
  /\ WF_vars(SendStopped(NumPods)) /\ WF_vars(Commit(NumPods))
  /\ \A n \in Events : \A e \in 1..n :
       SF_vars(next[NumPods] = n /\ SendOK(NumPods, e))

FairSpec == Spec /\ Fairness

\* A rollout to a source in poll mode leaves no event behind: again and again
\* all there is has been accepted by the sink, from whichever pod and transport,
\* or passed over by the server at a request without a cursor.  What the old
\* pod's stream dropped is made good by the new pod, which polls from its own
\* cursor file.
HandsOver == []<>(\A e \in 1..published : e \in Settled)
=============================================================================
