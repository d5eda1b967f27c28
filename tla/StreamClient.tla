---------------------------- MODULE StreamClient ----------------------------
(***************************************************************************)
(* The streaming transport of the receive adapter:                         *)
(* cmd/receive-adapter/source/stream.go (StreamClient.run, streamOnce),    *)
(* with SinkClient.Send and the session that run.go puts around it.        *)
(*                                                                         *)
(* The resume position is the server's: a durable consumer that is assumed *)
(* to advance only when the client's scanner has returned a line, so that  *)
(* lines in flight at a disconnect are sent again.  This is the kindest    *)
(* server the client could have; a server that advances when it writes to  *)
(* the socket loses more.                                                  *)
(*                                                                         *)
(* Faults: "sink" (a Send can fail while the session context is live),     *)
(* "crash" (the process can die at any point).                             *)
(***************************************************************************)
EXTENDS Naturals

CONSTANTS NumEvents,        \* bound: how many events the server ever publishes
          Malformed,        \* positions whose line json.Unmarshal rejects
          Oversize,         \* positions whose line is over the scanner's 4MB
          BackoffInitial,   \* streamBackoffInitial, in milliseconds
          BackoffCap,       \* streamBackoffCap, in milliseconds
          MaxWaits,         \* bound of the history variable waits
          Faults

ASSUME StreamAssumption ==
  /\ NumEvents \in Nat
  /\ Malformed \subseteq 1..NumEvents
  /\ Oversize \subseteq 1..NumEvents
  /\ BackoffInitial \in Nat \ {0}
  /\ BackoffCap \in Nat /\ BackoffInitial <= BackoffCap
  /\ MaxWaits \in Nat
  /\ Faults \subseteq {"sink", "crash"}

\* The initial backoff doubled n times.
Doubled[n \in Nat] == IF n = 0 THEN BackoffInitial ELSE 2 * Doubled[n - 1]

\* The history variable counts on until the backoff is at its cap.
ASSUME WaitsAssumption == Doubled[MaxWaits] >= BackoffCap

VARIABLES
  published,   \* server: the log is 1..published
  consumer,    \* server: position of the adapter's durable consumer
  pc,          \* where run is; "down" between two sessions
  line,        \* the event being emitted
  gotEvent,    \* streamOnce's result on this connection
  backoff,     \* run's local backoff, in milliseconds
  ctxDone,     \* the session context is done
  received,    \* sink: events some POST of which arrived (history)
  acked,       \* events for which Send returned nil (history)
  waits        \* backoffs slept since the last event or session start (history)

vars == <<published, consumer, pc, line, gotEvent, backoff, ctxDone,
          received, acked, waits>>

Events == 1..NumEvents

TypeOK == /\ published \in 0..NumEvents
          /\ consumer \in 0..published
          /\ pc \in {"down", "dial", "scan", "emit", "reply", "ended", "wait"}
          /\ line \in 0..consumer
          /\ gotEvent \in BOOLEAN
          /\ backoff \in BackoffInitial..BackoffCap
          /\ ctxDone \in BOOLEAN
          /\ received \subseteq 1..consumer
          /\ acked \subseteq received
          /\ waits \in 0..MaxWaits

Init == /\ published = 0 /\ consumer = 0
        /\ pc = "down"
        /\ line = 0 /\ gotEvent = FALSE
        /\ backoff = BackoffInitial
        /\ ctxDone = FALSE
        /\ received = {} /\ acked = {} /\ waits = 0

-----------------------------------------------------------------------------
(* The server and the session.                                             *)

Publish == /\ published < NumEvents
           /\ published' = published + 1
           /\ UNCHANGED <<consumer, pc, line, gotEvent, backoff, ctxDone,
                          received, acked, waits>>

Start == /\ pc = "down"
         /\ pc' = "dial"
         /\ backoff' = BackoffInitial /\ waits' = 0
         /\ line' = 0 /\ gotEvent' = FALSE /\ ctxDone' = FALSE
         /\ UNCHANGED <<published, consumer, received, acked>>

CtxDone == /\ pc # "down"
           /\ ~ctxDone
           /\ ctxDone' = TRUE
           /\ UNCHANGED <<published, consumer, pc, line, gotEvent, backoff,
                          received, acked, waits>>

\* run returns at one of its three looks at the context.
SessionEnd == /\ pc \in {"dial", "ended", "wait"}
              /\ ctxDone
              /\ pc' = "down"
              /\ UNCHANGED <<published, consumer, line, gotEvent, backoff, ctxDone,
                             received, acked, waits>>

-----------------------------------------------------------------------------
(* streamOnce: one connection.                                             *)

DialOK == /\ pc = "dial"
          /\ ~ctxDone
          /\ pc' = "scan"
          /\ gotEvent' = FALSE
          /\ UNCHANGED <<published, consumer, line, backoff, ctxDone,
                         received, acked, waits>>

\* Transport error, or a status other than 200.
DialFail == /\ pc = "dial"
            /\ pc' = "ended"
            /\ gotEvent' = FALSE
            /\ UNCHANGED <<published, consumer, line, backoff, ctxDone,
                           received, acked, waits>>

\* Variant: a malformed line ends the connection before it is consumed.
ScanStrict == /\ pc = "scan"
              /\ consumer < published
              /\ consumer + 1 \notin Oversize \cup Malformed
              /\ consumer' = consumer + 1
              /\ line' = consumer'
              /\ pc' = "emit"
              /\ UNCHANGED <<published, gotEvent, backoff, ctxDone,
                             received, acked, waits>>

\* scanner.Scan returns the next line; a malformed one is skipped.  Lines
\* already buffered are returned even when the context is done.
Scan == /\ pc = "scan"
        /\ consumer < published
        /\ consumer + 1 \notin Oversize
        /\ consumer' = consumer + 1
        /\ IF consumer' \in Malformed
             THEN UNCHANGED <<pc, line>>
             ELSE pc' = "emit" /\ line' = consumer'
        /\ UNCHANGED <<published, gotEvent, backoff, ctxDone,
                       received, acked, waits>>

\* scanner.Scan returns false: end of stream, a read error, a done context, or
\* a line over the limit (bufio.ErrTooLong).
ScanEnd == /\ pc = "scan"
           /\ pc' = "ended"
           /\ UNCHANGED <<published, consumer, line, gotEvent, backoff, ctxDone,
                          received, acked, waits>>

Post(e) == /\ pc = "emit"
           /\ line = e
           /\ ~ctxDone
           /\ received' = received \cup {e}
           /\ pc' = "reply"
           /\ UNCHANGED <<published, consumer, line, gotEvent, backoff, ctxDone,
                          acked, waits>>

SendOK == /\ pc = "reply"
          /\ acked' = acked \cup {line}
          /\ gotEvent' = TRUE
          /\ pc' = "scan" /\ line' = 0
          /\ UNCHANGED <<published, consumer, backoff, ctxDone,
                         received, waits>>

\* Variant: emit is retried in place until the sink accepts the event.
SendRetry == /\ pc \in {"emit", "reply"}
             /\ ctxDone \/ "sink" \in Faults
             /\ pc' = "emit"
             /\ UNCHANGED <<published, consumer, line, gotEvent, backoff, ctxDone,
                            received, acked, waits>>

\* The failure is logged and the loop goes on with the next line.
SendFail == /\ pc \in {"emit", "reply"}
            /\ ctxDone \/ "sink" \in Faults
            /\ gotEvent' = TRUE
            /\ pc' = "scan" /\ line' = 0
            /\ UNCHANGED <<published, consumer, backoff, ctxDone,
                           received, acked, waits>>

-----------------------------------------------------------------------------
(* run: reconnect with exponential backoff.                                *)

\* A connection that saw an event resets the backoff.
Disconnected == /\ pc = "ended"
                /\ ~ctxDone
                /\ backoff' = IF gotEvent THEN BackoffInitial ELSE backoff
                /\ waits' = IF gotEvent THEN 0 ELSE waits
                /\ pc' = "wait"
                /\ UNCHANGED <<published, consumer, line, gotEvent, ctxDone,
                               received, acked>>

CountWait == waits' = IF waits < MaxWaits THEN waits + 1 ELSE waits

\* Variant: the ceiling is tested before the doubling.
WaitOverCap == /\ pc = "wait"
               /\ backoff' = IF backoff > BackoffCap THEN BackoffCap ELSE 2 * backoff
               /\ CountWait
               /\ pc' = "dial"
               /\ UNCHANGED <<published, consumer, line, gotEvent, ctxDone,
                              received, acked>>

\* time.After(backoff) fires; it can win over a done context.
Wait == /\ pc = "wait"
        /\ backoff' = IF 2 * backoff > BackoffCap THEN BackoffCap ELSE 2 * backoff
        /\ CountWait
        /\ pc' = "dial"
        /\ UNCHANGED <<published, consumer, line, gotEvent, ctxDone,
                       received, acked>>

Crash == /\ "crash" \in Faults
         /\ pc # "down"
         /\ pc' = "down"
         /\ UNCHANGED <<published, consumer, line, gotEvent, backoff, ctxDone,
                        received, acked, waits>>

Next == \/ Publish
        \/ Start
        \/ CtxDone
        \/ SessionEnd
        \/ DialOK
        \/ DialFail
        \/ Scan
        \/ ScanEnd
        \/ \E e \in Events : Post(e)
        \/ SendOK
        \/ SendFail
        \/ Disconnected
        \/ Wait
        \/ Crash

Spec == Init /\ [][Next]_vars

-----------------------------------------------------------------------------
(* Properties.                                                             *)

D == INSTANCE Delivery WITH frontier <- consumer, skipped <- {}

\* The promise sink.go makes for both transports ("The poll/stream client must
\* NOT commit its cursor if Send returns non-nil"), the resume position being
\* the durable consumer's: everything before the event in hand is settled.
StreamAtLeastOnce == \A e \in Events : e <= consumer /\ e # line => e \in D!Settled

\* What streamOnce provides instead is at-most-once, in order: an event POSTed
\* to the sink is later in the log than every event POSTed before it, however
\* connections, sessions and crashes interleave.
OnceInOrder == [][\A e \in Events : Post(e) => \A f \in received : f < e]_vars

\* The wait before a reconnect is the initial backoff doubled once for every
\* wait since the last event, and stops growing at the cap (run's comment: "an
\* exponential backoff capped at streamBackoffCap").
BackoffSchedule ==
  pc # "down" =>
    backoff = IF Doubled[waits] > BackoffCap THEN BackoffCap ELSE Doubled[waits]

\* Both ends keep working and the session context always ends some day.  A
\* connection that can be made is made infinitely often, and carries a line
\* infinitely often.
Fairness == /\ WF_vars(Start) /\ WF_vars(CtxDone) /\ WF_vars(SessionEnd)
            /\ WF_vars(DialFail) /\ SF_vars(DialOK)
            /\ SF_vars(Scan) /\ WF_vars(ScanEnd)
            /\ WF_vars(SendOK) /\ WF_vars(SendFail)
            /\ WF_vars(\E e \in Events : Post(e))
            /\ WF_vars(Disconnected) /\ WF_vars(Wait)

FairSpec == Spec /\ Fairness

\* Every published event is consumed: no disconnect, backoff, session refresh
\* or sink failure stalls the stream for good, unless a line is over the limit.
StreamProgress == \A e \in Events : (published >= e) ~> (consumer >= e)
=============================================================================
