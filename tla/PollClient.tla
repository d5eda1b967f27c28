----------------------------- MODULE PollClient -----------------------------
(***************************************************************************)
(* The polling transport of the receive adapter:                           *)
(* cmd/receive-adapter/source/poll.go (PollClient.Run, fetch, readCursor,  *)
(* writeCursor), with the sink call of sink.go (SinkClient.Send) and the   *)
(* session that run.go (Run) puts around it.                               *)
(*                                                                         *)
(* A cursor is the log position it denotes, 0 standing for the empty       *)
(* string.  The server, the sink, the disk and the kubelet are the         *)
(* environment; Faults says which of their failures an instance has:       *)
(*   "read"   os.ReadFile of the cursor file fails other than ErrNotExist  *)
(*   "write"  one of the steps of writeCursor before the rename fails      *)
(*   "crash"  the process dies at any point, and the container restarts    *)
(*   "evict"  the pod is replaced: its emptyDir, and the cursor, are gone  *)
(*   "slow"   the session deadline may fall inside a batch                 *)
(***************************************************************************)
EXTENDS Naturals

CONSTANTS NumEvents,   \* bound: how many events the server ever publishes
          Malformed,   \* positions whose envelope json.Unmarshal rejects
          Poison,      \* events the sink always answers with an error status
          Faults       \* which failures of the environment can happen

ASSUME PollAssumption ==
  /\ NumEvents \in Nat
  /\ Malformed \subseteq 1..NumEvents
  /\ Poison \subseteq 1..NumEvents
  /\ Faults \subseteq {"read", "write", "crash", "evict", "slow"}

VARIABLES
  published,   \* server: the log is 1..published
  file,        \* the cursor file of the pod's cursor volume
  pc,          \* where Run is; "down" between two sessions
  cursor,      \* Run's local cursor
  next,        \* next_cursor of the response being worked on
  events,      \* decoded events of that response not yet emitted
  ctxDone,     \* the session context is done
  received,    \* sink: events some POST of which arrived (history)
  acked,       \* events for which Send returned nil (history)
  skipped      \* events the server passed over for want of a since (history)

local == <<cursor, next, events, ctxDone>>
history == <<received, acked, skipped>>
vars == <<published, file, pc, local, history>>

Events == 1..NumEvents
Positions == 0..NumEvents
Settled == acked \cup skipped \cup Malformed

\* The event the emit loop is at: decoded events keep the response's order,
\* which is the log's.
IsHead(e) == e \in events /\ \A f \in events : e <= f

TypeOK == /\ published \in Positions
          /\ file \in 0..published
          /\ pc \in {"down", "select", "fetch", "emit", "reply", "commit"}
          /\ cursor \in 0..published
          /\ next \in 0..published
          /\ events \subseteq 1..published
          /\ ctxDone \in BOOLEAN
          /\ received \subseteq 1..published
          /\ acked \subseteq 1..published
          /\ skipped \subseteq 1..published

Init == /\ published = 0
        /\ file = 0
        /\ pc = "down"
        /\ cursor = 0 /\ next = 0 /\ events = {} /\ ctxDone = FALSE
        /\ received = {} /\ acked = {} /\ skipped = {}

-----------------------------------------------------------------------------
(* The server and the session.                                             *)

Publish == /\ published < NumEvents
           /\ published' = published + 1
           /\ UNCHANGED <<file, pc, local, history>>

\* A missing file reads as the empty cursor.  A read error too: Run drops it.
readCursor == \/ cursor' = file
              \/ "read" \in Faults /\ cursor' = 0

\* A temporary file renamed over the old one: all or nothing.
writeCursor(c) == \/ file' = c
                  \/ "write" \in Faults /\ file' = file

\* Variant: the cursor file is never read back.
StartFromEmpty == /\ pc = "down"
                  /\ pc' = "select"
                  /\ cursor' = 0 /\ next' = 0 /\ events' = {} /\ ctxDone' = FALSE
                  /\ UNCHANGED <<published, file, history>>

\* Run opens a session and enters PollClient.Run.  What the previous session
\* held in memory is gone.
Start == /\ pc = "down"
         /\ pc' = "select"
         /\ readCursor
         /\ next' = 0 /\ events' = {} /\ ctxDone' = FALSE
         /\ UNCHANGED <<published, file, history>>

\* The deadline of the session context, or SIGTERM through its parent.
CtxDone == /\ pc # "down"
           /\ pc = "select" \/ "slow" \in Faults
           /\ ~ctxDone
           /\ ctxDone' = TRUE
           /\ UNCHANGED <<published, file, pc, cursor, next, events, history>>

SessionEnd == /\ pc = "select"
              /\ ctxDone
              /\ pc' = "down"
              /\ UNCHANGED <<published, file, local, history>>

-----------------------------------------------------------------------------
(* One tick: fetch, emit the batch, advance the cursor.                    *)

\* select picks at random among ready cases: a tick can win over Done.
Tick == /\ pc = "select"
        /\ pc' = "fetch"
        /\ UNCHANGED <<published, file, local, history>>

FetchFail == /\ pc = "fetch"
             /\ pc' = "select"
             /\ UNCHANGED <<published, file, local, history>>

\* The server answers with the log from s (exclusive) to n.  Without a since
\* parameter it starts where it likes.  next_cursor is n, or absent.
\* Envelopes that do not decode are dropped from the batch.
FetchOK(s, n, nx) ==
  /\ pc = "fetch"
  /\ ~ctxDone
  /\ s <= n /\ n <= published
  /\ cursor # 0 => s = cursor
  /\ nx \in {0, n}
  /\ skipped' = IF cursor = 0 THEN skipped \cup 1..s ELSE skipped
  /\ next' = nx
  /\ events' = ((s + 1)..n) \ Malformed
  /\ pc' = IF events' = {} THEN "commit" ELSE "emit"
  /\ UNCHANGED <<published, file, cursor, ctxDone, received, acked>>

\* SinkClient.Send: the POST reaches the sink; a done context stops it first.
Post(e) == /\ pc = "emit"
           /\ IsHead(e)
           /\ ~ctxDone
           /\ received' = received \cup {e}
           /\ pc' = "reply"
           /\ UNCHANGED <<published, file, local, acked, skipped>>

\* A 2xx: Send returns nil and the loop goes on to the next event.
SendOK(e) == /\ pc = "reply"
             /\ IsHead(e)
             /\ e \notin Poison
             /\ acked' = acked \cup {e}
             /\ events' = events \ {e}
             /\ pc' = IF events' = {} THEN "commit" ELSE "emit"
             /\ UNCHANGED <<published, file, cursor, next, ctxDone,
                            received, skipped>>

\* Variant: a failed event is logged and the loop continues with the next one,
\* the batch counting as delivered.
SendFailIgnored == /\ pc \in {"emit", "reply"}
                   /\ \E e \in events : IsHead(e) /\ events' = events \ {e}
                   /\ pc' = IF events' = {} THEN "commit" ELSE "emit"
                   /\ UNCHANGED <<published, file, cursor, next, ctxDone, history>>

\* Variant: allOK is false but the break is missing; the rest is still emitted.
SendFailNoBreak == /\ pc \in {"emit", "reply"}
                   /\ \E e \in events : IsHead(e) /\ events' = events \ {e}
                   /\ pc' = IF events' = {} THEN "select" ELSE "emit"
                   /\ UNCHANGED <<published, file, cursor, next, ctxDone, history>>

\* Send returns an error, before or after the sink saw the event: transport
\* failure, timeout, done context or a status other than 2xx.  The loop breaks,
\* allOK is false and the batch is abandoned without touching the cursor.
SendFail == /\ pc \in {"emit", "reply"}
            /\ pc' = "select"
            /\ UNCHANGED <<published, file, local, history>>

\* Variant: the cursor kept is that of the next event to come.
CommitPastEnd == /\ pc = "commit"
                 /\ pc' = "select"
                 /\ cursor' = IF next # 0 THEN next + 1 ELSE cursor
                 /\ file' = cursor'
                 /\ UNCHANGED <<published, next, events, ctxDone, history>>

\* Variant: the new cursor is kept in memory only.
CommitInMemory == /\ pc = "commit"
                  /\ pc' = "select"
                  /\ cursor' = IF next # 0 THEN next ELSE cursor
                  /\ UNCHANGED <<published, file, next, events, ctxDone, history>>

\* Variant: the empty next_cursor is not told apart from a position.
CommitEmpty == /\ pc = "commit"
               /\ pc' = "select"
               /\ cursor' = next /\ file' = next
               /\ UNCHANGED <<published, next, events, ctxDone, history>>

\* The whole batch was accepted.  A failed write leaves the old file and the
\* new in-memory cursor.
Commit == /\ pc = "commit"
          /\ pc' = "select"
          /\ IF next # 0 /\ next # cursor
               THEN cursor' = next /\ writeCursor(next)
               ELSE UNCHANGED <<cursor, file>>
          /\ UNCHANGED <<published, next, events, ctxDone, history>>

-----------------------------------------------------------------------------
(* Process and pod failures.                                               *)

Crash == /\ "crash" \in Faults
         /\ pc # "down"
         /\ pc' = "down"
         /\ UNCHANGED <<published, file, local, history>>

\* A rollout, a drain or a node failure: a new pod with an empty volume.
Evict == /\ "evict" \in Faults
         /\ pc' = "down"
         /\ file' = 0
         /\ UNCHANGED <<published, local, history>>

Fetch == \E s, n, nx \in Positions : FetchOK(s, n, nx)

Next == \/ Publish
        \/ Start
        \/ CtxDone
        \/ SessionEnd
        \/ Tick
        \/ FetchFail
        \/ Fetch
        \/ \E e \in Events : Post(e)
        \/ \E e \in Events : SendOK(e)
        \/ SendFail
        \/ Commit
        \/ Crash
        \/ Evict

Spec == Init /\ [][Next]_vars

-----------------------------------------------------------------------------
(* Safety.                                                                 *)

\* Neither the in-memory nor the persisted cursor is ever past an event the
\* sink has not accepted (poll.go, Run: it "only advances (and persists) the
\* cursor when every event in a batch has been emitted successfully").
NoLoss == \A e \in Events : e <= cursor \/ e <= file => e \in Settled

\* The sink never sees an event before an earlier one has been settled: the
\* emit loop of Run breaks at the first failure and re-fetches from there.
NoOvertaking == \A e \in received : \A f \in Events : f < e => f \in Settled

\* An event at or before the persisted cursor is not POSTed again, however
\* sessions, crashes and failed cursor writes interleave (readCursor at the
\* start of Run).  It needs the cursor file to be readable.
NoReplay == [][\A e \in Events : Post(e) => e > file]_vars

\* The cursor file goes back only with its volume: neither an empty next_cursor
\* nor a session that starts over from a stale file makes writeCursor replace it
\* by an earlier position.
CursorNeverRegresses == [][file' < file => Evict]_vars

\* Once a pod has a cursor file, no request of it leaves the choice of the
\* starting point to the server: the client "picks up where it left off across
\* restarts" (poll.go, PollClient), also when a crash or the end of a session
\* falls between the sink's answer and the cursor write.
ResumesWhereItLeftOff == [][file # 0 => skipped' = skipped]_vars

\* Run implements the delivery promise, the cursor file being the resume
\* position.
D == INSTANCE Delivery WITH frontier <- file
Promise == D!DeliverySpec

-----------------------------------------------------------------------------
(* Liveness.                                                               *)

FetchAll == FetchOK(cursor, published, published)
TickInTime == Tick /\ ~ctxDone
CommitOK == Commit /\ file' # file

\* The run loop keeps opening sessions and a done context ends them: select
\* chooses uniformly, so ticks cannot win over Done for ever.  A session is
\* longer than the poll interval (TickInTime).  The server, the sink, the disk
\* and the process may fail any number of times, but no step fails or is cut
\* short for ever, nor for ever on batches of one size only.
Fairness == /\ WF_vars(Start) /\ SF_vars(CtxDone) /\ SF_vars(SessionEnd)
            /\ SF_vars(TickInTime)
            /\ WF_vars(FetchFail) /\ WF_vars(SendFail) /\ WF_vars(Commit)
            /\ SF_vars(FetchAll)
            /\ \A n \in Events : \A e \in 1..n :
                  /\ SF_vars(Post(e) /\ next = n)
                  /\ SF_vars(SendOK(e) /\ next = n)
            /\ SF_vars(CommitOK)

FairSpec == Spec /\ Fairness

\* Every published event ends up behind the persisted cursor for good or until
\* the cursor is lost: transient failures delay it, never stall it.  A cursor
\* write that fails is made good only because a session ends and the next one
\* starts over from the stale file.
Progress == \A e \in Events : (published >= e) ~> (file >= e)
=============================================================================
