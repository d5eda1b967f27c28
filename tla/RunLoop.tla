------------------------------ MODULE RunLoop ------------------------------
(***************************************************************************)
(* The adapter's core loop in time: cmd/receive-adapter/source/run.go      *)
(* (Run), and the ticker of PollClient.Run.                                *)
(*                                                                         *)
(* Time is discrete and passes only while Run waits; fetching and emitting *)
(* take none (PollClient models what they do).  Clocks count down, or up   *)
(* to a bound, so that the instance stays finite.                          *)
(***************************************************************************)
EXTENDS ModeResolver

CONSTANTS MinRefreshAfter,     \* floor of the refresh window
          ResolveErrBackoff,   \* wait after a resolution error
          CfgModes,            \* values of cfg.Mode
          CfgInterval,         \* cfg.PollInterval
          Hints,               \* answers of the source-config endpoint
          CRModes              \* contents of the CR mode file

ASSUME RunLoopAssumption ==
  /\ MinRefreshAfter \in Nat \ {0}
  /\ ResolveErrBackoff \in Nat \ {0}
  /\ CfgModes \subseteq Modes
  /\ CfgInterval \in Int
  /\ Hints \subseteq [mode : Modes, poll : Int, refresh : Int]
  /\ CRModes \subseteq Modes

VARIABLES
  cfgMode,   \* cfg.Mode, fixed when the process starts
  pc,        \* "resolve", "backoff", "session", "panicked" or "returned"
  res,       \* the resolution the session runs on
  left,      \* time to the end of the session or of the backoff
  due,       \* time to the ticker's next tick, in a poll session
  hint,      \* what the server would answer now
  crFile,    \* what the CR mode file holds now
  hintAge    \* time since the server was last asked, up to MinRefreshAfter

vars == <<cfgMode, pc, res, left, due, hint, crFile, hintAge>>

Answers == Hints \cup {NoHint}

Init == /\ cfgMode \in CfgModes
        /\ pc = "resolve"
        /\ res = ResolutionError
        /\ left = 0 /\ due = 0
        /\ hint \in Answers /\ crFile \in CRModes
        /\ hintAge = MinRefreshAfter

\* The server, or the operator, changes its mind.
Flip == /\ pc \notin {"panicked", "returned"}
        /\ hint' \in Answers /\ crFile' \in CRModes
        /\ UNCHANGED <<cfgMode, pc, res, left, due, hintAge>>

\* Variant: the window is taken as it comes.
WindowUnclamped(r) == r.refresh

\* The refresh window, clamped from below.
Window(r) == IF r.refresh < MinRefreshAfter THEN MinRefreshAfter ELSE r.refresh

Now == ResolveMode(cfgMode, CfgInterval, crFile, hint)

\* A successful resolution opens a session.  In poll mode the resolution's
\* interval replaces the one NewPollClient checked, and time.NewTicker panics
\* when it is not positive.
Resolve == /\ pc = "resolve"
           /\ Now.mode # "error"
           /\ res' = Now
           /\ left' = Window(Now)
           /\ IF Now.mode = "poll" /\ Now.poll <= 0
                THEN pc' = "panicked" /\ due' = 0
                ELSE pc' = "session" /\ due' = IF Now.mode = "poll" THEN Now.poll ELSE 0
           /\ hintAge' = IF ConsultsServer(cfgMode, crFile) THEN 0 ELSE hintAge
           /\ UNCHANGED <<cfgMode, hint, crFile>>

ResolveFails == /\ pc = "resolve"
                /\ Now.mode = "error"
                /\ left' = ResolveErrBackoff
                /\ pc' = "backoff"
                /\ UNCHANGED <<cfgMode, res, due, hint, crFile, hintAge>>

Polling == pc = "session" /\ res.mode = "poll"

Pass == /\ pc \in {"session", "backoff"}
        /\ left > 0
        /\ Polling => due > 0
        /\ left' = left - 1
        /\ due' = IF Polling THEN due - 1 ELSE due
        /\ hintAge' = IF hintAge < MinRefreshAfter THEN hintAge + 1 ELSE hintAge
        /\ UNCHANGED <<cfgMode, pc, res, hint, crFile>>

Tick == /\ Polling
        /\ due = 0
        /\ due' = res.poll
        /\ UNCHANGED <<cfgMode, pc, res, left, hint, crFile, hintAge>>

\* Variant: a session that ran out is reopened on the resolution it had.
RefreshKeeping == /\ pc \in {"session", "backoff"}
                  /\ left = 0
                  /\ IF pc = "session" THEN left' = Window(res) /\ UNCHANGED pc
                                       ELSE pc' = "resolve" /\ UNCHANGED left
                  /\ UNCHANGED <<cfgMode, res, due, hint, crFile, hintAge>>

\* The session context, or the backoff, runs out; the loop resolves again.
Refresh == /\ pc \in {"session", "backoff"}
           /\ left = 0
           /\ pc' = "resolve"
           /\ UNCHANGED <<cfgMode, res, left, due, hint, crFile, hintAge>>

\* SIGTERM: the context of main is cancelled.
Stop == /\ pc \in {"resolve", "session", "backoff"}
        /\ pc' = "returned"
        /\ UNCHANGED <<cfgMode, res, left, due, hint, crFile, hintAge>>

Next == \/ Flip
        \/ Resolve
        \/ ResolveFails
        \/ Pass
        \/ Tick
        \/ Refresh
        \/ Stop

Spec == Init /\ [][Next]_vars

-----------------------------------------------------------------------------
(* Properties.                                                             *)

TypeOK == /\ cfgMode \in CfgModes
          /\ pc \in {"resolve", "backoff", "session", "panicked", "returned"}
          /\ res.mode \in {"poll", "stream", "error"}
          /\ res.poll \in Int /\ res.refresh \in Int
          /\ left \in Nat /\ due \in Nat
          /\ hint \in Answers /\ crFile \in CRModes
          /\ hintAge \in 0..MinRefreshAfter

\* However short a window the server asks for, two questions to it are at least
\* MinRefreshAfter apart (run.go: a hint "can't cause resolve-storms against the
\* API").
NoResolveStorm ==
  [][Resolve /\ ConsultsServer(cfgMode, crFile) => hintAge = MinRefreshAfter]_vars

\* Errors are logged but never fatal (poll.go, Run): the ticker is never created
\* with an interval that makes it panic.
NeverPanics == pc # "panicked"

Fairness == WF_vars(Resolve) /\ WF_vars(ResolveFails) /\ WF_vars(Pass)
            /\ WF_vars(Tick) /\ WF_vars(Refresh)

FairSpec == Spec /\ Fairness

\* Run keeps fetching in poll mode: the client "ticks at p.interval, fetching
\* events" (poll.go, Run) in time for the session to still be open.
KeepsPolling == \/ []<>(pc = "session" /\ res.mode = "stream")
                \/ []<><<Tick /\ left > 0>>_vars
                \/ <>(pc \in {"returned", "panicked"})
                \/ [](res.mode = "error")

\* A change of the server's or the operator's mind that lasts reaches the
\* session: no resolution is trusted for ever.
FlipsReachSession ==
  \A h \in Answers : \A c \in CRModes :
    <>[](hint = h /\ crFile = c) =>
      <>[](pc = "session" => res = ResolveMode(cfgMode, CfgInterval, c, h))
=============================================================================
