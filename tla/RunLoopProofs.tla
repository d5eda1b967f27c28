--------------------------- MODULE RunLoopProofs ---------------------------
(***************************************************************************)
(* The refresh floor of the run loop, for every hint the server can send,  *)
(* overflowing ones included, and every choice of the constants; and that  *)
(* sane intervals are enough to keep its ticker from panicking.            *)
(***************************************************************************)
EXTENDS RunLoop, TLAPS

\* A wrapped duration is an integer.
LEMMA WrapInt == ASSUME NEW x \in Int PROVE Wrap(x) \in Int
  <1>1. 2 * HalfRange \in Nat \ {0}
    BY ResolverAssumption
  <1>2. (x + HalfRange) % (2 * HalfRange) \in Int
    BY <1>1, ResolverAssumption
  <1> QED BY <1>2, ResolverAssumption DEF Wrap

\* A resolution is typed, whichever layer decides.
LEMMA ResolveTyped ==
  ASSUME NEW m \in Modes, NEW i \in Int, NEW c \in Modes, NEW h \in Answers
  PROVE  LET r == ResolveMode(m, i, c, h)
         IN  /\ r.mode \in {"poll", "stream", "error"}
             /\ r.poll \in Int /\ r.refresh \in Int
  <1> USE ResolverAssumption, RunLoopAssumption
  <1>1. h.poll \in Int /\ h.refresh \in Int
    BY DEF Answers, NoHint
  <1>2. h.poll * Second \in Int /\ h.refresh * Second \in Int
    BY <1>1
  <1>3. Wrap(h.poll * Second) \in Int /\ Wrap(h.refresh * Second) \in Int
    BY <1>2, WrapInt
  <1>4. LET r == ResolutionFromHint(h, i)
        IN r.mode \in {"poll", "stream"} /\ r.poll \in Int /\ r.refresh \in Int
    BY <1>1, <1>3 DEF ResolutionFromHint, Resolution
  <1>5. ResolveMode(m, i, c, h) = ResolutionFromHint(h, i)
        \/ \E md \in {"poll", "stream"}, p \in {i, 0}, src \in {"env", "cr", "default"} :
             ResolveMode(m, i, c, h) = Resolution(md, p, DefaultRefreshAfter, src)
        \/ ResolveMode(m, i, c, h) = ResolutionError
    BY DEF ResolveMode
  <1>6. CASE ResolveMode(m, i, c, h) = ResolutionFromHint(h, i)
    BY <1>4, <1>6
  <1>7. ASSUME NEW md \in {"poll", "stream"}, NEW p \in {i, 0},
               NEW src \in {"env", "cr", "default"},
               ResolveMode(m, i, c, h) = Resolution(md, p, DefaultRefreshAfter, src)
        PROVE  LET r == ResolveMode(m, i, c, h)
               IN  /\ r.mode \in {"poll", "stream", "error"}
                   /\ r.poll \in Int /\ r.refresh \in Int
    BY <1>7 DEF Resolution
  <1>8. CASE ResolveMode(m, i, c, h) = ResolutionError
    BY <1>8 DEF ResolutionError, Resolution
  <1> QED BY <1>5, <1>6, <1>7, <1>8

\* The time since the server was last asked and the time left in the session
\* never add up to less than the floor.
AgeInv == /\ pc \in {"resolve", "backoff"} => hintAge = MinRefreshAfter
          /\ pc = "session" => hintAge + left >= MinRefreshAfter

\* A poll session runs on a ticker that could be created.
TickerInv == Polling => res.poll > 0

IInv == TypeOK /\ AgeInv /\ TickerInv

\* The loop starts typed, and free to ask.
LEMMA InitIInv == Init => IInv
  BY RunLoopAssumption, ResolverAssumption
  DEF Init, IInv, TypeOK, AgeInv, TickerInv, Polling, ResolutionError, Resolution

\* Every step of Run keeps the inductive invariant.
LEMMA NextIInv == IInv /\ [Next]_vars => IInv'
  <1> SUFFICES ASSUME IInv, [Next]_vars PROVE IInv'
    OBVIOUS
  <1> USE RunLoopAssumption, ResolverAssumption DEF IInv, TypeOK, AgeInv, TickerInv, Polling
  <1>1. CASE Flip
    BY <1>1 DEF Flip
  <1>2. CASE Resolve
    <2>1. /\ Now.mode \in {"poll", "stream", "error"}
          /\ Now.poll \in Int /\ Now.refresh \in Int
      BY ResolveTyped DEF Now
    <2>2. Window(Now) \in Nat /\ Window(Now) >= MinRefreshAfter
      BY <2>1 DEF Window
    <2>3. due' \in Nat /\ pc' \in {"session", "panicked"}
      BY <1>2, <2>1 DEF Resolve
    <2>4. hintAge' \in 0..MinRefreshAfter
      BY <1>2 DEF Resolve
    <2> QED BY <1>2, <2>1, <2>2, <2>3, <2>4 DEF Resolve
  <1>3. CASE ResolveFails
    BY <1>3 DEF ResolveFails
  <1>4. CASE Pass
    BY <1>4 DEF Pass
  <1>5. CASE Tick
    <2>1. res.poll \in Nat
      BY <1>5 DEF Tick
    <2> QED BY <1>5, <2>1 DEF Tick
  <1>6. CASE Refresh
    BY <1>6 DEF Refresh
  <1>7. CASE Stop
    BY <1>7 DEF Stop
  <1>8. CASE UNCHANGED vars
    BY <1>8 DEF vars
  <1> QED BY <1>1, <1>2, <1>3, <1>4, <1>5, <1>6, <1>7, <1>8 DEF Next

\* Every variable of the run loop keeps its type, whatever the server answers.
THEOREM TypeCorrect == Spec => []TypeOK
  <1>1. IInv => TypeOK
    BY DEF IInv
  <1> QED BY InitIInv, NextIInv, <1>1, PTL DEF Spec

\* No answer of the server makes Run ask it again within MinRefreshAfter.
THEOREM RunNeverStorms == Spec => NoResolveStorm
  <1>1. IInv => (Resolve /\ ConsultsServer(cfgMode, crFile) => hintAge = MinRefreshAfter)
    BY DEF IInv, AgeInv, Resolve
  <1>2. IInv /\ [Next]_vars
          => [Resolve /\ ConsultsServer(cfgMode, crFile) => hintAge = MinRefreshAfter]_vars
    BY <1>1
  <1> QED BY InitIInv, NextIInv, <1>2, PTL DEF Spec, NoResolveStorm
-----------------------------------------------------------------------------
(* The ticker.                                                             *)

\* A remainder that is no division.
LEMMA SmallRemainder == ASSUME NEW a \in Nat, NEW d \in Nat, a < d PROVE a % d = a
  OBVIOUS

\* A duration that fits does not wrap around.
LEMMA WrapFits == ASSUME NEW x \in Nat, x < HalfRange PROVE Wrap(x) = x
  <1>1. x + HalfRange \in Nat /\ 2 * HalfRange \in Nat /\ x + HalfRange < 2 * HalfRange
    BY ResolverAssumption
  <1>2. (x + HalfRange) % (2 * HalfRange) = x + HalfRange
    BY <1>1, SmallRemainder
  <1> QED BY <1>2, ResolverAssumption DEF Wrap

\* What keeps time.NewTicker from panicking: the adapter was given a positive
\* interval, and no interval the server recommends overflows a time.Duration.
SaneIntervals == /\ CfgInterval > 0
                 /\ \A h \in Hints : h.poll * Second < HalfRange

\* A resolution to poll comes with a positive interval.
LEMMA PollPositive ==
  ASSUME SaneIntervals, NEW m \in Modes, NEW c \in Modes, NEW h \in Answers,
         ResolveMode(m, CfgInterval, c, h).mode = "poll"
  PROVE  ResolveMode(m, CfgInterval, c, h).poll > 0
  <1> USE ResolverAssumption, RunLoopAssumption
  <1>1. CASE h # NoHint /\ h.poll > 0
    <2>1. h \in Hints /\ h.poll \in Nat \ {0} /\ h.poll * Second < HalfRange
      BY <1>1 DEF Answers, SaneIntervals
    <2>2. h.poll * Second \in Nat /\ h.poll * Second > 0
      BY <2>1
    <2>3. Wrap(h.poll * Second) > 0
      BY <2>1, <2>2, WrapFits
    <2>4. ResolutionFromHint(h, CfgInterval).poll > 0
      BY <1>1, <2>3 DEF ResolutionFromHint, Resolution
    <2> QED BY <2>4 DEF ResolveMode, Resolution, ResolutionError, SaneIntervals
  <1>2. CASE h = NoHint \/ ~(h.poll > 0)
    <2>1. h # NoHint => ResolutionFromHint(h, CfgInterval).poll = CfgInterval
      BY <1>2 DEF ResolutionFromHint, Resolution
    <2> QED BY <2>1 DEF ResolveMode, Resolution, ResolutionError, SaneIntervals
  <1> QED BY <1>1, <1>2

\* With sane intervals the run loop never asks for a ticker that panics, however
\* the server and the operator change their minds (run.go, and the NewTicker of
\* PollClient.Run).
THEOREM TickerNeverPanics == ASSUME SaneIntervals PROVE Spec => []NeverPanics
  <1>1. Init => NeverPanics
    BY DEF Init, NeverPanics
  <1>2. TypeOK /\ NeverPanics /\ [Next]_vars => NeverPanics'
    <2> SUFFICES ASSUME TypeOK, NeverPanics, [Next]_vars PROVE NeverPanics'
      OBVIOUS
    <2>1. CASE Resolve
      <3>1. Now.mode = "poll" => Now.poll > 0
        BY PollPositive, RunLoopAssumption DEF Now, TypeOK
      <3>2. Now.poll \in Int
        BY ResolveTyped, RunLoopAssumption DEF Now, TypeOK
      <3> QED BY <2>1, <3>1, <3>2 DEF Resolve, NeverPanics
    <2>2. CASE Flip \/ ResolveFails \/ Pass \/ Tick \/ Refresh \/ Stop
      BY <2>2 DEF Flip, ResolveFails, Pass, Tick, Refresh, Stop, NeverPanics
    <2>3. CASE UNCHANGED vars
      BY <2>3 DEF vars, NeverPanics
    <2> QED BY <2>1, <2>2, <2>3 DEF Next
  <1> QED BY <1>1, <1>2, TypeCorrect, PTL DEF Spec
=============================================================================
