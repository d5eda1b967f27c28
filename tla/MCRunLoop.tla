----------------------------- MODULE MCRunLoop -----------------------------
(* RunLoop for TLC, in units in which a minute is 2.  The hints are a       *)
(* well-formed one, one with every field missing or negative, one asking    *)
(* for a refresh below the floor, and one whose refresh overflows.          *)
EXTENDS RunLoop

MCHints == {[mode |-> "poll", poll |-> 2, refresh |-> 4],
            [mode |-> "stream", poll |-> 0, refresh |-> 0],
            [mode |-> "other", poll |-> -1, refresh |-> 1],
            [mode |-> "poll", poll |-> 1, refresh |-> 40]}

\* The server recommends to poll every ten minutes and leaves the refresh
\* window at its default.
MCSlowHint == {[mode |-> "poll", poll |-> 20, refresh |-> 0]}
=============================================================================
