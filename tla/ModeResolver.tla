---------------------------- MODULE ModeResolver ----------------------------
(***************************************************************************)
(* The mode-precedence chain of the receive adapter                        *)
(* (cmd/receive-adapter/source/mode.go): YIPYAP_MODE, the CR mode file,    *)
(* the server hint, the ship default.                                      *)
(*                                                                         *)
(* Mode strings are given trimmed and lower-cased, "other" standing for    *)
(* every word the code does not know.  A time.Duration is a signed integer *)
(* counted in nanoseconds, from -HalfRange to HalfRange - 1; Second is the *)
(* length of a second and a product that does not fit wraps around.        *)
(***************************************************************************)
EXTENDS Integers

CONSTANTS Second,               \* time.Second
          HalfRange,            \* 2^63 for the int64 of a time.Duration
          DefaultRefreshAfter   \* defaultRefreshAfter

ASSUME ResolverAssumption == /\ Second \in Nat \ {0}
                             /\ HalfRange \in Nat \ {0}
                             /\ DefaultRefreshAfter \in Nat \ {0}

Modes == {"", "auto", "poll", "stream", "other"}

\* fetchServerHint returned an error.
NoHint == [mode |-> "none", poll |-> 0, refresh |-> 0]

Wrap(x) == ((x + HalfRange) % (2 * HalfRange)) - HalfRange

Resolution(mode, poll, refresh, source) ==
  [mode |-> mode, poll |-> poll, refresh |-> refresh, source |-> source]

ResolutionError == Resolution("error", 0, 0, "error")

\* Variant: any interval the server sends is taken.
FromHintUnchecked(h, interval) ==
  Resolution(IF h.mode = "stream" THEN "stream" ELSE "poll",
             Wrap(h.poll * Second),
             IF h.refresh > 0 THEN Wrap(h.refresh * Second) ELSE DefaultRefreshAfter,
             "server")

\* Variant: the two durations of the hint are swapped.
FromHintSwapped(h, interval) ==
  Resolution(IF h.mode = "stream" THEN "stream" ELSE "poll",
             IF h.refresh > 0 THEN Wrap(h.refresh * Second) ELSE interval,
             IF h.poll > 0 THEN Wrap(h.poll * Second) ELSE DefaultRefreshAfter,
             "server")

\* A field the server left out, or set to zero or less, takes its default.
ResolutionFromHint(h, interval) ==
  Resolution(IF h.mode = "stream" THEN "stream" ELSE "poll",
             IF h.poll > 0 THEN Wrap(h.poll * Second) ELSE interval,
             IF h.refresh > 0 THEN Wrap(h.refresh * Second) ELSE DefaultRefreshAfter,
             "server")

\* Does the chain get as far as the server?
ConsultsServer(mode, crFile) ==
  mode \in {"", "auto"} /\ crFile \notin {"poll", "stream"}

\* Variant: the CR mode file wins over YIPYAP_MODE.
ResolveFileFirst(mode, interval, crFile, hint) ==
  IF crFile \in {"poll", "stream"}
    THEN Resolution(crFile, interval, DefaultRefreshAfter, "cr")
  ELSE IF mode \in {"poll", "stream"}
    THEN Resolution(mode, interval, DefaultRefreshAfter, "env")
  ELSE IF hint # NoHint THEN ResolutionFromHint(hint, interval)
  ELSE Resolution("poll", interval, DefaultRefreshAfter, "default")

\* ResolveMode: the first layer with an opinion decides.  An absent or empty CR
\* mode file is crFile = "".
ResolveMode(mode, interval, crFile, hint) ==
  IF mode = "poll" THEN Resolution("poll", interval, DefaultRefreshAfter, "env")
  ELSE IF mode = "stream" THEN Resolution("stream", 0, DefaultRefreshAfter, "env")
  ELSE IF mode = "other" THEN ResolutionError
  ELSE IF crFile \in {"poll", "stream"}
    THEN Resolution(crFile, interval, DefaultRefreshAfter, "cr")
  ELSE IF hint # NoHint THEN ResolutionFromHint(hint, interval)
  ELSE Resolution("poll", interval, DefaultRefreshAfter, "default")
=============================================================================
