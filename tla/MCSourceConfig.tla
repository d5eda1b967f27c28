--------------------------- MODULE MCSourceConfig ---------------------------
(***************************************************************************)
(* Instances of SourceConfig.  The globs: one for each of two kinds of     *)
(* event, the first once more with a blank before it, an empty and a       *)
(* white-space one, one path.Match refuses, and one with a comma inside a  *)
(* character class.  The override names: an extension the event has, the   *)
(* same with a capital, an attribute of the specification, and a name with *)
(* a hyphen.                                                               *)
(***************************************************************************)
EXTENDS SourceConfig

Part(t) == [text |-> t, padded |-> FALSE]
Padded(t) == [text |-> t, padded |-> TRUE]

Alerts == <<Part("alert")>>
Monitors == <<Part("monitor")>>
PaddedAlerts == <<Padded("alert")>>
Empty == <<Part(Blank)>>
White == <<Padded(Blank)>>
Malformed == <<Part("bad")>>
WithComma == <<Part("[a"), Part("m]*")>>

MCTexts == {Blank, "alert", "monitor", "bad", "[a", "m]*"}
MCGlobs == {Alerts, Monitors, PaddedAlerts, Empty, White, Malformed, WithComma}
MCMalformed == {Malformed}
MCMatches == (Alerts :> {"alert"}) @@ (Monitors :> {"monitor"})
               @@ (WithComma :> {"alert", "monitor"})

Name(l) == [lower |-> l, alnum |-> TRUE, capital |-> FALSE]
Region == [Name("region") EXCEPT !.capital = TRUE]
Hyphen == [Name("my-env") EXCEPT !.alnum = FALSE]
MCNames == {Name("region"), Region, Name("subject"), Hyphen}

Pinned == [mode |-> "poll", name |-> "creds", key |-> "token", types |-> <<>>,
           sevs |-> {}, overrides |-> {}, sink |-> TRUE]

\* Every list of up to two globs, every set of overrides, and every combination
\* of the other settings.
MCSpecs == {[Pinned EXCEPT !.types = l] : l \in BoundedSeq(MCGlobs, 2)}
             \cup {[Pinned EXCEPT !.overrides = o] : o \in SUBSET MCNames}
             \cup [mode: {"poll", "stream", "other"}, name: {Blank, "creds"},
                   key: {Blank, "token"}, types: {<<>>, <<Alerts>>}, sevs: {{}, {"other"}},
                   overrides: {{}}, sink: BOOLEAN]

\* The specs of users who leave the mode to its default, or write it out.
MCAutoSpecs == {[Pinned EXCEPT !.mode = m, !.key = Blank] : m \in {Blank, "auto"}}
=============================================================================
