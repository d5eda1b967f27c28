---------------------------- MODULE SourceConfig ----------------------------
(***************************************************************************)
(* The path of a user's settings from a YipYapSource to the adapter that   *)
(* acts on them: the webhook (yipyapsource_defaults.go,                    *)
(* yipyapsource_validation.go), the environment the controller renders     *)
(* (resources/deployment.go), the adapter's start (main.go, config.go) and *)
(* what it asks of the server and writes to the sink (poll.go, sink.go).   *)
(*                                                                         *)
(* A type glob is the sequence of its comma-separated parts, so a glob     *)
(* without a comma has one part; a part is its text without the white      *)
(* space around it, and whether there is any.  The name of an override is  *)
(* its lower-case form, whether it consists of letters and digits, and     *)
(* whether it was written with capitals.  The pod is the one of the newest *)
(* template; kubelet and API server are the environment.                   *)
(***************************************************************************)
EXTENDS ModeResolver, FiniteSets, Sequences, SequencesExt

CONSTANTS Specs,           \* specs users write
          Texts,           \* what a glob may have between two commas
          Globs,           \* type globs users write
          MalformedGlobs,  \* those path.Match refuses
          Names,           \* names of ceOverrides.extensions users write
          Matches          \* glob -> the event types it matches

\* The empty string: a setting that is absent, a part with nothing in it.
Blank == ""

Parts == [text: Texts, padded: BOOLEAN]

\* What a user may submit; sink says whether the Destination is a valid one.
ValidSeverities == {"info", "warning", "critical"}
SpecTypes == [mode: Modes, name: {Blank, "creds"}, key: {Blank, "token"},
              types: Seq(Globs), sevs: SUBSET (ValidSeverities \cup {"other"}),
              overrides: SUBSET Names, sink: BOOLEAN]

ASSUME SpecsAssumption ==
  /\ Blank \in Texts
  /\ Globs \subseteq Seq(Parts) \ {<<>>}
  /\ Names \subseteq [lower: STRING, alnum: BOOLEAN, capital: BOOLEAN]
  /\ Specs \subseteq SpecTypes
  /\ \A s \in Specs : IsFiniteSet(s.overrides)

\* A part that strings.TrimSpace leaves as it is, and that is not dropped.
Tidy(p) == ~p.padded /\ p.text # Blank

\* Types of events are not empty and have no white space around them.
ASSUME MatchesAssumption ==
  \A g \in DOMAIN Matches : Len(g) = 1 => Tidy(g[1])

VARIABLES
  spec,     \* the stored spec, NoSpec before the first kubectl apply
  secret,   \* the API key Secret: key -> what it holds
  env,      \* the environment of the adapter Deployment's pod template
  pod,      \* the pod of that template
  cfg       \* what LoadConfig returned in that pod

vars == <<spec, secret, env, pod, cfg>>

Keys == {"api-key", "token"}
NoSpec == [mode |-> "none"]
NoEnv == [mode |-> "none"]
NoConfig == [err |-> "none"]

TypeOK == /\ spec = NoSpec \/ (spec.mode \in Modes /\ spec.key \in Keys)
          /\ secret \in [Keys -> {"missing", "empty", "set"}]
          /\ env = NoEnv \/ (env.mode \in Modes /\ env.key \in Keys)
          /\ pod \in {"none", "created", "running", "exited"}
          /\ pod = "running" <=> cfg.err = "nil"
          /\ pod = "exited" <=> cfg.err \in {"key", "mode"}

Init == /\ spec = NoSpec
        /\ secret = [k \in Keys |-> "missing"]
        /\ env = NoEnv
        /\ pod = "none"
        /\ cfg = NoConfig

-----------------------------------------------------------------------------
(* The webhook.                                                            *)

\* Variant: the Secret key is not defaulted.
SetDefaultsNoKey(s) == [s EXCEPT !.mode = IF @ = Blank THEN "auto" ELSE @]

SetDefaults(s) == [s EXCEPT !.key = IF @ = Blank THEN "api-key" ELSE @,
                            !.mode = IF @ = Blank THEN "auto" ELSE @]

\* Variant: the mode is not looked at.
ValidateNoMode(s) == /\ s.name # Blank
                     /\ \A i \in DOMAIN s.types : s.types[i] \notin MalformedGlobs
                     /\ s.sevs \subseteq ValidSeverities
                     /\ s.sink

Validate(s) == /\ s.name # Blank
               /\ s.mode \in {Blank, "auto", "poll", "stream"}
               /\ \A i \in DOMAIN s.types : s.types[i] \notin MalformedGlobs
               /\ s.sevs \subseteq ValidSeverities
               /\ s.sink

\* A create or update: defaulting, then validation; a refused one changes
\* nothing.
Apply(s) == /\ Validate(SetDefaults(s))
            /\ spec' = SetDefaults(s)
            /\ UNCHANGED <<secret, env, pod, cfg>>

-----------------------------------------------------------------------------
(* The controller.                                                         *)

\* strings.Join(types, ","), as the parts a comma would split it into again.
\* An absent variable reads as the empty string, which splits into one blank.
JoinFilter(types) == IF types = <<>> THEN <<[text |-> Blank, padded |-> FALSE]>>
                     ELSE FlattenSeq(types)

\* The environment MakeAdapterDeployment renders; PreProcessReconcile applies
\* the defaults once more before it.
AdapterEnv(s) == LET d == SetDefaults(s)
                 IN [mode |-> d.mode, key |-> d.key, filter |-> JoinFilter(d.types),
                     overrides |-> d.overrides]

\* A template that differs makes the Deployment controller start a new pod.
Render == /\ spec # NoSpec
          /\ env # AdapterEnv(spec)
          /\ env' = AdapterEnv(spec)
          /\ pod' = "created"
          /\ cfg' = NoConfig
          /\ UNCHANGED <<spec, secret>>

-----------------------------------------------------------------------------
(* The adapter.                                                            *)

TrimSpace(p) == [p EXCEPT !.padded = FALSE]

\* Variant: blank entries are kept.
ParseKeepingBlanks(raw) == [i \in DOMAIN raw |-> TrimSpace(raw[i])]

\* The loop over the parts: they are trimmed, and what is left is appended.
parseEventFilters(raw) ==
  LET filters[i \in 0..Len(raw)] ==
        IF i = 0 THEN <<>>
        ELSE IF TrimSpace(raw[i]).text = Blank THEN filters[i - 1]
        ELSE Append(filters[i - 1], TrimSpace(raw[i]))
  IN  filters[Len(raw)]

\* K_SINK is always rendered and YIPYAP_POLL_INTERVAL never is, so the checks of
\* LoadConfig that can fail are those of the API key and of the mode.
LoadConfig(e, apiKey) ==
  IF apiKey = "empty" THEN [err |-> "key"]
  ELSE IF e.mode \notin {Blank, "poll", "stream"} THEN [err |-> "mode"]
  ELSE [err |-> "nil", mode |-> e.mode, filters |-> parseEventFilters(e.filter),
        overrides |-> e.overrides]

\* main: LoadConfig, then Run or os.Exit(2).  Kubelet does not start a
\* container whose secretKeyRef is missing, and restarts one that exited.
StartContainer ==
  /\ pod \in {"created", "exited"}
  /\ secret[env.key] # "missing"
  /\ cfg' = LoadConfig(env, secret[env.key])
  /\ pod' = IF cfg'.err = "nil" THEN "running" ELSE "exited"
  /\ UNCHANGED <<spec, secret, env>>

\* The pod is replaced from the same template.
Replace == /\ pod \in {"running", "exited"}
           /\ pod' = "created"
           /\ cfg' = NoConfig
           /\ UNCHANGED <<spec, secret, env>>

\* The event the adapter forwards, of CloudEvents 1.0: for each attribute and
\* extension the override it comes from, if any.
SpecAttributes == {"id", "source", "type", "datacontenttype", "subject", "time",
                   "specversion", "dataschema"}
ByServer == {}
Event == [attrs |-> [a \in SpecAttributes |-> ByServer],
          ext |-> [x \in {"region"} |-> ByServer]]

\* Variant: attributes of the specification are not refused.
SetExtensionUnchecked(ev, n) ==
  IF ~n.alnum THEN ev
  ELSE [ev EXCEPT !.ext = [x \in DOMAIN ev.ext \cup {n.lower} |->
                             IF x = n.lower THEN {n} ELSE ev.ext[x]]]

\* The SDK refuses names that are empty or have characters other than letters
\* and digits, and the attributes of the specification; it stores the name in
\* lower case.  Send does not look at the error.
SetExtension(ev, n) ==
  IF ~n.alnum \/ n.lower \in SpecAttributes THEN ev
  ELSE [ev EXCEPT !.ext = [x \in DOMAIN ev.ext \cup {n.lower} |->
                             IF x = n.lower THEN {n} ELSE ev.ext[x]]]

\* The loop of Send over its overrides.
Overridden(ev, order) ==
  LET after[i \in 0..Len(order)] ==
        IF i = 0 THEN ev ELSE SetExtension(after[i - 1], order[i])
  IN  after[Len(order)]

\* The headers of the POST: dataschema has none, and buildBinaryRequest writes
\* the extensions over what it wrote before.
HeaderAttributes == SpecAttributes \ {"dataschema"}
Headers(ev) == [a \in HeaderAttributes \cup DOMAIN ev.ext |->
                  IF a \in DOMAIN ev.ext THEN ev.ext[a] ELSE ev.attrs[a]]

\* What Send may put on the wire: the order in which Go iterates over a map is
\* any order, and another one for the next event.
Sent(c) == {Headers(Overridden(Event, order)) : order \in SetToSeqs(c.overrides)}

ChangeSecret(k, v) == /\ secret' = [secret EXCEPT ![k] = v]
                      /\ UNCHANGED <<spec, env, pod, cfg>>

Next == \/ \E s \in Specs : Apply(s)
        \/ \E k \in Keys, v \in {"missing", "empty", "set"} : ChangeSecret(k, v)
        \/ Render
        \/ StartContainer
        \/ Replace

Spec == Init /\ [][Next]_vars

-----------------------------------------------------------------------------
(* Properties: what the running adapter does is what the spec asked for.   *)

EventTypes == UNION {Matches[g] : g \in DOMAIN Matches} \cup {"maintenance"}

\* The event types the server's glob match finds for a pattern it is sent.
MatchedBy(glob) == IF glob \in DOMAIN Matches THEN Matches[glob] ELSE {}

\* types.go: no types deliver every type.
Wanted(s) ==
  {ev \in EventTypes : \/ s.types = <<>>
                       \/ \E i \in DOMAIN s.types : ev \in MatchedBy(s.types[i])}

\* poll.go and stream.go: one filter parameter per glob, OR-matched; nothing
\* else narrows the request.
Requested(c) ==
  {ev \in EventTypes : \/ c.filters = <<>>
                       \/ \E i \in DOMAIN c.filters :
                            ev \in MatchedBy(<<c.filters[i]>>)}

Rendered == pod = "running" /\ env = AdapterEnv(spec)

\* No glob of the spec has a comma, which the webhook does not ask for and
\* MakeAdapterDeployment relies on ("Type globs never contain commas, so CSV is
\* unambiguous").
CommaFree(s) == \A i \in DOMAIN s.types : Len(s.types[i]) = 1

\* No glob has white space around its text, and an entry that is blank is not
\* the only one.
Trimmed(s) == /\ \A i \in DOMAIN s.types : s.types[i][1].text # Blank => Tidy(s.types[i][1])
              /\ s.types # <<>> => \E i \in DOMAIN s.types : Tidy(s.types[i][1])

\* Through strings.Join in MakeAdapterDeployment and Split and TrimSpace in
\* parseEventFilters no event type that spec.filter.types describes is withheld,
\* whatever blank and padded globs the webhook has admitted, unless a glob has a
\* comma; and the adapter asks for no other type, unless a glob was changed by
\* TrimSpace or the list has blank entries only, which reads as no list.
\* (severities and monitorIDs reach no adapter: they narrow nothing.)
FilterFaithful ==
  Rendered /\ CommaFree(spec) =>
    /\ Wanted(spec) \subseteq Requested(cfg)
    /\ Trimmed(spec) => Requested(cfg) \subseteq Wanted(spec)

\* A transport the user pinned is the one the run loop uses, whatever a CR mode
\* file or the server recommends: defaults, environment, LoadConfig and
\* ResolveMode agree on it.
ModeHonoured ==
  Rendered /\ spec.mode \in {"poll", "stream"} =>
    \A crFile \in Modes, m \in {"poll", "stream"} :
      LET hint == [mode |-> m, poll |-> 0, refresh |-> 0]
      IN  /\ ResolveMode(cfg.mode, 1, crFile, hint).mode = spec.mode
          /\ ResolveMode(cfg.mode, 1, crFile, NoHint).mode = spec.mode

\* The names CloudEvents has for extensions.
IsExtensionName(n) == n.alnum /\ n.lower \notin SpecAttributes

\* Whatever the order of the map, of the overrides of the spec exactly those with
\* the name of an extension are on the event the sink gets, also where the event
\* has that extension itself or two names differ by case only (then one of the
\* two is); no header of the event's own attributes changes.  The webhook admits
\* the other names as well, and Send drops them (MakeAdapterDeployment,
\* LoadConfig, Send, and buildBinaryRequest, which would let an extension
\* overwrite a required header).
OverridesApplied ==
  Rendered =>
    \A h \in Sent(cfg) :
      /\ \A a \in HeaderAttributes : h[a] = ByServer
      /\ \A n \in spec.overrides :
           IsExtensionName(n) => n.lower \in DOMAIN h /\ h[n.lower] # ByServer
      /\ \A a \in DOMAIN h : h[a] # ByServer =>
           \E m \in spec.overrides : IsExtensionName(m) /\ m.lower = a /\ h[a] = {m}

\* The webhook admits nothing LoadConfig refuses: an adapter that exits at its
\* start does so for the content of the Secret, which the webhook cannot see.
AdmittedRuns == pod = "exited" => cfg.err = "key"
=============================================================================
