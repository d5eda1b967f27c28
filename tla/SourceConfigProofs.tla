------------------------- MODULE SourceConfigProofs -------------------------
(***************************************************************************)
(* What the running adapter does is what the admitted spec asked for, for  *)
(* every set of specs, with whatever globs and override names, users write.*)
(***************************************************************************)
EXTENDS SourceConfig, Recursion, FiniteSetTheorems, TLAPS

\* Users leave the mode to the default, or write it out.
UsesAuto == \E s \in Specs : s.mode \in {Blank, "auto"}

\* The fields of a spec, before and after the defaults.
AnySpec == [mode: Modes, name: {Blank, "creds"}, key: Keys \cup {Blank},
            types: Seq(Globs), sevs: SUBSET (ValidSeverities \cup {"other"}),
            overrides: SUBSET Names, sink: BOOLEAN]

\* A spec the webhook let through.
Admitted(s) == /\ s \in AnySpec
               /\ s.mode \in {"auto", "poll", "stream"} /\ s.key \in Keys
               /\ s.mode = "auto" => UsesAuto
               /\ IsFiniteSet(s.overrides)

SpecInv == spec = NoSpec \/ Admitted(spec)

\* An environment rendered from one.
EnvInv == env = NoEnv \/ (/\ env.mode \in {"auto", "poll", "stream"} /\ env.key \in Keys
                          /\ env.mode = "auto" => UsesAuto)

\* A pod is of the rendered template, and a running one loaded all of it.
PodInv == /\ pod \in {"none", "created"} => cfg = NoConfig
          /\ pod # "none" => env # NoEnv /\ spec # NoSpec
          /\ pod = "running" =>
               cfg = [err |-> "nil", mode |-> env.mode,
                      filters |-> parseEventFilters(env.filter),
                      overrides |-> env.overrides]
          /\ pod = "exited" => \/ cfg = [err |-> "key"]
                               \/ cfg = [err |-> "mode"] /\ env.mode = "auto"

IInv == /\ secret \in [Keys -> {"missing", "empty", "set"}]
        /\ pod \in {"none", "created", "running", "exited"}
        /\ SpecInv /\ EnvInv /\ PodInv

-----------------------------------------------------------------------------
(* Every step keeps the inductive invariant.                               *)

\* Nothing has the empty name.
LEMMA BlankFacts ==
  /\ Blank # "auto" /\ Blank # "poll" /\ Blank # "stream"
  /\ Blank # "api-key" /\ Blank # "token"
  /\ "auto" \in Modes
  BY Zenon DEF Blank, Modes

\* The defaults fill the mode and the key, and leave the rest alone.
LEMMA DefaultFields ==
  ASSUME NEW s \in AnySpec
  PROVE  /\ SetDefaults(s) \in AnySpec
         /\ SetDefaults(s).mode = IF s.mode = Blank THEN "auto" ELSE s.mode
         /\ SetDefaults(s).key = IF s.key = Blank THEN "api-key" ELSE s.key
         /\ SetDefaults(s).types = s.types
         /\ SetDefaults(s).overrides = s.overrides
  BY BlankFacts DEF SetDefaults, AnySpec, Keys

\* Applying the defaults to an admitted spec once more changes nothing the
\* environment is made of.
LEMMA EnvOfAdmitted ==
  ASSUME NEW s, Admitted(s)
  PROVE  AdapterEnv(s) = [mode |-> s.mode, key |-> s.key, filter |-> JoinFilter(s.types),
                          overrides |-> s.overrides]
  <1>1. s \in AnySpec /\ s.mode # Blank /\ s.key # Blank
    BY BlankFacts DEF Admitted, Keys
  <1>2. /\ SetDefaults(s).mode = s.mode /\ SetDefaults(s).key = s.key
        /\ SetDefaults(s).types = s.types /\ SetDefaults(s).overrides = s.overrides
    BY <1>1, DefaultFields
  <1> QED BY <1>2 DEF AdapterEnv

\* Before the first kubectl apply.
LEMMA InitIInv == Init => IInv
  BY DEF Init, IInv, SpecInv, EnvInv, PodInv

\* The webhook admits a spec with a known mode, and a key.
LEMMA ApplyStep ==
  ASSUME IInv, NEW s \in Specs, Apply(s)
  PROVE  IInv'
  <1>1. s \in AnySpec /\ s.key \in {Blank, "token"} /\ IsFiniteSet(s.overrides)
    BY SpecsAssumption DEF SpecTypes, AnySpec, Keys
  <1>2. /\ spec' = SetDefaults(s) /\ Validate(SetDefaults(s))
        /\ UNCHANGED <<secret, env, pod, cfg>>
    BY DEF Apply
  <1>3. Admitted(SetDefaults(s))
    <2>1. SetDefaults(s).mode \in {Blank, "auto", "poll", "stream"}
      BY <1>2 DEF Validate
    <2> QED BY <1>1, <2>1, DefaultFields, BlankFacts DEF Admitted, UsesAuto, Keys
  <1>4. spec' # NoSpec
    BY <1>2, <1>3 DEF Admitted, NoSpec
  <1> QED BY <1>2, <1>3, <1>4 DEF IInv, SpecInv, EnvInv, PodInv

\* The controller renders the environment of an admitted spec.
LEMMA RenderStep ==
  ASSUME IInv, Render
  PROVE  IInv'
  <1>1. /\ spec # NoSpec /\ env' = AdapterEnv(spec) /\ pod' = "created" /\ cfg' = NoConfig
        /\ UNCHANGED <<spec, secret>>
    BY DEF Render
  <1>2. Admitted(spec)
    BY <1>1 DEF IInv, SpecInv
  <1>3. env'.mode = spec.mode /\ env'.key = spec.key
    BY <1>1, <1>2, EnvOfAdmitted
  <1>4. EnvInv' /\ env' # NoEnv
    BY <1>2, <1>3 DEF Admitted, EnvInv, NoEnv
  <1> QED BY <1>1, <1>4 DEF IInv, SpecInv, PodInv

\* LoadConfig takes over all of the environment, or refuses the key or the mode.
LEMMA StartStep ==
  ASSUME IInv, StartContainer
  PROVE  IInv'
  <1>1. /\ cfg' = LoadConfig(env, secret[env.key])
        /\ pod' = (IF cfg'.err = "nil" THEN "running" ELSE "exited")
        /\ UNCHANGED <<spec, secret, env>> /\ pod # "none"
    BY DEF StartContainer
  <1>2. env # NoEnv /\ env.mode \in {"auto", "poll", "stream"}
    BY <1>1 DEF IInv, EnvInv, PodInv
  <1>3. SpecInv' /\ EnvInv'
    BY <1>1 DEF IInv, SpecInv, EnvInv
  <1>4. CASE cfg' = [err |-> "key"]
    BY <1>1, <1>2, <1>3, <1>4 DEF IInv, PodInv
  <1>5. CASE cfg' = [err |-> "mode"] /\ env.mode \notin {Blank, "poll", "stream"}
    BY <1>1, <1>2, <1>3, <1>5 DEF IInv, PodInv
  <1>6. CASE cfg' = [err |-> "nil", mode |-> env.mode,
                     filters |-> parseEventFilters(env.filter),
                     overrides |-> env.overrides]
    BY <1>1, <1>2, <1>3, <1>6 DEF IInv, PodInv
  <1> QED BY <1>1, <1>4, <1>5, <1>6 DEF LoadConfig

\* Every step of users, webhook, controller and kubelet keeps it.
LEMMA NextIInv == IInv /\ [Next]_vars => IInv'
  <1> SUFFICES ASSUME IInv, [Next]_vars PROVE IInv'
    OBVIOUS
  <1>1. ASSUME NEW s \in Specs, Apply(s) PROVE IInv'
    BY <1>1, ApplyStep
  <1>2. ASSUME NEW k \in Keys, NEW v \in {"missing", "empty", "set"}, ChangeSecret(k, v)
        PROVE  IInv'
    BY <1>2 DEF ChangeSecret, IInv, SpecInv, EnvInv, PodInv
  <1>3. CASE Render
    BY <1>3, RenderStep
  <1>4. CASE StartContainer
    BY <1>4, StartStep
  <1>5. CASE Replace
    BY <1>5 DEF Replace, IInv, SpecInv, EnvInv, PodInv
  <1>6. CASE UNCHANGED vars
    BY <1>6 DEF vars, IInv, SpecInv, EnvInv, PodInv
  <1> QED BY <1>1, <1>2, <1>3, <1>4, <1>5, <1>6 DEF Next

\* The inductive invariant holds of every reachable state.
LEMMA Inductive == Spec => []IInv
  BY InitIInv, NextIInv, PTL DEF Spec
-----------------------------------------------------------------------------
(* The theorems.                                                           *)

\* Stored spec, rendered environment, Secret and pod are what they should be,
\* and the pod runs exactly when LoadConfig returned no error.
THEOREM TypeCorrect == Spec => []TypeOK
  <1>1. IInv => TypeOK
    <2> SUFFICES ASSUME IInv PROVE TypeOK
      OBVIOUS
    <2>1. {"auto", "poll", "stream"} \subseteq Modes
      BY Zenon DEF Modes
    <2>2. spec = NoSpec \/ (spec.mode \in Modes /\ spec.key \in Keys)
      BY <2>1 DEF IInv, SpecInv, Admitted
    <2>3. env = NoEnv \/ (env.mode \in Modes /\ env.key \in Keys)
      BY <2>1 DEF IInv, EnvInv
    <2>4. (pod = "running" <=> cfg.err = "nil") /\ (pod = "exited" <=> cfg.err \in {"key", "mode"})
      BY DEF IInv, PodInv, NoConfig
    <2> QED BY <2>2, <2>3, <2>4 DEF TypeOK, IInv
  <1> QED BY <1>1, Inductive, PTL

\* What the running adapter of the newest template was configured with.
LEMMA RenderedConfig ==
  ASSUME IInv, Rendered
  PROVE  /\ Admitted(spec)
         /\ cfg.mode = spec.mode
         /\ cfg.filters = parseEventFilters(JoinFilter(spec.types))
         /\ cfg.overrides = spec.overrides
  <1>1. Admitted(spec)
    BY DEF IInv, SpecInv, PodInv, Rendered
  <1>2. /\ env.mode = spec.mode /\ env.filter = JoinFilter(spec.types)
        /\ env.overrides = spec.overrides
    BY <1>1, EnvOfAdmitted DEF Rendered
  <1>3. cfg = [err |-> "nil", mode |-> env.mode, filters |-> parseEventFilters(env.filter),
               overrides |-> env.overrides]
    BY DEF IInv, PodInv, Rendered
  <1> QED BY <1>1, <1>2, <1>3

\* A pinned transport is used whatever the CR mode file holds and the server
\* recommends (SetDefaults, MakeAdapterDeployment, LoadConfig, ResolveMode).
THEOREM PinnedModeHonoured == Spec => []ModeHonoured
  <1>1. IInv => ModeHonoured
    <2> SUFFICES ASSUME IInv, Rendered, spec.mode \in {"poll", "stream"},
                        NEW crFile, NEW hint
                 PROVE  ResolveMode(cfg.mode, 1, crFile, hint).mode = spec.mode
      BY DEF ModeHonoured
    <2>1. cfg.mode \in {"poll", "stream"} /\ cfg.mode = spec.mode
      BY RenderedConfig
    <2> QED BY <2>1 DEF ResolveMode, Resolution
  <1> QED BY <1>1, Inductive, PTL

\* As long as users pin the transport, an admitted spec is refused at the
\* adapter's start for the content of the Secret only.
THEOREM AdmittedSpecsRun == ASSUME ~UsesAuto PROVE Spec => []AdmittedRuns
  <1>1. IInv => AdmittedRuns
    BY DEF IInv, EnvInv, PodInv, AdmittedRuns, NoEnv
  <1> QED BY <1>1, Inductive, PTL

-----------------------------------------------------------------------------
(* The filter.  Join and parse are loops over the list, so what they       *)
(* compute is shown by induction.                                          *)

\* p is an element of s.
Has(s, p) == \E i \in DOMAIN s : s[i] = p

\* The elements of a concatenation are those of its parts.
LEMMA ConcatRange ==
  ASSUME NEW S, NEW s \in Seq(S), NEW t \in Seq(S), NEW p
  PROVE  /\ s \o t \in Seq(S)
         /\ Has(s \o t, p) <=> Has(s, p) \/ Has(t, p)
  <1> DEFINE c == s \o t
  <1>1. c \in Seq(S) /\ Len(c) = Len(s) + Len(t)
    OBVIOUS
  <1>2. /\ \A i \in 1..Len(s) : c[i] = s[i]
        /\ \A i \in 1..Len(t) : c[Len(s) + i] = t[i]
        /\ \A i \in (Len(s) + 1)..(Len(s) + Len(t)) : c[i] = t[i - Len(s)]
    OBVIOUS
  <1>3. ASSUME NEW i \in DOMAIN c, c[i] = p
        PROVE  (\E m \in DOMAIN s : s[m] = p) \/ (\E m \in DOMAIN t : t[m] = p)
    <2>1. CASE i <= Len(s)
      <3>1. i \in DOMAIN s /\ s[i] = p
        BY <1>1, <1>2, <1>3, <2>1
      <3> QED BY <3>1
    <2>2. CASE i > Len(s)
      <3>1. i - Len(s) \in DOMAIN t /\ t[i - Len(s)] = p
        BY <1>1, <1>2, <1>3, <2>2
      <3> QED BY <3>1
    <2> QED BY <1>1, <2>1, <2>2
  <1>4. ASSUME NEW i \in DOMAIN s, s[i] = p PROVE \E m \in DOMAIN c : c[m] = p
    <2>1. i \in DOMAIN c /\ c[i] = p
      BY <1>1, <1>2, <1>4
    <2> QED BY <2>1
  <1>5. ASSUME NEW i \in DOMAIN t, t[i] = p PROVE \E m \in DOMAIN c : c[m] = p
    <2>1. Len(s) + i \in DOMAIN c /\ c[Len(s) + i] = p
      BY <1>1, <1>2, <1>5
    <2> QED BY <2>1
  <1> QED BY <1>1, <1>3, <1>4, <1>5 DEF Has

\* The parts of a joined list are the parts of its globs.
LEMMA JoinRange ==
  ASSUME NEW types \in Seq(Globs), types # <<>>
  PROVE  /\ FlattenSeq(types) \in Seq(Parts)
         /\ \A p : Has(FlattenSeq(types), p) <=> \E j \in DOMAIN types : Has(types[j], p)
  <1> DEFINE n == Len(types)
             S == Seq(Parts)
             Rec(f) == f = [i \in 1..n |-> IF i = 1 THEN types[i] ELSE f[i - 1] \o types[i]]
             step == [k \in Nat |-> [s \in S |-> IF k + 2 \in 1..n THEN s \o types[k + 2]
                                                 ELSE s]]
  <1>1. n \in Nat \ {0} /\ DOMAIN types = 1..n /\ \A i \in 1..n : types[i] \in S
    BY SpecsAssumption
  <1>2. step \in [Nat -> [S -> S]]
    BY <1>1
  <1>3. PICK g : Upto(g, n - 1, S, types[1], step)
    <2>1. n - 1 \in Nat /\ types[1] \in S
      BY <1>1
    <2> HIDE DEF S, step, n
    <2> QED BY <1>2, <2>1, UptoExists
  <1> DEFINE flat == [i \in 1..n |-> g[i - 1]]
  <1>4. ASSUME NEW i \in 1..n
        PROVE  flat[i] = IF i = 1 THEN types[i] ELSE flat[i - 1] \o types[i]
    <2>1. CASE i = 1
      BY <1>1, <1>3, <2>1 DEF Upto
    <2>2. CASE i # 1
      <3>1. i - 2 \in 0..(n - 1) /\ i - 2 < n - 1 /\ (i - 2) + 1 = i - 1 /\ (i - 2) + 2 = i
            /\ i - 2 \in Nat /\ i - 1 \in 1..n /\ (i - 1) - 1 = i - 2
        BY <1>1, <2>2
      <3>2. g[i - 1] = step[i - 2][g[i - 2]] /\ g[i - 2] \in S
        BY <1>3, <3>1 DEF Upto
      <3>3. step[i - 2][g[i - 2]] = g[i - 2] \o types[i]
        BY <3>1, <3>2
      <3> QED BY <2>2, <3>1, <3>2, <3>3
    <2> QED BY <2>1, <2>2
  <1> DEFINE f == CHOOSE f : Rec(f)
  <1>5. Rec(f)
    <2>1. Rec(flat)
      BY <1>4
    <2> HIDE DEF Rec, flat
    <2> QED BY <2>1
  <1>6. FlattenSeq(types) = f[n]
    BY <1>1 DEF FlattenSeq
  <1> HIDE DEF f
  <1>7. \A i \in 1..n : f[i] = IF i = 1 THEN types[i] ELSE f[i - 1] \o types[i]
    BY <1>5
  <1> DEFINE Holds(k) == /\ f[k] \in S
                         /\ \A p : Has(f[k], p) <=> \E j \in 1..k : Has(types[j], p)
             P == {k \in Nat : k \in 1..n => Holds(k)}
  <1>8. 0 \in P
    OBVIOUS
  <1>9. ASSUME NEW k \in Nat, k \in P PROVE k + 1 \in P
    <2> SUFFICES ASSUME k + 1 \in 1..n PROVE Holds(k + 1)
      OBVIOUS
    <2>1. CASE k = 0
      <3>1. f[1] = types[1] /\ k + 1 = 1 /\ 1..1 = {1}
        BY <1>1, <1>7, <2>1
      <3> QED BY <1>1, <3>1
    <2>2. CASE k # 0
      <3>1. k \in 1..n /\ k + 1 # 1 /\ (k + 1) - 1 = k
        BY <2>2
      <3>2. f[k + 1] = f[k] \o types[k + 1]
        BY <1>7, <3>1
      <3>3. Holds(k)
        BY <1>9, <3>1
      <3>4. types[k + 1] \in S
        BY <1>1
      <3>5. f[k + 1] \in S
        BY <3>2, <3>3, <3>4, ConcatRange
      <3>6. ASSUME NEW p
            PROVE  Has(f[k + 1], p) <=> \E j \in 1..(k + 1) : Has(types[j], p)
        <4>1. Has(f[k + 1], p) <=> Has(f[k], p) \/ Has(types[k + 1], p)
          BY <3>2, <3>3, <3>4, ConcatRange
        <4>2. 1..(k + 1) = (1..k) \cup {k + 1}
          OBVIOUS
        <4> QED BY <3>3, <4>1, <4>2
      <3> QED BY <3>5, <3>6
    <2> QED BY <2>1, <2>2
  <1> HIDE DEF P
  <1>10. n \in P
    BY <1>1, <1>8, <1>9, NatInduct
  <1> QED BY <1>1, <1>6, <1>10 DEF P

\* What is appended is there, and what was there is still there.
LEMMA AppendRange ==
  ASSUME NEW S, NEW s \in Seq(S), NEW e \in S, NEW p
  PROVE  Append(s, e) \in Seq(S) /\ (Has(Append(s, e), p) <=> Has(s, p) \/ e = p)
  <1> DEFINE c == Append(s, e)
  <1>1. /\ c \in Seq(S) /\ Len(s) \in Nat /\ DOMAIN s = 1..Len(s)
        /\ DOMAIN c = 1..(Len(s) + 1)
        /\ c[Len(s) + 1] = e /\ \A i \in 1..Len(s) : c[i] = s[i]
    OBVIOUS
  <1>2. \A i \in 1..(Len(s) + 1) : i \in 1..Len(s) \/ i = Len(s) + 1
    BY <1>1
  <1>3. (1..Len(s)) \cup {Len(s) + 1} \subseteq 1..(Len(s) + 1)
    BY <1>1
  <1> HIDE DEF c
  <1>4. Has(c, p) <=> Has(s, p) \/ e = p
    BY <1>1, <1>2, <1>3 DEF Has
  <1> QED BY <1>1, <1>4 DEF c

\* Trimming keeps the text of a part, and all of a part with nothing around it.
LEMMA TrimPart ==
  ASSUME NEW p \in Parts
  PROVE  /\ TrimSpace(p) \in Parts /\ TrimSpace(p).text = p.text
         /\ Tidy(p) => TrimSpace(p) = p
  <1>1. TrimSpace(p) \in Parts /\ TrimSpace(p).text = p.text /\ TrimSpace(p).padded = FALSE
    BY DEF TrimSpace, Parts
  <1>2. ASSUME NEW q \in Parts, NEW r \in Parts, q.text = r.text, q.padded = r.padded
        PROVE  q = r
    BY <1>2 DEF Parts
  <1>3. ASSUME Tidy(p) PROVE p.padded = FALSE
    BY <1>3 DEF Tidy, Parts
  <1> QED BY <1>1, <1>2, <1>3

\* The filters are the parts that are not blank, trimmed.
LEMMA ParseRange ==
  ASSUME NEW raw \in Seq(Parts)
  PROVE  /\ parseEventFilters(raw) \in Seq(Parts)
         /\ \A p : Has(parseEventFilters(raw), p)
                     <=> \E i \in DOMAIN raw : raw[i].text # Blank /\ TrimSpace(raw[i]) = p
  <1> DEFINE n == Len(raw)
             S == Seq(Parts)
             Rec(f) == f = [i \in 0..n |->
                              IF i = 0 THEN <<>>
                              ELSE IF TrimSpace(raw[i]).text = Blank THEN f[i - 1]
                              ELSE Append(f[i - 1], TrimSpace(raw[i]))]
             step == [k \in Nat |-> [s \in S |->
                        IF k + 1 \in 1..n
                        THEN IF TrimSpace(raw[k + 1]).text = Blank THEN s
                             ELSE Append(s, TrimSpace(raw[k + 1]))
                        ELSE s]]
  <1>1. n \in Nat /\ DOMAIN raw = 1..n
    OBVIOUS
  <1>2. \A i \in 1..n : TrimSpace(raw[i]) \in Parts /\ TrimSpace(raw[i]).text = raw[i].text
    <2>1. \A i \in 1..n : raw[i] \in Parts
      OBVIOUS
    <2> QED BY <2>1, TrimPart
  <1>3. <<>> \in S /\ step \in [Nat -> [S -> S]]
    <2>1. ASSUME NEW k \in Nat, NEW s \in S, k + 1 \in 1..n
          PROVE  Append(s, TrimSpace(raw[k + 1])) \in S
      <3>1. TrimSpace(raw[k + 1]) \in Parts
        BY <1>2, <2>1
      <3> QED BY <3>1
    <2> HIDE DEF S, n
    <2>2. step \in [Nat -> [S -> S]]
      BY <2>1
    <2> QED BY <2>2 DEF S
  <1>4. PICK g : Upto(g, n, S, <<>>, step)
    <2> HIDE DEF S, step, n
    <2> QED BY <1>1, <1>3, UptoExists
  <1> DEFINE list == [i \in 0..n |-> g[i]]
  <1>5. ASSUME NEW i \in 0..n
        PROVE  list[i] = IF i = 0 THEN <<>>
                         ELSE IF TrimSpace(raw[i]).text = Blank THEN list[i - 1]
                         ELSE Append(list[i - 1], TrimSpace(raw[i]))
    <2>1. CASE i = 0
      BY <1>1, <1>4, <2>1 DEF Upto
    <2>2. CASE i # 0
      <3>1. i - 1 \in 0..n /\ i - 1 < n /\ (i - 1) + 1 = i /\ i - 1 \in Nat /\ i \in 1..n
        BY <1>1, <2>2
      <3>2. g[i] = step[i - 1][g[i - 1]] /\ g[i - 1] \in S
        BY <1>4, <3>1 DEF Upto
      <3>3. step[i - 1][g[i - 1]] = IF TrimSpace(raw[i]).text = Blank THEN g[i - 1]
                                    ELSE Append(g[i - 1], TrimSpace(raw[i]))
        BY <3>1, <3>2
      <3> QED BY <2>2, <3>1, <3>2, <3>3
    <2> QED BY <2>1, <2>2
  <1> DEFINE f == CHOOSE f : Rec(f)
  <1>6. Rec(f)
    <2>1. Rec(list)
      BY <1>5
    <2> HIDE DEF Rec, list
    <2> QED BY <2>1
  <1>7. parseEventFilters(raw) = f[n]
    BY DEF parseEventFilters
  <1> HIDE DEF f
  <1>8. \A i \in 0..n : f[i] = IF i = 0 THEN <<>>
                               ELSE IF TrimSpace(raw[i]).text = Blank THEN f[i - 1]
                               ELSE Append(f[i - 1], TrimSpace(raw[i]))
    BY <1>6
  <1> DEFINE From(k, p) == \E i \in 1..k : raw[i].text # Blank /\ TrimSpace(raw[i]) = p
             Holds(k) == f[k] \in S /\ \A p : Has(f[k], p) <=> From(k, p)
             P == {k \in Nat : k \in 0..n => Holds(k)}
  <1>9. 0 \in P
    <2>1. f[0] = <<>> /\ DOMAIN f[0] = {} /\ 1..0 = {}
      BY <1>1, <1>8
    <2> QED BY <1>3, <2>1 DEF Has
  <1>10. ASSUME NEW k \in Nat, k \in P PROVE k + 1 \in P
    <2> SUFFICES ASSUME k + 1 \in 0..n PROVE Holds(k + 1)
      OBVIOUS
    <2>1. k \in 0..n /\ k + 1 \in 1..n /\ k + 1 # 0 /\ (k + 1) - 1 = k
      BY <1>1
    <2>2. Holds(k)
      BY <1>10, <2>1
    <2>3. 1..(k + 1) = (1..k) \cup {k + 1}
      OBVIOUS
    <2>4. CASE raw[k + 1].text = Blank
      <3>1. f[k + 1] = f[k]
        BY <1>2, <1>8, <2>1, <2>4
      <3> QED BY <2>2, <2>3, <2>4, <3>1
    <2>5. CASE raw[k + 1].text # Blank
      <3>1. f[k + 1] = Append(f[k], TrimSpace(raw[k + 1]))
        BY <1>2, <1>8, <2>1, <2>5
      <3>2. f[k + 1] \in S
        BY <1>2, <2>1, <2>2, <3>1
      <3>3. ASSUME NEW p PROVE Has(f[k + 1], p) <=> Has(f[k], p) \/ TrimSpace(raw[k + 1]) = p
        BY <1>2, <2>1, <2>2, <3>1, AppendRange
      <3> QED BY <2>2, <2>3, <2>5, <3>2, <3>3
    <2> QED BY <2>4, <2>5
  <1> HIDE DEF P
  <1>11. n \in P
    BY <1>1, <1>9, <1>10, NatInduct
  <1> QED BY <1>1, <1>7, <1>11 DEF P

\* A sequence of length one is its element.
LEMMA OneElement ==
  ASSUME NEW S, NEW s \in Seq(S), Len(s) = 1
  PROVE  s[1] \in S /\ s = <<s[1]>> /\ DOMAIN s = {1}
  <1>1. s[1] \in S
    OBVIOUS
  <1>2. s = <<s[1]>>
    OBVIOUS
  <1>3. DOMAIN s = 1..1 /\ 1..1 = {1}
    OBVIOUS
  <1> QED BY <1>1, <1>2, <1>3

\* Without commas the adapter's filters are the globs that are not blank, trimmed.
LEMMA LoadedFilters ==
  ASSUME NEW types \in Seq(Globs), \A i \in DOMAIN types : Len(types[i]) = 1
  PROVE  /\ \A i \in DOMAIN types : types[i][1] \in Parts /\ types[i] = <<types[i][1]>>
         /\ parseEventFilters(JoinFilter(types)) \in Seq(Parts)
         /\ \A p : Has(parseEventFilters(JoinFilter(types)), p)
                     <=> \E i \in DOMAIN types :
                           types[i][1].text # Blank /\ TrimSpace(types[i][1]) = p
  <1>1. ASSUME NEW i \in DOMAIN types
        PROVE  /\ types[i] \in Seq(Parts) /\ types[i][1] \in Parts /\ types[i] = <<types[i][1]>>
               /\ \A p : Has(types[i], p) <=> types[i][1] = p
    <2>1. types[i] \in Seq(Parts) /\ Len(types[i]) = 1
      <3>1. types[i] \in Globs
        OBVIOUS
      <3> QED BY <3>1, SpecsAssumption
    <2>2. types[i][1] \in Parts /\ types[i] = <<types[i][1]>> /\ DOMAIN types[i] = {1}
      BY <2>1, OneElement
    <2> QED BY <2>1, <2>2 DEF Has
  <1>2. CASE types = <<>>
    <2> DEFINE b == [text |-> Blank, padded |-> FALSE]
    <2>1. JoinFilter(types) = <<b>> /\ DOMAIN types = {}
      BY <1>2 DEF JoinFilter
    <2>2. b.text = Blank /\ b \in Parts
      BY SpecsAssumption DEF Parts
    <2> HIDE DEF b
    <2>3. <<b>> \in Seq(Parts) /\ DOMAIN <<b>> = {1} /\ <<b>>[1] = b
      BY <2>2
    <2> QED BY <1>1, <2>1, <2>2, <2>3, ParseRange
  <1>3. CASE types # <<>>
    <2> DEFINE raw == FlattenSeq(types)
    <2>1. JoinFilter(types) = raw
      BY <1>3 DEF JoinFilter
    <2>2. raw \in Seq(Parts) /\ \A p : Has(raw, p) <=> \E j \in DOMAIN types : Has(types[j], p)
      BY <1>3, JoinRange
    <2> HIDE DEF raw
    <2>3. \A p : Has(raw, p) <=> \E j \in DOMAIN types : types[j][1] = p
      BY <1>1, <2>2
    <2>4. ASSUME NEW p
          PROVE  Has(parseEventFilters(raw), p)
                   <=> \E j \in DOMAIN types :
                         types[j][1].text # Blank /\ TrimSpace(types[j][1]) = p
      <3>1. ASSUME Has(parseEventFilters(raw), p)
            PROVE  \E j \in DOMAIN types :
                     types[j][1].text # Blank /\ TrimSpace(types[j][1]) = p
        <4>1. PICK i \in DOMAIN raw : raw[i].text # Blank /\ TrimSpace(raw[i]) = p
          BY <2>2, <3>1, ParseRange
        <4>2. Has(raw, raw[i])
          BY DEF Has
        <4>3. PICK j \in DOMAIN types : types[j][1] = raw[i]
          BY <2>3, <4>2
        <4> QED BY <4>1, <4>3
      <3>2. ASSUME NEW j \in DOMAIN types,
                   types[j][1].text # Blank, TrimSpace(types[j][1]) = p
            PROVE  Has(parseEventFilters(raw), p)
        <4>1. Has(raw, types[j][1])
          BY <2>3
        <4>2. PICK i \in DOMAIN raw : raw[i] = types[j][1]
          BY <4>1 DEF Has
        <4> QED BY <2>2, <3>2, <4>2, ParseRange
      <3> QED BY <3>1, <3>2
    <2> QED BY <1>1, <2>1, <2>2, <2>4, ParseRange
  <1> QED BY <1>2, <1>3

\* Whatever globs without commas are admitted, blank and padded ones too, the
\* adapter asks for every event type they describe, and for no other where
\* TrimSpace left the list alone (MakeAdapterDeployment, parseEventFilters).
THEOREM FilterReachesServer == Spec => []FilterFaithful
  <1>1. IInv => FilterFaithful
    <2> SUFFICES ASSUME IInv, Rendered, CommaFree(spec)
                 PROVE  /\ Wanted(spec) \subseteq Requested(cfg)
                        /\ Trimmed(spec) => Requested(cfg) \subseteq Wanted(spec)
      BY DEF FilterFaithful
    <2> DEFINE types == spec.types
               F == cfg.filters
    <2>1. types \in Seq(Globs) /\ F = parseEventFilters(JoinFilter(types))
      BY RenderedConfig DEF Admitted, AnySpec
    <2>2. \A i \in DOMAIN types : Len(types[i]) = 1
      BY DEF CommaFree
    <2> HIDE DEF types, F
    <2>3. /\ \A i \in DOMAIN types : types[i][1] \in Parts /\ types[i] = <<types[i][1]>>
          /\ F \in Seq(Parts)
          /\ \A p : Has(F, p) <=> \E i \in DOMAIN types :
                      types[i][1].text # Blank /\ TrimSpace(types[i][1]) = p
      BY <2>1, <2>2, LoadedFilters
    <2>4. ASSUME NEW i \in DOMAIN types, Tidy(types[i][1])
          PROVE  types[i][1].text # Blank /\ TrimSpace(types[i][1]) = types[i][1]
      BY <2>3, <2>4, TrimPart DEF Tidy
    <2>5. ASSUME NEW ev \in Wanted(spec) PROVE ev \in Requested(cfg)
      <3>1. CASE types = <<>>
        <4>1. \A p : ~Has(F, p)
          BY <2>3, <3>1
        <4>2. F = <<>>
          BY <2>3, <4>1 DEF Has
        <4> QED BY <2>5, <4>2 DEF Wanted, Requested, F
      <3>2. CASE types # <<>>
        <4>1. PICK i \in DOMAIN types : ev \in MatchedBy(types[i])
          BY <2>5, <3>2 DEF Wanted, types
        <4>2. types[i] \in DOMAIN Matches
          BY <4>1 DEF MatchedBy
        <4>3. Tidy(types[i][1])
          BY <2>2, <4>2, MatchesAssumption
        <4>4. Has(F, types[i][1])
          BY <2>3, <2>4, <4>3
        <4>5. PICK k \in DOMAIN F : F[k] = types[i][1]
          BY <4>4 DEF Has
        <4>6. ev \in MatchedBy(<<F[k]>>)
          BY <2>3, <4>1, <4>5
        <4> QED BY <2>5, <4>6 DEF Wanted, Requested, F
      <3> QED BY <3>1, <3>2
    <2>6. ASSUME Trimmed(spec), NEW ev \in Requested(cfg) PROVE ev \in Wanted(spec)
      <3>1. CASE F = <<>>
        <4>1. \A i \in DOMAIN types : ~Tidy(types[i][1])
          BY <2>3, <2>4, <3>1 DEF Has
        <4>2. types = <<>>
          BY <2>6, <4>1 DEF Trimmed, types
        <4> QED BY <2>6, <4>2 DEF Wanted, Requested, types
      <3>2. CASE F # <<>>
        <4>1. PICK k \in DOMAIN F : ev \in MatchedBy(<<F[k]>>)
          BY <2>6, <3>2 DEF Requested, F
        <4>2. PICK i \in DOMAIN types : types[i][1].text # Blank /\ TrimSpace(types[i][1]) = F[k]
          BY <2>3 DEF Has
        <4>3. Tidy(types[i][1])
          BY <2>6, <4>2 DEF Trimmed, types
        <4>4. types[i] = <<F[k]>>
          BY <2>3, <2>4, <4>2, <4>3
        <4> QED BY <2>6, <4>1, <4>4 DEF Wanted, Requested, types
      <3> QED BY <3>1, <3>2
    <2> QED BY <2>5, <2>6
  <1> QED BY <1>1, Inductive, PTL

-----------------------------------------------------------------------------
(* The overrides.  Send applies them one by one in an order of its own.    *)

\* Names of extensions on an event, and the events Send works on.
Lowers == {"region"} \cup {n.lower : n \in Names}
Exts == UNION {[D -> SUBSET Names] : D \in SUBSET Lowers}
Events == [attrs: {Event.attrs}, ext: Exts]

\* The overrides of M have been applied: those with the name of an extension
\* are there, and nothing else comes from an override.
Marked(ev, M) ==
  /\ ev \in Events
  /\ \A x \in DOMAIN ev.ext : x \notin SpecAttributes
  /\ \A n \in M : IsExtensionName(n) =>
       n.lower \in DOMAIN ev.ext /\ ev.ext[n.lower] # ByServer
  /\ \A x \in DOMAIN ev.ext : ev.ext[x] # ByServer =>
       \E m \in M : IsExtensionName(m) /\ m.lower = x /\ ev.ext[x] = {m}

\* SetExtension yields another event of the kind Send works on.
LEMMA SetExtensionType ==
  ASSUME NEW ev \in Events, NEW m \in Names
  PROVE  SetExtension(ev, m) \in Events
  <1>1. CASE ~m.alnum \/ m.lower \in SpecAttributes
    BY <1>1 DEF SetExtension
  <1>2. CASE ~(~m.alnum \/ m.lower \in SpecAttributes)
    <2> DEFINE X == [x \in DOMAIN ev.ext \cup {m.lower} |->
                       IF x = m.lower THEN {m} ELSE ev.ext[x]]
    <2>1. ev.attrs = Event.attrs /\ ev.ext \in Exts
      BY DEF Events
    <2>2. PICK D \in SUBSET Lowers : ev.ext \in [D -> SUBSET Names]
      BY <2>1 DEF Exts
    <2>3. X \in [D \cup {m.lower} -> SUBSET Names] /\ D \cup {m.lower} \in SUBSET Lowers
      BY <2>2 DEF Lowers
    <2>4. X \in Exts
      BY <2>3 DEF Exts
    <2>5. SetExtension(ev, m) = [ev EXCEPT !.ext = X]
      BY <1>2 DEF SetExtension
    <2> HIDE DEF X
    <2> QED BY <2>1, <2>4, <2>5 DEF Events
  <1> QED BY <1>1, <1>2

\* One call of SetExtension, refused or not.
LEMMA OneOverride ==
  ASSUME NEW ev, NEW M, Marked(ev, M), NEW n \in Names
  PROVE  Marked(SetExtension(ev, n), M \cup {n})
  <1> DEFINE e == SetExtension(ev, n)
  <1>1. CASE ~IsExtensionName(n)
    <2>1. e = ev
      BY <1>1 DEF IsExtensionName, SetExtension
    <2> QED BY <1>1, <2>1 DEF Marked
  <1>2. CASE IsExtensionName(n)
    <2> DEFINE X == [x \in DOMAIN ev.ext \cup {n.lower} |->
                       IF x = n.lower THEN {n} ELSE ev.ext[x]]
    <2>1. ev \in Events /\ ev.attrs = Event.attrs /\ ev.ext \in Exts
      BY DEF Marked, Events
    <2>2. e = [ev EXCEPT !.ext = X]
      BY <1>2 DEF IsExtensionName, SetExtension
    <2>3. /\ DOMAIN X = DOMAIN ev.ext \cup {n.lower} /\ X[n.lower] = {n}
          /\ \A x \in DOMAIN ev.ext : x # n.lower => X[x] = ev.ext[x]
      OBVIOUS
    <2> HIDE DEF X
    <2>4. e \in Events /\ e.ext = X
      BY <2>1, <2>2, SetExtensionType DEF Events
    <2> HIDE DEF e
    <2>5. \A x \in DOMAIN X : x \notin SpecAttributes
      BY <1>2, <2>3 DEF Marked, IsExtensionName
    <2>6. ASSUME NEW m \in M \cup {n}, IsExtensionName(m)
          PROVE  m.lower \in DOMAIN X /\ X[m.lower] # ByServer
      <3>1. CASE m.lower = n.lower
        BY <2>3, <3>1 DEF ByServer
      <3>2. CASE m.lower # n.lower
        BY <2>3, <2>6, <3>2 DEF Marked
      <3> QED BY <3>1, <3>2
    <2>7. ASSUME NEW x \in DOMAIN X, X[x] # ByServer
          PROVE  \E m \in M \cup {n} : IsExtensionName(m) /\ m.lower = x /\ X[x] = {m}
      <3>1. CASE x = n.lower
        BY <1>2, <2>3, <3>1
      <3>2. CASE x # n.lower
        BY <2>3, <2>7, <3>2 DEF Marked
      <3> QED BY <3>1, <3>2
    <2>8. Marked(e, M \cup {n})
      BY <2>4, <2>5, <2>6, <2>7 DEF Marked
    <2> QED BY <2>8 DEF e
  <1> QED BY <1>1, <1>2

\* The server's event, before the loop.
LEMMA NoOverride == Marked(Event, {})
  <1>1. Event.ext \in [{"region"} -> SUBSET Names] /\ Event.ext["region"] = ByServer
    BY DEF Event, ByServer
  <1>2. Event.ext \in Exts
    BY <1>1 DEF Exts, Lowers
  <1>3. Event \in Events
    BY <1>2 DEF Event, Events
  <1>4. "region" \notin SpecAttributes
    BY DEF SpecAttributes
  <1> QED BY <1>1, <1>3, <1>4 DEF Marked

\* The loop over all of them.
LEMMA AllOverrides ==
  ASSUME NEW n \in Nat, NEW order \in [1..n -> Names], Len(order) = n
  PROVE  Marked(Overridden(Event, order), {order[j] : j \in 1..n})
  <1> DEFINE Rec(f) == f = [i \in 0..n |->
                              IF i = 0 THEN Event ELSE SetExtension(f[i - 1], order[i])]
             step == [k \in Nat |-> [ev \in Events |->
                        IF k + 1 \in 1..n THEN SetExtension(ev, order[k + 1]) ELSE ev]]
  <1>1. Event \in Events /\ step \in [Nat -> [Events -> Events]]
    BY SetExtensionType, NoOverride DEF Marked
  <1>2. PICK g : Upto(g, n, Events, Event, step)
    <2> HIDE DEF step
    <2> QED BY <1>1, UptoExists
  <1> DEFINE loop == [i \in 0..n |-> g[i]]
  <1>3. ASSUME NEW i \in 0..n
        PROVE  loop[i] = IF i = 0 THEN Event ELSE SetExtension(loop[i - 1], order[i])
    <2>1. CASE i = 0
      BY <1>2, <2>1 DEF Upto
    <2>2. CASE i # 0
      <3>1. i - 1 \in 0..n /\ i - 1 < n /\ (i - 1) + 1 = i /\ i - 1 \in Nat /\ i \in 1..n
        BY <2>2
      <3>2. g[i] = step[i - 1][g[i - 1]] /\ g[i - 1] \in Events
        BY <1>2, <3>1 DEF Upto
      <3>3. step[i - 1][g[i - 1]] = SetExtension(g[i - 1], order[i])
        BY <3>1, <3>2
      <3> QED BY <2>2, <3>1, <3>2, <3>3
    <2> QED BY <2>1, <2>2
  <1> DEFINE f == CHOOSE f : Rec(f)
  <1>4. Rec(f)
    <2>1. Rec(loop)
      BY <1>3
    <2> HIDE DEF Rec, loop
    <2> QED BY <2>1
  <1>5. Overridden(Event, order) = f[n]
    BY DEF Overridden
  <1> HIDE DEF f
  <1>6. \A i \in 0..n : f[i] = IF i = 0 THEN Event ELSE SetExtension(f[i - 1], order[i])
    BY <1>4
  <1> DEFINE Done(k) == {order[j] : j \in 1..k}
             P == {k \in Nat : k \in 0..n => Marked(f[k], Done(k))}
  <1>7. 0 \in P
    <2>1. f[0] = Event /\ Done(0) = {}
      BY <1>6
    <2> QED BY <2>1, NoOverride
  <1>8. ASSUME NEW k \in Nat, k \in P PROVE k + 1 \in P
    <2> SUFFICES ASSUME k + 1 \in 0..n PROVE Marked(f[k + 1], Done(k + 1))
      OBVIOUS
    <2>1. k \in 0..n /\ k + 1 \in 1..n /\ (k + 1) - 1 = k /\ k + 1 # 0
      OBVIOUS
    <2>2. Marked(f[k], Done(k)) /\ f[k + 1] = SetExtension(f[k], order[k + 1])
      BY <1>6, <1>8, <2>1
    <2>3. 1..(k + 1) = (1..k) \cup {k + 1}
      OBVIOUS
    <2>4. Done(k + 1) = Done(k) \cup {order[k + 1]}
      BY <2>3
    <2>5. order[k + 1] \in Names
      BY <2>1
    <2> HIDE DEF Done
    <2> QED BY <2>2, <2>4, <2>5, OneOverride
  <1> HIDE DEF P
  <1>9. n \in P
    BY <1>7, <1>8, NatInduct
  <1> QED BY <1>5, <1>9 DEF P

\* Every iteration order of the map visits every override.
LEMMA OrderVisitsAll ==
  ASSUME NEW O \in SUBSET Names, IsFiniteSet(O), NEW order \in SetToSeqs(O)
  PROVE  /\ Cardinality(O) \in Nat /\ order \in [1..Cardinality(O) -> Names]
         /\ Len(order) = Cardinality(O)
         /\ {order[j] : j \in 1..Cardinality(O)} = O
  <1> DEFINE n == Cardinality(O)
  <1>1. n \in Nat
    BY FS_CardinalityType
  <1>2. order \in [1..n -> O] /\ \A i, j \in 1..n : i # j => order[i] # order[j]
    BY DEF SetToSeqs
  <1>3. order \in Injection(1..n, O)
    BY <1>2 DEF Injection, IsInjective
  <1>4. Cardinality(1..n) = n
    BY <1>1, FS_Interval
  <1>5. order \in Surjection(1..n, O)
    BY <1>3, <1>4, FS_Injection
  <1>6. {order[j] : j \in 1..n} = O
    BY <1>2, <1>5 DEF Surjection
  <1> HIDE DEF n
  <1>7. order \in [1..n -> Names] /\ Len(order) = n
    BY <1>1, <1>2
  <1> QED BY <1>1, <1>6, <1>7 DEF n

\* In every order the overrides with the name of an extension, and no others,
\* are on the event the sink gets, and its own attributes are left alone, for
\* any finite set of names (MakeAdapterDeployment, LoadConfig, Send,
\* SetExtension, buildBinaryRequest).
THEOREM OverridesReachSink == Spec => []OverridesApplied
  <1>1. IInv => OverridesApplied
    <2> SUFFICES ASSUME IInv, Rendered, NEW h \in Sent(cfg)
                 PROVE  /\ \A a \in HeaderAttributes : h[a] = ByServer
                        /\ \A n \in spec.overrides : IsExtensionName(n) =>
                             n.lower \in DOMAIN h /\ h[n.lower] # ByServer
                        /\ \A a \in DOMAIN h : h[a] # ByServer =>
                             \E m \in spec.overrides :
                               IsExtensionName(m) /\ m.lower = a /\ h[a] = {m}
      BY DEF OverridesApplied
    <2> DEFINE O == spec.overrides
    <2>1. cfg.overrides = O /\ O \in SUBSET Names /\ IsFiniteSet(O)
      BY RenderedConfig DEF Admitted, AnySpec
    <2> HIDE DEF O
    <2>2. PICK order \in SetToSeqs(O) : h = Headers(Overridden(Event, order))
      BY <2>1 DEF Sent
    <2> DEFINE e == Overridden(Event, order)
    <2>3. Marked(e, O)
      BY <2>1, OrderVisitsAll, AllOverrides
    <2>4. h = Headers(e)
      BY <2>2
    <2> HIDE DEF e
    <2>5. /\ DOMAIN h = HeaderAttributes \cup DOMAIN e.ext
          /\ \A a \in DOMAIN h : h[a] = IF a \in DOMAIN e.ext THEN e.ext[a] ELSE e.attrs[a]
      BY <2>4 DEF Headers
    <2>6. \A a \in HeaderAttributes : a \in SpecAttributes /\ e.attrs[a] = ByServer
      BY <2>3 DEF Marked, Events, Event, HeaderAttributes
    <2>7. \A a \in HeaderAttributes : h[a] = ByServer
      BY <2>3, <2>5, <2>6 DEF Marked
    <2>8. \A n \in O : IsExtensionName(n) => n.lower \in DOMAIN h /\ h[n.lower] # ByServer
      BY <2>3, <2>5 DEF Marked
    <2>9. \A a \in DOMAIN h : h[a] # ByServer =>
            \E m \in O : IsExtensionName(m) /\ m.lower = a /\ h[a] = {m}
      BY <2>3, <2>5, <2>7 DEF Marked
    <2> QED BY <2>7, <2>8, <2>9 DEF O
  <1> QED BY <1>1, Inductive, PTL
=============================================================================
