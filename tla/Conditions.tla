----------------------------- MODULE Conditions -----------------------------
(***************************************************************************)
(* Knative's living condition set as YipYapSource uses it: "Ready" over    *)
(* the dependents "SinkProvided" and "Deployed"                            *)
(* (vendor/knative.dev/pkg/apis/condition_set.go and                       *)
(* pkg/apis/sources/v1alpha1/yipyapsource_lifecycle.go).                   *)
(*                                                                         *)
(* A condition is its status, "unset" when the list has no entry of that   *)
(* type.  Reasons, messages and transition times are left out: the         *)
(* manager compares conditions without the time, and no property is about  *)
(* the wording.                                                            *)
(***************************************************************************)

Happy == "Ready"
Dependents == {"SinkProvided", "Deployed"}
ConditionTypes == Dependents \cup {Happy}
Statuses == {"unset", "True", "False", "Unknown"}

NoConditions == [t \in ConditionTypes |-> "unset"]

SetCondition(c, t, s) == [c EXCEPT ![t] = s]

\* What the dependents say of Ready: a False one trumps an Unknown or missing one.
FindUnhappyDependent(c) ==
  IF \E d \in Dependents : c[d] = "False" THEN "False"
  ELSE IF \E d \in Dependents : c[d] # "True" THEN "Unknown"
  ELSE "True"

RecomputeHappiness(c, t) ==
  IF FindUnhappyDependent(c) # "True"
    THEN SetCondition(c, Happy, FindUnhappyDependent(c))
    ELSE IF t # Happy THEN SetCondition(c, Happy, "True") ELSE c

\* Variant: Ready follows the marked dependent alone.
MarkTrueAlone(c, t) == SetCondition(SetCondition(c, t, "True"), Happy, "True")

MarkTrue(c, t) == RecomputeHappiness(SetCondition(c, t, "True"), t)

MarkFalse(c, t) ==
  LET marked == SetCondition(c, t, "False")
  IN IF t \in Dependents THEN SetCondition(marked, Happy, "False") ELSE marked

\* A False dependent keeps Ready False; only then is a marked dependent's
\* Unknown passed on to Ready.
MarkUnknown(c, t) ==
  LET marked == SetCondition(c, t, "Unknown")
  IN IF \E d \in Dependents : marked[d] = "False"
       THEN SetCondition(marked, Happy, "False")
       ELSE IF t \in Dependents THEN SetCondition(marked, Happy, "Unknown")
       ELSE marked

\* Only conditions that are unset change.
InitializeConditions(c) ==
  LET happy == IF c[Happy] = "unset" THEN "Unknown" ELSE c[Happy]
      default == IF happy = "True" THEN "True" ELSE "Unknown"
  IN [t \in ConditionTypes |-> IF t = Happy THEN happy
                               ELSE IF c[t] = "unset" THEN default ELSE c[t]]

-----------------------------------------------------------------------------
(* The Mark methods of YipYapSourceStatus.  MarkSink is for a URI that is  *)
(* there: the resolver gives no other without an error.                    *)

MarkSink(c) == MarkTrue(c, "SinkProvided")
MarkNoSink(c) == MarkFalse(c, "SinkProvided")
MarkDeployed(c) == MarkTrue(c, "Deployed")
MarkNotDeployed(c) == MarkFalse(c, "Deployed")
MarkDeploying(c) == MarkUnknown(c, "Deployed")

\* Ready is what the dependents say.
Derived(c) == c[Happy] = FindUnhappyDependent(c)
=============================================================================
