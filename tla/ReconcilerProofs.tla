-------------------------- MODULE ReconcilerProofs --------------------------
(***************************************************************************)
(* The safety properties of Reconciler, for every number of environment    *)
(* changes, retries and sinks, and every combination of faults: what the   *)
(* stored status promises, and that no work is forgotten.                  *)
(***************************************************************************)
EXTENDS Reconciler, TLAPS

\* The Mark methods only name a manager's call.
USE DEF MarkSink, MarkNoSink, MarkDeployed, MarkNotDeployed, MarkDeploying

-----------------------------------------------------------------------------
(* The condition manager.                                                  *)

\* Marking a dependent, whatever the state of the others, yields typed
\* conditions on which Ready is what the dependents say.
LEMMA MarkDerived ==
  ASSUME NEW c \in Conds, NEW t \in Dependents
  PROVE  /\ MarkTrue(c, t) \in Conds /\ Derived(MarkTrue(c, t))
         /\ MarkFalse(c, t) \in Conds /\ Derived(MarkFalse(c, t))
         /\ MarkUnknown(c, t) \in Conds /\ Derived(MarkUnknown(c, t))
  <1> USE DEF Conds, ConditionTypes, Dependents, Happy, Statuses, SetCondition,
              Derived, FindUnhappyDependent
  <1>1. MarkTrue(c, t) \in Conds /\ Derived(MarkTrue(c, t))
    BY DEF MarkTrue, RecomputeHappiness
  <1>2. MarkFalse(c, t) \in Conds /\ Derived(MarkFalse(c, t))
    BY DEF MarkFalse
  <1>3. MarkUnknown(c, t) \in Conds /\ Derived(MarkUnknown(c, t))
    BY DEF MarkUnknown
  <1> QED BY <1>1, <1>2, <1>3

\* Initializing conditions and putting Ready in doubt keep them typed.
LEMMA PrepareTyped ==
  ASSUME NEW c \in Conds
  PROVE  InitializeConditions(c) \in Conds /\ MarkUnknown(c, Happy) \in Conds
  BY DEF InitializeConditions, MarkUnknown, SetCondition, Conds, ConditionTypes,
         Dependents, Happy, Statuses

\* Propagating the Deployment's availability keeps Ready derived, also when
\* there is nothing to propagate.
LEMMA PropagateDerived ==
  ASSUME NEW c \in Conds, Derived(c), NEW a \in Avails \cup {"absent"}
  PROVE  /\ PropagateDeploymentAvailability(c, a) \in Conds
         /\ Derived(PropagateDeploymentAvailability(c, a))
  <1>1. "Deployed" \in Dependents
    BY DEF Dependents
  <1> QED BY <1>1, MarkDerived DEF PropagateDeploymentAvailability, Avails

-----------------------------------------------------------------------------
(* Type correctness.                                                       *)

\* The initial state is typed.
LEMMA InitType == Init => TypeOK
  <1> SUFFICES ASSUME Init PROVE TypeOK
    OBVIOUS
  <1>1. NoConditions \in Conds
    BY DEF NoConditions, Conds, Statuses
  <1>2. EmptyStatus \in StatusTypes
    BY <1>1 DEF EmptyStatus, StatusTypes
  <1>3. NoDep \in DepTypes
    BY DEF NoDep, DepTypes
  <1>4. /\ srcStale \in BOOLEAN /\ depStale \in BOOLEAN /\ existStale \in BOOLEAN
        /\ queued \in BOOLEAN /\ failed \in BOOLEAN
    BY DEF Init
  <1>5. [gen |-> 1, status |-> EmptyStatus] \in [gen : Nat, status : StatusTypes]
    BY <1>2
  <1> QED BY <1>2, <1>3, <1>4, <1>5, ReconcilerAssumption DEF Init, TypeOK, Avails

\* What Begin computes from the cached source is typed.
LEMMA BeginTyped ==
  ASSUME NEW o \in [gen : Nat, status : StatusTypes]
  PROVE  [o.status EXCEPT !.cond = InitializeConditions(PreProcessReconcile(o)),
                          !.obs = o.gen] \in StatusTypes
  <1>1. o.status.cond \in Conds
    BY DEF StatusTypes
  <1>2. PreProcessReconcile(o) \in Conds
    BY <1>1, PrepareTyped DEF PreProcessReconcile
  <1>3. InitializeConditions(PreProcessReconcile(o)) \in Conds
    BY <1>2, PrepareTyped
  <1> QED BY <1>3 DEF StatusTypes

\* A pass through the Deployment ends with a typed status on which Ready is
\* derived, if it started with one.
LEMMA DeployStep ==
  ASSUME TypeOK, Derived(work.cond), NEW a \in Avails \cup {"absent"},
         Deployed(a) \/ NotDeployed
  PROVE  /\ work' \in StatusTypes /\ Derived(work'.cond)
         /\ failed' \in BOOLEAN /\ seen' \in Avails \cup {"absent"}
         /\ work'.obs = work.obs
         /\ NotDeployed => work'.cond[Happy] # "True"
  <1>1. work.cond \in Conds /\ "Deployed" \in Dependents
    BY DEF TypeOK, StatusTypes, Dependents
  <1>2. CASE Deployed(a)
    <2>1. PropagateDeploymentAvailability(work.cond, a) \in Conds
          /\ Derived(PropagateDeploymentAvailability(work.cond, a))
      BY <1>1, PropagateDerived
    <2>2. failed' \in BOOLEAN
      BY <1>2 DEF Deployed
    <2>3. CASE NotDeployed
      <3>1. MarkFalse(work.cond, "Deployed")[Happy] = "False"
        BY <1>1 DEF MarkFalse, SetCondition, Conds, ConditionTypes
      <3> QED BY <1>2, <2>1, <2>2, <2>3, <3>1
              DEF Deployed, NotDeployed, TypeOK, StatusTypes
    <2> QED BY <1>2, <2>1, <2>2, <2>3 DEF Deployed, TypeOK, StatusTypes
  <1>3. CASE NotDeployed
    <2>1. MarkFalse(work.cond, "Deployed") \in Conds
          /\ Derived(MarkFalse(work.cond, "Deployed"))
      BY <1>1, MarkDerived
    <2>2. failed' \in BOOLEAN
      BY <1>3 DEF NotDeployed
    <2>3. MarkFalse(work.cond, "Deployed")[Happy] = "False"
      BY <1>1 DEF MarkFalse, SetCondition, Conds, ConditionTypes
    <2> QED BY <1>3, <2>1, <2>2, <2>3 DEF NotDeployed, TypeOK, StatusTypes, Avails
  <1> QED BY <1>2, <1>3
-----------------------------------------------------------------------------
(* The inductive invariant.                                                *)

\* Generations only reach the status and the Deployment through the cache.
Order == /\ srcCache.gen <= gen
         /\ status.obs <= srcCache.gen
         /\ dep.gen <= srcCache.gen
         /\ depCache.gen <= srcCache.gen
         /\ dep # NoDep /\ depCache # NoDep => depCache.gen <= dep.gen

\* The copy a pass works from is at least as new as anything written before it.
Pass == pc # "idle" => /\ original.gen <= srcCache.gen
                       /\ work.obs = original.gen
                       /\ status.obs <= original.gen
                       /\ dep.gen <= original.gen
                       /\ depCache.gen <= original.gen

\* Past the sink, Ready is derived in the status being computed.
WorkDerived == pc \in {"deploy", "status", "put", "refetch"} => Derived(work.cond)

\* Past the Deployment, a Ready status belongs to a Deployment just rendered.
WorkRendered == pc \in {"status", "put", "refetch"} /\ work.cond[Happy] = "True"
                  /\ dep # NoDep => dep.gen >= original.gen

Tries == pc \in {"resolve", "deploy", "status", "put", "refetch"} => attempts < MaxAttempts

IInv == /\ TypeOK /\ ReadyIsDerived /\ ReadyRendersSpec
        /\ Order /\ Pass /\ WorkDerived /\ WorkRendered /\ Tries

\* The initial state satisfies the inductive invariant.
LEMMA InitIInv == Init => IInv
  <1> SUFFICES ASSUME Init PROVE IInv
    OBVIOUS
  <1>1. TypeOK
    BY InitType
  <1> QED BY <1>1, ReconcilerAssumption
          DEF Init, IInv, ReadyIsDerived, ReadyRendersSpec, Order, Pass, WorkDerived,
              WorkRendered, Tries, EmptyStatus, NoDep

\* Users, sinks, informers, the Deployment controller and restarts keep the
\* inductive invariant.
LEMMA EnvironmentIInv ==
  ASSUME IInv, Environment PROVE IInv'
  <1> USE ReconcilerAssumption
      DEF IInv, ReadyIsDerived, ReadyRendersSpec, Order, Pass, WorkDerived,
          WorkRendered, Tries, api, caches, worker
  <1>1. CASE UserUpdate
    <2>1. TypeOK'
      BY <1>1 DEF UserUpdate, Change, TypeOK
    <2> QED BY <1>1, <2>1 DEF UserUpdate, TypeOK, StatusTypes, DepTypes
  <1>2. CASE SinkChange
    <2>1. TypeOK'
      BY <1>2 DEF SinkChange, Change, TypeOK
    <2> QED BY <1>2, <2>1 DEF SinkChange
  <1>3. CASE AvailChange
    <2>1. PICK a \in Avails \ {"none", dep.avail} : dep' = [dep EXCEPT !.avail = a]
      BY <1>3 DEF AvailChange
    <2>2. dep' \in DepTypes /\ dep'.gen = dep.gen
      BY <2>1 DEF TypeOK, DepTypes
    <2>3. TypeOK'
      BY <1>3, <2>2 DEF AvailChange, Change, TypeOK
    <2> QED BY <1>3, <2>2, <2>3 DEF AvailChange
  <1>4. CASE DepDelete
    <2>1. dep' \in DepTypes /\ dep'.gen = 0
      BY <1>4 DEF DepDelete, NoDep, DepTypes
    <2>2. TypeOK'
      BY <1>4, <2>1 DEF DepDelete, Change, TypeOK
    <2> QED BY <1>4, <2>1, <2>2 DEF DepDelete, TypeOK, DepTypes, StatusTypes
  <1>5. CASE SyncSource
    <2>1. TypeOK'
      BY <1>5 DEF SyncSource, TypeOK
    <2> QED BY <1>5, <2>1 DEF SyncSource, TypeOK, DepTypes, StatusTypes
  <1>6. CASE SyncDeployment
    <2>1. TypeOK'
      BY <1>6 DEF SyncDeployment, TypeOK
    <2> QED BY <1>6, <2>1 DEF SyncDeployment, TypeOK, DepTypes, StatusTypes
  <1>7. CASE Crash
    <2>a. srcCache' \in [gen : Nat, status : StatusTypes] /\ changes' \in 0..MaxChanges
      BY <1>7 DEF Crash, Change, TypeOK
    <2>b. srcStale' \in BOOLEAN /\ depStale' \in BOOLEAN /\ queued' \in BOOLEAN
      BY <1>7 DEF Crash
    <2>1. TypeOK'
      BY <1>7, <2>a, <2>b DEF Crash, TypeOK
    <2> QED BY <1>7, <2>1 DEF Crash, TypeOK, DepTypes, StatusTypes
  <1> QED BY <1>1, <1>2, <1>3, <1>4, <1>5, <1>6, <1>7 DEF Environment
\* Every step of a reconcile pass keeps the inductive invariant.
LEMMA WorkerIInv ==
  ASSUME IInv, Worker PROVE IInv'
  <1> USE ReconcilerAssumption
      DEF IInv, ReadyIsDerived, ReadyRendersSpec, Order, Pass, WorkDerived,
          WorkRendered, Tries, api, caches
  <1>1. CASE Begin
    <2>1. work' \in StatusTypes /\ work'.obs = srcCache.gen
      BY <1>1, BeginTyped DEF Begin, TypeOK, StatusTypes
    <2>a. queued' \in BOOLEAN /\ existStale' \in BOOLEAN /\ failed' \in BOOLEAN
      BY <1>1 DEF Begin, TypeOK
    <2>2. TypeOK'
      BY <1>1, <2>1, <2>a DEF Begin, TypeOK, Avails
    <2> QED BY <1>1, <2>1, <2>2 DEF Begin, TypeOK, StatusTypes, DepTypes
  <1>2. CASE ResolveSink
    <2>1. /\ MarkTrue(work.cond, "SinkProvided") \in Conds
          /\ Derived(MarkTrue(work.cond, "SinkProvided"))
      BY MarkDerived DEF TypeOK, StatusTypes, Dependents
    <2>2. /\ work' \in StatusTypes /\ work'.obs = work.obs
          /\ Derived(work'.cond)
      BY <1>2, <2>1 DEF ResolveSink, TypeOK, StatusTypes
    <2>3. TypeOK'
      BY <1>2, <2>2 DEF ResolveSink, TypeOK
    <2> QED BY <1>2, <2>2, <2>3 DEF ResolveSink
  <1>3. CASE ResolveSinkFails
    <2>1. /\ MarkFalse(work.cond, "SinkProvided") \in Conds
          /\ Derived(MarkFalse(work.cond, "SinkProvided"))
      BY MarkDerived DEF TypeOK, StatusTypes, Dependents
    <2>2. MarkFalse(work.cond, "SinkProvided")[Happy] = "False"
      BY DEF MarkFalse, SetCondition, Conds, ConditionTypes, TypeOK, StatusTypes,
             Dependents
    <2>3. /\ work' \in StatusTypes /\ work'.obs = work.obs
          /\ Derived(work'.cond) /\ work'.cond[Happy] = "False"
      BY <1>3, <2>1, <2>2 DEF ResolveSinkFails, TypeOK, StatusTypes
    <2>4. TypeOK'
      BY <1>3, <2>3 DEF ResolveSinkFails, TypeOK
    <2> QED BY <1>3, <2>3, <2>4 DEF ResolveSinkFails
  <1>4. CASE CreateDeployment
    <2>1. Deployed("none") \/ NotDeployed
      BY <1>4 DEF CreateDeployment
    <2>2. /\ work' \in StatusTypes /\ Derived(work'.cond)
          /\ failed' \in BOOLEAN /\ seen' \in Avails \cup {"absent"}
          /\ work'.obs = work.obs
          /\ NotDeployed => work'.cond[Happy] # "True"
      BY <1>4, <2>1, DeployStep DEF CreateDeployment, Avails
    <2>3. CASE dep = NoDep /\ dep' # NoDep
      <3>1. dep' = [gen |-> original.gen, uri |-> work.uri, avail |-> "none"]
            /\ depStale' = TRUE /\ UNCHANGED changes
        BY <1>4, <2>3 DEF CreateDeployment
      <3>2. dep' \in DepTypes /\ dep'.gen = original.gen
        BY <3>1 DEF TypeOK, DepTypes, StatusTypes, Avails
      <3>3. TypeOK'
        BY <1>4, <2>2, <3>1, <3>2 DEF CreateDeployment, TypeOK
      <3> QED BY <1>4, <2>2, <3>2, <3>3
              DEF CreateDeployment, TypeOK, StatusTypes, DepTypes
    <2>4. CASE UNCHANGED <<dep, depStale>> /\ NotDeployed
      <3>1. changes' \in 0..MaxChanges
        BY <1>4 DEF CreateDeployment, ApiError, Change, TypeOK
      <3>2. TypeOK'
        BY <1>4, <2>2, <2>4, <3>1 DEF CreateDeployment, TypeOK
      <3> QED BY <1>4, <2>2, <2>4, <3>2 DEF CreateDeployment
    <2>5. [gen |-> original.gen, uri |-> work.uri, avail |-> "none"] # NoDep
      BY DEF NoDep
    <2> QED BY <1>4, <2>3, <2>4, <2>5 DEF CreateDeployment
  <1>5. CASE UpdateDeployment
    <2>1. Deployed(dep.avail) \/ NotDeployed
      BY <1>5 DEF UpdateDeployment
    <2>2. /\ work' \in StatusTypes /\ Derived(work'.cond)
          /\ failed' \in BOOLEAN /\ seen' \in Avails \cup {"absent"}
          /\ work'.obs = work.obs
          /\ NotDeployed => work'.cond[Happy] # "True"
      BY <1>5, <2>1, DeployStep DEF UpdateDeployment, TypeOK, DepTypes
    <2>3. CASE /\ dep' = [dep EXCEPT !.gen = original.gen, !.uri = work.uri]
               /\ depStale' = (dep' # dep) /\ UNCHANGED changes
      <3>1. dep' \in DepTypes /\ dep'.gen = original.gen
        BY <2>3 DEF TypeOK, DepTypes, StatusTypes
      <3>2. depStale' \in BOOLEAN
        BY <2>3
      <3>3. TypeOK'
        BY <1>5, <2>2, <2>3, <3>1, <3>2 DEF UpdateDeployment, TypeOK
      <3> QED BY <1>5, <2>2, <3>1, <3>3
              DEF UpdateDeployment, TypeOK, StatusTypes, DepTypes
    <2>4. CASE UNCHANGED <<dep, depStale>> /\ NotDeployed
      <3>1. changes' \in 0..MaxChanges
        BY <1>5 DEF UpdateDeployment, ApiError, Change, TypeOK
      <3>2. TypeOK'
        BY <1>5, <2>2, <2>4, <3>1 DEF UpdateDeployment, TypeOK
      <3> QED BY <1>5, <2>2, <2>4, <3>2 DEF UpdateDeployment
    <2> QED BY <1>5, <2>3, <2>4 DEF UpdateDeployment
  <1>6. CASE KeepDeployment
    <2>1. Deployed(depCache.avail) /\ depCache.avail \in Avails \cup {"absent"}
      BY <1>6 DEF KeepDeployment, TypeOK, DepTypes
    <2>2. /\ work' \in StatusTypes /\ Derived(work'.cond)
          /\ failed' \in BOOLEAN /\ seen' \in Avails \cup {"absent"}
          /\ work'.obs = work.obs
      BY <1>6, <2>1, DeployStep DEF KeepDeployment
    <2>3. TypeOK'
      BY <1>6, <2>2 DEF KeepDeployment, TypeOK
    <2> QED BY <1>6, <2>2, <2>3 DEF KeepDeployment, UpToDate
  <1>7. CASE SkipStatus \/ UpdateStatus
    <2>1. TypeOK'
      BY <1>7 DEF SkipStatus, UpdateStatus, TypeOK
    <2> QED BY <1>7, <2>1 DEF SkipStatus, UpdateStatus
  <1>8. CASE PutStatus
    <2>1. TypeOK'
      BY <1>8 DEF PutStatus, TypeOK
    <2>2. /\ status' = work /\ Derived(work.cond) /\ work.obs = original.gen
          /\ UNCHANGED <<gen, dep, srcCache, depCache, original, work, attempts>>
          /\ pc' = "finish" /\ original.gen <= srcCache.gen
      BY <1>8 DEF PutStatus
    <2>3. ReadyIsDerived'
      BY <2>2 DEF Derived, FindUnhappyDependent
    <2>4. ReadyRendersSpec'
      BY <1>8, <2>2 DEF PutStatus
    <2>5. Order' /\ Pass'
      BY <1>8, <2>2 DEF PutStatus, TypeOK, StatusTypes, DepTypes
    <2> QED BY <2>1, <2>2, <2>3, <2>4, <2>5
  <1>9. CASE PutConflict
    <2>a. failed' \in BOOLEAN
      BY <1>9 DEF PutConflict, TypeOK
    <2>b. attempts' = attempts + 1 /\ attempts < MaxAttempts
      BY <1>9 DEF PutConflict
    <2>1. TypeOK'
      BY <1>9, <2>a, <2>b DEF PutConflict, TypeOK
    <2> QED BY <1>9, <2>1 DEF PutConflict, TypeOK
  <1>10. CASE PutError
    <2>1. TypeOK'
      BY <1>10 DEF PutError, ApiError, Change, TypeOK
    <2> QED BY <1>10, <2>1 DEF PutError
  <1>11. CASE Refetch
    <2>1. TypeOK'
      BY <1>11 DEF Refetch, TypeOK
    <2> QED BY <1>11, <2>1 DEF Refetch
  <1>12. CASE Finish
    <2>1. TypeOK'
      BY <1>12 DEF Finish, TypeOK
    <2> QED BY <1>12, <2>1 DEF Finish
  <1> QED BY <1>1, <1>2, <1>3, <1>4, <1>5, <1>6, <1>7, <1>8, <1>9, <1>10, <1>11, <1>12
          DEF Worker
\* A step of the whole controller keeps the inductive invariant.
LEMMA NextIInv == IInv /\ [Next]_vars => IInv'
  <1> SUFFICES ASSUME IInv, [Next]_vars PROVE IInv'
    OBVIOUS
  <1>1. CASE Worker
    BY <1>1, WorkerIInv
  <1>2. CASE Environment
    BY <1>2, EnvironmentIInv
  <1>3. CASE UNCHANGED vars
    BY <1>3 DEF vars, api, caches, worker, IInv, TypeOK, ReadyIsDerived,
                ReadyRendersSpec, Order, Pass, WorkDerived, WorkRendered, Tries
  <1> QED BY <1>1, <1>2, <1>3 DEF Next

\* The inductive invariant holds throughout.
THEOREM Invariance == Spec => []IInv
  BY InitIInv, NextIInv, PTL DEF Spec

\* Every variable of the controller keeps its type.
THEOREM TypeCorrect == Spec => []TypeOK
  <1>1. IInv => TypeOK
    BY DEF IInv
  <1> QED BY Invariance, <1>1, PTL

\* Ready, as stored, never disagrees with the conditions stored next to it.
THEOREM ReadyAlwaysDerived == Spec => []ReadyIsDerived
  <1>1. IInv => ReadyIsDerived
    BY DEF IInv
  <1> QED BY Invariance, <1>1, PTL

\* A Ready source never runs an adapter older than the generation it is Ready for.
THEOREM ReadyAlwaysRendersSpec == Spec => []ReadyRendersSpec
  <1>1. IInv => ReadyRendersSpec
    BY DEF IInv
  <1> QED BY Invariance, <1>1, PTL

\* Status updates never take observedGeneration back, although a retried update
\* overwrites a status it has not read.
THEOREM ObservedGenerationNeverRegresses == Spec => ObservedGenerationMonotone
  <1>1. IInv /\ [Next]_vars => [status'.obs >= status.obs]_vars
    <2> SUFFICES ASSUME IInv, Next PROVE status'.obs >= status.obs
      OBVIOUS
    <2>1. CASE PutStatus
      BY <2>1 DEF PutStatus, IInv, Pass, TypeOK, StatusTypes
    <2>2. CASE UNCHANGED status
      BY <2>2 DEF IInv, TypeOK, StatusTypes
    <2> QED
      BY <2>1, <2>2
      DEF Next, Worker, Environment, Begin, ResolveSink, ResolveSinkFails,
          CreateDeployment, UpdateDeployment, KeepDeployment, SkipStatus,
          UpdateStatus, PutConflict, PutError, Refetch, Finish, UserUpdate,
          SinkChange, AvailChange, DepDelete, SyncSource, SyncDeployment, Crash, api
  <1> QED BY Invariance, <1>1, PTL DEF Spec, ObservedGenerationMonotone
-----------------------------------------------------------------------------
(* The controller never rests with work undone.                            *)

\* Marking a dependent sets it, and leaves the other dependent alone.
LEMMA MarkSets ==
  ASSUME NEW c \in Conds, NEW t \in Dependents, NEW u \in Dependents
  PROVE  /\ MarkTrue(c, t)[u] = (IF u = t THEN "True" ELSE c[u])
         /\ MarkFalse(c, t)[u] = (IF u = t THEN "False" ELSE c[u])
         /\ MarkUnknown(c, t)[u] = (IF u = t THEN "Unknown" ELSE c[u])
  <1> USE DEF Conds, ConditionTypes, Dependents, Happy, Statuses, SetCondition,
              FindUnhappyDependent
  <1>1. MarkTrue(c, t)[u] = (IF u = t THEN "True" ELSE c[u])
    BY DEF MarkTrue, RecomputeHappiness
  <1>2. MarkFalse(c, t)[u] = (IF u = t THEN "False" ELSE c[u])
    BY DEF MarkFalse
  <1>3. MarkUnknown(c, t)[u] = (IF u = t THEN "Unknown" ELSE c[u])
    BY DEF MarkUnknown
  <1> QED BY <1>1, <1>2, <1>3

\* An Available condition ends up in Deployed, and SinkProvided stays.
LEMMA PropagateSets ==
  ASSUME NEW c \in Conds, NEW a \in Avails
  PROVE  LET p == PropagateDeploymentAvailability(c, a)
         IN  /\ p["SinkProvided"] = c["SinkProvided"]
             /\ a # "none" => p["Deployed"] = a
  <1>1. "Deployed" \in Dependents /\ "SinkProvided" \in Dependents
    BY DEF Dependents
  <1> QED BY <1>1, MarkSets DEF PropagateDeploymentAvailability, Avails

\* A cache is the stored object, unless an event is on its way.
CacheInv == /\ ~srcStale => srcCache = [gen |-> gen, status |-> status]
            /\ ~depStale => depCache = dep
            /\ dep # NoDep => dep.avail \in Avails

\* A pass that no event of the source interrupted works from what is stored.
CopyInv == pc # "idle" /\ ~queued /\ ~srcStale
             => original = [gen |-> gen, status |-> status]

\* A pass fails no earlier than at the sink.
EarlyInv == pc \in {"resolve", "deploy"} => ~failed

\* Past the sink, without an error and without an event of the sink, the status
\* being computed has it.
SinkInv == pc \in {"deploy", "status", "put", "refetch"} /\ ~failed /\ ~queued
             => /\ sink # NoURI /\ work.uri = sink
                /\ work.cond["SinkProvided"] = "True"

\* Past the Deployment, without an error and without an event of it, it is the
\* one rendered and the status being computed says how it is.
DeployedInv ==
  pc \in {"status", "put", "refetch"} /\ ~failed /\ ~queued /\ ~depStale
    => /\ dep # NoDep /\ dep.gen = original.gen /\ dep.uri = work.uri
       /\ work.named
       /\ dep.avail # "none" => work.cond["Deployed"] = dep.avail

\* A pass that ends without an error and without an event has nothing to do left.
FinishInv == pc = "finish" /\ ~failed /\ ~queued /\ ~srcStale /\ ~depStale => Settled

RestInv == /\ CacheInv /\ CopyInv /\ EarlyInv /\ SinkInv /\ DeployedInv /\ FinishInv
           /\ RestsSettled

\* The first thing the controller finds is a key in the queue.
LEMMA InitRest == Init => RestInv
  BY DEF Init, RestInv, CacheInv, CopyInv, EarlyInv, SinkInv, DeployedInv, FinishInv,
         RestsSettled

\* What the environment disturbs, it announces.
LEMMA EnvironmentRest ==
  ASSUME IInv, RestInv, Environment PROVE RestInv'
  <1> USE DEF IInv, RestInv, CacheInv, CopyInv, EarlyInv, SinkInv, DeployedInv,
              FinishInv, RestsSettled, Settled, api, caches, worker
  <1>1. CASE UserUpdate
    BY <1>1 DEF UserUpdate
  <1>2. CASE SinkChange
    BY <1>2 DEF SinkChange
  <1>3. CASE AvailChange
    <2>1. dep' # NoDep => dep'.avail \in Avails
      BY <1>3 DEF AvailChange, TypeOK, DepTypes
    <2> QED BY <1>3, <2>1 DEF AvailChange
  <1>4. CASE DepDelete
    BY <1>4 DEF DepDelete
  <1>5. CASE SyncSource
    BY <1>5 DEF SyncSource
  <1>6. CASE SyncDeployment
    BY <1>6 DEF SyncDeployment
  <1>7. CASE Crash
    BY <1>7 DEF Crash
  <1> QED BY <1>1, <1>2, <1>3, <1>4, <1>5, <1>6, <1>7 DEF Environment

\* The part of a pass that deals with the Deployment.
LEMMA DeployRest ==
  ASSUME IInv, RestInv, CreateDeployment \/ UpdateDeployment \/ KeepDeployment
  PROVE  RestInv'
  <1> USE DEF IInv, RestInv, CacheInv, CopyInv, EarlyInv, SinkInv, DeployedInv,
              FinishInv, RestsSettled, api, caches
  <1>1. /\ pc = "deploy" /\ pc' = "status"
        /\ UNCHANGED <<gen, status, sink, srcCache, srcStale, depCache, queued, original>>
    BY DEF CreateDeployment, UpdateDeployment, KeepDeployment
  <1>2. work.cond \in Conds /\ work \in StatusTypes
    BY DEF TypeOK, StatusTypes
  <1>3. CASE NotDeployed /\ UNCHANGED <<dep, depStale>>
    <2>1. failed'
      BY <1>3 DEF NotDeployed
    <2> QED BY <1>1, <1>3, <2>1
  <1>4. ASSUME NEW a \in Avails, Deployed(a)
        PROVE  /\ ~failed' /\ work'.named /\ work'.uri = work.uri
               /\ work'.cond["SinkProvided"] = work.cond["SinkProvided"]
               /\ a # "none" => work'.cond["Deployed"] = a
    BY <1>2, <1>4, PropagateSets DEF Deployed, StatusTypes
  <1>5. CASE /\ dep' = [gen |-> original.gen, uri |-> work.uri, avail |-> "none"]
             /\ depStale' = TRUE /\ Deployed("none")
    <2>1. "none" \in Avails /\ dep'.avail \in Avails
      BY <1>5 DEF Avails
    <2> QED BY <1>1, <1>4, <1>5, <2>1
  <1>6. CASE /\ depCache # NoDep /\ ~depStale
             /\ dep' = [dep EXCEPT !.gen = original.gen, !.uri = work.uri]
             /\ depStale' = (dep' # dep) /\ Deployed(dep.avail)
    <2>1. depCache = dep /\ dep.avail \in Avails
      BY <1>6
    <2>2. /\ dep'.avail = dep.avail /\ dep'.gen = original.gen /\ dep'.uri = work.uri
      BY <1>6 DEF TypeOK, DepTypes
    <2>3. dep' # NoDep
      BY <2>1, <2>2 DEF NoDep, Avails
    <2>4. ~depStale' => depCache' = dep'
      BY <1>1, <1>6, <2>1
    <2> QED BY <1>1, <1>4, <1>6, <2>1, <2>2, <2>3, <2>4
  <1>7. CASE KeepDeployment
    <2>1. /\ UNCHANGED <<dep, depStale>> /\ depCache # NoDep
          /\ depCache.gen = original.gen /\ depCache.uri = work.uri
          /\ Deployed(depCache.avail)
      BY <1>7 DEF KeepDeployment, UpToDate
    <2>2. CASE depStale
      <3>1. depCache.avail \in Avails \cup {"absent"}
        BY DEF TypeOK, DepTypes
      <3>2. work'.uri = work.uri
        BY <2>1, <1>2 DEF Deployed, StatusTypes
      <3>3. work'.cond["SinkProvided"] = work.cond["SinkProvided"]
        <4>1. CASE depCache.avail \in Avails
          BY <1>4, <2>1, <4>1
        <4>2. CASE depCache.avail = "absent"
          BY <1>2, <2>1, <4>2
             DEF Deployed, PropagateDeploymentAvailability, StatusTypes
        <4> QED BY <3>1, <4>1, <4>2
      <3> QED BY <1>1, <2>1, <2>2, <3>2, <3>3 DEF Deployed
    <2>3. CASE ~depStale
      <3>1. depCache = dep /\ dep.avail \in Avails
        BY <2>1, <2>3
      <3> QED BY <1>1, <1>4, <2>1, <3>1
    <2> QED BY <2>2, <2>3
  <1> QED BY <1>3, <1>5, <1>6, <1>7 DEF CreateDeployment, UpdateDeployment

\* Whatever a pass leaves undone it leaves to an event or to an error.
LEMMA WorkerRest ==
  ASSUME IInv, RestInv, Worker PROVE RestInv'
  <1> USE DEF IInv, RestInv, CacheInv, CopyInv, EarlyInv, SinkInv, DeployedInv,
              FinishInv, RestsSettled, api, caches
  <1>1. CASE Begin
    BY <1>1 DEF Begin
  <1>2. CASE ResolveSink
    <2>1. MarkTrue(work.cond, "SinkProvided")["SinkProvided"] = "True"
      BY MarkSets DEF TypeOK, StatusTypes, Dependents
    <2>2. work'.uri = sink /\ work'.cond["SinkProvided"] = "True"
      BY <1>2, <2>1 DEF ResolveSink, TypeOK, StatusTypes
    <2> QED BY <1>2, <2>2 DEF ResolveSink
  <1>3. CASE ResolveSinkFails
    BY <1>3 DEF ResolveSinkFails
  <1>4. CASE CreateDeployment \/ UpdateDeployment \/ KeepDeployment
    BY <1>4, DeployRest
  <1>5. CASE SkipStatus
    <2>1. work.obs = original.gen
      BY <1>5 DEF SkipStatus, Pass
    <2> QED BY <1>5, <2>1 DEF SkipStatus, Settled
  <1>6. CASE UpdateStatus
    BY <1>6 DEF UpdateStatus
  <1>7. CASE PutStatus
    BY <1>7 DEF PutStatus
  <1>8. CASE PutConflict
    BY <1>8 DEF PutConflict
  <1>9. CASE PutError
    BY <1>9 DEF PutError
  <1>10. CASE Refetch
    <2>1. work.obs = original.gen
      BY <1>10 DEF Refetch, Pass
    <2> QED BY <1>10, <2>1 DEF Refetch, Settled
  <1>11. CASE Finish
    BY <1>11 DEF Finish, Settled
  <1> QED BY <1>1, <1>2, <1>3, <1>4, <1>5, <1>6, <1>7, <1>8, <1>9, <1>10, <1>11
          DEF Worker

\* An idle controller with an empty queue and no event on its way has settled the
\* source: no error, stale cache, refused write or skipped status is forgotten.
THEOREM NeverRestsUnsettled == Spec => []RestsSettled
  <1>1. IInv /\ RestInv /\ [Next]_vars => RestInv'
    <2> SUFFICES ASSUME IInv, RestInv, [Next]_vars PROVE RestInv'
      OBVIOUS
    <2>1. CASE UNCHANGED vars
      BY <2>1 DEF vars, api, caches, worker, RestInv, CacheInv, CopyInv, EarlyInv,
                  SinkInv, DeployedInv, FinishInv, RestsSettled, Settled
    <2> QED BY <2>1, WorkerRest, EnvironmentRest DEF Next
  <1>2. RestInv => RestsSettled
    BY DEF RestInv
  <1> QED BY Invariance, InitRest, <1>1, <1>2, PTL DEF Spec
=============================================================================
