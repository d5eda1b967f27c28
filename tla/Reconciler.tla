----------------------------- MODULE Reconciler -----------------------------
(***************************************************************************)
(* The controller, for one YipYapSource: the generated reconciler          *)
(* (pkg/client/injection/reconciler/.../reconciler.go, Reconcile and       *)
(* updateStatus), ReconcileKind (pkg/reconciler/yipyapsource), and Knative *)
(* pkg's work queue and pre/post-processing around them.                   *)
(*                                                                         *)
(* The API server stores the source (its generation and status), and its   *)
(* adapter Deployment.  The controller reads both through informer caches  *)
(* that lag behind.  A resource version is modelled by what it is for: a   *)
(* copy is stale once the stored object has been written since.            *)
(*                                                                         *)
(* One replica is leader and one worker at a time holds the key, as the    *)
(* work queue guarantees.  The spec is identified by its generation and    *)
(* the rendered pod template by the generation and the sink it comes from. *)
(***************************************************************************)
EXTENDS Naturals, Conditions

CONSTANTS MaxChanges,    \* bound: changes and failures of the environment
          MaxAttempts,   \* tries of updateStatus (retry.DefaultRetry.Steps)
          Sinks,         \* URIs the sink may resolve to
          Defaulting,    \* the API server's defaults may keep a stored template
                         \* from being DeepEqual to the rendered one
          Faults         \* "api", "crash", "delete": which failures happen

NoURI == 0
NoDep == [gen |-> 0, uri |-> NoURI, avail |-> "absent"]
Avails == {"none", "True", "False", "Unknown"}

ASSUME ReconcilerAssumption ==
  /\ MaxChanges \in Nat
  /\ MaxAttempts \in Nat \ {0}
  /\ Sinks \subseteq Nat \ {NoURI}
  /\ Defaulting \in BOOLEAN
  /\ Faults \subseteq {"api", "crash", "delete"}

VARIABLES
  gen,         \* API server: metadata.generation of the source
  status,      \* API server: its status
  dep,         \* API server: the adapter Deployment, or NoDep
  sink,        \* what the sink resolves to now; NoURI when it does not
  srcCache,    \* source informer: [gen, status]
  srcStale,    \* the source was written since srcCache was taken
  depCache,    \* deployment informer
  depStale,    \* the Deployment was written since depCache was taken
  queued,      \* the key is in the work queue
  pc,          \* where the worker is in Reconcile
  original,    \* the copy Reconcile works from
  existStale,  \* the source was written since updateStatus's existing was read
  work,        \* the status being computed (resource.Status)
  attempts,    \* tries of updateStatus so far
  failed,      \* Reconcile is going to return an error
  seen,        \* Available condition of ReconcileKind's current (history)
  changes      \* environment changes so far

api == <<gen, status, dep, sink>>
caches == <<srcCache, srcStale, depCache, depStale>>
worker == <<pc, original, existStale, work, attempts, failed, seen>>
vars == <<api, caches, queued, worker, changes>>

\* named says whether DeploymentName is set; it is the same name every time.
EmptyStatus == [cond |-> NoConditions, obs |-> 0, uri |-> NoURI, named |-> FALSE]

Init == /\ gen = 1 /\ status = EmptyStatus /\ dep = NoDep
        /\ sink \in Sinks \cup {NoURI}
        /\ srcCache = [gen |-> 1, status |-> EmptyStatus] /\ srcStale = FALSE
        /\ depCache = NoDep /\ depStale = FALSE
        /\ queued = TRUE
        /\ pc = "idle"
        /\ original = [gen |-> 1, status |-> EmptyStatus]
        /\ existStale = FALSE /\ work = EmptyStatus
        /\ attempts = 0 /\ failed = FALSE /\ seen = "none"
        /\ changes = 0

-----------------------------------------------------------------------------
(* The environment: users, the Deployment controller, the sink, informers. *)

Change == changes < MaxChanges /\ changes' = changes + 1

UserUpdate == /\ Change
              /\ gen' = gen + 1
              /\ srcStale' = TRUE /\ existStale' = TRUE
              /\ UNCHANGED <<status, dep, sink, srcCache, depCache, depStale, queued,
                             pc, original, work, attempts, failed, seen>>

\* The resolver's tracker enqueues the sources that refer to the sink.
SinkChange == /\ Change
              /\ sink' \in (Sinks \cup {NoURI}) \ {sink}
              /\ queued' = TRUE
              /\ UNCHANGED <<gen, status, dep, caches, worker>>

AvailChange == /\ Change
               /\ dep # NoDep
               /\ \E a \in Avails \ {"none", dep.avail} :
                    dep' = [dep EXCEPT !.avail = a]
               /\ depStale' = TRUE
               /\ UNCHANGED <<gen, status, sink, srcCache, srcStale, depCache, queued,
                              worker>>

DepDelete == /\ "delete" \in Faults
             /\ Change
             /\ dep # NoDep
             /\ dep' = NoDep
             /\ depStale' = TRUE
             /\ UNCHANGED <<gen, status, sink, srcCache, srcStale, depCache, queued,
                            worker>>

\* Variant: the handlers are not told of updates.
SyncSourceSilent == /\ srcStale
                    /\ srcCache' = [gen |-> gen, status |-> status]
                    /\ srcStale' = FALSE
                    /\ UNCHANGED <<api, depCache, depStale, queued, worker, changes>>

\* The informers catch up, and their handlers enqueue the key.
SyncSource == /\ srcStale
              /\ srcCache' = [gen |-> gen, status |-> status]
              /\ srcStale' = FALSE
              /\ queued' = TRUE
              /\ UNCHANGED <<api, depCache, depStale, worker, changes>>

SyncDeployment == /\ depStale
                  /\ depCache' = dep
                  /\ depStale' = FALSE
                  /\ queued' = TRUE
                  /\ UNCHANGED <<api, srcCache, srcStale, worker, changes>>

-----------------------------------------------------------------------------
(* One pass of Reconcile.                                                  *)

\* Before ReconcileKind: unset conditions are initialized, and Ready is put in
\* doubt when the generation has not been observed yet.
PreProcessReconcile(o) ==
  LET c == InitializeConditions(o.status.cond)
  IN IF o.status.obs # o.gen THEN MarkUnknown(c, Happy) ELSE c

\* Variant: the observed generation is counted, not copied.
BeginCounting == /\ pc = "idle" /\ queued
                 /\ queued' = FALSE
                 /\ original' = srcCache /\ existStale' = srcStale
                 /\ work' = [srcCache.status EXCEPT
                               !.cond = InitializeConditions(PreProcessReconcile(srcCache)),
                               !.obs = (srcCache.status.obs + 1) % 3]
                 /\ attempts' = 0 /\ failed' = FALSE /\ seen' = "none"
                 /\ pc' = "resolve"
                 /\ UNCHANGED <<api, caches, changes>>

\* The worker takes the key and copies the cached source.
Begin == /\ pc = "idle" /\ queued
         /\ queued' = FALSE
         /\ original' = srcCache /\ existStale' = srcStale
         /\ work' = [srcCache.status EXCEPT
                       !.cond = InitializeConditions(PreProcessReconcile(srcCache)),
                       !.obs = srcCache.gen]
         /\ attempts' = 0 /\ failed' = FALSE /\ seen' = "none"
         /\ pc' = "resolve"
         /\ UNCHANGED <<api, caches, changes>>

\* MarkSink with a URI, and on to the Deployment.
ResolveSink == /\ pc = "resolve"
               /\ sink # NoURI
               /\ work' = [work EXCEPT !.cond = MarkSink(@),
                                       !.uri = sink]
               /\ pc' = "deploy"
               /\ UNCHANGED <<api, caches, queued, original, existStale, attempts,
                              failed, seen, changes>>

\* MarkNoSink keeps the URI resolved earlier, and the Deployment alone.
ResolveSinkFails == /\ pc = "resolve"
                    /\ sink = NoURI
                    /\ work' = [work EXCEPT !.cond = MarkNoSink(@)]
                    /\ failed' = TRUE
                    /\ pc' = "status"
                    /\ UNCHANGED <<api, caches, queued, original, existStale, attempts,
                                   seen, changes>>

\* propagateDeploymentAvailability.
PropagateDeploymentAvailability(c, avail) ==
  CASE avail = "True" -> MarkDeployed(c)
    [] avail = "False" -> MarkNotDeployed(c)
    [] avail = "Unknown" -> MarkDeploying(c)
    [] OTHER -> c

\* Create or Update worked, or was not needed: current is the live object.
Deployed(avail) ==
  /\ work' = [work EXCEPT !.cond = PropagateDeploymentAvailability(@, avail),
                          !.named = TRUE]
  /\ seen' = avail
  /\ failed' = FALSE

\* Variant: the error is returned and the status says nothing of it.
NotDeployedSilent ==
  /\ failed' = TRUE
  /\ seen' = "none"
  /\ UNCHANGED work

\* Create or Update failed: the status says so and an error is returned.
NotDeployed ==
  /\ work' = [work EXCEPT !.cond = MarkNotDeployed(@)]
  /\ failed' = TRUE
  /\ seen' = "none"

ApiError == "api" \in Faults /\ Change

\* The cache has no Deployment.  Create is refused when there is one.
CreateDeployment ==
  /\ pc = "deploy"
  /\ depCache = NoDep
  /\ pc' = "status"
  /\ \/ /\ dep = NoDep
        /\ dep' = [gen |-> original.gen, uri |-> work.uri, avail |-> "none"]
        /\ depStale' = TRUE
        /\ Deployed("none")
        /\ UNCHANGED changes
     \/ /\ dep # NoDep
        /\ NotDeployed
        /\ UNCHANGED <<dep, depStale, changes>>
     \/ /\ ApiError
        /\ NotDeployed
        /\ UNCHANGED <<dep, depStale>>
  /\ UNCHANGED <<gen, status, sink, srcCache, srcStale, depCache, queued,
                 original, existStale, attempts>>

UpToDate == depCache.gen = original.gen /\ depCache.uri = work.uri

\* The cache has a Deployment that differs from the rendered one, be it only by
\* a default.  Update is
\* refused when the copy is stale.  Writing what is already there is no write.
UpdateDeployment ==
  /\ pc = "deploy"
  /\ depCache # NoDep
  /\ ~UpToDate \/ Defaulting
  /\ pc' = "status"
  /\ \/ /\ ~depStale
        /\ dep' = [dep EXCEPT !.gen = original.gen, !.uri = work.uri]
        /\ depStale' = (dep' # dep)
        /\ Deployed(dep.avail)
        /\ UNCHANGED changes
     \/ /\ depStale
        /\ NotDeployed
        /\ UNCHANGED <<dep, depStale, changes>>
     \/ /\ ApiError
        /\ NotDeployed
        /\ UNCHANGED <<dep, depStale>>
  /\ UNCHANGED <<gen, status, sink, srcCache, srcStale, depCache, queued,
                 original, existStale, attempts>>

KeepDeployment == /\ pc = "deploy"
                  /\ depCache # NoDep
                  /\ UpToDate
                  /\ pc' = "status"
                  /\ Deployed(depCache.avail)
                  /\ UNCHANGED <<api, caches, queued, original, existStale, attempts,
                                 changes>>

-----------------------------------------------------------------------------
(* Writing the status back (PostProcessReconcile leaves unchanged          *)
(* conditions their transition time, so equal statuses compare equal).     *)

\* Nothing changed with respect to the copy: no write, even if the copy is old.
SkipStatus == /\ pc = "status"
              /\ work = original.status
              /\ pc' = "finish"
              /\ UNCHANGED <<api, caches, queued, original, existStale, work, attempts,
                             failed, seen, changes>>

UpdateStatus == /\ pc = "status"
                /\ work # original.status
                /\ pc' = "put"
                /\ UNCHANGED <<api, caches, queued, original, existStale, work, attempts,
                               failed, seen, changes>>

PutStatus == /\ pc = "put"
             /\ ~existStale
             /\ status' = work
             /\ srcStale' = TRUE
             /\ pc' = "finish"
             /\ UNCHANGED <<gen, dep, sink, srcCache, depCache, depStale, queued,
                            original, existStale, work, attempts, failed, seen, changes>>

\* Variant: a conflict is retried for ever.
PutConflictForever == /\ pc = "put"
                      /\ existStale
                      /\ attempts' = attempts + 1
                      /\ pc' = "refetch"
                      /\ UNCHANGED <<api, caches, queued, original, existStale, work,
                                     failed, seen, changes>>

\* RetryUpdateConflicts: the next attempt reads the source afresh.
PutConflict == /\ pc = "put"
               /\ existStale
               /\ attempts' = attempts + 1
               /\ IF attempts' < MaxAttempts
                    THEN pc' = "refetch" /\ UNCHANGED failed
                    ELSE pc' = "finish" /\ failed' = TRUE
               /\ UNCHANGED <<api, caches, queued, original, existStale, work, seen,
                              changes>>

\* UpdateStatus, or the Get before it, fails other than by a conflict.
PutError == /\ pc \in {"put", "refetch"}
            /\ ApiError
            /\ failed' = TRUE
            /\ pc' = "finish"
            /\ UNCHANGED <<api, caches, queued, original, existStale, work, attempts, seen>>

Refetch == /\ pc = "refetch"
           /\ existStale' = FALSE
           /\ pc' = IF status = work THEN "finish" ELSE "put"
           /\ UNCHANGED <<api, caches, queued, original, work, attempts, failed, seen,
                          changes>>

\* Variant: the key is forgotten whether or not there was an error.
FinishForgetting == /\ pc = "finish"
                    /\ pc' = "idle"
                    /\ UNCHANGED <<api, caches, queued, original, existStale, work,
                                   attempts, failed, seen, changes>>

\* processNextWorkItem: an error puts the key back, rate limited.
Finish == /\ pc = "finish"
          /\ pc' = "idle"
          /\ queued' = (queued \/ failed)
          /\ UNCHANGED <<api, caches, original, existStale, work, attempts, failed, seen,
                         changes>>

\* The process restarts: fresh caches, and the initial list enqueues the key.
Crash == /\ "crash" \in Faults
         /\ Change
         /\ pc' = "idle"
         /\ srcCache' = [gen |-> gen, status |-> status] /\ srcStale' = FALSE
         /\ depCache' = dep /\ depStale' = FALSE
         /\ queued' = TRUE
         /\ UNCHANGED <<api, original, existStale, work, attempts, failed, seen>>

\* Reconcile, from the key to its result.
Worker == \/ Begin \/ ResolveSink \/ ResolveSinkFails
          \/ CreateDeployment \/ UpdateDeployment \/ KeepDeployment
          \/ SkipStatus \/ UpdateStatus \/ PutStatus \/ PutConflict \/ PutError
          \/ Refetch \/ Finish

Environment == \/ UserUpdate \/ SinkChange \/ AvailChange \/ DepDelete
               \/ SyncSource \/ SyncDeployment \/ Crash

Next == Worker \/ Environment

Spec == Init /\ [][Next]_vars

-----------------------------------------------------------------------------
(* Properties.                                                             *)

Conds == [ConditionTypes -> Statuses]
StatusTypes == [cond : Conds, obs : Nat, uri : Sinks \cup {NoURI},
                named : BOOLEAN]
DepTypes == [gen : Nat, uri : Sinks \cup {NoURI}, avail : Avails \cup {"absent"}]

TypeOK == /\ gen \in Nat /\ status \in StatusTypes
          /\ dep \in DepTypes /\ depCache \in DepTypes
          /\ sink \in Sinks \cup {NoURI}
          /\ srcCache \in [gen : Nat, status : StatusTypes]
          /\ original \in [gen : Nat, status : StatusTypes]
          /\ work \in StatusTypes
          /\ srcStale \in BOOLEAN /\ depStale \in BOOLEAN /\ existStale \in BOOLEAN
          /\ queued \in BOOLEAN /\ failed \in BOOLEAN
          /\ pc \in {"idle", "resolve", "deploy", "status", "put", "refetch", "finish"}
          /\ attempts \in 0..MaxAttempts
          /\ seen \in Avails \cup {"absent"}
          /\ changes \in 0..MaxChanges

\* The Ready that users see is what SinkProvided and Deployed, as stored next to
\* it, say: True only over two Trues, False only over a False (yipyapsource
\* lifecycle.go, the living condition set).
ReadyIsDerived == status.obs # 0 => Derived(status.cond)

\* A source that is Ready for a generation runs an adapter rendered from that
\* generation or a later one, if it runs one at all (ReconcileKind sets
\* ObservedGeneration before it tries to update the Deployment).
ReadyRendersSpec ==
  status.cond[Happy] = "True" /\ dep # NoDep => dep.gen >= status.obs

\* observedGeneration never goes back, although updateStatus overwrites whatever
\* status it finds after a conflict.
ObservedGenerationMonotone == [][status'.obs >= status.obs]_vars

\* propagateDeploymentAvailability: with no Available condition on the
\* Deployment, callers see "Deploying" rather than a stale True.
NoStaleTrue == pc \in {"status", "put"} /\ ~failed /\ seen = "none"
                 => work.cond["Deployed"] # "True"

-----------------------------------------------------------------------------
\* Work queue and informers keep going, and every call to the API server ends;
\* failures are bounded by MaxChanges, nothing else is.
Fairness == WF_vars(Worker) /\ WF_vars(SyncSource) /\ WF_vars(SyncDeployment)

FairSpec == Spec /\ Fairness

\* What the controller is for: the status tells the truth about the sink and
\* the Deployment, for the newest generation, and the Deployment is the one the
\* spec and the sink call for.
Settled ==
  /\ status.obs = gen
  /\ sink = NoURI => status.cond["SinkProvided"] = "False"
  /\ sink # NoURI => /\ status.cond["SinkProvided"] = "True"
                     /\ status.uri = sink /\ status.named
                     /\ dep # NoDep /\ dep.gen = gen /\ dep.uri = sink
                     /\ dep.avail # "none" => status.cond["Deployed"] = dep.avail

\* The controller never rests with work undone: with an idle worker, no key in
\* the queue and no event on its way, nothing is left to do.  Whatever a pass
\* missed (a stale cache, a sink that moved, a refused or failed write, a skipped
\* status) is owed to an event, or to the error processNextWorkItem puts back.
RestsSettled == pc = "idle" /\ ~queued /\ ~srcStale /\ ~depStale => Settled

\* Once users, sink and Deployment stop changing, the controller settles, through
\* stale caches, lost races, API errors and its own restarts.
Converges == <>[]Settled
=============================================================================
