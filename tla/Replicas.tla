------------------------------ MODULE Replicas ------------------------------
(***************************************************************************)
(* Several replicas of the controller over one API server, through leader  *)
(* changes, and through deletion and re-creation of the source: the        *)
(* leader-aware part of the generated reconciler (state.go, controller.go, *)
(* reconciler.go), Knative's work queue around it, and what ReconcileKind  *)
(* writes.  Conditions, sink and availability are Reconciler's subject and *)
(* left out; the sink resolves.                                            *)
(*                                                                         *)
(* A source is an incarnation (its UID) and a generation.  The Deployment  *)
(* is named after the UID, so each incarnation has its own; its rendered   *)
(* template is the generation it comes from.  Defaults of the API server   *)
(* make every pass an Update (see Reconciler's Defaulting), which is no    *)
(* write when nothing differs.                                             *)
(*                                                                         *)
(* The Lease, the garbage collector and users are the environment.  The    *)
(* Lease has one holder at a time, and a term's Promote runs before its    *)
(* Demote.                                                                 *)
(***************************************************************************)
EXTENDS Naturals

CONSTANTS Replicas,      \* the controller's pods
          MaxUid,        \* bound: incarnations of the source
          MaxChanges,    \* bound: changes and failures of the environment
          MaxAttempts,   \* tries of updateStatus
          Faults         \* which of them happen

ASSUME ReplicasAssumption ==
  /\ Replicas # {}
  /\ MaxUid \in Nat \ {0}
  /\ MaxChanges \in Nat
  /\ MaxAttempts \in Nat \ {0}
  /\ Faults \subseteq {"lease", "api", "crash", "delete", "foreground"}

Uids == 1..MaxUid
Gens == 1..(MaxChanges + 1)

NoStatus == [obs |-> 0, name |-> 0]
NoSource == [uid |-> 0, gen |-> 0, deleting |-> FALSE, status |-> NoStatus]
NewSource(u) == [uid |-> u, gen |-> 1, deleting |-> FALSE, status |-> NoStatus]

VARIABLES
  src,         \* API server: the source of this name, or NoSource
  last,        \* API server: the last UID given out
  dep,         \* API server: UID -> generation its Deployment renders, or 0
  leads,       \* replicas whose LeaderAwareFuncs hold the bucket
  promoting,   \* those whose PromoteFunc has yet to list and enqueue
  srcCache,    \* per replica: source informer
  srcStale,    \* replicas whose srcCache is behind
  depCache,    \* per replica: Deployment informer
  depStale,    \* per replica: UIDs whose Deployment it is behind on
  queued,      \* replicas with the key in their work queue
  pc,          \* per replica: where its worker is in Reconcile
  original,    \* per replica: the copy Reconcile works from
  existStale,  \* replicas whose updateStatus holds an outdated existing
  attempts,    \* per replica: tries of updateStatus so far
  failed,      \* replicas whose Reconcile is going to return an error
  changes      \* environment changes so far

api == <<src, last, dep>>
lease == <<leads, promoting>>
caches == <<srcCache, srcStale, depCache, depStale>>
worker == <<pc, original, existStale, attempts, failed>>
vars == <<api, lease, caches, queued, worker, changes>>

Statuses == [obs : 0..(MaxChanges + 1), name : 0..MaxUid]
Sources == [uid : 0..MaxUid, gen : 0..(MaxChanges + 1), deleting : BOOLEAN,
            status : Statuses]
Deployments == [Uids -> 0..(MaxChanges + 1)]

TypeOK == /\ src \in Sources /\ last \in 0..MaxUid /\ dep \in Deployments
          /\ leads \subseteq Replicas /\ promoting \subseteq leads
          /\ srcCache \in [Replicas -> Sources] /\ srcStale \subseteq Replicas
          /\ depCache \in [Replicas -> Deployments]
          /\ depStale \in [Replicas -> SUBSET Uids]
          /\ queued \subseteq Replicas
          /\ pc \in [Replicas -> {"idle", "deploy", "put"}]
          /\ original \in [Replicas -> Sources]
          /\ existStale \subseteq Replicas
          /\ attempts \in [Replicas -> 0..(MaxAttempts - 1)]
          /\ failed \subseteq Replicas
          /\ changes \in 0..MaxChanges

\* The controller at rest: one replica leads, and the source is settled.
FirstLeader == CHOOSE r \in Replicas : TRUE
FirstSource == [NewSource(1) EXCEPT !.status = [obs |-> 1, name |-> 1]]

Init == /\ src = FirstSource /\ last = 1
        /\ dep = [u \in Uids |-> IF u = 1 THEN 1 ELSE 0]
        /\ leads = {FirstLeader} /\ promoting = {}
        /\ srcCache = [r \in Replicas |-> src] /\ srcStale = {}
        /\ depCache = [r \in Replicas |-> dep]
        /\ depStale = [r \in Replicas |-> {}]
        /\ queued = {}
        /\ pc = [r \in Replicas |-> "idle"]
        /\ original = [r \in Replicas |-> NoSource]
        /\ existStale = {}
        /\ attempts = [r \in Replicas |-> 0]
        /\ failed = {}
        /\ changes = 0

Change == changes < MaxChanges /\ changes' = changes + 1

Passes == {r \in Replicas : pc[r] # "idle"}

\* A write of the source makes every copy of it outdated.
WriteSource(s) == /\ src' = s
                  /\ srcStale' = Replicas
                  /\ existStale' = Passes

\* A write of the Deployment of u does so for the caches.
WriteDeployment(u, g) ==
  /\ dep' = [dep EXCEPT ![u] = g]
  /\ depStale' = IF dep[u] = g THEN depStale
                 ELSE [r \in Replicas |-> depStale[r] \cup {u}]

-----------------------------------------------------------------------------
(* Users and the garbage collector.                                        *)

UpdateSpec == /\ Change
              /\ src # NoSource /\ ~src.deleting
              /\ WriteSource([src EXCEPT !.gen = @ + 1])
              /\ UNCHANGED <<last, dep, lease, srcCache, depCache, depStale, queued, pc,
                             original, attempts, failed>>

\* Background deletion removes the source at once; foreground deletion marks
\* it and leaves the rest to the garbage collector.
Delete == /\ Change
          /\ src # NoSource /\ ~src.deleting
          /\ \/ "delete" \in Faults /\ WriteSource(NoSource)
             \/ "foreground" \in Faults /\ WriteSource([src EXCEPT !.deleting = TRUE])
          /\ UNCHANGED <<last, dep, lease, srcCache, depCache, depStale, queued, pc,
                         original, attempts, failed>>

\* Bounded by MaxUid.
Recreate == /\ src = NoSource /\ last < MaxUid
            /\ last' = last + 1
            /\ WriteSource(NewSource(last + 1))
            /\ UNCHANGED <<dep, lease, srcCache, depCache, depStale, queued, pc,
                           original, attempts, failed, changes>>

\* A Deployment whose owner is gone or being deleted in the foreground goes.
Collect(u) == /\ dep[u] # 0
              /\ src.uid # u \/ src.deleting
              /\ WriteDeployment(u, 0)
              /\ UNCHANGED <<src, last, lease, srcCache, srcStale, depCache, queued,
                             worker, changes>>

\* Foreground deletion ends when there is no dependent left.
CollectSource == /\ src.deleting
                 /\ dep[src.uid] = 0
                 /\ WriteSource(NoSource)
                 /\ UNCHANGED <<last, dep, lease, srcCache, depCache, depStale, queued,
                                pc, original, attempts, failed, changes>>

-----------------------------------------------------------------------------
(* Leadership.                                                             *)

\* LeaderAwareFuncs.Promote: the bucket is taken first.
Promote(r) == /\ leads = {}
              /\ leads' = {r} /\ promoting' = {r}
              /\ UNCHANGED <<api, caches, queued, worker, changes>>

\* Variant: a new leader does not look at what is there already.
EnlistNothing(r) == /\ r \in promoting
                    /\ promoting' = promoting \ {r}
                    /\ UNCHANGED <<api, leads, caches, queued, worker, changes>>

\* PromoteFunc: everything the lister has is enqueued.
Enlist(r) == /\ r \in promoting
             /\ promoting' = promoting \ {r}
             /\ queued' = IF srcCache[r] = NoSource THEN queued ELSE queued \cup {r}
             /\ UNCHANGED <<api, leads, caches, worker, changes>>

\* The Lease is lost or given up.  A pass under way is not told: its context is
\* context.Background().
Demote(r) == /\ "lease" \in Faults /\ Change
             /\ r \in leads \ promoting
             /\ leads' = leads \ {r}
             /\ UNCHANGED <<api, promoting, caches, queued, worker>>

-----------------------------------------------------------------------------
(* Informers.                                                              *)

SyncSource(r) == /\ r \in srcStale
                 /\ srcCache' = [srcCache EXCEPT ![r] = src]
                 /\ srcStale' = srcStale \ {r}
                 /\ queued' = queued \cup {r}
                 /\ UNCHANGED <<api, lease, depCache, depStale, worker, changes>>

\* EnqueueControllerOf: the owner's name is the key, whichever incarnation.
SyncDeployment(r) == /\ depStale[r] # {}
                     /\ depCache' = [depCache EXCEPT ![r] = dep]
                     /\ depStale' = [depStale EXCEPT ![r] = {}]
                     /\ queued' = queued \cup {r}
                     /\ UNCHANGED <<api, lease, srcCache, srcStale, worker, changes>>

-----------------------------------------------------------------------------
(* One pass of Reconcile on replica r.                                     *)

Take(r) == /\ pc[r] = "idle" /\ r \in queued
           /\ queued' = queued \ {r}

\* reconcileMethodFor gives DoReconcileKind to a leader for a source that is
\* not being deleted.  There is no Finalizer and no ReadOnlyInterface.
DoReconcileKind(r) == r \in leads /\ srcCache[r] # NoSource /\ ~srcCache[r].deleting

\* isNotLeaderNorObserver (the key is skipped and forgotten), a source the
\* lister does not have, or one being deleted: nothing is done.
Skip(r) == /\ Take(r)
           /\ ~DoReconcileKind(r)
           /\ UNCHANGED <<api, lease, caches, worker, changes>>

\* Variant: the deletion timestamp is not looked at.
BeginDeleting(r) == /\ Take(r)
                    /\ r \in leads /\ srcCache[r] # NoSource
                    /\ original' = [original EXCEPT ![r] = srcCache[r]]
                    /\ existStale' = existStale \cup ({r} \cap srcStale)
                    /\ pc' = [pc EXCEPT ![r] = "deploy"]
                    /\ UNCHANGED <<api, lease, caches, attempts, failed, changes>>

\* The cached source is copied.  Leadership is not looked at again.
Begin(r) == /\ Take(r)
            /\ DoReconcileKind(r)
            /\ original' = [original EXCEPT ![r] = srcCache[r]]
            /\ existStale' = existStale \cup ({r} \cap srcStale)
            /\ pc' = [pc EXCEPT ![r] = "deploy"]
            /\ UNCHANGED <<api, lease, caches, attempts, failed, changes>>

\* The pass is over: its locals are gone, and processNextWorkItem puts a failed
\* key back.
Return(r, ok) ==
  /\ pc' = [pc EXCEPT ![r] = "idle"]
  /\ original' = [original EXCEPT ![r] = NoSource]
  /\ existStale' = existStale \ {r}
  /\ attempts' = [attempts EXCEPT ![r] = 0]
  /\ failed' = failed \ {r}
  /\ queued' = IF ok THEN queued ELSE queued \cup {r}

\* The status ReconcileKind computes: ObservedGeneration in any case,
\* DeploymentName when the Deployment is there.
Computed(r, bad) ==
  [obs  |-> original[r].gen,
   name |-> IF bad THEN original[r].status.name ELSE original[r].uid]

\* A status that is as it was is not written.
AfterDeploy(r, ok) ==
  IF Computed(r, ~ok) = original[r].status
    THEN Return(r, ok)
    ELSE /\ pc' = [pc EXCEPT ![r] = "put"]
         /\ failed' = IF ok THEN failed ELSE failed \cup {r}
         /\ UNCHANGED <<queued, original, existStale, attempts>>

ApiError == "api" \in Faults /\ Change

\* Create where the cache has no Deployment, Update where it has one: refused
\* when there is one after all, or when the cached one is not the stored one.
Accepted(r) == LET u == original[r].uid
               IN IF depCache[r][u] = 0 THEN dep[u] = 0 ELSE u \notin depStale[r]

DeployOK(r) == /\ pc[r] = "deploy"
               /\ Accepted(r)
               /\ WriteDeployment(original[r].uid, original[r].gen)
               /\ AfterDeploy(r, TRUE)
               /\ UNCHANGED <<src, last, lease, srcCache, srcStale, depCache, changes>>

DeployFails(r) == /\ pc[r] = "deploy"
                  /\ \/ ~Accepted(r) /\ UNCHANGED changes
                     \/ ApiError
                  /\ AfterDeploy(r, FALSE)
                  /\ UNCHANGED <<api, lease, caches>>

\* UpdateStatus on an up-to-date existing.
PutStatus(r) == /\ pc[r] = "put" /\ r \notin existStale
                /\ src' = [src EXCEPT !.status = Computed(r, r \in failed)]
                /\ srcStale' = Replicas
                /\ existStale' = Passes \ {r}
                /\ pc' = [pc EXCEPT ![r] = "idle"]
                /\ original' = [original EXCEPT ![r] = NoSource]
                /\ attempts' = [attempts EXCEPT ![r] = 0]
                /\ failed' = failed \ {r}
                /\ queued' = queued \cup ({r} \cap failed)
                /\ UNCHANGED <<last, dep, lease, srcCache, depCache, depStale, changes>>

\* Variant: one attempt too many.
RefetchOnceMore(r) == /\ pc[r] = "put" /\ r \in existStale
                      /\ src # NoSource /\ attempts[r] < MaxAttempts
                      /\ attempts' = [attempts EXCEPT ![r] = @ + 1]
                      /\ existStale' = existStale \ {r}
                      /\ UNCHANGED <<api, lease, caches, queued, pc, original, failed,
                                     changes>>

\* A conflict: the next attempt reads the source by name, which may be another
\* incarnation by now, and is done if that has the status already.
Refetch(r) == /\ pc[r] = "put" /\ r \in existStale
              /\ src # NoSource /\ attempts[r] + 1 < MaxAttempts
              /\ IF src.status = Computed(r, r \in failed)
                   THEN Return(r, r \notin failed)
                   ELSE /\ attempts' = [attempts EXCEPT ![r] = @ + 1]
                        /\ existStale' = existStale \ {r}
                        /\ UNCHANGED <<pc, original, failed, queued>>
              /\ UNCHANGED <<api, lease, caches, changes>>

\* The source is gone, the attempts are used up, or the call fails.
PutFails(r) == /\ pc[r] = "put"
               /\ \/ /\ r \in existStale
                     /\ src = NoSource \/ attempts[r] + 1 >= MaxAttempts
                     /\ UNCHANGED changes
                  \/ ApiError
               /\ Return(r, FALSE)
               /\ UNCHANGED <<api, lease, caches>>

\* The pod is restarted: fresh caches, whose first list enqueues the key.
Crash(r) == /\ "crash" \in Faults /\ Change
            /\ leads' = leads \ {r} /\ promoting' = promoting \ {r}
            /\ srcCache' = [srcCache EXCEPT ![r] = src] /\ srcStale' = srcStale \ {r}
            /\ depCache' = [depCache EXCEPT ![r] = dep]
            /\ depStale' = [depStale EXCEPT ![r] = {}]
            /\ Return(r, FALSE)
            /\ UNCHANGED api

Worker(r) == \/ Skip(r) \/ Begin(r) \/ DeployOK(r) \/ DeployFails(r)
             \/ PutStatus(r) \/ Refetch(r) \/ PutFails(r)

Next == \/ UpdateSpec \/ Delete \/ Recreate
        \/ \E u \in Uids : Collect(u)
        \/ CollectSource
        \/ \E r \in Replicas : \/ Promote(r) \/ Enlist(r) \/ Demote(r)
                               \/ SyncSource(r) \/ SyncDeployment(r)
                               \/ Worker(r) \/ Crash(r)

Spec == Init /\ [][Next]_vars

-----------------------------------------------------------------------------
(* Properties.                                                             *)

\* The source has exactly its own Deployment, rendered from its newest
\* generation, and its status says so; no source, no Deployment.
Settled == /\ ~src.deleting
           /\ \A u \in Uids : dep[u] = IF u = src.uid THEN src.gen ELSE 0
           /\ src # NoSource => src.status = [obs |-> src.gen, name |-> src.uid]

\* Nothing is under way or due: a leader with an empty queue, caches that are
\* up to date, no pass, nothing to collect.
Quiet == /\ leads # {} /\ promoting = {} /\ leads \cap queued = {}
         /\ srcStale = {}
         /\ \A r \in Replicas : pc[r] = "idle" /\ depStale[r] = {}
         /\ ~src.deleting /\ \A u \in Uids \ {src.uid} : dep[u] = 0

\* No wake-up is lost: keys that a non-leader skipped and forgot, passes of a
\* former leader that ended after its Demote, and events of earlier
\* incarnations never leave the controller at rest with work undone
\* (isNotLeaderNorObserver, PromoteFunc, the informer handlers of NewController).
NothingOwed == Quiet => Settled

\* Each replica's worker and informers and the garbage collector keep going, and
\* a free Lease is taken.
Fairness == /\ \A r \in Replicas : /\ WF_vars(Worker(r))
                                   /\ WF_vars(SyncSource(r)) /\ WF_vars(SyncDeployment(r))
                                   /\ WF_vars(Enlist(r))
            /\ WF_vars(\E r \in Replicas : Promote(r))
            /\ WF_vars(CollectSource)
            /\ \A u \in Uids : WF_vars(Collect(u))

FairSpec == Spec /\ Fairness

\* Once users and leases are quiet, the replicas settle on the source that is
\* there, although a former leader may still put back an older template or
\* status in the meantime, and one deleted in the foreground does go: the
\* Deployment is not created again while the garbage collector waits for it to
\* be gone (reconcileMethodFor looks at the deletion timestamp).
SettlesAcrossLeaders == <>[]Settled
=============================================================================
