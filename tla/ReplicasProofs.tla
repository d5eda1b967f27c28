--------------------------- MODULE ReplicasProofs ---------------------------
(***************************************************************************)
(* The safety properties of Replicas, for every number of replicas,        *)
(* incarnations, environment changes and attempts, and every set of faults.*)
(***************************************************************************)
EXTENDS Replicas, TLAPS

\* Every change of the spec is one of the counted changes.
GenBound == src.gen <= changes + 1

\* Whatever is a source, stored, cached or in hand, has a UID.
WellFormed == /\ src # NoSource => src.uid \in Uids
              /\ \A r \in Replicas : srcCache[r] # NoSource => srcCache[r].uid \in Uids
              /\ \A r \in Replicas : pc[r] # "idle" => original[r].uid \in Uids

\* A source cache that no event is due for is the stored source.
Fresh == \A r \in Replicas : r \notin srcStale => srcCache[r] = src

\* An outdated existing belongs to a pass, and an event that will wake its
\* replica, or has, is on the way; an up-to-date one is of a source that is there.
Existing == /\ \A r \in existStale : pc[r] # "idle" /\ (r \in srcStale \/ r \in queued)
            /\ \A r \in Replicas : pc[r] # "idle" /\ r \notin existStale => src # NoSource

Wanted == src # NoSource /\ ~src.deleting

Done == dep[src.uid] = src.gen /\ src.status = [obs |-> src.gen, name |-> src.uid]

\* Replica r is going to look at the source again, or is about to write it.
Due(r) == \/ r \in srcStale \/ depStale[r] # {} \/ r \in queued \/ r \in promoting
          \/ pc[r] = "put" \/ (pc[r] = "deploy" /\ original[r] = src)

\* A leader that has nothing due has done all there is to do.
Owed == \A r \in leads : Wanted => Due(r) \/ Done

IInv == TypeOK /\ GenBound /\ WellFormed /\ Fresh /\ Existing /\ Owed

-----------------------------------------------------------------------------
(* The values that are written.                                            *)

\* The sources the actions write are sources.
LEMMA SourceFacts ==
  ASSUME TypeOK
  PROVE  /\ NoSource \in Sources
         /\ NoSource.uid = 0 /\ NoSource.gen = 0 /\ NoSource.deleting = FALSE
         /\ \A u \in Uids : NewSource(u) \in Sources /\ NewSource(u) # NoSource
                            /\ NewSource(u).uid = u /\ NewSource(u).gen = 1
         /\ src.uid \in 0..MaxUid /\ src.gen \in 0..(MaxChanges + 1)
         /\ src.deleting \in BOOLEAN
         /\ 0 \notin Uids /\ 1 \in Uids
  BY ReplicasAssumption
  DEF TypeOK, Sources, Statuses, NoSource, NewSource, NoStatus, Uids

\* The status a pass computes is a status.
LEMMA ComputedType ==
  ASSUME TypeOK, NEW r \in Replicas, NEW b \in BOOLEAN
  PROVE  Computed(r, b) \in Statuses
  <1>1. original[r] \in Sources
    BY DEF TypeOK
  <1>2. /\ original[r].gen \in 0..(MaxChanges + 1)
        /\ original[r].uid \in 0..MaxUid
        /\ original[r].status \in Statuses
    BY <1>1 DEF Sources
  <1>3. original[r].status.name \in 0..MaxUid
    BY <1>2 DEF Statuses
  <1> QED BY <1>2, <1>3 DEF Computed, Statuses

\* A source with another generation, mark or status is still the same incarnation.
LEMMA ChangedSource ==
  ASSUME TypeOK
  PROVE  /\ src.gen + 1 \in 0..(MaxChanges + 1) =>
              [src EXCEPT !.gen = @ + 1] \in Sources
         /\ [src EXCEPT !.gen = @ + 1].uid = src.uid
         /\ [src EXCEPT !.gen = @ + 1].gen = src.gen + 1
         /\ [src EXCEPT !.deleting = TRUE] \in Sources
         /\ [src EXCEPT !.deleting = TRUE].uid = src.uid
         /\ [src EXCEPT !.deleting = TRUE].gen = src.gen
         /\ \A s \in Statuses : /\ [src EXCEPT !.status = s] \in Sources
                                /\ [src EXCEPT !.status = s].uid = src.uid
                                /\ [src EXCEPT !.status = s].gen = src.gen
  BY DEF TypeOK, Sources

\* Writing the Deployment of u leaves the rest alone, and whoever is behind on
\* any Deployment afterwards was before, or it did change.
LEMMA WriteDeploymentFacts ==
  ASSUME TypeOK, NEW u \in Uids, NEW g \in 0..(MaxChanges + 1), WriteDeployment(u, g)
  PROVE  /\ dep' \in Deployments
         /\ depStale' \in [Replicas -> SUBSET Uids]
         /\ dep'[u] = g
         /\ \A r \in Replicas : depStale[r] # {} => depStale'[r] # {}
         /\ dep' = dep \/ \A r \in Replicas : depStale'[r] # {}
  <1>1. /\ dep \in [Uids -> 0..(MaxChanges + 1)]
        /\ depStale \in [Replicas -> SUBSET Uids]
        /\ dep' = [dep EXCEPT ![u] = g]
        /\ depStale' = IF dep[u] = g THEN depStale
                       ELSE [r \in Replicas |-> depStale[r] \cup {u}]
    BY DEF TypeOK, WriteDeployment, Deployments
  <1>2. dep' \in Deployments /\ dep'[u] = g
    BY <1>1 DEF Deployments
  <1>3. CASE dep[u] = g
    BY <1>1, <1>2, <1>3
  <1>4. CASE dep[u] # g
    BY <1>1, <1>2, <1>4
  <1> QED BY <1>3, <1>4

\* A pass that ends: its replica is idle, the others go on as they were.
LEMMA ReturnFacts ==
  ASSUME TypeOK, NEW r \in Replicas, NEW ok \in BOOLEAN, Return(r, ok)
  PROVE  /\ pc' \in [Replicas -> {"idle", "deploy", "put"}] /\ pc'[r] = "idle"
         /\ original' \in [Replicas -> Sources]
         /\ attempts' \in [Replicas -> 0..(MaxAttempts - 1)]
         /\ \A q \in Replicas \ {r} : pc'[q] = pc[q] /\ original'[q] = original[q]
         /\ existStale' = existStale \ {r} /\ failed' \subseteq Replicas
         /\ queued' \subseteq Replicas /\ queued \subseteq queued'
         /\ ~ok => r \in queued'
  <1>1. /\ pc \in [Replicas -> {"idle", "deploy", "put"}]
        /\ original \in [Replicas -> Sources]
        /\ attempts \in [Replicas -> 0..(MaxAttempts - 1)]
        /\ queued \subseteq Replicas /\ failed \subseteq Replicas
        /\ 0 \in 0..(MaxAttempts - 1)
    BY ReplicasAssumption DEF TypeOK
  <1>2. /\ pc' = [pc EXCEPT ![r] = "idle"] /\ original' = [original EXCEPT ![r] = NoSource]
        /\ attempts' = [attempts EXCEPT ![r] = 0]
    BY DEF Return
  <1>3. /\ existStale' = existStale \ {r} /\ failed' = failed \ {r}
        /\ queued' = IF ok THEN queued ELSE queued \cup {r}
    BY DEF Return
  <1>4. NoSource \in Sources
    BY SourceFacts
  <1>5. /\ pc' \in [Replicas -> {"idle", "deploy", "put"}] /\ pc'[r] = "idle"
        /\ original' \in [Replicas -> Sources]
        /\ attempts' \in [Replicas -> 0..(MaxAttempts - 1)]
        /\ \A q \in Replicas \ {r} : pc'[q] = pc[q] /\ original'[q] = original[q]
    BY <1>1, <1>2, <1>4
  <1> QED BY <1>1, <1>3, <1>5

-----------------------------------------------------------------------------
(* Every step keeps the inductive invariant.                               *)

\* A write of the source leaves every replica with an event to come.
LEMMA WriteSourceKeeps ==
  ASSUME IInv, NEW s \in Sources, WriteSource(s),
         s.gen <= changes' + 1, s # NoSource => s.uid \in Uids,
         last' \in 0..MaxUid, changes' \in 0..MaxChanges,
         UNCHANGED <<dep, lease, srcCache, depCache, depStale, queued, pc, original,
                     attempts, failed>>
  PROVE  IInv'
  <1>1. /\ src' = s /\ srcStale' = Replicas /\ existStale' = Passes
        /\ UNCHANGED <<leads, promoting>>
    BY DEF WriteSource, lease
  <1>2. TypeOK'
    BY <1>1 DEF IInv, TypeOK, Passes
  <1>3. GenBound' /\ WellFormed' /\ Fresh'
    BY <1>1 DEF IInv, GenBound, WellFormed, Fresh
  <1>4. Existing'
    BY <1>1 DEF Existing, Passes
  <1>5. Owed'
    BY <1>1 DEF IInv, TypeOK, Owed, Due
  <1> QED BY <1>2, <1>3, <1>4, <1>5 DEF IInv

\* Users change, delete and re-create the source, the garbage collector ends a
\* foreground deletion.
LEMMA SourceStep ==
  ASSUME IInv, UpdateSpec \/ Delete \/ Recreate \/ CollectSource
  PROVE  IInv'
  <1> USE ReplicasAssumption
  <1>0. /\ TypeOK /\ src \in Sources /\ src.gen <= changes + 1
        /\ src # NoSource => src.uid \in Uids
        /\ last \in 0..MaxUid /\ changes \in 0..MaxChanges
    BY DEF IInv, TypeOK, GenBound, WellFormed
  <1>1. CASE UpdateSpec
    <2>1. /\ changes' = changes + 1 /\ changes' \in 0..MaxChanges /\ src # NoSource
          /\ WriteSource([src EXCEPT !.gen = @ + 1])
          /\ UNCHANGED <<last, dep, lease, srcCache, depCache, depStale, queued, pc,
                         original, attempts, failed>>
      BY <1>0, <1>1 DEF UpdateSpec, Change
    <2>2. src.gen + 1 \in 0..(MaxChanges + 1) /\ src.gen + 1 <= changes' + 1
      BY <1>0, <2>1, SourceFacts
    <2> DEFINE s == [src EXCEPT !.gen = @ + 1]
    <2>3. /\ s \in Sources /\ s.gen <= changes' + 1 /\ s.uid = src.uid
      BY <1>0, <2>2, ChangedSource
    <2> HIDE DEF s
    <2>4. WriteSource(s)
      BY <2>1 DEF s
    <2> QED BY <1>0, <2>1, <2>3, <2>4, WriteSourceKeeps
  <1>2. CASE Delete
    <2>1. /\ changes' = changes + 1 /\ changes' \in 0..MaxChanges /\ src # NoSource
          /\ WriteSource(NoSource) \/ WriteSource([src EXCEPT !.deleting = TRUE])
          /\ UNCHANGED <<last, dep, lease, srcCache, depCache, depStale, queued, pc,
                         original, attempts, failed>>
      BY <1>0, <1>2 DEF Delete, Change
    <2> DEFINE s == [src EXCEPT !.deleting = TRUE]
    <2>2. s \in Sources /\ s.gen = src.gen /\ s.uid = src.uid
      BY <1>0, ChangedSource
    <2>3. s.gen <= changes' + 1 /\ NoSource \in Sources /\ NoSource.gen <= changes' + 1
      BY <1>0, <2>1, <2>2, SourceFacts
    <2>4. CASE WriteSource(NoSource)
      BY <1>0, <2>1, <2>3, <2>4, WriteSourceKeeps
    <2>5. CASE WriteSource(s)
      <3> HIDE DEF s
      <3> QED BY <1>0, <2>1, <2>2, <2>3, <2>5, WriteSourceKeeps
    <2> QED BY <2>1, <2>4, <2>5
  <1>3. CASE Recreate
    <2>1. /\ last + 1 \in Uids /\ last' = last + 1 /\ changes' = changes
          /\ WriteSource(NewSource(last + 1))
          /\ UNCHANGED <<dep, lease, srcCache, depCache, depStale, queued, pc,
                         original, attempts, failed>>
      BY <1>0, <1>3 DEF Recreate, Uids
    <2>2. /\ NewSource(last + 1) \in Sources /\ NewSource(last + 1).uid = last + 1
          /\ NewSource(last + 1).gen = 1
      BY <1>0, <2>1, SourceFacts
    <2>3. last' \in 0..MaxUid /\ 1 <= changes' + 1
      BY <1>0, <2>1 DEF Uids
    <2> QED BY <1>0, <2>1, <2>2, <2>3, WriteSourceKeeps
  <1>4. CASE CollectSource
    <2>1. /\ WriteSource(NoSource)
          /\ UNCHANGED <<last, dep, lease, srcCache, depCache, depStale, queued,
                         pc, original, attempts, failed, changes>>
      BY <1>4 DEF CollectSource
    <2>2. NoSource \in Sources /\ NoSource.gen <= changes' + 1
      BY <1>0, <2>1, SourceFacts
    <2> QED BY <1>0, <2>1, <2>2, WriteSourceKeeps
  <1> QED BY <1>1, <1>2, <1>3, <1>4

\* The garbage collector takes a Deployment away.
LEMMA CollectStep ==
  ASSUME IInv, NEW u \in Uids, Collect(u)
  PROVE  IInv'
  <1>1. /\ WriteDeployment(u, 0)
        /\ UNCHANGED <<src, last, leads, promoting, srcCache, srcStale, depCache, queued,
                       pc, original, existStale, attempts, failed, changes>>
    BY DEF Collect, lease, worker
  <1>2. 0 \in 0..(MaxChanges + 1)
    BY ReplicasAssumption
  <1>3. /\ dep' \in Deployments /\ depStale' \in [Replicas -> SUBSET Uids]
        /\ \A r \in Replicas : depStale[r] # {} => depStale'[r] # {}
        /\ dep' = dep \/ \A r \in Replicas : depStale'[r] # {}
    BY <1>1, <1>2, WriteDeploymentFacts DEF IInv
  <1>4. TypeOK'
    BY <1>1, <1>3 DEF IInv, TypeOK
  <1>5. GenBound' /\ WellFormed' /\ Fresh' /\ Existing'
    BY <1>1 DEF IInv, GenBound, WellFormed, Fresh, Existing
  <1>6. Owed'
    BY <1>1, <1>3 DEF IInv, TypeOK, Owed, Due, Done, Wanted
  <1> QED BY <1>4, <1>5, <1>6 DEF IInv

\* Leadership moves: a new leader owes a look at everything it lists.
LEMMA LeaseStep ==
  ASSUME IInv, NEW r \in Replicas, Promote(r) \/ Enlist(r) \/ Demote(r)
  PROVE  IInv'
  <1>1. /\ UNCHANGED <<src, last, dep, srcCache, srcStale, depCache, depStale, pc,
                       original, existStale, attempts, failed>>
        /\ queued \subseteq queued' /\ queued' \subseteq Replicas
    BY DEF Promote, Enlist, Demote, IInv, TypeOK, api, caches, worker
  <1>2. changes \in 0..MaxChanges /\ changes' \in 0..MaxChanges /\ changes <= changes'
    BY ReplicasAssumption DEF Promote, Enlist, Demote, Change, IInv, TypeOK
  <1>3. leads' \subseteq Replicas /\ promoting' \subseteq leads'
    BY DEF Promote, Enlist, Demote, IInv, TypeOK
  <1>4. TypeOK'
    BY <1>1, <1>2, <1>3 DEF IInv, TypeOK
  <1>5. GenBound'
    BY <1>1, <1>2, SourceFacts DEF IInv, GenBound
  <1>6. WellFormed' /\ Fresh' /\ Existing'
    BY <1>1 DEF IInv, WellFormed, Fresh, Existing
  <1>7. Owed'
    <2>1. CASE Promote(r)
      BY <2>1 DEF Promote, Owed, Due
    <2>2. CASE Enlist(r)
      BY <1>1, <2>2 DEF Enlist, IInv, TypeOK, Fresh, Owed, Due, Done, Wanted
    <2>3. CASE Demote(r)
      BY <1>1, <2>3 DEF Demote, IInv, TypeOK, Owed, Due, Done, Wanted
    <2> QED BY <2>1, <2>2, <2>3
  <1> QED BY <1>4, <1>5, <1>6, <1>7 DEF IInv

\* An informer catches up: the key is enqueued with the news.
LEMMA SyncStep ==
  ASSUME IInv, NEW r \in Replicas, SyncSource(r) \/ SyncDeployment(r)
  PROVE  IInv'
  <1>1. /\ UNCHANGED <<src, last, dep, leads, promoting, pc, original, existStale,
                       attempts, failed, changes>>
        /\ queued' = queued \cup {r}
    BY DEF SyncSource, SyncDeployment, api, lease, worker
  <1>2. /\ srcCache' \in [Replicas -> Sources] /\ srcStale' \subseteq Replicas
        /\ depCache' \in [Replicas -> Deployments]
        /\ depStale' \in [Replicas -> SUBSET Uids]
        /\ srcCache'[r] = srcCache[r] \/ srcCache'[r] = src
        /\ r \notin srcStale' => r \notin srcStale \/ srcCache'[r] = src
        /\ \A q \in Replicas \ {r} : /\ srcCache'[q] = srcCache[q]
                                     /\ q \in srcStale <=> q \in srcStale'
                                     /\ depStale'[q] = depStale[q]
    <2>1. CASE SyncSource(r)
      BY <2>1 DEF SyncSource, IInv, TypeOK
    <2>2. CASE SyncDeployment(r)
      BY <2>2 DEF SyncDeployment, IInv, TypeOK
    <2> QED BY <2>1, <2>2
  <1>3. TypeOK'
    BY <1>1, <1>2 DEF IInv, TypeOK
  <1>4. GenBound' /\ WellFormed'
    BY <1>1, <1>2 DEF IInv, GenBound, WellFormed
  <1>5. Fresh'
    <2>1. CASE SyncSource(r)
      BY <1>1, <2>1 DEF SyncSource, IInv, TypeOK, Fresh
    <2>2. CASE SyncDeployment(r)
      BY <1>1, <2>2 DEF SyncDeployment, IInv, Fresh
    <2> QED BY <2>1, <2>2
  <1>6. Existing'
    BY <1>1, <1>2 DEF IInv, TypeOK, Existing
  <1>7. Owed'
    BY <1>1, <1>2 DEF IInv, TypeOK, Owed, Due, Done, Wanted
  <1> QED BY <1>3, <1>4, <1>5, <1>6, <1>7 DEF IInv

\* A key is taken: skipped with nothing to do, or a pass begins on a copy that
\* is the stored source or has an event to come.
LEMMA TakeStep ==
  ASSUME IInv, NEW r \in Replicas, Skip(r) \/ Begin(r)
  PROVE  IInv'
  <1>1. /\ UNCHANGED <<src, last, dep, leads, promoting, srcCache, srcStale, depCache,
                       depStale, attempts, failed, changes>>
        /\ queued' = queued \ {r} /\ pc[r] = "idle"
    BY DEF Skip, Begin, Take, api, lease, caches, worker
  <1>2. CASE Skip(r)
    <2>1. UNCHANGED <<pc, original, existStale>> /\ ~DoReconcileKind(r)
      BY <1>2 DEF Skip, worker
    <2>2. TypeOK' /\ GenBound' /\ WellFormed' /\ Fresh' /\ Existing'
      BY <1>1, <2>1 DEF IInv, TypeOK, GenBound, WellFormed, Fresh, Existing
    <2>3. r \in leads /\ Wanted => r \in srcStale
      BY <2>1 DEF IInv, Fresh, Wanted, DoReconcileKind
    <2>4. Owed'
      BY <1>1, <2>1, <2>3 DEF IInv, TypeOK, Owed, Due, Done, Wanted
    <2> QED BY <2>2, <2>4 DEF IInv
  <1>3. CASE Begin(r)
    <2>1. /\ original' = [original EXCEPT ![r] = srcCache[r]]
          /\ existStale' = existStale \cup ({r} \cap srcStale)
          /\ pc' = [pc EXCEPT ![r] = "deploy"]
          /\ srcCache[r] # NoSource
      BY <1>3 DEF Begin, DoReconcileKind
    <2>2. /\ pc'[r] = "deploy" /\ original'[r] = srcCache[r]
          /\ \A q \in Replicas \ {r} : pc'[q] = pc[q] /\ original'[q] = original[q]
      BY <2>1 DEF IInv, TypeOK
    <2>3. TypeOK'
      BY <1>1, <2>1 DEF IInv, TypeOK
    <2>4. GenBound' /\ Fresh'
      BY <1>1 DEF IInv, GenBound, Fresh
    <2>5. WellFormed'
      BY <1>1, <2>1, <2>2 DEF IInv, WellFormed
    <2>6. r \in srcStale \/ srcCache[r] = src
      BY DEF IInv, Fresh
    <2>7. Existing'
      BY <1>1, <2>1, <2>2, <2>6 DEF IInv, TypeOK, Existing
    <2>8. Owed'
      BY <1>1, <2>2, <2>6 DEF IInv, TypeOK, Owed, Due, Done, Wanted
    <2> QED BY <2>3, <2>4, <2>5, <2>7, <2>8 DEF IInv
  <1> QED BY <1>2, <1>3

\* A pass that ends without a write of the source keeps what does not depend on
\* what it did.
LEMMA ReturnKeeps ==
  ASSUME IInv, NEW r \in Replicas, NEW ok \in BOOLEAN, Return(r, ok),
         UNCHANGED <<src, srcCache, srcStale>>
  PROVE  WellFormed' /\ Fresh' /\ Existing'
  <1>1. /\ pc'[r] = "idle"
        /\ \A q \in Replicas \ {r} : pc'[q] = pc[q] /\ original'[q] = original[q]
        /\ existStale' = existStale \ {r} /\ queued \subseteq queued'
    BY ReturnFacts DEF IInv
  <1>2. WellFormed' /\ Fresh'
    BY <1>1 DEF IInv, WellFormed, Fresh
  <1>3. Existing'
    BY <1>1 DEF IInv, TypeOK, Existing
  <1> QED BY <1>2, <1>3

\* A pass that ends without a write of the source, queued again if it failed,
\* keeps the invariant when nothing it did is still due.
LEMMA PassEnds ==
  ASSUME IInv, NEW r \in Replicas, NEW ok \in BOOLEAN, Return(r, ok),
         UNCHANGED <<src, last, lease, srcCache, srcStale, depCache>>,
         dep' \in Deployments, depStale' \in [Replicas -> SUBSET Uids],
         changes' \in 0..MaxChanges, changes <= changes',
         \A q \in Replicas : depStale[q] # {} => depStale'[q] # {},
         dep' = dep \/ \A q \in Replicas : depStale'[q] # {},
         ok => r \in srcStale \/ r \in queued
               \/ (pc[r] = "deploy" /\ (original[r] = src => Done'))
  PROVE  IInv'
  <1>1. UNCHANGED <<leads, promoting>>
    BY DEF lease
  <1>2. TypeOK'
    BY <1>1, ReturnFacts DEF IInv, TypeOK
  <1>3. GenBound'
    <2>1. src.gen <= changes + 1 /\ src.gen \in 0..(MaxChanges + 1)
      BY SourceFacts DEF IInv, GenBound
    <2>2. changes \in 0..MaxChanges
      BY DEF IInv, TypeOK
    <2> QED BY <2>1, <2>2, ReplicasAssumption DEF GenBound
  <1>4. WellFormed' /\ Fresh' /\ Existing'
    BY ReturnKeeps
  <1>5. Owed'
    <2>1. /\ pc'[r] = "idle"
          /\ \A q \in Replicas \ {r} : pc'[q] = pc[q] /\ original'[q] = original[q]
          /\ queued \subseteq queued' /\ (~ok => r \in queued')
      BY ReturnFacts DEF IInv
    <2>2. \A q \in leads \ {r} : Wanted => Due(q)' \/ Done'
      BY <1>1, <2>1 DEF IInv, TypeOK, Owed, Due, Done, Wanted
    <2>3. r \in leads /\ Wanted => Due(r)' \/ Done'
      BY <1>1, <2>1 DEF IInv, TypeOK, Owed, Due, Done, Wanted
    <2> QED BY <1>1, <2>2, <2>3 DEF Owed, Wanted
  <1> QED BY <1>2, <1>3, <1>4, <1>5 DEF IInv

\* A pass that goes on to updateStatus keeps the invariant.
LEMMA PassGoesOn ==
  ASSUME IInv, NEW r \in Replicas, pc[r] = "deploy", pc' = [pc EXCEPT ![r] = "put"],
         failed' \subseteq Replicas,
         UNCHANGED <<src, last, lease, srcCache, srcStale, depCache, queued, original,
                     existStale, attempts>>,
         dep' \in Deployments, depStale' \in [Replicas -> SUBSET Uids],
         changes' \in 0..MaxChanges, changes <= changes',
         \A q \in Replicas : depStale[q] # {} => depStale'[q] # {},
         dep' = dep \/ \A q \in Replicas : depStale'[q] # {}
  PROVE  IInv'
  <1>1. UNCHANGED <<leads, promoting>>
    BY DEF lease
  <1>2. TypeOK'
    BY <1>1 DEF IInv, TypeOK
  <1>3. pc'[r] = "put" /\ \A q \in Replicas \ {r} : pc'[q] = pc[q]
    BY DEF IInv, TypeOK
  <1>4. GenBound'
    <2>1. src.gen <= changes + 1 /\ src.gen \in 0..(MaxChanges + 1)
      BY SourceFacts DEF IInv, GenBound
    <2>2. changes \in 0..MaxChanges
      BY DEF IInv, TypeOK
    <2> QED BY <2>1, <2>2, ReplicasAssumption DEF GenBound
  <1>5. WellFormed' /\ Fresh' /\ Existing'
    BY <1>3 DEF IInv, TypeOK, WellFormed, Fresh, Existing
  <1>6. Owed'
    BY <1>1, <1>3 DEF IInv, TypeOK, Owed, Due, Done, Wanted
  <1> QED BY <1>2, <1>4, <1>5, <1>6 DEF IInv

\* reconcileDeployment succeeds or fails, and the pass ends or writes a status.
LEMMA DeployStep ==
  ASSUME IInv, NEW r \in Replicas, DeployOK(r) \/ DeployFails(r)
  PROVE  IInv'
  <1>0. /\ TypeOK /\ pc[r] = "deploy" /\ original[r] \in Sources
        /\ original[r].uid \in Uids /\ original[r].gen \in 0..(MaxChanges + 1)
    BY DEF DeployOK, DeployFails, IInv, TypeOK, WellFormed, Sources
  <1>1. CASE DeployOK(r)
    <2>1. /\ WriteDeployment(original[r].uid, original[r].gen) /\ AfterDeploy(r, TRUE)
          /\ UNCHANGED <<src, last, lease, srcCache, srcStale, depCache, changes>>
      BY <1>1 DEF DeployOK
    <2>2. /\ dep' \in Deployments /\ depStale' \in [Replicas -> SUBSET Uids]
          /\ dep'[original[r].uid] = original[r].gen
          /\ \A q \in Replicas : depStale[q] # {} => depStale'[q] # {}
          /\ dep' = dep \/ \A q \in Replicas : depStale'[q] # {}
      BY <1>0, <2>1, WriteDeploymentFacts
    <2>3. changes' \in 0..MaxChanges /\ changes <= changes'
      BY <1>0, <2>1, ReplicasAssumption DEF TypeOK
    <2>4. CASE Computed(r, FALSE) = original[r].status
      <3>1. Return(r, TRUE)
        BY <2>1, <2>4 DEF AfterDeploy
      <3>2. original[r] = src => Done'
        BY <2>1, <2>2, <2>4 DEF Computed, Done
      <3> QED BY <1>0, <2>1, <2>2, <2>3, <3>1, <3>2, PassEnds
    <2>5. CASE Computed(r, FALSE) # original[r].status
      <3>1. /\ pc' = [pc EXCEPT ![r] = "put"] /\ failed' = failed
            /\ UNCHANGED <<queued, original, existStale, attempts>>
        BY <2>1, <2>5 DEF AfterDeploy
      <3>2. failed' \subseteq Replicas
        BY <1>0, <3>1 DEF TypeOK
      <3> QED BY <1>0, <2>1, <2>2, <2>3, <3>1, <3>2, PassGoesOn
    <2> QED BY <2>4, <2>5
  <1>2. CASE DeployFails(r)
    <2>1. /\ AfterDeploy(r, FALSE)
          /\ UNCHANGED <<src, last, lease, srcCache, srcStale, depCache, dep, depStale>>
          /\ changes' = changes \/ (changes < MaxChanges /\ changes' = changes + 1)
      BY <1>2 DEF DeployFails, ApiError, Change, api, caches
    <2>2. changes' \in 0..MaxChanges /\ changes <= changes'
      BY <1>0, <2>1, ReplicasAssumption DEF TypeOK
    <2>3. dep' \in Deployments /\ depStale' \in [Replicas -> SUBSET Uids]
      BY <1>0, <2>1 DEF TypeOK
    <2>4. CASE Computed(r, TRUE) = original[r].status
      <3>1. Return(r, FALSE)
        BY <2>1, <2>4 DEF AfterDeploy
      <3> QED BY <1>0, <2>1, <2>2, <2>3, <3>1, PassEnds
    <2>5. CASE Computed(r, TRUE) # original[r].status
      <3>1. /\ pc' = [pc EXCEPT ![r] = "put"] /\ failed' = failed \cup {r}
            /\ UNCHANGED <<queued, original, existStale, attempts>>
        BY <2>1, <2>5 DEF AfterDeploy
      <3>2. failed' \subseteq Replicas
        BY <1>0, <3>1 DEF TypeOK
      <3> QED BY <1>0, <2>1, <2>2, <2>3, <3>1, <3>2, PassGoesOn
    <2> QED BY <2>4, <2>5
  <1> QED BY <1>1, <1>2

\* UpdateStatus writes the source: whoever leads has an event to come.
LEMMA PutStatusStep ==
  ASSUME IInv, NEW r \in Replicas, PutStatus(r)
  PROVE  IInv'
  <1> DEFINE s == [src EXCEPT !.status = Computed(r, r \in failed)]
  <1>1. /\ s \in Sources /\ s.uid = src.uid /\ s.gen = src.gen
    <2>1. (r \in failed) \in BOOLEAN
      OBVIOUS
    <2>2. Computed(r, r \in failed) \in Statuses
      BY <2>1, ComputedType DEF IInv
    <2> QED BY <2>2, ChangedSource DEF IInv
  <1> HIDE DEF s
  <1>2. /\ src' = s /\ srcStale' = Replicas /\ existStale' = Passes \ {r}
        /\ pc' = [pc EXCEPT ![r] = "idle"] /\ original' = [original EXCEPT ![r] = NoSource]
        /\ attempts' = [attempts EXCEPT ![r] = 0] /\ failed' = failed \ {r}
        /\ queued' = queued \cup ({r} \cap failed)
        /\ UNCHANGED <<last, dep, leads, promoting, srcCache, depCache, depStale, changes>>
    BY DEF PutStatus, lease, s
  <1>3. src # NoSource /\ src.uid \in Uids
    BY DEF PutStatus, IInv, Existing, WellFormed
  <1>4. src' # NoSource
    BY <1>1, <1>2, <1>3, SourceFacts DEF IInv
  <1>5. TypeOK'
    <2>1. NoSource \in Sources /\ 0 \in 0..(MaxAttempts - 1)
      BY SourceFacts, ReplicasAssumption DEF IInv
    <2>2. /\ pc' \in [Replicas -> {"idle", "deploy", "put"}]
          /\ original' \in [Replicas -> Sources]
          /\ attempts' \in [Replicas -> 0..(MaxAttempts - 1)]
      BY <1>2, <2>1 DEF IInv, TypeOK
    <2>3. existStale' \subseteq Replicas /\ failed' \subseteq Replicas /\ queued' \subseteq Replicas
      BY <1>2 DEF IInv, TypeOK, Passes
    <2> QED BY <1>1, <1>2, <2>2, <2>3 DEF IInv, TypeOK
  <1>6. pc'[r] = "idle" /\ \A q \in Replicas \ {r} : pc'[q] = pc[q] /\ original'[q] = original[q]
    BY <1>2 DEF IInv, TypeOK
  <1>7. GenBound' /\ WellFormed' /\ Fresh'
    BY <1>1, <1>2, <1>3, <1>6 DEF IInv, GenBound, WellFormed, Fresh
  <1>8. Existing'
    BY <1>2, <1>4, <1>6 DEF Existing, Passes
  <1>9. Owed'
    BY <1>2 DEF IInv, TypeOK, Owed, Due
  <1> QED BY <1>5, <1>7, <1>8, <1>9 DEF IInv

\* updateStatus starts over, finds the status there already, or gives up.
LEMMA RetryStep ==
  ASSUME IInv, NEW r \in Replicas, Refetch(r) \/ PutFails(r)
  PROVE  IInv'
  <1>0. /\ pc[r] = "put"
        /\ UNCHANGED <<src, last, lease, srcCache, srcStale, depCache, dep, depStale>>
        /\ changes' = changes \/ (changes < MaxChanges /\ changes' = changes + 1)
    BY DEF Refetch, PutFails, ApiError, Change, api, caches
  <1>1. /\ changes' \in 0..MaxChanges /\ changes <= changes'
        /\ dep' \in Deployments /\ depStale' \in [Replicas -> SUBSET Uids]
    BY <1>0, ReplicasAssumption DEF IInv, TypeOK
  <1>2. CASE PutFails(r)
    <2>1. Return(r, FALSE)
      BY <1>2 DEF PutFails
    <2> QED BY <1>0, <1>1, <2>1, PassEnds
  <1>3. CASE Refetch(r) /\ src.status = Computed(r, r \in failed)
    <2>1. Return(r, r \notin failed) /\ r \in existStale
      BY <1>3 DEF Refetch
    <2>2. r \in srcStale \/ r \in queued
      BY <2>1 DEF IInv, Existing
    <2>3. CASE r \in failed
      <3>1. Return(r, FALSE)
        BY <2>1, <2>3 DEF Return
      <3> QED BY <1>0, <1>1, <3>1, PassEnds
    <2>4. CASE r \notin failed
      <3>1. Return(r, TRUE)
        BY <2>1, <2>4 DEF Return
      <3> QED BY <1>0, <1>1, <2>2, <3>1, PassEnds
    <2> QED BY <2>3, <2>4
  <1>4. CASE Refetch(r) /\ src.status # Computed(r, r \in failed)
    <2>1. /\ attempts' = [attempts EXCEPT ![r] = @ + 1] /\ attempts[r] + 1 < MaxAttempts
          /\ existStale' = existStale \ {r} /\ src # NoSource
          /\ UNCHANGED <<pc, original, failed, queued, leads, promoting, changes>>
      BY <1>4 DEF Refetch, lease
    <2>2. attempts' \in [Replicas -> 0..(MaxAttempts - 1)]
      BY <2>1, ReplicasAssumption DEF IInv, TypeOK
    <2>3. TypeOK'
      BY <1>0, <2>1, <2>2 DEF IInv, TypeOK
    <2>4. GenBound' /\ WellFormed' /\ Fresh' /\ Existing'
      BY <1>0, <2>1 DEF IInv, GenBound, WellFormed, Fresh, Existing
    <2>5. Owed'
      BY <1>0, <2>1 DEF IInv, Owed, Due, Done, Wanted
    <2> QED BY <2>3, <2>4, <2>5 DEF IInv
  <1> QED BY <1>2, <1>3, <1>4

\* A restarted pod leads nothing and has the key in its queue.
LEMMA CrashStep ==
  ASSUME IInv, NEW r \in Replicas, Crash(r)
  PROVE  IInv'
  <1>1. /\ leads' = leads \ {r} /\ promoting' = promoting \ {r}
        /\ srcCache' = [srcCache EXCEPT ![r] = src] /\ srcStale' = srcStale \ {r}
        /\ depCache' = [depCache EXCEPT ![r] = dep]
        /\ depStale' = [depStale EXCEPT ![r] = {}]
        /\ Return(r, FALSE) /\ UNCHANGED <<src, last, dep>>
        /\ changes < MaxChanges /\ changes' = changes + 1
    BY DEF Crash, Change, api
  <1>2. /\ pc'[r] = "idle" /\ r \in queued' /\ queued \subseteq queued'
        /\ \A q \in Replicas \ {r} : pc'[q] = pc[q] /\ original'[q] = original[q]
        /\ existStale' = existStale \ {r}
    BY <1>1, ReturnFacts DEF IInv
  <1>3. changes' \in 0..MaxChanges
    BY <1>1, ReplicasAssumption DEF IInv, TypeOK
  <1>4. /\ srcCache' \in [Replicas -> Sources] /\ depCache' \in [Replicas -> Deployments]
        /\ depStale' \in [Replicas -> SUBSET Uids]
        /\ srcCache'[r] = src
        /\ \A q \in Replicas \ {r} : srcCache'[q] = srcCache[q] /\ depStale'[q] = depStale[q]
    BY <1>1 DEF IInv, TypeOK
  <1>5. TypeOK'
    <2>1. /\ pc' \in [Replicas -> {"idle", "deploy", "put"}]
          /\ original' \in [Replicas -> Sources]
          /\ attempts' \in [Replicas -> 0..(MaxAttempts - 1)]
          /\ failed' \subseteq Replicas /\ queued' \subseteq Replicas
      BY <1>1, ReturnFacts DEF IInv
    <2>2. /\ leads' \subseteq Replicas /\ promoting' \subseteq leads'
          /\ srcStale' \subseteq Replicas /\ existStale' \subseteq Replicas
      BY <1>1, <1>2 DEF IInv, TypeOK
    <2> QED BY <1>1, <1>3, <1>4, <2>1, <2>2 DEF IInv, TypeOK
  <1>6. GenBound'
    <2>1. src.gen <= changes + 1 /\ src.gen \in 0..(MaxChanges + 1)
      BY SourceFacts DEF IInv, GenBound
    <2>2. changes \in 0..MaxChanges
      BY DEF IInv, TypeOK
    <2> QED BY <1>1, <2>1, <2>2, ReplicasAssumption DEF GenBound
  <1>7. WellFormed' /\ Fresh'
    BY <1>1, <1>2, <1>4 DEF IInv, WellFormed, Fresh
  <1>8. Existing'
    BY <1>1, <1>2 DEF IInv, TypeOK, Existing
  <1>9. Owed'
    BY <1>1, <1>2, <1>4 DEF IInv, TypeOK, Owed, Due, Done, Wanted
  <1> QED BY <1>5, <1>6, <1>7, <1>8, <1>9 DEF IInv

-----------------------------------------------------------------------------
(* The theorems.                                                           *)

\* The controller at rest satisfies the inductive invariant.
LEMMA InitIInv == Init => IInv
  <1> SUFFICES ASSUME Init PROVE IInv
    OBVIOUS
  <1> USE ReplicasAssumption
  <1>1. FirstSource \in Sources /\ NoSource \in Sources
    <2>1. [obs |-> 1, name |-> 1] \in Statuses /\ NoStatus \in Statuses
      BY DEF Statuses, NoStatus
    <2>2. NewSource(1) \in Sources /\ NoSource \in Sources
      BY <2>1 DEF NewSource, NoSource, Sources
    <2>3. [NewSource(1) EXCEPT !.status = [obs |-> 1, name |-> 1]] \in Sources
      BY <2>1, <2>2 DEF Sources
    <2> QED BY <2>2, <2>3 DEF FirstSource
  <1>2. /\ FirstSource.uid = 1 /\ FirstSource.gen = 1
        /\ FirstSource.status = [obs |-> 1, name |-> 1] /\ 1 \in Uids
    BY DEF FirstSource, NewSource, Uids
  <1>3. FirstLeader \in Replicas
    BY DEF FirstLeader
  <1>4. dep \in Deployments /\ dep[1] = 1
    BY <1>2 DEF Init, Deployments
  <1>5. TypeOK
    <2>1. /\ src \in Sources /\ last \in 0..MaxUid /\ changes \in 0..MaxChanges
          /\ leads \subseteq Replicas /\ promoting \subseteq leads
          /\ srcStale \subseteq Replicas /\ queued \subseteq Replicas
          /\ existStale \subseteq Replicas /\ failed \subseteq Replicas
      BY <1>1, <1>3 DEF Init
    <2>2. /\ srcCache \in [Replicas -> Sources] /\ original \in [Replicas -> Sources]
          /\ pc \in [Replicas -> {"idle", "deploy", "put"}]
          /\ attempts \in [Replicas -> 0..(MaxAttempts - 1)]
      BY <1>1 DEF Init
    <2>3. /\ depCache \in [Replicas -> Deployments]
          /\ depStale \in [Replicas -> SUBSET Uids]
      BY <1>4 DEF Init
    <2> QED BY <1>4, <2>1, <2>2, <2>3 DEF TypeOK
  <1>6. GenBound /\ WellFormed /\ Fresh /\ Existing
    BY <1>2 DEF Init, GenBound, WellFormed, Fresh, Existing
  <1>7. Owed
    BY <1>2, <1>4 DEF Init, Owed, Done
  <1> QED BY <1>5, <1>6, <1>7 DEF IInv

\* Every step of users, garbage collector, Lease, informers and workers keeps it.
LEMMA NextIInv == IInv /\ [Next]_vars => IInv'
  <1> SUFFICES ASSUME IInv, [Next]_vars PROVE IInv'
    OBVIOUS
  <1>1. CASE UpdateSpec \/ Delete \/ Recreate \/ CollectSource
    BY <1>1, SourceStep
  <1>2. ASSUME NEW u \in Uids, Collect(u) PROVE IInv'
    BY <1>2, CollectStep
  <1>3. ASSUME NEW r \in Replicas, Promote(r) \/ Enlist(r) \/ Demote(r) PROVE IInv'
    BY <1>3, LeaseStep
  <1>4. ASSUME NEW r \in Replicas, SyncSource(r) \/ SyncDeployment(r) PROVE IInv'
    BY <1>4, SyncStep
  <1>5. ASSUME NEW r \in Replicas, Worker(r) PROVE IInv'
    BY <1>5, TakeStep, DeployStep, PutStatusStep, RetryStep DEF Worker
  <1>6. ASSUME NEW r \in Replicas, Crash(r) PROVE IInv'
    BY <1>6, CrashStep
  <1>7. CASE UNCHANGED vars
    BY <1>7 DEF vars, api, lease, caches, worker, IInv, TypeOK, GenBound, WellFormed,
                Fresh, Existing, Owed, Due, Done, Wanted
  <1> QED BY <1>1, <1>2, <1>3, <1>4, <1>5, <1>6, <1>7 DEF Next

\* Every value the replicas, the API server and the environment hold has its type.
THEOREM TypeCorrect == Spec => []TypeOK
  <1>1. IInv => TypeOK
    BY DEF IInv
  <1> QED BY <1>1, InitIInv, NextIInv, PTL DEF Spec

\* No wake-up is lost: with a leader, an empty queue, caches up to date and no
\* pass under way, the source has its own Deployment of its newest generation
\* and a status that says so (isNotLeaderNorObserver, PromoteFunc, the informer
\* handlers of NewController, updateStatus).
THEOREM NoWakeUpLost == Spec => []NothingOwed
  <1>1. IInv => NothingOwed
    <2> SUFFICES ASSUME IInv, Quiet PROVE Settled
      BY DEF NothingOwed
    <2>1. PICK r \in leads : TRUE
      BY DEF Quiet
    <2>2. r \in Replicas /\ ~Due(r) /\ ~src.deleting
      BY <2>1 DEF Quiet, Due, IInv, TypeOK
    <2>3. src = NoSource \/ (src.uid \in Uids /\ Done)
      BY <2>1, <2>2 DEF IInv, WellFormed, Owed, Wanted
    <2>4. \A u \in Uids \ {src.uid} : dep[u] = 0
      BY DEF Quiet
    <2>5. CASE src = NoSource
      BY <2>2, <2>4, <2>5, SourceFacts DEF IInv, Settled
    <2>6. CASE src # NoSource
      BY <2>2, <2>3, <2>4, <2>6 DEF Settled, Done
    <2> QED BY <2>5, <2>6
  <1> QED BY <1>1, InitIInv, NextIInv, PTL DEF Spec
=============================================================================
