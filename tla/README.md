# YipYapSource in TLA+

Specifications of the YipYap Knative event source: a controller that keeps one
adapter Deployment per `YipYapSource`, an admission webhook, and the receive
adapter that fetches CloudEvents from YipYap and POSTs them to a sink. TLC
checks the specifications on small instances, TLAPS proves the main safety
properties for all values of the constants. `PROJECT.json` maps definitions to
source lines and lists runs, hazards, findings and theorems.

    tlc -config Poll.cfg PollClient              # one run; cfg and module are in PROJECT.json
    tlapm PollClientProofs.tla                   # one proof module

## 1. Inventory

| Component | State | Operations | Hard part |
|---|---|---|---|
| Poll client (`source/poll.go`) | cursor in memory, cursor file, batch being emitted | tick, fetch, emit, commit | crash or deadline between the sink's answer and the cursor write; file and memory disagreeing; lost cursor volume |
| Stream client (`source/stream.go`) | connection, backoff, position of the server's durable consumer | dial, scan, emit, back off | events read and not delivered when Send fails; backoff across connections |
| Sink client (`source/sink.go`) | none | `Send` | an error after the sink already saw the event; overrides against required attributes |
| Mode resolver (`source/mode.go`) | none; reads env, CR mode file, server hint | `ResolveMode` | precedence, missing fields, overflow of durations |
| Run loop (`source/run.go`) | current resolution, session deadline | resolve, run a session, back off | interval against window, resolve storms, mode flips; a transport with its own cursor alternating with one without |
| Adapter start (`main.go`, `source/config.go`) | `Config` | `LoadConfig` | agreement with what the controller renders |
| Webhook (`yipyapsource_defaults.go`, `_validation.go`, `cmd/webhook`) | none | default, validate | agreement with what the adapter accepts |
| Rendering (`resources/deployment.go`) | none | `MakeAdapterDeployment` | conversion of the filter to CSV; cursor volume; two pods at once in a rolling update |
| Reconciler (`pkg/reconciler/yipyapsource`) | status under construction | `ReconcileKind` | stale listers, failed writes, conditions left over |
| Generated reconciler (`pkg/client/injection/reconciler`) and work queue | copy of the source, queue, retries, buckets led | `Reconcile`, `updateStatus`, promotion | conflicts, status overwritten by an older computation; keys forgotten by a replica that does not lead; deletion |
| Conditions (`yipyapsource_lifecycle.go`, `knative.dev/pkg/apis`) | Ready, SinkProvided, Deployed | Mark..., initialize | Ready out of step with its dependents |
| Generated clients, chart, manifests, test suites | - | - | not modelled |

How they interact: a user writes a `YipYapSource`; the API server calls the
webhook; informers put the key on the controller's queue; the reconciler
resolves the sink, writes the Deployment and the status; the pod starts from
the rendered environment; `Run` resolves the mode and opens sessions of the
poll or the stream client; both deliver through `SinkClient.Send`. The parts
share no memory except inside one process; they meet in the API server, in the
environment of the pod, in the cursor file and in the server's position.

## 2. Modules and the code they model

* **Delivery** is the abstract promise: in-order, at-least-once delivery
  against a resume position that only moves over settled events (accepted by
  the sink, not decodable, or passed over by the server before the consumer
  had a position), or is lost as a whole.
* **PollClient** models `PollClient.Run` statement by statement: `Start`
  (`readCursor`), `Tick`, `FetchOK`/`FetchFail`, `Post`/`SendOK`/`SendFail`
  for each event, `Commit` (`writeCursor`), with the session of `Run` around it
  (`CtxDone`, `SessionEnd`). Between `Post` and its answer anything can happen.
  A cursor is the position it stands for, 0 the empty string. `Crash` loses the
  memory, `Evict` also the cursor file.
* **StreamClient** models `run` and `streamOnce`. The server's durable consumer
  is assumed to advance only over lines the scanner returned, the kindest
  server there could be.
* **ModeResolver** holds `ResolveMode` and `resolutionFromHint` as operators;
  durations wrap at `2 * HalfRange` as int64 does. **RunLoop** puts `Run` on a
  discrete clock: `Resolve`, `ResolveFails`, `Pass` (time), `Tick`, `Refresh`,
  `Stop`; `Flip` lets server and operator change their minds at any time.
  **MCRunLoop** gives the hints.
* **Conditions** are the operators of Knative's living condition set.
  **Reconciler** models one pass of `Reconcile` as steps (`Begin`, sink,
  Deployment, status write with its retries, `Finish`) against an API server
  and two informer caches that lag behind. A resource version is a flag "written
  since the copy was taken", which is all that Update compares it for. With
  `Defaulting` a stored template may differ from the rendered one for the API
  server's defaults alone, and a pass may write or keep the Deployment.
* **Replicas** is the controller as several processes: per replica its
  informers, work queue, worker and share in leadership, over one API server
  with a garbage collector. `Promote` and `Enlist` are the two halves of
  `LeaderAwareFuncs.Promote` (take the bucket, then list and enqueue), `Skip`
  and `Begin` the choices of `newState`, the lister and `reconcileMethodFor`;
  `DeployOK`/`DeployFails`, `PutStatus`/`Refetch`/`PutFails` the writes of a
  pass, reduced to generation and incarnation. A source can be deleted, in the
  background or in the foreground, and created again under its name.
* **Rollout** composes the two transports: per pod a run loop whose sessions
  poll from the pod's own cursor file or read the stream from the one durable
  consumer of all pods, and around them the steps of a rolling update
  (`Create`, `Terminate`, `Exit`). **MCRollout** gives the modes.
* **SourceConfig** follows a spec from `kubectl apply` through `SetDefaults`,
  `Validate`, `MakeAdapterDeployment`'s environment and `LoadConfig` to
  `ResolveMode` and the headers of `buildBinaryRequest`. A glob is the sequence
  of its comma-separated parts, and a part is a text with or without white
  space around it, so join, split and `TrimSpace` are modelled by what they do.
  The name of an override is its lower-case form, whether it consists of
  letters and digits, and whether it was written with capitals; an event, of
  CloudEvents 1.0, is who set each of its attributes and extensions. `Send`
  applies the overrides one by one in any order (`Overridden`, `Sent`), since
  Go leaves the iteration order of a map open, and `SetExtension` refuses what
  the SDK refuses. **MCSourceConfig** gives globs, names and specs.
* **PollClientProofs**, **StreamClientProofs**, **RunLoopProofs**,
  **ReconcilerProofs**, **ReplicasProofs**, **RolloutProofs** and
  **SourceConfigProofs** hold the theorems, **Recursion** the lemmas about
  induction and recursive definitions that two of them use.

Definitions whose comment begins with "Variant:" are plausible bugs of the
definition that follows them. No specification uses them; replacing the
definition by its variant makes TLC report the property that `PROJECT.json`
pairs them with, which shows that the property can fail.

## 3. Runs

| Run | Shows |
|---|---|
| Poll | without read errors, with every other fault, a malformed and a poison event: `NoLoss`, `NoOvertaking`, `NoReplay`; `Promise`, that PollClient implements Delivery; within a pod the cursor file never goes back and the client always resumes from it |
| PollLive | `Progress`: every event ends behind the persisted cursor, read errors included |
| Stream | `OnceInOrder`, `StreamProgress`, and `BackoffSchedule` with the real 250 ms and 30 s |
| Reconciler | `ReadyIsDerived`, `ReadyRendersSpec`, `ObservedGenerationMonotone`, `RestsSettled` (an idle controller has settled the source), and `Converges` although API-server defaults may make every pass write |
| Replicas | `NothingOwed`: the controller never rests with work undone; `SettlesAcrossLeaders`: through lease changes, restarts, deletion and re-creation it ends with exactly the Deployment and status of the source that is there |
| RunLoop | `NoResolveStorm`, `NeverPanics`, `KeepsPolling`, `FlipsReachSession` |
| Rollout | `CursorSound`, `PollInOrder`, `StreamAtMostOnce` through mode switches and a rolling update; `HandsOver`: a rollout to polling leaves no event behind |
| SourceConfig | `FilterFaithful`, `ModeHonoured`, `AdmittedRuns`, `OverridesApplied` for pinned modes; the lists have empty, blank, padded and malformed globs and one with a comma, the overrides a reserved name, one with a hyphen and two that differ by case |

Four runs are expected to end in a violation; each shows a place where the
code does not do what a comment of it says (`findings` quotes them):

| Run | Behaviour |
|---|---|
| SourceConfigAuto | the default mode `auto` is rendered into `YIPYAP_MODE`, and `LoadConfig` refuses it: the adapter crash-loops |
| StreamRefresh | the end of a session drops the event being sent |
| RunLoopZero | a poll interval of 0 panics in spite of the guard in `NewPollClient` |
| ReconcilerStale | a recreated Deployment leaves `Deployed` at a stale True |

Limits of the passing runs; those that name a constant are visible by changing
it in the cfg:

* Poll with `"read"` in `Faults`: after a read error that `Run` drops, the
  client starts over in spite of its file (`ResumesWhereItLeftOff`,
  `NoReplay`). Across pods there is nothing to resume from: the cursor is in an
  emptyDir.
* RunLoop with `Hints <- MCSlowHint`: with an interval as long as the refresh
  window no session lives to its first tick (`KeepsPolling`).
* `FilterFaithful` leaves out specs that have a glob with a comma
  (`CommaFree`): the webhook admits one, `parseEventFilters` splits it, and the
  adapter asks for the two halves, although `MakeAdapterDeployment` says that
  globs never contain commas (deployment.go:99). That the adapter asks for
  nothing beyond the spec is claimed where `TrimSpace` left the list alone
  (`Trimmed`): a padded glob is sent without its padding, and a list of blank
  entries only, which describes no event, reads as no list and asks for every
  one. `severities` and `monitorIDs` are outside the property: they are
  admitted and reach no adapter, so they narrow nothing.
* PollLive with an event in `Poison`, Stream with one in `Oversize`: an
  event the sink refuses for good, or a line over 4 MB, stops all later ones
  (`Progress`, `StreamProgress`).

What the passing runs allow, and a reader might not expect:

* A pass of a former leader goes on after its `Demote`, since leadership is
  read once, in `newState`, and can still write an older template or status.
  The comment at `reconciler.go:289` expects only the leader to write. The new
  leader sees the write as an event and repairs it (`SettlesAcrossLeaders`).
* `updateStatus` reads by name when it retries, so a source that was deleted
  and created again can for a moment carry the former one's status.
* In a rollout of streaming pods each line goes to one of them, but order
  across pods is not kept, and a line in the hand of a stopped pod is lost
  (the finding of StreamRefresh); only a poll session brings it back.
* `OverridesApplied` says that exactly the overrides with the name of an
  extension arrive. One with a hyphen in its name, or with the name of one of
  the eight attributes of the specification (`subject`, `time`, ...), is dropped
  without a word: `Send` ignores that `SetExtension` failed, and the webhook
  validates the sink only, not `ceOverrides`. So "injected on every event"
  (yipyapsource_types.go:74) does not hold for such names. Of two names that
  differ by case only one arrives, and which one may differ from event to event.

### Bounds

Four events for the poll client's safety (two for its liveness) let a batch have a first,
a middle and a last event, a malformed one among them, and two batches follow
each other. `MaxWaits = 8` passes the cap of the backoff (250 ms * 2^7 > 30 s).
`MaxChanges` bounds what the environment of the controller does: three
changes allow a spec change, a Deployment change and a failure in one pass, and
as many conflicts as it takes to use up `MaxAttempts = 2` (the code has 5). In
Replicas two changes (a lost lease, crash, failure, spec change or deletion)
besides one re-creation (`MaxUid = 2`) are enough for a former leader's pass to
meet the new leader's, or the new incarnation. Rollout has two pods, as a
rolling update of one replica has at a time, and three events: one dropped by
the stream, one malformed, one after them. In
MCRunLoop a minute is two units and durations wrap at 32; the hints include one
whose refresh overflows. `CfgModes` includes an unknown word: `LoadConfig`
refuses it, but `Run` is exported and handles it. `MCSpecs` has every list of
up to two of seven globs, enough for a join with a blank entry on either side,
every set of four override names, and every combination of the other settings. Deadlock is checked except where the system may
rightly come to rest (controller with nothing to do, run loop stopped, rollout
done).

### Fairness

*Poll*: sessions start and end, ticks come, and no step fails for ever
(strong fairness of a full fetch, of each Send and of the cursor write, the
latter also per batch size). `select` picks uniformly among ready cases, so
neither case loses for ever. A sink that refuses an event for good is excluded:
with one, later events are never sent. *Stream*: dialling and scanning succeed
infinitely often if they can. *Controller*: the worker and both informers keep
going; failures are bounded by `MaxChanges`. *Replicas*: each replica likewise,
a free Lease is taken by some replica, a promoted replica lists, and the
garbage collector collects; nothing makes a lease be lost. *Rollout*: asked of
the last pod only, that its sessions start, and that fetches and Sends do not
fail for ever. *Run loop*: time passes and the
loop is scheduled. There is no fairness on crashes, publications, flips or
users.

## 4. Proofs

The theorems hold for every value of the constants under the named assumptions
of each module (types of the constants, positive durations).

* **PollClientProofs.** `NoLoss` is not inductive: whether a commit is safe
  depends on the batch. The invariant `IInv` adds `BatchInv`, which ties the
  response in hand to the log (what is before the batch and not in it is
  settled), and with readable files `FileBehindCursor`. Each action is one step
  of the proof. `PollImplementsDelivery` maps the cursor file to the resume
  position: `SendOK` is `Deliver`, a successful write is `Advance`, a fetch
  without a cursor is `StartAt`, `Evict` is `Forget`, everything else stutters.
  This theorem and those about replay, regression and resumption assume
  `"read" \notin Faults`: after a dropped read error the
  client does start over.
* **StreamClientProofs.** At-most-once follows from types: everything received
  is at or before the consumer, and the line in hand is the consumer's until it
  has been posted. `BackoffDoubles` compares the loop's variable with `Doubled`,
  a recursive function: once at the cap, further doublings stay at it. The
  history variable that counts the waits stops at `MaxWaits`, so the module
  assumes (`WaitsAssumption`) that the cap has been reached by then; this bounds
  the counter, not the code.
* **RunLoopProofs.** `RunNeverStorms` needs an invariant that relates the time
  left in a session to the time since the last request; clamping in `Window`
  establishes it even for windows that overflowed. `TickerNeverPanics` assumes
  `SaneIntervals`: a positive configured interval, and hinted intervals that fit
  a `time.Duration`. Both halves are needed: without the first there is the
  finding of RunLoopZero, without the second the product can wrap to something
  that is not positive. Negative, missing and zero hints are covered.
* **ReconcilerProofs.** Lemmas about the condition operators (each Mark
  function yields or keeps a derived Ready) feed an invariant over the stored
  status, the cached and working copies and the Deployment's generation, needed
  because a status computed from an old copy can be written later.
  `NeverRestsUnsettled` is the safety half of `Converges`. `RestsSettled` speaks
  of idle states only; its invariant `RestInv` follows a pass and says at each
  stage what holds unless an event or an error will bring the key back: the
  copy is what is stored, the working status has the sink, the Deployment is
  the one rendered and the working status says how it is. That
  `existing` may be stale in `updateStatus` plays no part in the argument: a
  source written since is a source whose event is still to come.
* **ReplicasProofs**, for any number of replicas, incarnations and changes.
  `NothingOwed` speaks of moments of rest; the invariant has to say who will
  act in every other one. `Fresh` ties each replica's caches to the API server
  unless an event is on its way, and `Owed` lists for the bucket's holder what
  may still be owed: the list of its promotion, a key in its queue, a pass
  under way (with what that pass has read and will write), or an event. A
  former leader's late write counts as an event for the new leader, which is
  why nothing is asked of former leaders.
* **RolloutProofs**, for any number of pods and any choice of modes. The
  properties need two facts about what a pod has in hand. `PollInv`: up to
  `next_cursor` everything is settled or in the batch, whatever other pods
  deliver meanwhile, since settled events stay settled. `StreamInv`: a line in
  hand is behind the consumer, has not been POSTed from the stream, and is in
  no other pod's hand. A mode switch drops what is in hand, so the two never
  meet; that `Scan` leaves the cursor file alone is what keeps `CursorSound`
  across streaming sessions.
* **SourceConfigProofs**, for every set of specs, with whatever globs, lists and
  override names (`SpecsAssumption` gives their types and that a map is finite,
  `MatchesAssumption` that event types are not empty and have no white space
  around them). The invariant relates three copies of the settings: the stored spec is
  a validated one, the environment is rendered from a stored spec, and the
  pod's configuration is what `LoadConfig` makes of that environment.
  `AdmittedSpecsRun` assumes that no user writes `auto` or leaves the mode out
  (`~UsesAuto`; with it there is the finding of SourceConfigAuto).
  `FilterReachesServer` goes by induction over the two loops: the parts of the
  joined list are those of its globs (`JoinRange`), and the filters are the
  parts that are not blank, trimmed (`ParseRange`). `OverridesReachSink` goes
  by induction over the loop of `Send`: after each call of `SetExtension` the
  extensions that come from an override are those of the accepted names so far,
  and none is an attribute (`Marked`); every iteration order of a finite map
  visits all of it (`OrderVisitsAll`).
* **Recursion.** The library's induction theorems take an operator as a
  parameter, which the provers at hand cannot instantiate. `NatInduct` states
  induction for a set instead of a predicate, and is proved from the library's
  theorem that a well-founded relation has minimal elements. `NatRecursion`
  shows from it that a recursive definition over the naturals defines a
  function: of approximations up to n each exists
  (`UptoExists`, which the loops of SourceConfig use by itself) and any two agree.

The assumptions of the three conditional results (`"read" \notin Faults`,
`SaneIntervals`, `~UsesAuto`) are met by the constants of the
passing runs of the same properties.

Every invariant and action property of a passing run is proved. Only
model-checked is what needs fairness: `Progress`, `StreamProgress`, `Converges`,
`SettlesAcrossLeaders`, `KeepsPolling`, `FlipsReachSession` and `HandsOver`.

## 5. Not modelled, and the plan

Not modelled: generated clients, informer factory and listers (what matters,
a cache that lags behind, is in Reconciler and Replicas; the factory's `Start`
and `Shutdown` have no caller here beyond Knative's injection), chart and
manifests; certificates and the ConfigMap webhook; the finalizer, observer and
config-store paths of the generated reconciler, which this `Reconciler` never
takes; aliasing between a pass and the informer's objects, which `DeepCopy`
prevents and TLA+ values cannot express; several buckets (each has its own
keys, and the Replicas module is about one key); the lister error other than
NotFound, which a cache does not return; payloads, `Ce-Time`, `Ce-Subject` and
the wording of errors.

External, modelled from how the code uses it: the YipYap server (log, hint,
durable consumer), the sink, API server, garbage collector, kubelet and the
Lease. Of leader election it is assumed that one replica at a time holds the
bucket and that a term's `Promote` runs before its `Demote`.

Next, in this order:

1. The safety cores of the remaining liveness properties: what holds when a
   rollout has nothing left to do (`HandsOver`), and what a session's length is
   at most (`FlipsReachSession`).
2. Replicas with the conditions of Reconciler, should status fields with
   several writers be added to the source.
