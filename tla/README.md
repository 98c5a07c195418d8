# A verification of kubecloudscaler

kubecloudscaler is a Kubernetes operator. Users write `K8s` and `Gcp` objects
that list *periods* ("down" at night, "up" at peak time) and select resources;
at each period the operator rewrites the replica counts (or suspends, pauses,
stops) of what is selected, and gives back what was there before when no period
is active or when the object is deleted. A `Flow` object generates `K8s` and
`Gcp` objects whose periods are shifted against one another.

This directory holds TLA+ models of the operator, the TLC configurations that
check them, and proofs checked by TLAPS. Paths below are relative to the
repository.

## 1. Inventory

### K8s scaler reconciler (`internal/controller/k8s`)

State: the `K8s` object on the API server (spec, finalizer, deletion timestamp,
`status.currentPeriod`), the informer's copy of it, the work queue, and the
`ReconciliationContext` of the pass that runs. Operations: one chain of handlers
per pass, `fetch -> finalizer -> auth -> period -> scaling -> status`. Each one
may end the pass early, with a delay, with an error or with nothing.
Hard: every read of the object is from a cache; every write may conflict, be
refused or be lost; only some changes of the object reach the queue; a pass may
end without any requeue; a restart can fall between any two calls.
Correct when: the owner's replica count survives whatever happens; nothing is
held by a scaler that has no finalizer; a deletion that saw no failure released
everything; an active period is eventually applied; a deletion completes.

### Active period selection (`internal/utils`, `pkg/period`)

No state. `SetActivePeriod` loads the periods in order, takes the first active
one or `noaction`, and answers `ErrRunOncePeriod` when a run-once period is
already in the status. `pkg/period` evaluates days, times, timezones and
`reverse`. Hard: the ends of the day and of a period, and what each conversion
drops. Correct when it agrees with a reference definition of "active".

### Scaling strategies (`pkg/k8s/resources/base`, `pkg/k8s/utils/annotation_manager.go`)

State: annotations on each workload (the original value and the period). One
strategy per shape: integer replicas (Deployment, StatefulSet), min/max (HPA,
runner sets), suspend (CronJob), KEDA ScaledObject, CNPG hibernation. The
processor lists, reads, changes and updates each workload, and records failures.
Hard: back to back periods, users who edit a held workload, several scalers on
one workload, optimistic concurrency. Correct when restoring gives back exactly
what was there before the first hold.

### Namespace selection (`pkg/k8s/utils/namespace_manager.go`)

State: the configuration of a pass, which all its types share, and a cached list
of namespaces with a five-minute lifetime. The manager that owns that cache is made anew
for each type of each pass (`deployments/adapter.go` and its siblings), so the cache is never
read twice. Hard: exclusions that delete in place from a shared slice. Correct when a
pass works on what its spec targets and on nothing else.

### GCP scaler reconciler (`internal/controller/gcp`, `pkg/gcp`)

The same chain with its own handlers: the status is written differently, the
skip compares period *names*, the run-once delay is not clamped. State besides the
object: VM instances with their operations, which nobody waits for, and a cache of
clients by secret, which closes the old client on rotation. Correct when instances end up as the
period asks, a pass has an open client of the present secret, connections do not pile up,
and deletion completes.

### Flow reconciler (`internal/controller/flow`)

State: the Flow's condition and the child objects it owns. It validates, maps each
resource to its periods, shifts their times by delays, and creates or updates the children
one by one, in the iteration order of a map. Hard: partial failure, two informers,
owners that are deleted and recreated, delays across midnight, validation that exists
twice. Correct when children have an owner that is there, windows are the ones asked
for, and the flow ends with a condition that tells the truth.

### Webhooks, conversions, clients, metrics, manager

Admission predicates (`internal/webhook`, `api/common/validation.go`); the old API versions
(`api/v1alpha1`, `api/v1alpha2`), which keep in annotations what the other version has not; client
construction; counters nobody reads back; and `cmd/main.go`, which runs one manager with one
worker per controller.

### How the components interact

A Flow writes `K8s` and `Gcp` objects through the API server; their reconcilers
see them through informers and never talk to the Flow. The reconcilers of two
objects interact only through the workloads they both select (the annotations)
and through the cache of clients. Users of every API version, other controllers, the garbage
collector and the clock act at any time.

`PROJECT.json` lists every component with its status, and every hazard at its
line.

## 2. Modules

| module | models | state and actions |
|---|---|---|
| `IntReplicas` | `IntReplicasStrategy`, `AddIntAnnotations`, `RestoreIntAnnotations` | operators on one workload `[replicas, orig, period]` |
| `K8sScaler` | the K8s reconciler, its chain, controller-runtime's queue and informer, the API server, users, the clock | see below |
| `Strategies` | the strategies of runner sets, ScaledObjects, CronJobs and CNPG clusters, the annotation manager, `processResource` on one resource | see below |
| `Borrowing` | abstract: what scaling promises the owner of a resource | `wish`, `shown`, `held`; take, give back, owner sets |
| `Controller` | what the GCP and Flow controllers share: API server, informer, event filter, queue, timers, conflicts, restart | operators the next two extend |
| `Conversion` | conversion webhooks of v1alpha1 and v1alpha2 | operators on `[spec, notes]` |
| `GcpScaler` | the GCP reconciler, its client cache, VM instances, users of every API version | see below |
| `Period` | `pkg/period`, `SetActivePeriod` | operators on a period and an instant |
| `Admission` | the validating webhooks and `api/common/validation.go` | predicates |
| `FlowPlan` | a flow's validation in the reconciler, its mapping, the windows of its children | operators on a flow's spec |
| `Flow` | the Flow reconciler, its children, both informers, the garbage collector | see below |
| `Selection` | namespaces, labels and names of one pass over its types | see below |
| `MCK8sScaler`, `MCStrategies`, `MCGcpScaler`, `MCFlow`, `MCSelection` | small instances | specs, periods, resources |
| `K8sScalerProofs` | proofs: types, the owner's replica count, the refinement of `Borrowing` and what it gives back | |
| `K8sObjectProofs` | proofs: the finalizer, the worker that comes back, the status that tells what is held | |
| `GcpScalerProofs` | proofs: all safety properties of `GcpScaler` | |
| `FlowProofs` | proofs: types, the incarnation a child is created for, the worker that comes back, what a flow is refused for, children scaled as planned | |
| `StrategiesProofs` | proofs: types, the owner's settings, the report, damaged annotations, the refinement | |
| `BorrowingProofs`, `SelectionProofs`, `ConversionProofs` | proofs: what is given back, what a pass selects, what a round trip keeps | |

`GcpScaler` and `Flow` extend `Controller`; `Flow` extends `FlowPlan`, which extends `Admission`
and `Period`; `GcpScaler` extends `Conversion`. `K8sScaler` and `Strategies` instantiate `Borrowing`.
`K8sScaler` has the machinery of `Controller` in its own text, which its proofs unfold.

### `K8sScaler`

*The object.* `api[s]` is the API server's copy (`exists`, `deleting`,
`finalizer`, `spec`, `status`); `cache[s]` is the informer's, which every
`Client.Get` reads, and `fresh[s]` says that both have the same
resourceVersion. A patch with the optimistic lock is accepted exactly when the
cache it was computed from is fresh; otherwise `RetryOnConflict`, which reads the
same cache again, may give up (`Conflict`). `event[s]` is set by the changes that
`IgnoreDeletionPredicate` lets through (creation, a new generation, the start of
a deletion) and becomes a queue entry when the informer syncs.

*The worker.* `MaxConcurrentReconciles` is not set, so one worker serves all
objects of the kind: one `pc` and one `pass`. The actions are the handlers:

| action | code |
|---|---|
| `Fetch` | `fetch_handler.go` |
| `FinalizerHandler` (`AddFinalizer`) | `finalizer_handler.go` |
| `AuthHandler` | `auth_handler.go` |
| `PeriodHandler` (`ActivePeriod`, `RunOnceApplied`, `Critical`, `SkipNoaction`) | `period_handler.go`, `internal/utils/utils.go` |
| `ListResources`, `GetWorkload`, `UpdateWorkload`, `AllProcessed` | `scaling_handler.go`, `processor.go` |
| `RemoveFinalizer`, `UpdateStatus` | `status_handler.go` |
| `Finish` | the end of `Reconcile`: which results requeue |
| `Sync`, `TimerFires` | informer and work queue (external) |
| `Restart` | the process is killed and starts again |
| `UserCreates`, `UserDeletes`, `UserEditsSpec`, `UserScales`, `SecretToggles`, `ClockAdvances` | the environment |

Each call that can be interleaved is a step of its own: the read of a workload
and its update are two, and so are the scaling and the status patch.

*Periods.* A spec carries `periods`, a function from the instants of the model to
what loading the period list gives then: a period, `noaction`, or `Invalid` when
a period that has to be loaded is wrong. `Period` has the evaluation itself.

*Faults.* With `Fault`, an API call fails, an update of a workload or a patch of
the object is lost or applied with its answer lost, listing fails for some of the types, or the process restarts.

*Simplifications.* Workloads are neither created nor deleted. The period
annotations are reduced to the name of the period. The informer jumps to the
newest version when it syncs, without the versions in between; a restart has a
synced cache. The delete and the creation of an object under the same name are
seen as a delete and a creation, not coalesced by a relist. There are no
finalizers but the scaler's. One manager runs. Corrupted annotations are in `Strategies`; namespaces,
label selectors and `names` in `Selection`; the client cache, which is that of GCP without
`Close`, in `GcpScaler`.

### `Strategies`

One resource of any kind in `Kinds`: its settings (`spec`: two optional counts and a
switch, which is the suspend flag, the hibernation annotation or KEDA's pair of pause
annotations), and what its original-value annotations say (`kept`, `orig`). `kept` is
`"corrupt"` when somebody damaged them. `owner` is what its owner last asked for
outside a hold.

| action | code |
|---|---|
| `Get` | `processResource`, the Get, under any period: passes follow each other in any order |
| `Update` (`Refused`, `AlreadyRestored`, `ApplyScaling`, `Accepted`) | `processResource`, the strategy and the Update |
| `OwnerEdits`, `OwnerCorrupts` | the environment, also between the two |

`MinMaxReplicas`, `KedaPause`, `BoolSuspend` and `CNPGHibernate` are the `ApplyScaling` of the
four strategies. When passes happen, which resources they select and what follows from
a failure is `K8sScaler`'s subject. The minimum and the maximum have an annotation each but
are written and removed together, so one `kept` stands for both. The HPA adapter is not here:
`NewResource` has no case for it. Runner counts are not clamped to 32 bits.

### `Borrowing`

The promise both `K8sScaler` and `Strategies` implement, without annotations, queue or
failures: whoever takes a resource gives it back as its owner last asked (`Release`). The
refinement maps `shown` to the resource's settings, `held` to the presence of its annotations
and `wish` to the owner's last choice. Wishes that the annotations cannot express
(`Recordable` leaves them out) are the ones that may come back changed.

### `GcpScaler`

`api`, `cache`, `fresh`, `event`, `queued`, `timers` are those of `Controller` and mean what they mean in
`K8sScaler`. The handlers are the actions again:

| action | code |
|---|---|
| `Fetch`, `FinalizerHandler` (`AddFinalizer`) | `fetch_handler.go`, `finalizer_handler.go` |
| `AuthHandler` (`GetOrBuild`, `Cached`, `Replace`) | `auth_handler.go`, `auth_cache.go` |
| `PeriodHandler` (`ActivePeriod`, `Critical`, `RunOnceApplied`, `RequeueAfterEnd`, `SkipNoaction`) | `period_handler.go` |
| `ListInstances`, `ApplyInstanceState`, `AllProcessed` | `scaling_handler.go`, `vm-instances.go` |
| `RemoveFinalizer`, `UpdateStatus` | `status_handler.go` |
| `VmSettles`, `OwnerCalls` | Compute Engine (external): an operation ends or fails, somebody else calls |
| `UserEditsSpec`, `UserEditsV1alpha1` | clients of the hub (or v1alpha2) and of v1alpha1, through `Conversion` |
| `SecretChanges` | the secret is rotated, deleted, recreated |

`open` is the set of clients with open connections, `clients` the version behind each entry of the
cache. `ahead` of a spec says whether the end of the run-once period is still to come:
`RequeueAfter` is that difference, and a delay that is not positive is no requeue. Zones,
pages of the listing and IAM are left out, and so is the wait for an operation, which nobody asks for
(section 4).

### `Period`, `Admission`, `FlowPlan`, `Flow`

A period is evaluated on *instants*: the first, the last second and the rest of each minute of a
week, with `DayLength` minutes to a day. That tells apart everything `isPeriodActive` compares
(`hh:mm:00`, the 59 seconds of the inclusive end). `SetActivePeriod` is the loop over a
list. `ValidFlow`, `ValidK8s` and `ValidGcp` are what the webhooks admit; `Reasons` is the set of reasons
`ProcessFlow` may give for refusing, since it iterates over maps; `ChildSpec` is what it writes.

| action of `Flow` | code |
|---|---|
| `Fetch`, `FinalizerHandler` | `fetch_handler.go`, `finalizer_handler.go` |
| `ProcessFlow` | `flow_processor.go`, `flow_validator.go`, `resource_mapper.go`, `time_calculator.go` |
| `ProcessResource` (`ChildFails`) | `resource_creator.go`, one `CreateOrUpdate` per step |
| `UpdateStatus` | `processing_handler.go`, `status_handler.go`, `status_updater.go`, the error classes of `flow_controller.go` |
| `SyncChild`, `Collect` | the watch on owned objects, the garbage collector (external) |
| `UserPutsChild`, `UserDeletesChild` and the users of flows | the environment; only what the webhook admits is stored |

A child's owner is the incarnation (`uid`) of its flow. A flow that the webhook admits may still be
refused by the reconciler, and a child of a good flow by the child's webhook: both occur in the
run. What depends on the spec alone is computed once per spec (`Refusals`, `Plan`,
`Accepted`, `AsAsked`), which changes nothing but TLC's time.

### `Selection`

One pass over the types of a spec. `slice` is the array behind `config.Namespaces`, which the in-place
exclusion (`slices.DeleteFunc`) shortens and zeroes while the configuration keeps its length. Listing
and selecting are sets, since order only decides the order of the work; `NextType` is one turn
of the scaling handler's loop, `NextPass` the next `Reconcile`.

## 3. Properties and runs

The configurations of `K8sScaler`, `GcpScaler` and `Flow` set `CHECK_DEADLOCK FALSE`: a cluster whose last scaler is
gone, or whose bounded users are done, has nothing left to do.

| run | asks | bounds | expected |
|---|---|---|---|
| `k8s_safety` | `TypeOK`, `OriginalKept`, `CleanFinalize`, `HonestStatus`, `HoldsUnderFinalizer`, `NeverForgotten`, `LendsWorkloads` | 1 scaler, a Deployment and a StatefulSet, 4 specs, 4 edits, 1 fault | holds |
| `k8s_overlap` | `OriginalKept`, `HonestStatus`, `NeverForgotten`, `LendsWorkloads` | 2 scalers on 1 Deployment, 1 spec, 2 counts, 4 edits, 1 fault | holds |
| `k8s_live` | `Converges`, `DeletionCompletes` | 1 scaler, 1 Deployment, 3 specs, 3 edits, 1 fault, `FairSpec` | holds |
| `k8s_skip_safe` | `SkipOnlyWhenRestored` | 1 scaler, 1 Deployment, 2 edits, 1 fault | violated |
| `k8s_delete_restores` | `RestoredWhenGone` | 1 scaler, 1 Deployment | violated |
| `k8s_run_once` | `RunOnceAppliedOnce` | a run-once spec | violated |
| `k8s_delete_run_once` | `FinalizerAlwaysRemoved` | a run-once spec without `restoreOnDelete`, `FairSpec` | violated |
| `strategies` | `TypeOK`, `OriginalKept`, `ReportHonest`, `CorruptedKept`, `LendsResource` | every kind, 12 settings, 3 periods, 3 edits, 2 faults | holds |
| `strategies_restore` | `RestoresOriginal` | the same, 1 edit, no fault | violated |
| `gcp` | `TypeOK`, `ClientUsable`, `ClientsBounded`, `HoldsUnderFinalizer`, `NeverForgotten`, `CleanFinalize`, `VersionsKept`, `Converges`, `DeletionCompletes` | 1 scaler, 1 instance, 3 specs, 3 edits, 1 fault, `FairSpec` | holds |
| `flow` | `TypeOK`, `NeverForgotten`, `RefusedForCause`, `WindowsAsAsked`, `OwnedAtBirth`, `FlowConverges` | 1 flow, 2 resources of both kinds, 3 periods, 5 specs, days of 6 minutes, 3 edits, 1 fault, `FairSpec` | holds |
| `selection_targets` | `OnlyTargeted` | 2 types, 3 namespaces | violated |

What holds:

* `OriginalKept`: the replica count a workload's owner last chose is in its spec
  or in the annotation. "Last chose" is `desired`, which a user's scaling sets
  while no scaler holds the workload. It relies on the annotation being written
  only when absent and on the resourceVersion of the update.
* `CleanFinalize`: a finalizing pass of a scaler with `restoreOnDelete` that
  recorded no failure has released every selected workload, also when another
  scaler works on the same ones (which the theorem covers, and `HonestStatus` in `k8s_overlap`).
* `HonestStatus`: what a pass without a failure is about to record in the status is
  so: each workload it selects is held for the period of that pass, or by nobody at
  noaction, also when another scaler held it for another period. A status that is false
  when the next pass reads it thus needs a recorded failure, a changed selection, or a pass
  cut short between its updates and its status.
* `HoldsUnderFinalizer`: past the finalizer handler, the object on the server
  carries the finalizer, although the handlers only see the cache. Without it a
  deletion could slip in before the workloads are released.
* `NeverForgotten`: an existing object always has an event, a queue entry, a
  timer or a running pass. Many returns of the chain requeue nothing; each of
  them must imply that the object is gone, replaced or changed. Scalers with an
  auth secret are excepted: a missing secret does end the passes without a
  requeue.
* `Converges`: an active period that stays active is applied to every selected
  workload and recorded. Excepted are run-once periods, lists of types that are
  refused, and scalers with an auth secret.
* `DeletionCompletes`: with `restoreOnDelete` and no auth secret, a deletion
  completes, also when the spec became invalid or its run-once period is active.
* `OriginalKept` of `Strategies`: the same for the other kinds, up to defaults (an unset minimum is
  0). It is claimed for settings the annotations can express (`Expressible`: a maximum
  that is set, no pause of the owner's own) and undamaged annotations.
* `ReportHonest`: a resource a pass does not list as failed is as the period of that pass
  asks, whatever came before (a pause is lifted before counts apply, a
  hibernated cluster resumes), until its owner changes it.
* `CorruptedKept`: no step of a scaler drops or replaces an original value it cannot parse.
* `LendsWorkloads`, `LendsResource`: the scaler implements `Borrowing`; a step of a pass, a
  conflict, a lost answer or a restart is one of its steps or none. A count that is taken over
  from another hold, or given back from what was read before the owner wrote, would not be.
* `ClientUsable` (`gcp`): a pass works with an open client, built from the secret it read. The caveat in
  `auth_cache.go` about a client that is closed while in use cannot happen with one worker.
* `ClientsBounded`: whatever is rotated, deleted and recreated, open connections are those of the cache,
  and one more for each `Close` that failed.
* `HoldsUnderFinalizer`, `NeverForgotten`, `CleanFinalize`, `Converges`, `DeletionCompletes` of `GcpScaler`: as
  above, on other code. `CleanFinalize` excepts instances that were moving when they were
  listed or that somebody else moved during the pass; nothing comes back to
  them. `Converges` excepts run-once periods, scalers with a secret, and a user's period named `noaction`.
  `NeverForgotten` excepts run-once periods that are active after the end they carry.
* `VersionsKept`: clients of v1alpha1 and of the hub edit the same Gcp in turns, and neither changes
  what only the other sees.
* `NeverForgotten` (`flow`): the deletion of a child brings nobody back, so every pass must.
* `OwnedAtBirth`: a child is only created for the incarnation of the flow that is there,
  with its finalizer, however old the copy the pass works from.
* `RefusedForCause`: webhook and reconciler validate a flow twice, in different code, the reconciler in
  stages that end at the first error. What a pass refuses an admitted flow for is wrong with it and is one of the
  defects the webhook does not look for (`LateReasons`, `Defective`); a flow whose children are
  written has none of them. `Defective` is said of the places of the plan, not of the maps the code builds. Two specs of
  the run have two such defects each.
* `WindowsAsAsked`: at every instant of a week a child that its webhook accepts is in the period the flow asks for,
  `startTimeDelay` after its begin until `endTimeDelay` after its end, the first one if several: for
  recurring, reverse and fixed periods, an end at midnight and overlapping periods, provided the delays
  leave the window within its day.
* `FlowConverges`: a flow ends with a condition that says what is wrong with it, if anything is, and a
  good one with its children as it asks, whatever users, the garbage collector of an earlier
  incarnation and lost answers made of them. A deleted flow goes.

What the code does against its documentation (each is a `finding`):

* `SkipOnlyWhenRestored`: noaction is recorded although the pass failed to restore (in the trace, it
  failed to list the workloads); from then on every pass skips, and the workload stays scaled. With a
  third edit there is another way: the clock goes back to a time at which the last *recorded* period is
  noaction, and the pass in between held the workload but never wrote its status.
* `RestoredWhenGone`: a deletion removes the finalizer whatever failed to be
  restored.
* `RunOnceAppliedOnce`: a restart between the scaling and the status patch makes
  a run-once period overwrite what the user scaled meanwhile.
* `FinalizerAlwaysRemoved`: without `restoreOnDelete`, a scaler deleted while its
  run-once period is active keeps its finalizer as long as that period lasts.
* `RestoresOriginal`: an unset maximum (no limit for a runner set, KEDA's default for a
  ScaledObject) is recorded as 0 and comes back as 0.
* `OnlyTargeted`: the second type of a spec that names a system namespace (or the scaler's own) works
  in every namespace of the cluster: the in-place exclusion of the first type left an empty
  string, which lists all namespaces, in the configuration they share.

*Bounds.* `MaxEdits` counts users' steps and the clock's, `MaxFaults` failed calls
and restarts. Four edits allow create, period change, user scaling and deletion,
or a deletion and a recreation, interleaved anywhere in a pass; one fault suffices
for each failure path and two workloads for a failure of one among several. For
`Strategies`, three edits fit before, inside and after a pass, around the two values
(2, 4) that no period has, and passes are not bounded. In `gcp`, three edits are create, edit or rotate,
and delete, around unbounded passes; one instance suffices because the handlers treat instances
independently, and two multiply the states by six. `k8s_skip_safe` has the two edits of its trace, the creation
and the end of the evening, so that a failed restore is the only way to it. In `flow`, three edits are create, a change
of flow or child, and delete or recreate; days of six minutes have room for every order of start,
end, midnight and their delays. `selection_targets` needs two types. Numbers of scalers, flows and
instances above these add interleavings of objects that share nothing but the worker. The
theorems below do not depend on these bounds.

*Fairness.* `FairSpec` asks weak fairness of the worker's next handler, of the
informer and of each timer, and strong fairness of `Fetch(s)`: the queue of
controller-runtime is first in first out, so a queued object is fetched however
often others are. `GcpScaler` adds weak fairness of each operation (Compute Engine ends it, one way or the
other), `Flow` of the second informer and of the garbage collector. Users, the clock and faults are not fair: bounded in number, they
stop at some point, and liveness is about what follows.

## 4. Where code, docs and comments part

Met while modelling and modelled as the code has it, or outside the models. None has a run of
its own.

* GCP, run-once: the requeue is the time to the end of the period, unclamped (`period_handler.go:102`); for a
  reverse period that is active after its end it is negative, and the scaler is forgotten until its
  next event. The K8s handler clamps.
* GCP, `spec.config.waitForOperation` ("wait for GCP operations to complete before proceeding",
  `docs/content/docs/usage/resources/gcp.md:152`) is not copied into the configuration
  (`period_handler.go:65-74`), so `vm-instances.go:178` never waits. `spec.resources.names` is copied and
  never read. `dryRun` is copied by neither reconciler.
* GCP, a user's period named `noaction` is skipped as if it were none; so is the pass after
  one in which an instance was moving or a call failed, once the status says `noaction`.
* A missing auth secret is a critical error that wraps NotFound, and `IgnoreNotFound` turns it into
  success without a requeue, also while finalizing.
* Periods: a fixed period loses `reverse` (`period.md:72`); on a day it does not name a reverse
  period is not active at all (`period.md:178`); a period that ends on the next day never activates.
* Flows: Example 1 of `flow.md` (19:00 to 07:00) is admitted and reported successful, and its children's
  periods are never active, as the comment at `time_calculator.go:66` admits. In Example 2 an end of 23:59
  delayed by five minutes becomes 00:04 of the same day.
* Flows that the webhook admits and the reconciler refuses: a resource listed twice for one period
  (`DuplicateResourceInPeriod`, `resource_mapper.go:168`), unknown resources (`:148`) and periods (`:178`,
  `flow_validator.go`), equal start and end, a fixed end before its start, an `endTimeDelay` that does not
  parse, delays that leave nothing of a window. The webhook looks at no end delay and limits the *sum* of the
  start delays of a flow. `RefusedForCause` shows that there are no others, `FlowConverges` that these end as
  a condition.
* `minReplicas` and `maxReplicas` are compared by the webhook only when both are given, and with
  defaults when the period is loaded. A grace period `s` fits the CRD's pattern and fails to load.
* `observedGeneration` is the generation found when the status is written (`status_updater.go:59`).
* Children of resources taken out of a flow stay. `flow-<flow>-<resource>` may be the same name for
  two pairs; `Flow` takes the names to be different.
* "Critical (no requeue)" in `shared/errors.go:30` and `flow_controller.go:125`: the error is returned,
  so it is retried with backoff.
* `k8s.md:170` lists three system namespaces, the code has one. The HPA adapter is reached by no resource type.
* A v1alpha1 client that edits a K8s erases `spec.resources.names`.

## 5. Proofs

For every set of scalers, workloads, periods, times and specs, from the named
assumptions of `K8sScaler` (sets that are not empty, periods with
`min <= max`, bounds that are natural numbers):

* `TypeCorrect`: `Spec => []TypeOK`. One step per action; lemmas say what a
  write, the end of a pass, a fault and an edit do to the types.
* `OriginalSafe`: `Spec => []OriginalKept`. `OriginalKept` alone is not inductive,
  since an update writes what was computed from an earlier read; `ReadCurrent` adds
  that the read of a pass nobody overtook is what the server holds.
  `ScalingKeepsOriginal` says that no strategy changes `Original`.
* `FinalizerSafe`: `Spec => []HoldsUnderFinalizer`. The invariant `FinalizerInv` adds
  `Copies` (objects on their way out have a finalizer, and a fresh cache is the
  server's object), `Lineage` (a finalizer the informer shows, on an object not
  being deleted, is still on the server) and `PassLineage` (the same of the
  copy a pass works from). It holds because only a finalizing pass removes the finalizer,
  and only with a fresh cache.
* `NeverForgottenSafe`: `Spec => []NeverForgotten`, on top of `FinalizerInv`.
  `Delivery` says that a difference between cache and server that matters is an
  undelivered event, `PassDelivery` that during a pass such an event is still there or
  is already a queue entry. A pass that ends without a requeue then does
  so because the object is gone or such an entry exists (`ReplacedIsQueued`).
* `HonestStatusSafe`: `Spec => []HonestStatus`. `PassInv` carries it through the pass: from the
  listing on, each workload the pass selects is still to be processed or already held for the period
  of the pass (`HeldFor`), unless a failure is recorded. `ScalingHolds` says that scaling brings that
  about from whatever the workload was. One scaler at a time works, so nobody else takes hold
  or lets go in between, and a user who scales leaves the annotations alone.
* `CleanFinalizeSafe`: `Spec => []CleanFinalize`, since by `PassInv` a restoring pass is at `noaction`.

For every set of periods and settings, from the assumptions of `Strategies`:

* `TypeCorrect`, `OriginalSafe`, `ReportSafe`, `CorruptedSafe` for the four properties of the run.
  The lemma `Holding` says what a period makes of a resource (it is in effect, and the
  settings are recorded once), `Restoring` that restoring inverts holding. The invariant
  adds `ReadCurrent`: what a pass read is what is there when nobody wrote since, and
  only passes take hold or let go.

For every set of scalers, instances, times and specs, from the assumptions of `Controller` and
`GcpScaler` (sets that are not empty, specs of their type, every `OldSpecs` one of `Specs`):

* `TypeCorrect`. The secret's versions are bounded by the edits, which `TypeInv` adds; `EditsType` says
  that what any API version stores is a hub object again.
* `VersionsKeptSafe`: inductive with the types. `HubEdit` and `OldEdit` say what a write through the
  conversions keeps, for any spec and notes; no step of the controller touches either.
* `ClientUsableSafe`, with `ClientInv`: every client the cache owns is open. Only `AuthHandler` replaces
  one, when no pass has one. `ClientsBoundedSafe` counts: a rotation opens one client for the one it
  closes (`SwapBound`), and one more stays open for each failed `Close`.
* `HoldsUnderFinalizerSafe` and `NeverForgottenSafe`: `FinalizerInv` and `DeliveryInv` as for K8s. The
  delivery also covers the spec, since whether a run-once pass is repeated depends on it: a stale
  one is an undelivered event.
* `CleanFinalizeSafe`: `ScaleInv` says that each instance the pass selects is still to be called, or heads for
  the desired state, or was moved by somebody else, or that a failure is recorded.

For every set of flows, specs and children, from the assumptions of `Controller` and `Flow` (every spec is
of its type, one is admitted):

* `TypeCorrect`. `Planned` says that a pass only writes children of a sound spec, `Numbered` that an
  incarnation is an edit.
* `OwnedAtBirthSafe`: `Spec => OwnedAtBirth`, an action property. `FinalizerInv` has `Copies` and
  `Lineage` as above, with the incarnation; past the finalizer handler the server's flow has a
  finalizer and is the one the pass works for (`Keeps`), though its copy may have been read twice.
  `ChildInv` says that a child that is gone has no owner.
* `NeverForgottenSafe`: `Delivery` and `PassDelivery` as above. Every pass but one that removes the finalizer, or
  finds its flow gone, comes back.
* `RefusedForCauseSafe`: `Spec => []RefusedForCause`. `LateCause` shows that each reason to refuse an
  admitted spec is a defect the webhook does not look for, `NoCause` that an admitted spec which is not
  refused has none; `Relisting` relates the list of a resource's periods, which `MappingReason` looks
  at, to the places of the plan. `AdmittedInv` says that whatever server, cache and pass hold was admitted when
  it was stored, and that a pass has its outcome from the spec of its copy.
* `ChildAsAsked` and from it `WindowsAsAskedSafe`: `Spec => []WindowsAsAsked`. `Follows` says what a
  resource is associated with: each place of `spec.flows` that lists it, once and in order
  (`Flattened`). `NothingWrong` says that a spec without a reason to be refused is sound at each of these
  places, although `validateResourceDelays` stops at the first one that is not (`FirstPlace`).
  `WindowsRemain` says that the delays leave something of each window, and `ShiftedAsAsked` that the
  shifted period loads and is active exactly when the delays ask for it.
* `ScaledAsPlanned` says the same of the plan alone, without the lists the code builds: the first place that
  lists the resource and asks for it now decides.
* `OvernightNeverActive`: a recurring period whose end comes before its start, as in Example 1 of
  `flow.md`, is active at no instant (section 4).

Induction over numbers rests on `Least`: `<` on the naturals is well-founded as a set of pairs, so the
counterexamples to a claim have a least one. `Flattened` and `FirstPlace` use it; the operators of
the model have no recursion of their own.

For every set of resources and settings:

* `AlwaysGivenBack` (`BorrowingProofs`): in `Borrowing`, what nobody holds is as its owner asked. Inductive
  as it stands, with the types.
* `Lends` in `K8sScalerProofs` and `StrategiesProofs`: `Spec => Borrowing!Spec` under the
  mapping. One step per action: reads, lost calls and the scheduling stutter; an update of a
  workload holds, changes or releases it, and releases what the owner wished because of `OriginalKept`, which
  is where the invariants above are needed.
* `GivenBackSafe` and `RestoresExpressible`: `AlwaysGivenBack` carried back through the two refinements. What no
  scaler holds has the replicas its owner asked for; of the resources whose settings an annotation can express,
  so does every one that is not held. The second is the counterpart of the violated `RestoresOriginal`:
  what it excludes is all that goes wrong.
* `SelectionTargets`, `SelectionCovers` (`SelectionProofs`): for specs that name no excluded namespace a
  pass works on what is targeted and, but for failed listings, on all of it, for any cluster, any specs
  and any order of the types. The invariant says that such a pass never changes its `slice`. So the
  finding above needs exactly a spec that names an excluded namespace.
* `GcpRoundTrip`, `K8sRoundTrip`, `K8sViewRoundTrip` (`ConversionProofs`): what survives a client of v1alpha1 that
  reads an object and writes it back: of a Gcp everything a pass reads, of a K8s everything but
  `spec.resources.names`; and a view it wrote is the view it reads, of both kinds (`GcpViewRoundTrip`).

Only model-checked: `Converges`, `DeletionCompletes` and `FlowConverges`. They rest on fairness, which is
out of the prover's reach. Every invariant and every other action property of a passing run is proved.

## 6. Left out, and left to do

Not modelled: metrics (nothing reads them back), client construction and `cmd/main.go` beyond its
restart (choices among inputs and pure I/O, with one error each, which the auth handlers have),
generated code, CRDs and the Helm chart.

Abstracted: time zones, daylight saving and the grace period (`loads` says whether they
parse); values of labels; zones and pages of the GCP listing; messages, events and logs; the 32-bit
narrowing of counts someone wrote into an annotation by hand; the hash in long names of children.

To do: the
selection composed with `K8sScaler`, which works on a given set of workloads; `Controller` as the
base of `K8sScaler` too.
