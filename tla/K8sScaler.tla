---- MODULE K8sScaler ----
(***************************************************************************)
(* The K8s scaler controller: the work queue and informer cache of         *)
(* controller-runtime, the chain of handlers one Reconcile runs            *)
(* (fetch, finalizer, auth, period, scaling, status), and the Deployments  *)
(* and StatefulSets it rewrites through the API server.                    *)
(*                                                                         *)
(* One worker serves every K8s object (MaxConcurrentReconciles is left at  *)
(* its default of 1), so one program counter and one pass record suffice.  *)
(* A pass is interleaved with users, with the clock, with the informer and *)
(* with the API server refusing or losing calls.                           *)
(***************************************************************************)
EXTENDS IntReplicas

CONSTANTS
    Scalers,          \* names of K8s objects
    Workloads,        \* the Deployments and StatefulSets of the cluster
    KindOf,           \* [Workloads -> AppsResources]
    Periods,          \* the periods of the specs users write
    Times,            \* the instants the clock distinguishes
    Specs,            \* the specs users write, see SpecAssumption
    Counts,           \* replica counts a user may ask for
    MaxEdits,         \* bound: steps of users and of the clock
    MaxFaults         \* bound: failed calls and controller restarts

\* utils.AppsResources and utils.HpaResources: types that cannot be mixed.
AppsResources == {"deployments", "statefulsets"}
HpaResources  == {"horizontalpodautoscalers", "hpa", "scaledobjects"}

NoAction == [name |-> "noaction", type |-> "noaction", min |-> 1, max |-> 1, once |-> FALSE]
\* What evaluating the spec gives when a period that has to be loaded is wrong.
Invalid  == [name |-> "invalid", type |-> "invalid", min |-> 1, max |-> 1, once |-> FALSE]
\* status.currentPeriod of an object no pass has written yet.
NoStatus == [name |-> "nil", type |-> "", min |-> 1, max |-> 1, once |-> FALSE]

PeriodNames == {p.name : p \in Periods}
Outcomes == Periods \cup {NoAction, Invalid}

ASSUME ScalersAssumption == Scalers # {} /\ Workloads # {} /\ Times # {} /\ Specs # {}
\* periods is what loading spec.periods gives at each instant: the first active
\* period, noaction, or the error of a wrong one that has to be loaded.  types is
\* spec.resources.types, with the default (deployments) filled in when empty.
ASSUME SpecAssumption ==
    /\ Specs \subseteq [periods : [Times -> Outcomes],
                        types : SUBSET (AppsResources \cup HpaResources),
                        restoreOnDelete : BOOLEAN, authSecret : BOOLEAN]
    /\ KindOf \in [Workloads -> AppsResources]
ASSUME PeriodAssumption ==
    /\ Periods \subseteq [name : STRING, type : {"down", "up"},
                          min : Nat, max : Nat, once : BOOLEAN]
    /\ \A p \in Periods : p.min <= p.max
    /\ Counts \subseteq Nat
ASSUME BoundAssumption == MaxEdits \in Nat /\ MaxFaults \in Nat

VARIABLES
    api,      \* the API server's copy of each K8s object
    cache,    \* the informer's copy, which every client Get reads
    fresh,    \* cache[s] has the resourceVersion of api[s]
    event,    \* a change of s that passes the event filter is still undelivered
    queued,   \* the work queue
    timers,   \* delayed additions to the queue: RequeueAfter and error backoff
    pc,       \* the handler the worker is in
    pass,     \* the ReconciliationContext of the running pass
    work,     \* the API server's copy of each workload
    desired,  \* the replica count its owner last asked for, outside any scaler's hold
    clock,    \* the instant it is
    secret,   \* the auth secret exists
    edits, faults

informer == <<api, cache, fresh, event>>
sched    == <<queued, timers>>
env      == <<desired, clock, secret, edits>>
vars     == <<informer, sched, pc, pass, work, env, faults>>

Statuses == Periods \cup {NoAction, NoStatus}
Objects  == [exists : BOOLEAN, deleting : BOOLEAN, finalizer : BOOLEAN,
             spec : Specs, status : Statuses]
Gone     == [exists |-> FALSE, deleting |-> FALSE, finalizer |-> FALSE,
             spec |-> CHOOSE spec \in Specs : TRUE, status |-> NoStatus]

Passes == [scaler : Scalers, copy : Objects, shouldFinalize : BOOLEAN,
           period : Periods \cup {NoAction}, todo : SUBSET Workloads, item : Workloads,
           read : Workload(PeriodNames), current : BOOLEAN, failed : BOOLEAN]
IdlePass ==
    [scaler |-> CHOOSE s \in Scalers : TRUE, copy |-> Gone, shouldFinalize |-> FALSE,
     period |-> NoAction, todo |-> {}, item |-> CHOOSE w \in Workloads : TRUE,
     read |-> [replicas |-> 0, orig |-> Absent, period |-> NoPeriodName],
     current |-> FALSE, failed |-> FALSE]

TypeOK ==
    /\ api \in [Scalers -> Objects]
    /\ cache \in [Scalers -> Objects]
    /\ fresh \in [Scalers -> BOOLEAN]
    /\ event \in [Scalers -> BOOLEAN]
    /\ queued \in SUBSET Scalers
    /\ timers \in SUBSET Scalers
    /\ pc \in {"idle", "finalizer", "auth", "period", "scaling", "process", "update", "status"}
    /\ pass \in Passes
    /\ work \in [Workloads -> Workload(PeriodNames)]
    /\ desired \in [Workloads -> Nat]
    /\ clock \in Times
    /\ secret \in BOOLEAN
    /\ edits \in 0 .. MaxEdits
    /\ faults \in 0 .. MaxFaults

\* No K8s object yet, workloads as their owners made them.
Init ==
    /\ api = [s \in Scalers |-> Gone]
    /\ cache = api
    /\ fresh = [s \in Scalers |-> TRUE]
    /\ event = [s \in Scalers |-> FALSE]
    /\ queued = {} /\ timers = {}
    /\ pc = "idle" /\ pass = IdlePass
    /\ desired \in [Workloads -> Counts]
    /\ work = [w \in Workloads |->
                 [replicas |-> desired[w], orig |-> Absent, period |-> NoPeriodName]]
    /\ clock \in Times
    /\ secret = TRUE
    /\ edits = 0 /\ faults = 0

----
(***************************************************************************)
(* The API server and controller-runtime.                                  *)
(***************************************************************************)
\* Mutant: creations are filtered out too.
Triggers_NotCreation(change) == change \in {"spec", "deletionStarted"}

\* IgnoreDeletionPredicate: the changes of a K8s object that reach the queue.
Triggers(change) == change \in {"created", "spec", "deletionStarted"}

\* Store o as the object s; whatever the informer holds is now old.
Write(s, o, change) ==
    /\ api' = [api EXCEPT ![s] = o]
    /\ fresh' = [fresh EXCEPT ![s] = FALSE]
    /\ event' = [event EXCEPT ![s] = @ \/ Triggers(change)]

\* The watch catches up with the API server and delivers what it missed.
Sync(s) ==
    /\ ~fresh[s]
    /\ cache' = [cache EXCEPT ![s] = api[s]]
    /\ fresh' = [fresh EXCEPT ![s] = TRUE]
    /\ event' = [event EXCEPT ![s] = FALSE]
    /\ queued' = IF event[s] THEN queued \cup {s} ELSE queued
    /\ UNCHANGED <<api, timers, pc, pass, work, env, faults>>

\* A RequeueAfter or a backoff elapses.
TimerFires(s) ==
    /\ s \in timers
    /\ timers' = timers \ {s}
    /\ queued' = queued \cup {s}
    /\ UNCHANGED <<informer, pc, pass, work, env, faults>>

Fault == faults < MaxFaults /\ faults' = faults + 1

\* Mutant: the result never carries a requeue.
Finish_NoRequeue(requeue) ==
    pc' = "idle" /\ pass' = IdlePass /\ UNCHANGED sched

\* Reconcile returns; requeue says whether the worker adds s back with a delay.
Finish(requeue) ==
    /\ pc' = "idle" /\ pass' = IdlePass
    /\ timers' = IF requeue THEN timers \cup {pass.scaler} ELSE timers
    /\ UNCHANGED queued

\* The Get of a patch helper answers NotFound, or the Patch does.
PatchNotFound(s) == ~cache[s].exists \/ ~api[s].exists
\* The Patch carries the resourceVersion of the cached object: it is accepted
\* only when the cache has caught up.  Otherwise RetryOnConflict tries again
\* until the informer syncs or it gives up with the conflict.
CanPatch(s) == ~PatchNotFound(s) /\ fresh[s]
Conflict(s) == ~PatchNotFound(s) /\ ~fresh[s]

\* A Get or a Patch fails: nothing happened, or o was stored and the answer lost.
FailedPatch(s, o, change) ==
    /\ Fault /\ Finish(TRUE)
    /\ \/ UNCHANGED informer
       \/ CanPatch(s) /\ Write(s, o, change) /\ UNCHANGED cache

----
(***************************************************************************)
(* The chain of handlers.                                                  *)
(***************************************************************************)
Fetch(s) ==
    /\ pc = "idle" /\ s \in queued
    /\ queued' = queued \ {s}
    /\ \/ /\ cache[s].exists
          /\ pc' = "finalizer"
          /\ pass' = [IdlePass EXCEPT !.scaler = s, !.copy = cache[s]]
          /\ UNCHANGED <<timers, faults>>
       \/ ~cache[s].exists /\ UNCHANGED <<timers, pc, pass, faults>>
       \/ Fault /\ timers' = timers \cup {s} /\ UNCHANGED <<pc, pass>>
    /\ UNCHANGED <<informer, work, env>>

Proceed(handler) == pc' = handler /\ UNCHANGED sched

\* Mutant: a patch that fails is only logged.
AddFinalizer_IgnoresErrors(s) ==
    /\ Proceed("auth")
    /\ IF CanPatch(s)
       THEN Write(s, [api[s] EXCEPT !.finalizer = TRUE], "finalizer") /\ UNCHANGED cache
       ELSE UNCHANGED informer
    /\ UNCHANGED <<pass, faults>>

\* patchAddFinalizer on an object fetched without the finalizer: the cache may
\* show it by now, and then nothing is sent.
AddFinalizer(s) ==
    \/ cache[s].finalizer /\ Proceed("auth") /\ UNCHANGED <<informer, pass, faults>>
    \/ /\ ~cache[s].finalizer
       /\ LET o == [api[s] EXCEPT !.finalizer = TRUE] IN
          \/ PatchNotFound(s) /\ Finish(FALSE) /\ UNCHANGED <<informer, faults>>
          \/ /\ CanPatch(s) /\ Write(s, o, "finalizer")
             /\ Proceed("auth") /\ UNCHANGED <<cache, pass, faults>>
          \/ Conflict(s) /\ Finish(TRUE) /\ UNCHANGED <<informer, faults>>
          \/ FailedPatch(s, o, "finalizer")

FinalizerHandler ==
    /\ pc = "finalizer"
    /\ \/ /\ ~pass.copy.deleting /\ pass.copy.finalizer
          /\ Proceed("auth") /\ UNCHANGED <<informer, pass, faults>>
       \/ ~pass.copy.deleting /\ ~pass.copy.finalizer /\ AddFinalizer(pass.scaler)
       \/ /\ pass.copy.deleting /\ pass.copy.finalizer
          /\ pass' = [pass EXCEPT !.shouldFinalize = TRUE]
          /\ Proceed("auth") /\ UNCHANGED <<informer, faults>>
       \/ /\ pass.copy.deleting /\ ~pass.copy.finalizer
          /\ Finish(FALSE) /\ UNCHANGED <<informer, faults>>
    /\ UNCHANGED <<work, env>>

\* A missing secret is a critical error that wraps NotFound, which Reconcile's
\* IgnoreNotFound turns into success without a requeue.  Any other failure
\* (the read, or building the client) is returned and retried with backoff.
AuthHandler ==
    /\ pc = "auth"
    /\ \/ /\ pass.copy.spec.authSecret => secret
          /\ pc' = "period"
          /\ UNCHANGED <<sched, pass, faults>>
       \/ /\ pass.copy.spec.authSecret /\ ~secret
          /\ Finish(FALSE) /\ UNCHANGED faults
       \/ Fault /\ Finish(TRUE)
    /\ UNCHANGED <<informer, work, env>>

\* Mutant: forceRestore is not passed.
ActivePeriod_NoForce == pass.copy.spec.periods[clock]

\* SetActivePeriod, on the spec as it was fetched and the clock as it is:
\* restoring on deletion overrides the periods of the spec.
ActivePeriod ==
    IF pass.shouldFinalize /\ pass.copy.spec.restoreOnDelete
    THEN NoAction ELSE pass.copy.spec.periods[clock]

\* Mutant: every period is taken for run-once.
RunOnceApplied_AnyPeriod(p) == pass.copy.status = p

\* ErrRunOncePeriod: the status already carries the hash of this period.
RunOnceApplied(p) == p.once /\ pass.copy.status = p

\* Mutant: skips during deletion too.
SkipNoaction_Finalizing(p) == pass.copy.status.type = "noaction" /\ p.type = "noaction"

\* shouldSkipNoaction: the previous and the present period restore.
SkipNoaction(p) ==
    ~pass.shouldFinalize /\ pass.copy.status.type = "noaction" /\ p.type = "noaction"

\* Mutant: the error of a wrong period is dropped.
Critical_NoLoadError(p) == RunOnceApplied(p) /\ pass.shouldFinalize

\* ErrLoadPeriod, and the run-once error of an object on its way out.
Critical(p) == p = Invalid \/ (RunOnceApplied(p) /\ pass.shouldFinalize)

\* A critical error persists status.comments as best effort (the patch may fail, or
\* change nothing) and is retried with backoff; a run-once period waits for its
\* end; a settled noaction for a minute.
PeriodHandler ==
    LET s == pass.scaler
        p == ActivePeriod
        skip == RunOnceApplied(p) \/ SkipNoaction(p)
    IN  /\ pc = "period"
        /\ \/ /\ Critical(p)
              /\ \/ CanPatch(s) /\ Write(s, api[s], "status") /\ UNCHANGED cache
                 \/ UNCHANGED informer
              /\ Finish(TRUE)
           \/ ~Critical(p) /\ skip /\ Finish(TRUE) /\ UNCHANGED informer
           \/ /\ ~Critical(p) /\ ~skip
              /\ pass' = [pass EXCEPT !.period = p]
              /\ Proceed("scaling") /\ UNCHANGED informer
        /\ UNCHANGED <<work, env, faults>>

----
(***************************************************************************)
(* The scaling handler: list, then read, change and update each workload.  *)
(***************************************************************************)
\* validResourceList refuses a mix of application and autoscaler types.
MixedTypes(spec) ==
    spec.types \cap AppsResources # {} /\ spec.types \cap HpaResources # {}

Selected(spec) == {w \in Workloads : KindOf[w] \in spec.types}

\* Building the resource handler or listing may fail for some of the types;
\* the failure is recorded and the other types are still processed.
ListResources ==
    LET spec == pass.copy.spec IN
    /\ pc = "scaling"
    /\ \/ /\ MixedTypes(spec)
          /\ pc' = "status" /\ pass' = [pass EXCEPT !.failed = TRUE]
          /\ UNCHANGED faults
       \/ /\ ~MixedTypes(spec)
          /\ pc' = "process" /\ pass' = [pass EXCEPT !.todo = Selected(spec)]
          /\ UNCHANGED faults
       \/ /\ ~MixedTypes(spec)
          /\ Fault
          /\ \E broken \in (SUBSET spec.types) \ {{}} :
                pass' = [pass EXCEPT !.todo = {w \in Selected(spec) : KindOf[w] \notin broken},
                                     !.failed = TRUE]
          /\ pc' = "process"
    /\ UNCHANGED <<informer, sched, work, env>>

GetWorkload(w) ==
    /\ pc = "process" /\ w \in pass.todo
    /\ \/ /\ AlreadyRestored(work[w], pass.period)
          /\ pass' = [pass EXCEPT !.todo = @ \ {w}]
          /\ UNCHANGED <<pc, faults>>
       \/ /\ ~AlreadyRestored(work[w], pass.period)
          /\ pass' = [pass EXCEPT !.item = w, !.read = work[w], !.current = TRUE]
          /\ pc' = "update"
          /\ UNCHANGED faults
       \/ /\ Fault
          /\ pass' = [pass EXCEPT !.todo = @ \ {w}, !.failed = TRUE]
          /\ UNCHANGED pc
    /\ UNCHANGED <<informer, sched, work, env>>

\* Mutant: the update is sent without a resourceVersion.
UpToDate_Unchecked == TRUE

\* Update carries the resourceVersion that was read.
UpToDate == pass.current

\* The update may be accepted, be refused, be lost, or be applied and its answer lost.
UpdateWorkload ==
    LET w == pass.item
        Applied == work' = [work EXCEPT ![w] = ApplyScaling(pass.read, pass.period)]
        Drop(failed) == pass' = [pass EXCEPT !.todo = @ \ {w}, !.failed = @ \/ failed,
                                             !.current = FALSE]
    IN  /\ pc = "update"
        /\ pc' = "process"
        /\ \/ UpToDate /\ Applied /\ Drop(FALSE) /\ UNCHANGED faults
           \/ ~UpToDate /\ Drop(TRUE) /\ UNCHANGED <<work, faults>>
           \/ Fault /\ Drop(TRUE) /\ (UNCHANGED work \/ (UpToDate /\ Applied))
        /\ UNCHANGED <<informer, sched, env>>

AllProcessed ==
    /\ pc = "process" /\ pass.todo = {}
    /\ pc' = "status"
    /\ UNCHANGED <<informer, sched, pass, work, env, faults>>

----
(***************************************************************************)
(* The status handler.                                                     *)
(***************************************************************************)
\* patchRemoveFinalizer, whatever failures the pass recorded.  The object goes
\* with its last finalizer.
RemoveFinalizer ==
    LET s == pass.scaler
        o == IF api[s].deleting THEN Gone ELSE [api[s] EXCEPT !.finalizer = FALSE]
    IN  /\ pc = "status" /\ pass.shouldFinalize
        /\ \/ /\ PatchNotFound(s) \/ ~cache[s].finalizer
              /\ Finish(FALSE) /\ UNCHANGED <<informer, faults>>
           \/ /\ cache[s].finalizer
              /\ \/ /\ CanPatch(s) /\ Write(s, o, "finalizer")
                    /\ Finish(FALSE) /\ UNCHANGED <<cache, faults>>
                 \/ Conflict(s) /\ Finish(TRUE) /\ UNCHANGED <<informer, faults>>
                 \/ FailedPatch(s, o, "finalizer")
        /\ UNCHANGED <<work, env>>

\* The period of the pass becomes the status, whatever failures it recorded.
UpdateStatus ==
    LET s == pass.scaler
        o == [api[s] EXCEPT !.status = pass.period]
    IN  /\ pc = "status" /\ ~pass.shouldFinalize
        /\ \/ PatchNotFound(s) /\ Finish(FALSE) /\ UNCHANGED <<informer, faults>>
           \/ /\ CanPatch(s) /\ Write(s, o, "status")
              /\ Finish(TRUE) /\ UNCHANGED <<cache, faults>>
           \/ Conflict(s) /\ Finish(TRUE) /\ UNCHANGED <<informer, faults>>
           \/ FailedPatch(s, o, "status")
        /\ UNCHANGED <<work, env>>

Handlers ==
    \/ FinalizerHandler \/ AuthHandler \/ PeriodHandler \/ ListResources
    \/ \E w \in Workloads : GetWorkload(w)
    \/ UpdateWorkload \/ AllProcessed \/ RemoveFinalizer \/ UpdateStatus

\* The manager restarts: the pass and the delayed additions are lost, the
\* informer lists every object afresh and each one is an event.
Restart ==
    /\ Fault
    /\ pc' = "idle" /\ pass' = IdlePass
    /\ cache' = api
    /\ fresh' = [s \in Scalers |-> TRUE]
    /\ event' = [s \in Scalers |-> FALSE]
    /\ queued' = {s \in Scalers : api[s].exists}
    /\ timers' = {}
    /\ UNCHANGED <<api, work, env>>

----
(***************************************************************************)
(* Users and the clock.                                                    *)
(***************************************************************************)
Edit == edits < MaxEdits /\ edits' = edits + 1

UserCreates(s, spec) ==
    /\ Edit /\ ~api[s].exists
    /\ Write(s, [Gone EXCEPT !.exists = TRUE, !.spec = spec], "created")
    /\ UNCHANGED <<cache, sched, pc, pass, work, desired, clock, secret, faults>>

\* With a finalizer the object only starts to go.
UserDeletes(s) ==
    /\ Edit /\ api[s].exists /\ ~api[s].deleting
    /\ IF api[s].finalizer
       THEN Write(s, [api[s] EXCEPT !.deleting = TRUE], "deletionStarted")
       ELSE Write(s, Gone, "removed")
    /\ UNCHANGED <<cache, sched, pc, pass, work, desired, clock, secret, faults>>

UserEditsSpec(s, spec) ==
    /\ Edit /\ api[s].exists /\ spec # api[s].spec
    /\ Write(s, [api[s] EXCEPT !.spec = spec], "spec")
    /\ UNCHANGED <<cache, sched, pc, pass, work, desired, clock, secret, faults>>

\* Periods start and end without any event.
ClockAdvances(t) ==
    /\ Edit /\ t # clock
    /\ clock' = t
    /\ UNCHANGED <<informer, sched, pc, pass, work, desired, secret, faults>>

\* kubectl scale, a rollout tool or an autoscaler: it overtakes an update whose
\* read is older.  On a held workload it does not change what is restored.
UserScales(w, n) ==
    /\ Edit /\ n # work[w].replicas
    /\ work' = [work EXCEPT ![w].replicas = n]
    /\ desired' = IF Held(work[w]) THEN desired ELSE [desired EXCEPT ![w] = n]
    /\ pass' = IF pc = "update" /\ pass.item = w THEN [pass EXCEPT !.current = FALSE] ELSE pass
    /\ UNCHANGED <<informer, sched, pc, clock, secret, faults>>

SecretToggles ==
    /\ Edit /\ \E spec \in Specs : spec.authSecret
    /\ secret' = ~secret
    /\ UNCHANGED <<informer, sched, pc, pass, work, desired, clock, faults>>

Environment ==
    \/ \E s \in Scalers, spec \in Specs : UserCreates(s, spec) \/ UserEditsSpec(s, spec)
    \/ \E s \in Scalers : UserDeletes(s)
    \/ \E t \in Times : ClockAdvances(t)
    \/ \E w \in Workloads, n \in Counts : UserScales(w, n)
    \/ SecretToggles

Next ==
    \/ \E s \in Scalers : Sync(s) \/ TimerFires(s) \/ Fetch(s)
    \/ Handlers
    \/ Restart
    \/ Environment

Spec == Init /\ [][Next]_vars

\* The worker runs, the watch delivers and timers elapse.  The queue is first
\* in first out, so each queued object is fetched in turn.
Fairness ==
    /\ WF_vars(Handlers)
    /\ \A s \in Scalers : WF_vars(Sync(s)) /\ WF_vars(TimerFires(s)) /\ SF_vars(Fetch(s))

FairSpec == Spec /\ Fairness

----
(***************************************************************************)
(* Safety.                                                                 *)
(***************************************************************************)
\* The replica count the owner of a workload last chose is never lost: it is in
\* the spec, or in the annotation while some scaler holds the workload.  This is
\* what the "only when absent" of AddIntAnnotations and the resourceVersion of
\* Update are for, across crashes, lost answers and overlapping scalers.
OriginalKept == \A w \in Workloads : Original(work[w]) = desired[w]

\* A finalizing pass that recorded no failure has released every workload the
\* scaler selects before it removes the finalizer (restoreOnDelete).
CleanFinalize ==
    pc = "status" /\ pass.shouldFinalize /\ pass.copy.spec.restoreOnDelete /\ ~pass.failed
        => \A w \in Selected(pass.copy.spec) : ~Held(work[w])

\* What the status handler is about to record is so: after a pass without a failure,
\* each workload it selects is held for the period of that pass and no other, or by
\* nobody if that is noaction, whoever held it before and whatever users scaled, and
\* other scalers did, meanwhile.
HeldFor(w, p) == IF p = NoAction THEN ~Held(w) ELSE Held(w) /\ w.period = p.name
HonestStatus ==
    pc = "status" /\ ~pass.failed =>
        \A w \in Selected(pass.copy.spec) : HeldFor(work[w], pass.period)

\* However old the copy a pass works from, past the finalizer handler the API
\* server's object carries the finalizer, so that no deletion can slip between
\* taking hold of a workload and the pass that releases it.  Only a finalizing
\* pass may find the object already gone.
HoldsUnderFinalizer ==
    pc \notin {"idle", "finalizer"} /\ ~pass.shouldFinalize
        => api[pass.scaler].exists /\ api[pass.scaler].finalizer

\* Work that will bring the worker back to s.
Scheduled(s) == s \in queued \/ s \in timers \/ event[s] \/ (pc # "idle" /\ pass.scaler = s)

\* An object that exists is never forgotten: since status changes and resyncs are
\* filtered out, every return without a requeue would otherwise be final.  A
\* scaler with an auth secret is excepted: a missing secret ends its passes
\* without a requeue (AuthHandler).
NeverForgotten ==
    \A s \in Scalers : api[s].exists /\ ~api[s].spec.authSecret => Scheduled(s)

\* The comment of shouldSkipNoaction: skipping the chain at noaction is safe,
\* because nothing the scaler selects is still held.
SkipOnlyWhenRestored ==
    pc = "period" /\ ActivePeriod = NoAction /\ SkipNoaction(ActivePeriod)
        => \A w \in Selected(pass.copy.spec) : ~Held(work[w])

\* "Restore resources to original state when scaler is deleted": the last
\* finalizer does not go while a selected workload is still held.
RestoredWhenGone ==
    [][\A s \in Scalers :
          api[s].finalizer /\ api[s].spec.restoreOnDelete /\ ~api'[s].exists
              => \A w \in Selected(api[s].spec) : ~Held(work[w])]_vars

\* A run-once period rewrites a workload on entering the period and then leaves
\* it to its owner: no update of a pass changes a workload that an earlier pass
\* took hold of for that period.
RunOnceAppliedOnce ==
    [][\A w \in Workloads :
          UpdateWorkload /\ work'[w] # work[w] /\ pass.period.once
              => work[w].period # pass.period.name]_vars

\* What owners see of the machinery above: resources are borrowed and given back.
Lending == INSTANCE Borrowing WITH
    Resources <- Workloads, States <- Nat, Recordable <- Nat,
    wish <- desired,
    shown <- [w \in Workloads |-> work[w].replicas],
    held <- [w \in Workloads |-> Held(work[w])]

\* Every step of users, passes, crashes and lost answers is one of a lender's: a
\* workload changes hands one at a time, its owner's wish only at its owner's hand
\* while nobody holds it, and what is given back is what was wished for.
LendsWorkloads == Lending!Spec

----
(***************************************************************************)
(* Liveness, once users and the clock leave the system alone.              *)
(***************************************************************************)
Target(p) == IF p.type = "down" THEN p.min ELSE p.max

Settled(s, spec, p) ==
    api[s].exists /\ ~api[s].deleting /\ api[s].spec = spec /\ spec.periods[clock] = p

\* A period that stays active ends up applied to every selected workload and
\* recorded in the status, whatever was stale, lost or refused on the way.
Converges ==
    \A s \in Scalers, spec \in Specs, p \in Periods :
        ~p.once /\ ~MixedTypes(spec) /\ ~spec.authSecret /\ <>[]Settled(s, spec, p) =>
            <>[](api[s].status = p
                 /\ \A w \in Selected(spec) : work[w].replicas = Target(p))

\* With restoreOnDelete the deletion of a scaler completes, whatever its periods.
DeletionCompletes ==
    \A s \in Scalers :
        api[s].deleting /\ api[s].spec.restoreOnDelete /\ ~api[s].spec.authSecret
            ~> ~api[s].deleting

\* "During deletion, never skips: StatusHandler must run to remove the finalizer."
FinalizerAlwaysRemoved ==
    \A s \in Scalers :
        api[s].deleting /\ (\A t \in Times : api[s].spec.periods[t] # Invalid)
            ~> ~api[s].deleting
====
