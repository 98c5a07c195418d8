---- MODULE GcpScaler ----
(***************************************************************************)
(* The GCP scaler controller: the chain of handlers one Reconcile runs     *)
(* (fetch, finalizer, auth with its client cache, period, scaling,         *)
(* status) and the Compute Engine instances it starts and stops.  A call   *)
(* only begins an operation: nobody waits for it, and it may fail later.   *)
(* A pass is interleaved with users of every API version, with the clock,  *)
(* the informer, the instances and calls that fail or lose their answer.   *)
(***************************************************************************)
EXTENDS Controller, Conversion, FiniteSets

CONSTANTS
    Vms,          \* the instances of the project
    Found,        \* the statuses they may have at first
    Periods,      \* the periods of the specs users write
    Times,        \* the instants the clock distinguishes
    Specs,        \* the specs users write, see SpecAssumption
    OldSpecs      \* those among them that clients of v1alpha1 write

NoAction == [name |-> "noaction", type |-> "noaction", once |-> FALSE]
\* What evaluating the spec gives when a period that has to be loaded is wrong.
Invalid  == [name |-> "invalid", type |-> "invalid", once |-> FALSE]
\* status.currentPeriod of an object no pass has written yet.
NoStatus == [name |-> "nil", type |-> "nil", once |-> FALSE]

Outcomes == Periods \cup {NoAction, Invalid}

\* periods is what loading spec.periods gives at each instant: the first active
\* period, noaction, or the error of a wrong one that has to be loaded.  ahead
\* tells whether the end of that period, and the five seconds after it, is still
\* to come: a reverse period is active after the end it carries.  vms is what
\* the region and the label selector select.
SpecFields == [periods : [Times -> Outcomes], ahead : [Times -> BOOLEAN],
               vms : SUBSET Vms, restoreOnDelete : BOOLEAN,
               authSecret : BOOLEAN, defaultPeriodType : {"down", "up"}]

ASSUME SpecAssumption ==
    /\ Specs # {} /\ Times # {} /\ Vms # {}
    /\ Found # {} /\ Found \subseteq {"RUNNING", "TERMINATED"}
    /\ Specs \subseteq SpecFields /\ OldSpecs \subseteq Specs
    /\ Periods \subseteq [name : STRING, type : {"down", "up"}, once : BOOLEAN]

\* Versions of the auth secret: 0 while there is none, a new one at each change.
Versions == 0 .. MaxEdits + 1
\* The keys of the client cache: application default credentials, and the secret.
Keys == {"adc", "secret"}
None == -1

VARIABLES
    pc,        \* the handler the worker is in
    pass,      \* the ReconciliationContext of the running pass
    vm,        \* the status of each instance
    clock,     \* the instant it is
    secret,    \* the resourceVersion of the auth secret
    revision,  \* the last resourceVersion given to it
    clients,   \* the client cache: the version each entry was built from
    open,      \* the clients whose connections are open
    wanted     \* what users last chose of the fields one API version has not

env    == <<clock, secret, revision, wanted>>
memory == <<clients, open>>
vars   == <<informer, sched, edits, faults, pc, pass, vm, env, memory>>

\* RUNNING and TERMINATED are where an instance stays; STAGING and STOPPING are
\* where a start and a stop take it through.
Statuses == {"RUNNING", "TERMINATED", "STAGING", "STOPPING"}

Objects == [exists : BOOLEAN, deleting : BOOLEAN, finalizer : BOOLEAN,
            spec : SpecFields, notes : {NoNotes, [NoNotes EXCEPT !.excludeResources = "kept"]},
            status : Periods \cup {NoAction, NoStatus}]
Gone    == [exists |-> FALSE, deleting |-> FALSE, finalizer |-> FALSE,
            spec |-> CHOOSE spec \in Specs : TRUE, notes |-> NoNotes, status |-> NoStatus]

Passes == [name : Names, copy : Objects, shouldFinalize : BOOLEAN,
           period : Periods \cup {NoAction}, key : Keys, version : Versions,
           todo : SUBSET Vms, excused : SUBSET Vms, failed : BOOLEAN]
IdlePass ==
    [name |-> CHOOSE s \in Names : TRUE, copy |-> Gone, shouldFinalize |-> FALSE,
     period |-> NoAction, key |-> "adc", version |-> 0,
     todo |-> {}, excused |-> {}, failed |-> FALSE]

TypeOK ==
    /\ ControllerTypeOK(Objects)
    /\ pc \in {"idle", "finalizer", "auth", "period", "list", "scale", "status"}
    /\ pass \in Passes
    /\ vm \in [Vms -> Statuses]
    /\ clock \in Times
    /\ secret \in Versions /\ revision \in Versions
    /\ clients \in [Keys -> Versions \cup {None}]
    /\ open \in SUBSET (Keys \X Versions)
    /\ wanted \in [Names -> [defaultPeriodType : {"down", "up"}, legacy : {Unset, "kept"}]]

Init ==
    /\ ControllerInit(Gone)
    /\ pc = "idle" /\ pass = IdlePass
    /\ vm \in [Vms -> Found]
    /\ clock \in Times
    /\ secret = 1 /\ revision = 1
    /\ clients = [k \in Keys |-> None] /\ open = {}
    /\ wanted = [s \in Names |-> [defaultPeriodType |-> "down", legacy |-> Unset]]

----
(***************************************************************************)
(* The chain of handlers.                                                  *)
(***************************************************************************)
\* The chain ends, with a requeue or without.
Finish(requeue) == pc' = "idle" /\ pass' = IdlePass /\ Return(pass.name, requeue)

Proceed(handler) == pc' = handler /\ UNCHANGED sched

\* FetchHandler: an object that is gone ends the chain, any other error is retried.
Fetch(s) ==
    /\ pc = "idle" /\ Take(s)
    /\ \/ /\ cache[s].exists
          /\ pc' = "finalizer"
          /\ pass' = [IdlePass EXCEPT !.name = s, !.copy = cache[s]]
          /\ UNCHANGED <<timers, faults>>
       \/ ~cache[s].exists /\ UNCHANGED <<timers, pc, pass, faults>>
       \/ Fault /\ timers' = timers \cup {s} /\ UNCHANGED <<pc, pass>>
    /\ UNCHANGED <<informer, edits, vm, env, memory>>

\* Mutant: a patch that fails is only logged.
AddFinalizer_IgnoresErrors(s) ==
    /\ Proceed("auth")
    /\ IF CanWrite(s) THEN Write(s, [api[s] EXCEPT !.finalizer = TRUE], "finalizer")
       ELSE UNCHANGED informer
    /\ UNCHANGED <<pass, faults>>

\* patchAddFinalizer on an object fetched without the finalizer: the cache may
\* show it by now, and then nothing is sent.
AddFinalizer(s) ==
    \/ cache[s].finalizer /\ Proceed("auth") /\ UNCHANGED <<informer, pass, faults>>
    \/ /\ ~cache[s].finalizer
       /\ LET o == [api[s] EXCEPT !.finalizer = TRUE] IN
          \/ NotFound(s) /\ Finish(FALSE) /\ UNCHANGED <<informer, faults>>
          \/ /\ CanWrite(s) /\ Write(s, o, "finalizer")
             /\ Proceed("auth") /\ UNCHANGED <<pass, faults>>
          \/ Conflict(s) /\ Finish(TRUE) /\ UNCHANGED <<informer, faults>>
          \/ FailedWrite(s, o, "finalizer") /\ Finish(TRUE)

FinalizerHandler ==
    /\ pc = "finalizer"
    /\ \/ /\ ~pass.copy.deleting /\ pass.copy.finalizer
          /\ Proceed("auth") /\ UNCHANGED <<informer, pass, faults>>
       \/ ~pass.copy.deleting /\ ~pass.copy.finalizer /\ AddFinalizer(pass.name)
       \/ /\ pass.copy.deleting /\ pass.copy.finalizer
          /\ pass' = [pass EXCEPT !.shouldFinalize = TRUE]
          /\ Proceed("auth") /\ UNCHANGED <<informer, faults>>
       \/ /\ pass.copy.deleting /\ ~pass.copy.finalizer
          /\ Finish(FALSE) /\ UNCHANGED <<informer, faults>>
    /\ UNCHANGED <<edits, vm, env, memory>>

\* The key and the version of the client a spec asks for.
KeyOf(spec) == IF spec.authSecret THEN "secret" ELSE "adc"
VersionOf(spec) == IF spec.authSecret THEN secret ELSE 0

\* Mutant: any entry of the key will do.
Cached_AnyVersion(key, version) == clients[key] # None

\* The entry under the key was built from the same resourceVersion.
Cached(key, version) == clients[key] = version

\* Mutant: the entry is replaced without closing its client.
Replace_KeepsOpen(key, version) ==
    /\ clients' = [clients EXCEPT ![key] = version]
    /\ open' = open \cup {<<key, version>>}
    /\ UNCHANGED faults

\* Close the client of the entry, whose connections may stay, and store the new one.
Replace(key, version) ==
    /\ clients' = [clients EXCEPT ![key] = version]
    /\ \/ open' = (open \ {<<key, clients[key]>>}) \cup {<<key, version>>} /\ UNCHANGED faults
       \/ clients[key] # None /\ Fault /\ open' = open \cup {<<key, version>>}

\* GetOrBuild, a build that succeeds.  A build that fails leaves the entry as it is.
GetOrBuild(key, version) ==
    IF Cached(key, version) THEN UNCHANGED <<memory, faults>> ELSE Replace(key, version)

\* A secret that is missing is a critical error that wraps NotFound, which
\* Reconcile's IgnoreNotFound turns into success without a requeue.  Any other
\* failure (the read, the build) is critical too and retried with backoff.
AuthHandler ==
    LET key == KeyOf(pass.copy.spec)
        version == VersionOf(pass.copy.spec)
        missing == pass.copy.spec.authSecret /\ secret = 0
    IN  /\ pc = "auth"
        /\ \/ /\ ~missing
              /\ GetOrBuild(key, version)
              /\ pass' = [pass EXCEPT !.key = key, !.version = version]
              /\ Proceed("period")
           \/ missing /\ Finish(FALSE) /\ UNCHANGED <<memory, faults>>
           \/ Fault /\ Finish(TRUE) /\ UNCHANGED memory
        /\ UNCHANGED <<informer, edits, vm, env>>

\* Mutant: forceRestore is not passed.
ActivePeriod_NoForce == pass.copy.spec.periods[clock]

\* SetActivePeriod, on the spec as it was fetched and the clock as it is.
ActivePeriod ==
    IF pass.shouldFinalize /\ pass.copy.spec.restoreOnDelete
    THEN NoAction ELSE pass.copy.spec.periods[clock]

\* ErrRunOncePeriod: the status already carries the hash of this period.
RunOnceApplied(p) == p.once /\ pass.copy.status = p

\* Mutant: skips during deletion too.
SkipNoaction_Finalizing(p) == pass.copy.status.name = "noaction" /\ p.name = "noaction"

\* The name of the previous period, taken before SetActivePeriod overwrites it,
\* and the name of the present one: the type is not looked at.
SkipNoaction(p) ==
    ~pass.shouldFinalize /\ pass.copy.status.name = "noaction" /\ p.name = "noaction"

\* ErrLoadPeriod, and the run-once error of an object on its way out.
Critical(p) == p = Invalid \/ (RunOnceApplied(p) /\ pass.shouldFinalize)

\* Mutant: the delay is counted from the start of the period.
RequeueAfterEnd_Never(spec) == FALSE

\* The delay until a run-once period ends is positive, and so a requeue.
RequeueAfterEnd(spec) == spec.ahead[clock]

PeriodHandler ==
    LET p == ActivePeriod IN
    /\ pc = "period"
    /\ \/ Critical(p) /\ Finish(TRUE)
       \/ ~Critical(p) /\ RunOnceApplied(p) /\ Finish(RequeueAfterEnd(pass.copy.spec))
       \/ ~Critical(p) /\ ~RunOnceApplied(p) /\ SkipNoaction(p) /\ Finish(TRUE)
       \/ /\ ~Critical(p) /\ ~RunOnceApplied(p) /\ ~SkipNoaction(p)
          /\ pass' = [pass EXCEPT !.period = p]
          /\ Proceed("list")
    /\ UNCHANGED <<informer, edits, faults, vm, env, memory>>

----
(***************************************************************************)
(* The scaling handler: SetState of the VM instances.                      *)
(***************************************************************************)
\* getDesiredState: neither an up nor a down period leaves it to the default.
DesiredState(p, default) ==
    IF p.type = "up" \/ (p.type # "down" /\ default = "up") THEN "RUNNING" ELSE "TERMINATED"

Desired == DesiredState(pass.period, pass.copy.spec.defaultPeriodType)

\* IsInstanceTransitioning knows STOPPING; the status of an instance that starts
\* is called otherwise by Compute Engine than here.
Transitioning(status) == status = "STOPPING"

\* SetState up to its calls.  The listing is one moment; an instance that is
\* moving, or where it should be, is reported as a success and left alone.
ListInstances ==
    /\ pc = "list"
    /\ \/ /\ pass' = [pass EXCEPT
                 !.todo = {v \in pass.copy.spec.vms : ~Transitioning(vm[v]) /\ vm[v] # Desired},
                 !.excused = {v \in pass.copy.spec.vms : Transitioning(vm[v])}]
          /\ Proceed("scale") /\ UNCHANGED faults
       \/ /\ Fault
          /\ pass' = [pass EXCEPT !.failed = TRUE]
          /\ Proceed("status")
    /\ UNCHANGED <<informer, edits, vm, env, memory>>

\* What Compute Engine makes of a call: starting what stops is refused, and a call
\* for what already is, or is on its way, changes nothing.
Accepts(state, status) == ~(state = "RUNNING" /\ status = "STOPPING")
Called(state, status) ==
    IF state = "RUNNING"
    THEN IF status = "TERMINATED" THEN "STAGING" ELSE status
    ELSE IF status \in {"RUNNING", "STAGING"} THEN "STOPPING" ELSE status

\* applyInstanceState on one instance: the call begins the operation, is refused,
\* is lost, or begins it and loses the answer.  A failure is recorded and the
\* next instance has its turn.
ApplyInstanceState(v) ==
    LET Begun == vm' = [vm EXCEPT ![v] = Called(Desired, @)]
        Done(failed) == pass' = [pass EXCEPT !.todo = @ \ {v}, !.failed = @ \/ failed]
    IN  /\ pc = "scale" /\ v \in pass.todo
        /\ \/ Accepts(Desired, vm[v]) /\ Begun /\ Done(FALSE) /\ UNCHANGED faults
           \/ ~Accepts(Desired, vm[v]) /\ Done(TRUE) /\ UNCHANGED <<vm, faults>>
           \/ Fault /\ Done(TRUE) /\ (UNCHANGED vm \/ (Accepts(Desired, vm[v]) /\ Begun))
        /\ UNCHANGED <<informer, sched, edits, pc, env, memory>>

AllProcessed ==
    /\ pc = "scale" /\ pass.todo = {}
    /\ Proceed("status")
    /\ UNCHANGED <<informer, edits, faults, pass, vm, env, memory>>

----
(***************************************************************************)
(* The status handler.                                                     *)
(***************************************************************************)
\* patchRemoveFinalizer, whatever failures the pass recorded.  The object goes
\* with its last finalizer.
RemoveFinalizer ==
    LET s == pass.name
        o == IF api[s].deleting THEN Gone ELSE [api[s] EXCEPT !.finalizer = FALSE]
    IN  /\ pc = "status" /\ pass.shouldFinalize
        /\ \/ /\ NotFound(s) \/ ~cache[s].finalizer
              /\ Finish(FALSE) /\ UNCHANGED <<informer, faults>>
           \/ /\ cache[s].finalizer
              /\ \/ /\ CanWrite(s) /\ Write(s, o, "finalizer")
                    /\ Finish(FALSE) /\ UNCHANGED faults
                 \/ Conflict(s) /\ Finish(TRUE) /\ UNCHANGED <<informer, faults>>
                 \/ FailedWrite(s, o, "finalizer") /\ Finish(TRUE)
        /\ UNCHANGED <<edits, vm, env, memory>>

\* The period of the pass becomes the status, whatever failures it recorded.  An
\* object that is gone is an error like any other here.
UpdateStatus ==
    LET s == pass.name
        o == [api[s] EXCEPT !.status = pass.period]
    IN  /\ pc = "status" /\ ~pass.shouldFinalize
        /\ Finish(TRUE)
        /\ \/ CanWrite(s) /\ Write(s, o, "status") /\ UNCHANGED faults
           \/ ~CanWrite(s) /\ UNCHANGED <<informer, faults>>
           \/ FailedWrite(s, o, "status")
        /\ UNCHANGED <<edits, vm, env, memory>>

Handlers ==
    \/ FinalizerHandler \/ AuthHandler \/ PeriodHandler \/ ListInstances
    \/ \E v \in Vms : ApplyInstanceState(v)
    \/ AllProcessed \/ RemoveFinalizer \/ UpdateStatus

Sync(s) == Deliver(s) /\ UNCHANGED <<edits, faults, pc, pass, vm, env, memory>>

TimerFires(s) == Elapse(s) /\ UNCHANGED <<informer, edits, faults, pc, pass, vm, env, memory>>

\* The pass and the client cache are lost, and every connection with them.
Restart ==
    /\ Relist
    /\ pc' = "idle" /\ pass' = IdlePass
    /\ clients' = [k \in Keys |-> None] /\ open' = {}
    /\ UNCHANGED <<vm, env>>

----
(***************************************************************************)
(* Compute Engine, users and the clock.                                    *)
(***************************************************************************)
\* What others do to an instance is no failure of the pass that listed it.
Disturb(v) ==
    pass' = IF pc \in {"scale", "status"} THEN [pass EXCEPT !.excused = @ \cup {v}] ELSE pass

\* An operation ends, or fails and takes the instance back.
VmSettles(v) ==
    /\ \/ vm[v] = "STAGING" /\ vm' = [vm EXCEPT ![v] = "RUNNING"] /\ UNCHANGED <<pass, faults>>
       \/ vm[v] = "STOPPING" /\ vm' = [vm EXCEPT ![v] = "TERMINATED"] /\ UNCHANGED <<pass, faults>>
       \/ /\ vm[v] \in {"STAGING", "STOPPING"} /\ Fault /\ Disturb(v)
          /\ vm' = [vm EXCEPT ![v] = IF @ = "STAGING" THEN "TERMINATED" ELSE "RUNNING"]
    /\ UNCHANGED <<informer, sched, edits, pc, env, memory>>

\* The console, gcloud, a managed instance group.
OwnerCalls(v, state) ==
    /\ Edit /\ Accepts(state, vm[v]) /\ Called(state, vm[v]) # vm[v]
    /\ vm' = [vm EXCEPT ![v] = Called(state, @)]
    /\ Disturb(v)
    /\ UNCHANGED <<informer, sched, faults, pc, env, memory>>

Outside == <<sched, faults, pc, pass, vm, clock, secret, revision, memory>>

UserCreates(s, spec) ==
    /\ Creates(s, [Gone EXCEPT !.exists = TRUE, !.spec = spec])
    /\ wanted' = [wanted EXCEPT ![s] = [defaultPeriodType |-> spec.defaultPeriodType,
                                        legacy |-> Unset]]
    /\ UNCHANGED Outside

UserDeletes(s) == Deletes(s, Gone) /\ UNCHANGED <<wanted, Outside>>

\* What a client of the hub or, with no difference, of v1alpha2 makes of the object o.
EditHub(o, spec) == GcpToHub2([spec |-> spec, notes |-> GcpFromHub2(o).notes])

\* What a client of v1alpha1 does: it reads, changes what it sees of the spec and its
\* own fields, and writes all of it back.
EditV1alpha1(o, spec, legacy) ==
    GcpToHub([spec   |-> [spec EXCEPT !.defaultPeriodType = Unset],
              legacy |-> legacy,
              notes  |-> GcpFromHub(o).notes])

Stores(s, e) == ChangesSpec(s, [api[s] EXCEPT !.spec = e.spec, !.notes = e.notes])

UserEditsSpec(s, spec) ==
    /\ Stores(s, EditHub(api[s], spec))
    /\ wanted' = [wanted EXCEPT ![s].defaultPeriodType = spec.defaultPeriodType]
    /\ UNCHANGED Outside

UserEditsV1alpha1(s, spec, legacy) ==
    /\ Stores(s, EditV1alpha1(api[s], spec, legacy))
    /\ wanted' = [wanted EXCEPT ![s].legacy = legacy]
    /\ UNCHANGED Outside

\* Periods start and end without any event.
ClockAdvances(t) ==
    /\ Edit /\ t # clock
    /\ clock' = t
    /\ UNCHANGED <<informer, sched, faults, pc, pass, vm, secret, revision, wanted, memory>>

\* The secret an object names is deleted, or (re)created or rotated.
SecretChanges ==
    /\ Edit /\ \E s \in Names : api[s].exists /\ api[s].spec.authSecret
    /\ \/ secret # 0 /\ secret' = 0 /\ UNCHANGED revision
       \/ revision' = revision + 1 /\ secret' = revision'
    /\ UNCHANGED <<informer, sched, faults, pc, pass, vm, clock, wanted, memory>>

Environment ==
    \/ \E s \in Names, spec \in Specs :
          UserCreates(s, spec) \/ UserEditsSpec(s, spec)
    \/ \E s \in Names, spec \in OldSpecs, legacy \in {Unset, "kept"} :
          UserEditsV1alpha1(s, spec, legacy)
    \/ \E s \in Names : UserDeletes(s)
    \/ \E v \in Vms, state \in {"RUNNING", "TERMINATED"} : OwnerCalls(v, state)
    \/ \E t \in Times : ClockAdvances(t)
    \/ SecretChanges

Next ==
    \/ \E s \in Names : Sync(s) \/ TimerFires(s) \/ Fetch(s)
    \/ Handlers
    \/ \E v \in Vms : VmSettles(v)
    \/ Restart
    \/ Environment

Spec == Init /\ [][Next]_vars

\* The worker runs, the watch delivers, timers elapse and operations end.  The
\* queue is first in first out, so each queued object is fetched in turn.
Fairness ==
    /\ WF_vars(Handlers)
    /\ \A s \in Names : WF_vars(Sync(s)) /\ WF_vars(TimerFires(s)) /\ SF_vars(Fetch(s))
    /\ \A v \in Vms : WF_vars(VmSettles(v))

FairSpec == Spec /\ Fairness

----
(***************************************************************************)
(* Safety.                                                                 *)
(***************************************************************************)
\* A pass works with an open client, the one the cache owns under its key, built
\* from the version of the secret the pass read: "revoked credentials cannot
\* linger past the next reconcile", and no rotation closes a client in use.
ClientUsable ==
    pc \in {"period", "list", "scale", "status"} =>
        /\ <<pass.key, pass.version>> \in open
        /\ clients[pass.key] = pass.version

\* However often the secret is rotated, deleted and recreated, no connection
\* stays open but those of the cached clients and of those whose Close failed.
ClientsBounded ==
    Cardinality(open) <= Cardinality({k \in Keys : clients[k] # None}) + faults

\* However old the copy a pass works from, past the finalizer handler the API
\* server's object carries the finalizer, so that no deletion slips between a
\* call of the pass and the pass that restores.
HoldsUnderFinalizer ==
    pc \notin {"idle", "finalizer"} /\ ~pass.shouldFinalize
        => api[pass.name].exists /\ api[pass.name].finalizer

\* Work that will bring the worker back to s.
Scheduled(s) == s \in queued \/ s \in timers \/ event[s] \/ (pc # "idle" /\ pass.name = s)

\* An object that exists is never forgotten: every return without a requeue would
\* be final.  Excepted are a scaler with an auth secret, whose absence ends its
\* passes without one (AuthHandler), and one with a run-once period that is
\* active after the end it carries (RequeueAfterEnd).
NeverForgotten ==
    \A s \in Names :
        /\ api[s].exists /\ ~api[s].spec.authSecret
        /\ \A t \in Times : api[s].spec.periods[t].once => api[s].spec.ahead[t]
        => Scheduled(s)

\* An instance that stands, or is on its way to, where state wants it.
Toward(v, state) ==
    vm[v] \in IF state = "RUNNING" THEN {"RUNNING", "STAGING"} ELSE {"TERMINATED", "STOPPING"}

\* A finalizing pass that recorded no failure leaves every instance it selects at
\* the default of the spec (restoreOnDelete), but those somebody else moved: what
\* was listed as moving is skipped, and no later pass comes back to it.
CleanFinalize ==
    pc = "status" /\ pass.shouldFinalize /\ pass.copy.spec.restoreOnDelete /\ ~pass.failed
        => \A v \in pass.copy.spec.vms \ pass.excused :
              Toward(v, DesiredState(NoAction, pass.copy.spec.defaultPeriodType))

\* "Preserving v1alpha1-specific fields during conversion round-trips": a client of
\* one version never changes what only the other version shows, whatever order
\* their edits come in.
VersionsKept ==
    \A s \in Names : api[s].exists =>
        /\ api[s].spec.defaultPeriodType = wanted[s].defaultPeriodType
        /\ api[s].notes.excludeResources = wanted[s].legacy

----
(***************************************************************************)
(* Liveness, once users and the clock leave the system alone.              *)
(***************************************************************************)
Settled(s, spec, p) ==
    api[s].exists /\ ~api[s].deleting /\ api[s].spec = spec /\ spec.periods[clock] = p

\* Every selected instance ends up in the state a lasting period asks for, and the
\* period in the status, whatever operation failed after its call succeeded.  A
\* period users named "noaction" is excepted: it is skipped as if it were none.
Converges ==
    \A s \in Names, spec \in Specs, p \in Periods :
        ~p.once /\ p.name # "noaction" /\ ~spec.authSecret /\ <>[]Settled(s, spec, p) =>
            <>[](api[s].status = p
                 /\ \A v \in spec.vms : vm[v] = DesiredState(p, spec.defaultPeriodType))

\* With restoreOnDelete the deletion of a scaler completes, whatever its periods.
DeletionCompletes ==
    \A s \in Names :
        api[s].deleting /\ api[s].spec.restoreOnDelete /\ ~api[s].spec.authSecret
            ~> ~api[s].deleting
====
