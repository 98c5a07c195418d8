---- MODULE GcpScalerProofs ----
(***************************************************************************)
(* Proofs about GcpScaler for every set of scalers, instances, periods and *)
(* specs.                                                                  *)
(***************************************************************************)
EXTENDS GcpScaler, FiniteSetTheorems, TLAPS

----
(***************************************************************************)
(* Type correctness.                                                       *)
(***************************************************************************)
LEMMA Defaults ==
    /\ Gone \in Objects
    /\ Gone.exists = FALSE /\ Gone.deleting = FALSE /\ Gone.finalizer = FALSE
    /\ Gone.notes = NoNotes
    /\ IdlePass \in Passes
    /\ IdlePass.copy = Gone /\ IdlePass.shouldFinalize = FALSE
    /\ IdlePass.failed = FALSE
<1>1. (CHOOSE s \in Names : TRUE) \in Names /\ (CHOOSE spec \in Specs : TRUE) \in Specs
      /\ Specs \subseteq SpecFields
  BY ControllerAssumption, SpecAssumption
<1>2. Gone \in Objects
  BY <1>1 DEF Gone, Objects
<1>3. 0 \in Versions /\ "adc" \in Keys
  BY ControllerAssumption DEF Versions, Keys
<1>4. IdlePass \in Passes
  BY <1>1, <1>2, <1>3 DEF IdlePass, Passes
<1> QED
  BY <1>2, <1>4 DEF Gone, IdlePass

\* What the handlers and the users make of an object is an object.
LEMMA ObjectUpdates ==
    ASSUME NEW o \in Objects
    PROVE  /\ \A b \in BOOLEAN : [o EXCEPT !.finalizer = b] \in Objects
           /\ [o EXCEPT !.deleting = TRUE] \in Objects
           /\ \A p \in Periods \cup {NoAction} : [o EXCEPT !.status = p] \in Objects
BY DEF Objects

LEMMA WriteType ==
    ASSUME TypeOK, NEW s \in Names, NEW o \in Objects, NEW change, Write(s, o, change)
    PROVE  /\ api' \in [Names -> Objects] /\ cache' \in [Names -> Objects]
           /\ fresh' \in [Names -> BOOLEAN] /\ event' \in [Names -> BOOLEAN]
BY DEF TypeOK, ControllerTypeOK, Write, Triggers

LEMMA FinishType ==
    ASSUME TypeOK, NEW requeue, Finish(requeue)
    PROVE  /\ pc' = "idle" /\ pass' \in Passes
           /\ queued' \in SUBSET Names /\ timers' \in SUBSET Names
BY Defaults DEF TypeOK, ControllerTypeOK, Finish, Return, Passes

LEMMA FaultType ==
    ASSUME TypeOK, Fault \/ UNCHANGED faults
    PROVE  faults' \in 0 .. MaxFaults
BY ControllerAssumption DEF TypeOK, ControllerTypeOK, Fault

LEMMA EditType ==
    ASSUME TypeOK, Edit
    PROVE  edits' \in 0 .. MaxEdits
BY ControllerAssumption DEF TypeOK, ControllerTypeOK, Edit

\* Calls take instances from status to status.
LEMMA CalledType ==
    ASSUME NEW state, NEW status \in Statuses
    PROVE  Called(state, status) \in Statuses
BY DEF Called, Statuses

LEMMA DesiredType == Desired \in {"RUNNING", "TERMINATED"}
BY DEF Desired, DesiredState

\* What clients of each version make of an object is an object, and v1alpha1
\* leaves defaultPeriodType, the hub the note of excludeResources as it was.
LEMMA HubEdit ==
    ASSUME NEW o \in Objects, NEW spec \in SpecFields
    PROVE  EditHub(o, spec) = [spec |-> spec, notes |-> o.notes]
BY DEF EditHub, GcpToHub2, GcpFromHub2

LEMMA OldEdit ==
    ASSUME NEW o \in Objects, NEW spec \in SpecFields, NEW legacy \in {Unset, "kept"}
    PROVE  EditV1alpha1(o, spec, legacy)
             = [spec  |-> [spec EXCEPT !.defaultPeriodType = o.spec.defaultPeriodType],
                notes |-> [NoNotes EXCEPT !.excludeResources = legacy]]
<1> DEFINE type == o.spec.defaultPeriodType
           shown == [spec EXCEPT !.defaultPeriodType = Unset]
           noted == [excludeResources |-> Unset, defaultPeriodType |-> type]
<1>1. /\ type # Unset
      /\ o.notes \in {NoNotes, [NoNotes EXCEPT !.excludeResources = "kept"]}
  BY DEF Objects, SpecFields, Unset
<1>2. GcpFromHub(o).notes = noted
  BY <1>1 DEF GcpFromHub, SetNote, RemoveNote, NoNotes
<1>3. GcpToHub([spec |-> shown, legacy |-> legacy, notes |-> noted])
        = [spec  |-> [shown EXCEPT !.defaultPeriodType = type],
           notes |-> [NoNotes EXCEPT !.excludeResources = legacy]]
  <2>1. noted["defaultPeriodType"] = type /\ type # Unset
    BY <1>1
  <2>2. RemoveNote(noted, "defaultPeriodType") = NoNotes
    BY DEF RemoveNote, NoNotes
  <2>3. SetNote(NoNotes, "excludeResources", legacy) = [NoNotes EXCEPT !.excludeResources = legacy]
    <3>1. CASE legacy = Unset
      BY <3>1 DEF SetNote, NoNotes
    <3>2. CASE legacy # Unset
      BY <3>2 DEF SetNote
    <3> QED BY <3>1, <3>2
  <2> HIDE DEF noted, shown, type
  <2> QED
    BY <2>1, <2>2, <2>3 DEF GcpToHub
<1>4. [shown EXCEPT !.defaultPeriodType = type]
        = [spec EXCEPT !.defaultPeriodType = type]
  BY DEF SpecFields
<1> QED
  BY <1>2, <1>3, <1>4 DEF EditV1alpha1

LEMMA EditsType ==
    ASSUME NEW o \in Objects, NEW spec \in SpecFields, NEW legacy \in {Unset, "kept"}
    PROVE  /\ [o EXCEPT !.spec = EditHub(o, spec).spec, !.notes = EditHub(o, spec).notes]
                 \in Objects
           /\ [o EXCEPT !.spec = EditV1alpha1(o, spec, legacy).spec,
                        !.notes = EditV1alpha1(o, spec, legacy).notes] \in Objects
<1>1. [spec EXCEPT !.defaultPeriodType = o.spec.defaultPeriodType] \in SpecFields
  BY DEF Objects, SpecFields
<1>2. [NoNotes EXCEPT !.excludeResources = legacy]
        \in {NoNotes, [NoNotes EXCEPT !.excludeResources = "kept"]}
  BY DEF NoNotes
<1>3. ASSUME NEW x \in SpecFields,
             NEW n \in {NoNotes, [NoNotes EXCEPT !.excludeResources = "kept"]}
      PROVE  [o EXCEPT !.spec = x, !.notes = n] \in Objects
  BY DEF Objects
<1>4. o.notes \in {NoNotes, [NoNotes EXCEPT !.excludeResources = "kept"]}
  BY DEF Objects
<1>5. /\ EditHub(o, spec).spec \in SpecFields
      /\ EditHub(o, spec).notes \in {NoNotes, [NoNotes EXCEPT !.excludeResources = "kept"]}
  BY <1>4, HubEdit
<1>6. /\ EditV1alpha1(o, spec, legacy).spec \in SpecFields
      /\ EditV1alpha1(o, spec, legacy).notes
           \in {NoNotes, [NoNotes EXCEPT !.excludeResources = "kept"]}
  BY <1>1, <1>2, OldEdit
<1> QED
  BY <1>3, <1>5, <1>6

\* Every change of the secret is an edit: TypeOK bounds its version by their number.
TypeInv == TypeOK /\ revision <= edits + 1

\* Every variable keeps its type, whatever the versions of the API, the handlers and
\* Compute Engine make of objects, clients and instances.
LEMMA TypeInvariant == Spec => []TypeInv
<1>1. ASSUME Init PROVE TypeInv
  <2>1. vm \in [Vms -> Statuses]
    BY <1>1, SpecAssumption DEF Init, Statuses
  <2>2. /\ secret = 1 /\ revision = 1 /\ edits = 0 /\ 1 \in Versions
        /\ clients \in [Keys -> Versions \cup {None}] /\ open \in SUBSET (Keys \X Versions)
    BY <1>1, ControllerAssumption DEF Init, ControllerInit, Versions
  <2>3. wanted \in [Names -> [defaultPeriodType : {"down", "up"}, legacy : {Unset, "kept"}]]
    BY <1>1 DEF Init
  <2>4. ControllerTypeOK(Objects)
    BY <1>1, Defaults, ControllerAssumption DEF Init, ControllerInit, ControllerTypeOK
  <2>5. pc = "idle" /\ pass \in Passes /\ clock \in Times
    BY <1>1, Defaults DEF Init
  <2> QED
    BY <2>1, <2>2, <2>3, <2>4, <2>5 DEF TypeInv, TypeOK
<1>2. ASSUME TypeInv, [Next]_vars PROVE TypeInv'
  <2> USE <1>2 DEF TypeInv
  <2>0. /\ pass \in Passes /\ pass.name \in Names /\ pass.copy \in Objects
        /\ api \in [Names -> Objects] /\ cache \in [Names -> Objects]
    BY DEF TypeOK, ControllerTypeOK, Passes
  <2>1. ASSUME NEW s \in Names, Sync(s) PROVE TypeInv'
    BY <2>1 DEF TypeOK, ControllerTypeOK, Sync, Deliver, env, memory
  <2>2. ASSUME NEW s \in Names, TimerFires(s) PROVE TypeInv'
    BY <2>2 DEF TypeOK, ControllerTypeOK, TimerFires, Elapse, informer, env, memory
  <2>3. ASSUME NEW s \in Names, Fetch(s) PROVE TypeInv'
    <3>1. faults' \in 0 .. MaxFaults
      BY <2>3, FaultType DEF Fetch
    <3>2. [IdlePass EXCEPT !.name = s, !.copy = cache[s]] \in Passes
      BY <2>0, Defaults DEF Passes
    <3>3. pc' \in {"idle", "finalizer"} /\ pass' \in Passes
      <4>1. CASE pc' = "finalizer" /\ pass' = [IdlePass EXCEPT !.name = s, !.copy = cache[s]]
        BY <3>2, <4>1
      <4>2. CASE UNCHANGED <<pc, pass>>
        BY <2>3, <4>2 DEF Fetch, TypeOK
      <4> QED
        BY <2>3, <4>1, <4>2 DEF Fetch
    <3>4. queued' \in SUBSET Names /\ timers' \in SUBSET Names
      BY <2>3 DEF Fetch, Take, TypeOK, ControllerTypeOK
    <3>5. UNCHANGED <<informer, edits, vm, env, memory>>
      BY <2>3 DEF Fetch
    <3> QED
      BY <3>1, <3>3, <3>4, <3>5 DEF TypeOK, ControllerTypeOK, informer, env, memory
  <2>4. ASSUME UNCHANGED <<informer, edits, vm, env, memory>>, NEW requeue, Finish(requeue),
               faults' \in 0 .. MaxFaults
        PROVE  TypeInv'
    BY <2>4, FinishType DEF TypeOK, ControllerTypeOK, informer, env, memory
  <2>5. ASSUME NEW o \in Objects, NEW change, Write(pass.name, o, change),
               UNCHANGED <<edits, vm, env, memory>>, NEW requeue, Finish(requeue),
               faults' \in 0 .. MaxFaults
        PROVE  TypeInv'
    <3>1. /\ api' \in [Names -> Objects] /\ cache' \in [Names -> Objects]
          /\ fresh' \in [Names -> BOOLEAN] /\ event' \in [Names -> BOOLEAN]
      BY <2>0, <2>5, WriteType
    <3> QED
      BY <2>5, <3>1, FinishType DEF TypeOK, ControllerTypeOK, env, memory
  <2>6. ASSUME FinalizerHandler PROVE TypeInv'
    <3>1. UNCHANGED <<edits, vm, env, memory>>
      BY <2>6 DEF FinalizerHandler
    <3>2. CASE AddFinalizer(pass.name)
      <4>1. [api[pass.name] EXCEPT !.finalizer = TRUE] \in Objects
        BY <2>0, ObjectUpdates
      <4>2. faults' \in 0 .. MaxFaults
        BY <3>2, FaultType DEF AddFinalizer, FailedWrite
      <4>3. CASE UNCHANGED informer /\ (Finish(FALSE) \/ Finish(TRUE))
        BY <2>4, <3>1, <4>2, <4>3
      <4>4. CASE UNCHANGED informer /\ Proceed("auth") /\ UNCHANGED pass
        BY <3>1, <4>2, <4>4 DEF TypeOK, ControllerTypeOK, informer, env, memory, sched, Proceed
      <4>5. CASE /\ Write(pass.name, [api[pass.name] EXCEPT !.finalizer = TRUE], "finalizer")
                 /\ Proceed("auth") /\ UNCHANGED pass
        <5>1. /\ api' \in [Names -> Objects] /\ cache' \in [Names -> Objects]
              /\ fresh' \in [Names -> BOOLEAN] /\ event' \in [Names -> BOOLEAN]
          BY <2>0, <4>1, <4>5, WriteType
        <5> QED
          BY <3>1, <4>2, <4>5, <5>1 DEF TypeOK, ControllerTypeOK, env, memory, sched, Proceed
      <4>6. CASE /\ Write(pass.name, [api[pass.name] EXCEPT !.finalizer = TRUE], "finalizer")
                 /\ Finish(TRUE)
        BY <2>5, <3>1, <4>1, <4>2, <4>6
      <4> QED
        BY <3>2, <4>3, <4>4, <4>5, <4>6 DEF AddFinalizer, FailedWrite
    <3>3. CASE Proceed("auth") /\ UNCHANGED <<informer, faults>>
               /\ (UNCHANGED pass \/ pass' = [pass EXCEPT !.shouldFinalize = TRUE])
      <4>1. pass' \in Passes
        BY <2>0, <3>3 DEF Passes
      <4> QED
        BY <3>1, <3>3, <4>1 DEF TypeOK, ControllerTypeOK, informer, env, memory, sched, Proceed
    <3>4. CASE Finish(FALSE) /\ UNCHANGED <<informer, faults>>
      <4>1. faults' \in 0 .. MaxFaults
        BY <3>4, FaultType
      <4> QED
        BY <2>4, <3>1, <3>4, <4>1
    <3> QED
      BY <2>6, <3>2, <3>3, <3>4 DEF FinalizerHandler
  <2>7. ASSUME AuthHandler PROVE TypeInv'
    <3> DEFINE key == KeyOf(pass.copy.spec)
               version == VersionOf(pass.copy.spec)
    <3>1. faults' \in 0 .. MaxFaults
      BY <2>7, FaultType DEF AuthHandler, GetOrBuild, Replace
    <3>2. UNCHANGED <<informer, edits, vm, env>>
      BY <2>7 DEF AuthHandler
    <3>3. key \in Keys /\ version \in Versions
      BY ControllerAssumption DEF KeyOf, VersionOf, Keys, Versions, TypeOK
    <3> HIDE DEF key, version
    <3>4. CASE /\ GetOrBuild(key, version) /\ pass' = [pass EXCEPT !.key = key, !.version = version]
               /\ Proceed("period")
      <4>1. pass' \in Passes
        BY <2>0, <3>3, <3>4 DEF Passes
      <4>2. /\ clients' \in [Keys -> Versions \cup {None}]
            /\ open' \in SUBSET (Keys \X Versions)
        BY <3>3, <3>4 DEF GetOrBuild, Replace, TypeOK, memory
      <4> QED
        BY <3>1, <3>2, <3>4, <4>1, <4>2
           DEF TypeOK, ControllerTypeOK, informer, env, sched, Proceed
    <3> QED
      BY <2>4, <2>7, <3>1, <3>2, <3>4 DEF AuthHandler, key, version
  <2>8. ASSUME PeriodHandler PROVE TypeInv'
    <3>1. ~Critical(ActivePeriod) => ActivePeriod \in Periods \cup {NoAction}
      <4>1. pass.copy.spec.periods[clock] \in Outcomes
        BY <2>0 DEF TypeOK, Objects, SpecFields
      <4> QED
        BY <4>1 DEF ActivePeriod, Critical, Outcomes
    <3>2. UNCHANGED <<informer, edits, faults, vm, env, memory>>
      BY <2>8 DEF PeriodHandler
    <3>3. faults' \in 0 .. MaxFaults
      BY <3>2, FaultType
    <3>4. CASE \E requeue : Finish(requeue)
      BY <2>4, <3>2, <3>3, <3>4
    <3>5. CASE ~Critical(ActivePeriod) /\ pass' = [pass EXCEPT !.period = ActivePeriod]
               /\ Proceed("list")
      <4>1. pass' \in Passes
        BY <2>0, <3>1, <3>5 DEF Passes
      <4> QED
        BY <3>2, <3>5, <4>1 DEF TypeOK, ControllerTypeOK, informer, env, memory, sched, Proceed
    <3> QED
      BY <2>8, <3>4, <3>5 DEF PeriodHandler
  <2>9. ASSUME ListInstances PROVE TypeInv'
    <3>1. faults' \in 0 .. MaxFaults
      BY <2>9, FaultType DEF ListInstances
    <3>2. pass.copy.spec.vms \in SUBSET Vms
      BY <2>0 DEF Objects, SpecFields
    <3>3. pass' \in Passes
      BY <2>0, <2>9, <3>2 DEF ListInstances, Passes
    <3> QED
      BY <2>9, <3>1, <3>3
         DEF ListInstances, TypeOK, ControllerTypeOK, informer, env, memory, sched, Proceed
  <2>10. ASSUME NEW v \in Vms, ApplyInstanceState(v) PROVE TypeInv'
    <3>1. faults' \in 0 .. MaxFaults
      BY <2>10, FaultType DEF ApplyInstanceState
    <3>2. vm' \in [Vms -> Statuses]
      BY <2>10, CalledType DEF ApplyInstanceState, TypeOK
    <3>3. pass' \in Passes
      <4>1. \A b \in BOOLEAN : [pass EXCEPT !.todo = @ \ {v}, !.failed = @ \/ b] \in Passes
        <5>1. (pass.failed \/ TRUE) \in BOOLEAN /\ (pass.failed \/ FALSE) \in BOOLEAN
          OBVIOUS
        <5> QED
          BY <2>0, <5>1 DEF Passes
      <4>2. \/ pass' = [pass EXCEPT !.todo = @ \ {v}, !.failed = @ \/ TRUE]
            \/ pass' = [pass EXCEPT !.todo = @ \ {v}, !.failed = @ \/ FALSE]
        BY <2>10 DEF ApplyInstanceState
      <4> QED
        BY <4>1, <4>2
    <3> QED
      BY <2>10, <3>1, <3>2, <3>3
         DEF ApplyInstanceState, TypeOK, ControllerTypeOK, informer, env, memory, sched
  <2>11. ASSUME AllProcessed PROVE TypeInv'
    BY <2>11 DEF AllProcessed, TypeOK, ControllerTypeOK, informer, env, memory, sched, Proceed
  <2>12. ASSUME RemoveFinalizer PROVE TypeInv'
    <3>1. UNCHANGED <<edits, vm, env, memory>>
      BY <2>12 DEF RemoveFinalizer
    <3>2. faults' \in 0 .. MaxFaults
      BY <2>12, FaultType DEF RemoveFinalizer, FailedWrite
    <3>3. Gone \in Objects /\ [api[pass.name] EXCEPT !.finalizer = FALSE] \in Objects
      BY <2>0, Defaults, ObjectUpdates
    <3>4. \E requeue \in BOOLEAN : Finish(requeue)
      BY <2>12 DEF RemoveFinalizer
    <3>5. CASE UNCHANGED informer
      BY <2>4, <3>1, <3>2, <3>4, <3>5
    <3>6. CASE \E o \in Objects : Write(pass.name, o, "finalizer")
      BY <2>5, <3>1, <3>2, <3>4, <3>6
    <3> QED
      BY <2>12, <3>3, <3>5, <3>6 DEF RemoveFinalizer, FailedWrite
  <2>13. ASSUME UpdateStatus PROVE TypeInv'
    <3>1. UNCHANGED <<edits, vm, env, memory>> /\ Finish(TRUE)
      BY <2>13 DEF UpdateStatus
    <3>2. faults' \in 0 .. MaxFaults
      BY <2>13, FaultType DEF UpdateStatus, FailedWrite
    <3>3. [api[pass.name] EXCEPT !.status = pass.period] \in Objects
      BY <2>0, ObjectUpdates DEF Passes
    <3>4. CASE UNCHANGED informer
      BY <2>4, <3>1, <3>2, <3>4
    <3>5. CASE Write(pass.name, [api[pass.name] EXCEPT !.status = pass.period], "status")
      BY <2>5, <3>1, <3>2, <3>3, <3>5
    <3> QED
      BY <2>13, <3>4, <3>5 DEF UpdateStatus, FailedWrite
  <2>14. ASSUME NEW v \in Vms, VmSettles(v) PROVE TypeInv'
    <3>1. faults' \in 0 .. MaxFaults
      BY <2>14, FaultType DEF VmSettles
    <3>2. pass' \in Passes
      BY <2>0, <2>14 DEF VmSettles, Disturb, Passes
    <3>3. vm' \in [Vms -> Statuses]
      BY <2>14 DEF VmSettles, TypeOK, Statuses
    <3> QED
      BY <2>14, <3>1, <3>2, <3>3
         DEF VmSettles, TypeOK, ControllerTypeOK, informer, env, memory, sched
  <2>15. ASSUME Restart PROVE TypeInv'
    BY <2>15, FaultType, Defaults DEF Restart, Relist, TypeOK, ControllerTypeOK, env
  <2>16. ASSUME Environment PROVE TypeInv'
    <3>0. edits \in Nat /\ revision \in Nat
      BY ControllerAssumption DEF TypeOK, ControllerTypeOK, Versions
    <3>1. ASSUME Edit PROVE /\ edits' = edits + 1 /\ edits' \in 0 .. MaxEdits
                            /\ UNCHANGED revision => revision' <= edits' + 1
      BY <3>0, <3>1, EditType DEF Edit
    <3>2. ASSUME NEW s \in Names, NEW o \in Objects, NEW change, Edit, Write(s, o, change),
                 wanted' \in [Names -> [defaultPeriodType : {"down", "up"},
                                        legacy : {Unset, "kept"}]],
                 UNCHANGED Outside
          PROVE  TypeInv'
      <4>1. /\ api' \in [Names -> Objects] /\ cache' \in [Names -> Objects]
            /\ fresh' \in [Names -> BOOLEAN] /\ event' \in [Names -> BOOLEAN]
        BY <3>2, WriteType
      <4> QED
        BY <3>1, <3>2, <4>1 DEF TypeOK, ControllerTypeOK, Outside, sched, memory
    <3>3. ASSUME NEW s \in Names, NEW spec \in Specs, UserCreates(s, spec) PROVE TypeInv'
      <4>1. spec \in SpecFields
        BY SpecAssumption
      <4>2. [Gone EXCEPT !.exists = TRUE, !.spec = spec] \in Objects
        BY <4>1, Defaults DEF Objects
      <4>3. wanted' \in [Names -> [defaultPeriodType : {"down", "up"}, legacy : {Unset, "kept"}]]
        BY <3>3, <4>1 DEF UserCreates, TypeOK, SpecFields
      <4> QED
        BY <3>2, <3>3, <4>2, <4>3 DEF UserCreates, Creates
    <3>4. ASSUME NEW s \in Names, NEW spec \in Specs, UserEditsSpec(s, spec) PROVE TypeInv'
      <4>1. spec \in SpecFields
        BY SpecAssumption
      <4>2. [api[s] EXCEPT !.spec = EditHub(api[s], spec).spec,
                           !.notes = EditHub(api[s], spec).notes] \in Objects
        BY <2>0, <4>1, EditsType
      <4>3. wanted' \in [Names -> [defaultPeriodType : {"down", "up"}, legacy : {Unset, "kept"}]]
        BY <3>4, <4>1 DEF UserEditsSpec, TypeOK, SpecFields
      <4> QED
        BY <3>2, <3>4, <4>2, <4>3 DEF UserEditsSpec, Stores, ChangesSpec
    <3>5. ASSUME NEW s \in Names, NEW spec \in OldSpecs, NEW legacy \in {Unset, "kept"},
                 UserEditsV1alpha1(s, spec, legacy)
          PROVE  TypeInv'
      <4>1. spec \in SpecFields
        BY SpecAssumption
      <4>2. [api[s] EXCEPT !.spec = EditV1alpha1(api[s], spec, legacy).spec,
                           !.notes = EditV1alpha1(api[s], spec, legacy).notes] \in Objects
        BY <2>0, <4>1, EditsType
      <4>3. wanted' \in [Names -> [defaultPeriodType : {"down", "up"}, legacy : {Unset, "kept"}]]
        BY <3>5 DEF UserEditsV1alpha1, TypeOK
      <4> QED
        BY <3>2, <3>5, <4>2, <4>3 DEF UserEditsV1alpha1, Stores, ChangesSpec
    <3>6. ASSUME NEW s \in Names, UserDeletes(s) PROVE TypeInv'
      <4>1. [api[s] EXCEPT !.deleting = TRUE] \in Objects /\ Gone \in Objects
        BY <2>0, Defaults, ObjectUpdates
      <4>2. UNCHANGED wanted
        BY <3>6 DEF UserDeletes
      <4> QED
        BY <3>2, <3>6, <4>1, <4>2 DEF UserDeletes, Deletes, TypeOK
    <3>7. ASSUME NEW v \in Vms, NEW state \in {"RUNNING", "TERMINATED"}, OwnerCalls(v, state)
          PROVE  TypeInv'
      <4>1. vm' \in [Vms -> Statuses] /\ Edit
        BY <3>7, CalledType DEF OwnerCalls, TypeOK
      <4>2. pass' \in Passes
        BY <2>0, <3>7 DEF OwnerCalls, Disturb, Passes
      <4> QED
        BY <3>1, <3>7, <4>1, <4>2
           DEF OwnerCalls, TypeOK, ControllerTypeOK, informer, sched, env, memory
    <3>8. ASSUME NEW t \in Times, ClockAdvances(t) PROVE TypeInv'
      <4>1. Edit
        BY <3>8 DEF ClockAdvances
      <4> QED
        BY <3>1, <3>8, <4>1
           DEF ClockAdvances, TypeOK, ControllerTypeOK, informer, sched, memory
    <3>9. ASSUME SecretChanges PROVE TypeInv'
      <4>1. secret' \in Versions /\ revision' \in Versions /\ revision' <= edits' + 1
        <5>1. Edit
          BY <3>9 DEF SecretChanges
        <5> QED
          BY <3>0, <3>1, <3>9, <5>1, ControllerAssumption DEF SecretChanges, TypeOK, Versions
      <4>2. Edit
        BY <3>9 DEF SecretChanges
      <4> QED
        BY <3>1, <3>9, <4>1, <4>2 DEF SecretChanges, TypeOK, ControllerTypeOK, informer, sched, memory
    <3> QED
      BY <2>16, <3>3, <3>4, <3>5, <3>6, <3>7, <3>8, <3>9 DEF Environment
  <2>17. CASE UNCHANGED vars
    BY <2>17 DEF TypeOK, ControllerTypeOK, vars, informer, sched, env, memory
  <2> QED
    BY <2>1, <2>2, <2>3, <2>6, <2>7, <2>8, <2>9, <2>10, <2>11, <2>12, <2>13, <2>14, <2>15,
       <2>16, <2>17 DEF Next, Handlers
<1> QED
  BY <1>1, <1>2, PTL DEF Spec

\* The chain, clients of every API version, rotations of the secret and operations
\* that fail late make nothing but well-formed objects, copies, clients and instances.
THEOREM TypeCorrect == Spec => []TypeOK
<1>1. TypeInv => TypeOK
  BY DEF TypeInv
<1> QED
  BY <1>1, TypeInvariant, PTL

----
(***************************************************************************)
(* The fields only one API version has.                                    *)
(***************************************************************************)
\* A step that gives users nothing to want, after which every object has the spec
\* and the notes it had, or does not exist.
LEMMA FieldsKept ==
    ASSUME VersionsKept, UNCHANGED wanted,
           \A s \in Names : \/ api'[s] = api[s]
                            \/ ~api'[s].exists
                            \/ /\ api[s].exists /\ api'[s].spec = api[s].spec
                               /\ api'[s].notes = api[s].notes
    PROVE  VersionsKept'
BY DEF VersionsKept

\* For any interleaving of edits by clients of the three API versions, of the
\* controller's patches and of deletions, no version's edit disturbs a field that
\* only another version shows: GcpToHub takes back from the notes what GcpFromHub
\* saved there.
THEOREM VersionsKeptSafe == Spec => []VersionsKept
<1>1. ASSUME Init PROVE VersionsKept
  BY <1>1, Defaults DEF Init, ControllerInit, VersionsKept
<1>2. ASSUME TypeOK, VersionsKept, [Next]_vars PROVE VersionsKept'
  <2> USE <1>2
  <2>0. /\ pass \in Passes /\ pass.name \in Names /\ api \in [Names -> Objects]
        /\ wanted \in [Names -> [defaultPeriodType : {"down", "up"}, legacy : {Unset, "kept"}]]
    BY DEF TypeOK, ControllerTypeOK, Passes
  <2>1. CASE UNCHANGED <<api, wanted>>
    BY <2>1 DEF VersionsKept
  <2>2. ASSUME NEW s \in Names, NEW o, NEW change, Write(s, o, change), UNCHANGED wanted,
               \/ ~o.exists
               \/ api[s].exists /\ o.spec = api[s].spec /\ o.notes = api[s].notes
        PROVE  VersionsKept'
    BY <2>0, <2>2, FieldsKept DEF Write
  <2>3. ASSUME FinalizerHandler PROVE VersionsKept'
    <3> DEFINE o == [api[pass.name] EXCEPT !.finalizer = TRUE]
    <3>1. o.spec = api[pass.name].spec /\ o.notes = api[pass.name].notes
      BY <2>0 DEF Objects
    <3>2. UNCHANGED wanted
      BY <2>3 DEF FinalizerHandler, env
    <3>3. CASE Write(pass.name, o, "finalizer") /\ CanWrite(pass.name)
      BY <2>0, <2>2, <3>1, <3>2, <3>3 DEF CanWrite, NotFound
    <3> QED
      BY <2>1, <2>3, <3>2, <3>3 DEF FinalizerHandler, AddFinalizer, FailedWrite, informer
  <2>4. ASSUME RemoveFinalizer PROVE VersionsKept'
    <3> DEFINE o == IF api[pass.name].deleting THEN Gone
                    ELSE [api[pass.name] EXCEPT !.finalizer = FALSE]
    <3>1. \/ ~o.exists
          \/ o.spec = api[pass.name].spec /\ o.notes = api[pass.name].notes
      <4>1. CASE api[pass.name].deleting
        BY <4>1, Defaults
      <4>2. CASE ~api[pass.name].deleting
        BY <2>0, <4>2 DEF Objects
      <4> QED
        BY <4>1, <4>2
    <3>2. UNCHANGED wanted
      BY <2>4 DEF RemoveFinalizer, env
    <3>3. CASE Write(pass.name, o, "finalizer") /\ CanWrite(pass.name)
      BY <2>0, <2>2, <3>1, <3>2, <3>3 DEF CanWrite, NotFound
    <3> QED
      BY <2>1, <2>4, <3>2, <3>3 DEF RemoveFinalizer, FailedWrite, informer
  <2>5. ASSUME UpdateStatus PROVE VersionsKept'
    <3> DEFINE o == [api[pass.name] EXCEPT !.status = pass.period]
    <3>1. o.spec = api[pass.name].spec /\ o.notes = api[pass.name].notes
      BY <2>0 DEF Objects
    <3>2. UNCHANGED wanted
      BY <2>5 DEF UpdateStatus, env
    <3>3. CASE Write(pass.name, o, "status") /\ CanWrite(pass.name)
      BY <2>0, <2>2, <3>1, <3>2, <3>3 DEF CanWrite, NotFound
    <3> QED
      BY <2>1, <2>5, <3>2, <3>3 DEF UpdateStatus, FailedWrite, informer
  <2>6. ASSUME NEW s \in Names, NEW spec \in Specs, UserCreates(s, spec) PROVE VersionsKept'
    <3> DEFINE o == [Gone EXCEPT !.exists = TRUE, !.spec = spec]
    <3>1. o.spec = spec /\ o.notes = NoNotes
      BY Defaults DEF Objects
    <3>2. /\ api' = [api EXCEPT ![s] = o]
          /\ wanted' = [wanted EXCEPT ![s] = [defaultPeriodType |-> spec.defaultPeriodType,
                                              legacy |-> Unset]]
      BY <2>6 DEF UserCreates, Creates, Write
    <3> HIDE DEF o
    <3> QED
      BY <2>0, <3>1, <3>2 DEF VersionsKept, NoNotes
  <2>7. ASSUME NEW s \in Names, NEW spec \in Specs, UserEditsSpec(s, spec) PROVE VersionsKept'
    <3> DEFINE e == EditHub(api[s], spec)
               o == [api[s] EXCEPT !.spec = e.spec, !.notes = e.notes]
    <3>1. e = [spec |-> spec, notes |-> api[s].notes]
      BY <2>0, HubEdit, SpecAssumption
    <3>2. o.spec = spec /\ o.notes = api[s].notes
      BY <2>0, <3>1 DEF Objects
    <3>3. /\ api[s].exists /\ api' = [api EXCEPT ![s] = o]
          /\ wanted' = [wanted EXCEPT ![s].defaultPeriodType = spec.defaultPeriodType]
      BY <2>7 DEF UserEditsSpec, Stores, ChangesSpec, Write
    <3> HIDE DEF o, e
    <3> QED
      BY <2>0, <3>2, <3>3 DEF VersionsKept
  <2>8. ASSUME NEW s \in Names, NEW spec \in OldSpecs, NEW legacy \in {Unset, "kept"},
               UserEditsV1alpha1(s, spec, legacy)
        PROVE  VersionsKept'
    <3> DEFINE e == EditV1alpha1(api[s], spec, legacy)
               o == [api[s] EXCEPT !.spec = e.spec, !.notes = e.notes]
    <3>1. e = [spec  |-> [spec EXCEPT !.defaultPeriodType = api[s].spec.defaultPeriodType],
               notes |-> [NoNotes EXCEPT !.excludeResources = legacy]]
      BY <2>0, OldEdit, SpecAssumption
    <3>2. /\ o.spec.defaultPeriodType = api[s].spec.defaultPeriodType
          /\ o.notes.excludeResources = legacy
      <4>1. o.spec = e.spec /\ o.notes = e.notes
        BY <2>0 DEF Objects
      <4>2. spec \in SpecFields
        BY SpecAssumption
      <4> HIDE DEF o, e
      <4> QED
        BY <3>1, <4>1, <4>2 DEF SpecFields, NoNotes
    <3>3. /\ api[s].exists /\ api' = [api EXCEPT ![s] = o]
          /\ wanted' = [wanted EXCEPT ![s].legacy = legacy]
      BY <2>8 DEF UserEditsV1alpha1, Stores, ChangesSpec, Write
    <3> HIDE DEF o, e
    <3> QED
      BY <2>0, <3>2, <3>3 DEF VersionsKept
  <2>9. ASSUME NEW s \in Names, UserDeletes(s) PROVE VersionsKept'
    <3> DEFINE o == [api[s] EXCEPT !.deleting = TRUE]
    <3>1. o.spec = api[s].spec /\ o.notes = api[s].notes
      BY <2>0 DEF Objects
    <3> QED
      BY <2>2, <2>9, <3>1, Defaults DEF UserDeletes, Deletes
  <2> QED
    BY <2>1, <2>3, <2>4, <2>5, <2>6, <2>7, <2>8, <2>9
       DEF Next, Handlers, Environment, Sync, Deliver, TimerFires, Fetch, AuthHandler,
           PeriodHandler, ListInstances, ApplyInstanceState, AllProcessed, VmSettles, Restart,
           Relist, OwnerCalls, ClockAdvances, SecretChanges, vars, informer, env
<1> QED
  BY <1>1, <1>2, TypeCorrect, PTL DEF Spec

----
(***************************************************************************)
(* The client cache.                                                       *)
(***************************************************************************)
\* Every client the cache owns is open, and the running pass has one of them.
ClientInv ==
    /\ \A k \in Keys : clients[k] # None => <<k, clients[k]>> \in open
    /\ ClientUsable

\* After GetOrBuild the entry of the key is an open client of the version.
LEMMA GetOrBuilt ==
    ASSUME TypeOK, ClientInv, NEW key \in Keys, NEW version \in Versions,
           GetOrBuild(key, version)
    PROVE  /\ clients'[key] = version /\ <<key, version>> \in open'
           /\ \A k \in Keys : clients'[k] # None => <<k, clients'[k]>> \in open'
<1>0. clients \in [Keys -> Versions \cup {None}] /\ version # None
  BY ControllerAssumption DEF TypeOK, Versions, None
<1>1. CASE Cached(key, version) /\ UNCHANGED memory
  BY <1>0, <1>1 DEF Cached, memory, ClientInv
<1>2. CASE Replace(key, version)
  BY <1>0, <1>2 DEF Replace, ClientInv
<1> QED
  BY <1>1, <1>2 DEF GetOrBuild

\* ClientInv is inductive: only AuthHandler replaces an entry, when no pass has one
\* of its clients.
LEMMA ClientInvariant == Spec => []ClientInv
<1>1. ASSUME Init PROVE ClientInv
  BY <1>1 DEF Init, ClientInv, ClientUsable
<1>2. ASSUME TypeOK, ClientInv, [Next]_vars PROVE ClientInv'
  <2> USE <1>2
  <2>0. pass \in Passes
    BY DEF TypeOK
  <2>1. ASSUME UNCHANGED memory,
               \/ pc' \in {"idle", "finalizer", "auth"}
               \/ /\ pc \in {"period", "list", "scale", "status"}
                  /\ pass'.key = pass.key /\ pass'.version = pass.version
        PROVE  ClientInv'
    BY <2>1 DEF ClientInv, ClientUsable, memory
  <2>2. ASSUME AuthHandler PROVE ClientInv'
    <3> DEFINE key == KeyOf(pass.copy.spec)
               version == VersionOf(pass.copy.spec)
    <3>1. key \in Keys /\ version \in Versions
      BY ControllerAssumption DEF KeyOf, VersionOf, Keys, Versions, TypeOK
    <3> HIDE DEF key, version
    <3>2. CASE GetOrBuild(key, version)
               /\ pass' = [pass EXCEPT !.key = key, !.version = version]
      <4>1. pass'.key = key /\ pass'.version = version
        BY <2>0, <3>2 DEF Passes
      <4> QED
        BY <3>1, <3>2, <4>1, GetOrBuilt DEF ClientInv, ClientUsable
    <3>3. CASE UNCHANGED memory /\ pc' = "idle"
      BY <2>1, <3>3
    <3> QED
      BY <2>2, <3>2, <3>3 DEF AuthHandler, Finish, key, version
  <2>3. ASSUME PeriodHandler PROVE ClientInv'
    BY <2>0, <2>1, <2>3 DEF PeriodHandler, Finish, Proceed, Passes
  <2>4. ASSUME ListInstances PROVE ClientInv'
    BY <2>0, <2>1, <2>4 DEF ListInstances, Proceed, Passes
  <2>5. ASSUME NEW v \in Vms, ApplyInstanceState(v) PROVE ClientInv'
    <3>1. pass'.key = pass.key /\ pass'.version = pass.version
      BY <2>0, <2>5 DEF ApplyInstanceState, Passes
    <3> QED
      BY <2>1, <2>5, <3>1 DEF ApplyInstanceState
  <2>6. ASSUME NEW v \in Vms, Disturb(v) \/ UNCHANGED pass, UNCHANGED <<pc, memory>>
        PROVE  ClientInv'
    <3>1. pass'.key = pass.key /\ pass'.version = pass.version
      BY <2>0, <2>6 DEF Disturb, Passes
    <3> QED
      BY <2>1, <2>6, <3>1 DEF TypeOK
  <2>7. ASSUME Restart PROVE ClientInv'
    BY <2>7 DEF Restart, ClientInv, ClientUsable
  <2>8. ASSUME FinalizerHandler \/ RemoveFinalizer \/ UpdateStatus PROVE ClientInv'
    BY <2>1, <2>8 DEF FinalizerHandler, AddFinalizer, RemoveFinalizer, UpdateStatus, Finish,
                      Proceed
  <2>9. CASE UNCHANGED <<pc, pass, memory>>
    BY <2>9 DEF ClientInv, ClientUsable, memory
  <2>10. ASSUME NEW s \in Names, Fetch(s) PROVE ClientInv'
    BY <2>1, <2>10 DEF Fetch
  <2>11. ASSUME NEW v \in Vms, VmSettles(v) PROVE ClientInv'
    BY <2>6, <2>11 DEF VmSettles
  <2>12. ASSUME NEW v \in Vms, NEW state, OwnerCalls(v, state) PROVE ClientInv'
    BY <2>6, <2>12 DEF OwnerCalls
  <2>13. CASE AllProcessed
    BY <2>1, <2>13 DEF AllProcessed, Proceed
  <2> QED
    BY <2>2, <2>3, <2>4, <2>5, <2>7, <2>8, <2>9, <2>10, <2>11, <2>12, <2>13
       DEF Next, Handlers, Environment, Sync, TimerFires, UserCreates, UserEditsSpec,
           UserEditsV1alpha1, UserDeletes, ClockAdvances, SecretChanges, Outside, vars
<1> QED
  BY <1>1, <1>2, TypeCorrect, PTL DEF Spec

\* The client a pass works with stays the open one the cache holds, built from the
\* version the pass read, whatever the secret does and whatever Close answers.
THEOREM ClientUsableSafe == Spec => []ClientUsable
<1>1. ClientInv => ClientUsable
  BY DEF ClientInv
<1> QED
  BY <1>1, ClientInvariant, PTL

\* The keys whose client the cache owns.
Held == {k \in Keys : clients[k] # None}

\* Removing a client and adding another: by how much the open ones may grow.
LEMMA SwapBound ==
    ASSUME NEW S, IsFiniteSet(S), NEW x, NEW y
    PROVE  /\ IsFiniteSet((S \ {x}) \cup {y})
           /\ Cardinality((S \ {x}) \cup {y}) <= Cardinality(S) + 1
           /\ x \in S => Cardinality((S \ {x}) \cup {y}) <= Cardinality(S)
           /\ IsFiniteSet(S \cup {y}) /\ Cardinality(S \cup {y}) <= Cardinality(S) + 1
<1> DEFINE R == S \ {x}
<1>1. /\ IsFiniteSet(R) /\ Cardinality(S) \in Nat /\ Cardinality(R) \in Nat
      /\ Cardinality(R) = IF x \in S THEN Cardinality(S) - 1 ELSE Cardinality(S)
  BY FS_RemoveElement, FS_CardinalityType
<1>2. /\ IsFiniteSet(R \cup {y})
      /\ Cardinality(R \cup {y}) = IF y \in R THEN Cardinality(R) ELSE Cardinality(R) + 1
  BY <1>1, FS_AddElement
<1>3. /\ IsFiniteSet(S \cup {y})
      /\ Cardinality(S \cup {y}) = IF y \in S THEN Cardinality(S) ELSE Cardinality(S) + 1
  BY FS_AddElement
<1> HIDE DEF R
<1>4. Cardinality(R \cup {y}) <= Cardinality(S) + 1
      /\ (x \in S => Cardinality(R \cup {y}) <= Cardinality(S))
  BY <1>1, <1>2
<1>5. Cardinality(S \cup {y}) <= Cardinality(S) + 1
  BY <1>1, <1>3
<1> QED
  BY <1>2, <1>3, <1>4, <1>5 DEF R

\* ClientsBounded, and what counting needs.
BoundInv == IsFiniteSet(open) /\ ClientsBounded

\* A rotation opens one client for one it closes, but for the calls of Close that
\* fail: however long it goes on, connections do not accumulate.
THEOREM ClientsBoundedSafe == Spec => []ClientsBounded
<1>0. \A S \in SUBSET Keys : IsFiniteSet(S) /\ Cardinality(S) \in Nat
  <2>1. IsFiniteSet(Keys)
    <3>1. IsFiniteSet({} \cup {"adc"})
      BY FS_EmptySet, FS_AddElement
    <3>2. IsFiniteSet(({} \cup {"adc"}) \cup {"secret"})
      BY <3>1, FS_AddElement
    <3>3. Keys = ({} \cup {"adc"}) \cup {"secret"}
      BY DEF Keys
    <3> QED
      BY <3>2, <3>3
  <2> QED
    BY <2>1, FS_Subset, FS_CardinalityType
<1>1. ASSUME Init PROVE BoundInv
  <2>1. open = {} /\ faults = 0 /\ IsFiniteSet(open) /\ Cardinality(open) = 0
    BY <1>1, FS_EmptySet DEF Init, ControllerInit
  <2>2. Cardinality(Held) \in Nat
    BY <1>0 DEF Held
  <2> QED
    BY <2>1, <2>2 DEF BoundInv, ClientsBounded, Held
<1>2. ASSUME TypeOK, ClientInv, BoundInv, [Next]_vars PROVE BoundInv'
  <2> USE <1>2
  <2>0. /\ faults \in Nat /\ clients \in [Keys -> Versions \cup {None}]
        /\ open \in SUBSET (Keys \X Versions)
        /\ IsFiniteSet(open) /\ Cardinality(open) \in Nat
        /\ Cardinality(Held) \in Nat /\ Cardinality(open) <= Cardinality(Held) + faults
    BY <1>0, FS_CardinalityType, ControllerAssumption
       DEF TypeOK, ControllerTypeOK, BoundInv, ClientsBounded, Held
  <2>1. ASSUME UNCHANGED memory, Fault \/ UNCHANGED faults PROVE BoundInv'
    <3>1. faults' \in Nat /\ faults' >= faults
      BY <2>0, <2>1 DEF Fault
    <3>2. Held' = Held /\ open' = open
      BY <2>1 DEF Held, memory
    <3> QED
      BY <2>0, <3>1, <3>2 DEF BoundInv, ClientsBounded, Held
  <2>2. ASSUME NEW key \in Keys, NEW version \in Versions, Replace(key, version)
        PROVE  BoundInv'
    <3> DEFINE old == <<key, clients[key]>>
               new == <<key, version>>
    <3>1. version # None /\ clients' = [clients EXCEPT ![key] = version]
      BY <2>2, ControllerAssumption DEF Replace, Versions, None
    <3>2. Held' = Held \cup {key}
      BY <2>0, <3>1 DEF Held
    <3>3. /\ Cardinality(Held') \in Nat
          /\ Cardinality(Held') = IF key \in Held THEN Cardinality(Held)
                                  ELSE Cardinality(Held) + 1
      BY <1>0, <3>2, FS_AddElement, FS_CardinalityType DEF Held
    <3>4. key \in Held => old \in open
      BY DEF ClientInv, Held
    <3>5. CASE open' = (open \ {old}) \cup {new} /\ UNCHANGED faults
      <4>1. /\ IsFiniteSet(open') /\ Cardinality(open') <= Cardinality(open) + 1
            /\ old \in open => Cardinality(open') <= Cardinality(open)
        BY <2>0, <3>5, SwapBound
      <4>2. Cardinality(open') \in Nat
        BY <4>1, FS_CardinalityType
      <4>3. Cardinality(open') <= Cardinality(Held') + faults'
        BY <2>0, <3>3, <3>4, <3>5, <4>1, <4>2
      <4> QED
        BY <4>1, <4>3 DEF BoundInv, ClientsBounded, Held
    <3>6. CASE clients[key] # None /\ Fault /\ open' = open \cup {new}
      <4>1. IsFiniteSet(open') /\ Cardinality(open') <= Cardinality(open) + 1
        BY <2>0, <3>6, SwapBound
      <4>2. Cardinality(open') \in Nat /\ key \in Held /\ faults' = faults + 1
        BY <3>6, <4>1, FS_CardinalityType DEF Held, Fault
      <4>3. Cardinality(open') <= Cardinality(Held') + faults'
        BY <2>0, <3>3, <4>1, <4>2
      <4> QED
        BY <4>1, <4>3 DEF BoundInv, ClientsBounded, Held
    <3> QED
      BY <2>2, <3>5, <3>6 DEF Replace
  <2>3. ASSUME AuthHandler PROVE BoundInv'
    <3>1. /\ KeyOf(pass.copy.spec) \in Keys /\ VersionOf(pass.copy.spec) \in Versions
      BY ControllerAssumption DEF KeyOf, VersionOf, Keys, Versions, TypeOK
    <3> QED
      BY <2>1, <2>2, <2>3, <3>1 DEF AuthHandler, GetOrBuild
  <2>4. ASSUME Restart PROVE BoundInv'
    <3>1. /\ open' = {} /\ IsFiniteSet(open') /\ Cardinality(open') = 0
          /\ faults' \in Nat
      BY <2>0, <2>4, FS_EmptySet DEF Restart, Relist, Fault
    <3>2. Cardinality(Held') \in Nat
      BY <1>0 DEF Held
    <3> QED
      BY <3>1, <3>2 DEF BoundInv, ClientsBounded, Held
  <2>5. ASSUME FinalizerHandler \/ RemoveFinalizer \/ UpdateStatus PROVE BoundInv'
    BY <2>1, <2>5 DEF FinalizerHandler, AddFinalizer, RemoveFinalizer, UpdateStatus, FailedWrite
  <2>6. ASSUME NEW s \in Names, Sync(s) \/ TimerFires(s) \/ Fetch(s) PROVE BoundInv'
    BY <2>1, <2>6 DEF Sync, TimerFires, Fetch
  <2>7. ASSUME NEW v \in Vms, ApplyInstanceState(v) \/ VmSettles(v) PROVE BoundInv'
    BY <2>1, <2>7 DEF ApplyInstanceState, VmSettles
  <2>8. CASE PeriodHandler \/ ListInstances \/ AllProcessed \/ Environment \/ UNCHANGED vars
    <3>1. UNCHANGED memory /\ (Fault \/ UNCHANGED faults)
      BY <2>8 DEF PeriodHandler, ListInstances, AllProcessed, Environment, UserCreates,
                  UserEditsSpec, UserEditsV1alpha1, UserDeletes, OwnerCalls, ClockAdvances,
                  SecretChanges, Outside, vars
    <3> QED
      BY <2>1, <3>1
  <2> QED
    BY <2>3, <2>4, <2>5, <2>6, <2>7, <2>8 DEF Next, Handlers
<1>3. BoundInv => ClientsBounded
  BY DEF BoundInv
<1> QED
  BY <1>1, <1>2, <1>3, TypeCorrect, ClientInvariant, PTL DEF Spec

----
(***************************************************************************)
(* The finalizer.                                                          *)
(***************************************************************************)
\* Objects on their way out are the ones with a finalizer, on the server and in
\* every copy, and a cache that is up to date holds the server's object.
WellFormed(o) == (o.deleting => o.finalizer) /\ (o.finalizer => o.exists)
Copies ==
    /\ \A s \in Names : WellFormed(api[s]) /\ WellFormed(cache[s])
    /\ \A s \in Names : fresh[s] => cache[s] = api[s]
    /\ WellFormed(pass.copy)

\* What the informer last saw of the finalizer is still so: nothing takes it
\* away but a finalizing pass, and nothing gives one to the next object of the
\* same name but a pass whose cache is up to date.
Lineage ==
    \A s \in Names :
        /\ cache[s].finalizer /\ ~cache[s].deleting => api[s].finalizer
        /\ cache[s].deleting /\ api[s].finalizer => api[s].deleting

\* The same of the object the running pass is about.
PassLineage ==
    pc # "idle" =>
        /\ ~pass.copy.deleting /\ (cache[pass.name].finalizer \/ pass.copy.finalizer)
               => api[pass.name].finalizer
        /\ pass.copy.deleting /\ api[pass.name].finalizer => api[pass.name].deleting
        /\ pc = "finalizer" => ~pass.shouldFinalize
        /\ pc # "finalizer" => (pass.shouldFinalize <=> pass.copy.deleting)

FinalizerInv == Copies /\ Lineage /\ PassLineage /\ HoldsUnderFinalizer

\* A step that leaves the objects alone, and ends the pass or moves it forward.
PassMovesOn ==
    /\ pc \notin {"idle", "finalizer"} /\ pc' \notin {"idle", "finalizer"}
    /\ pass'.name = pass.name /\ pass'.copy = pass.copy
    /\ pass'.shouldFinalize = pass.shouldFinalize

LEMMA ObjectsUntouched ==
    ASSUME TypeOK, FinalizerInv, UNCHANGED <<api, cache, fresh>>,
           (pc' = "idle" /\ pass' = IdlePass) \/ PassMovesOn \/ UNCHANGED <<pc, pass>>
    PROVE  FinalizerInv'
<1>1. Copies' /\ Lineage'
  BY Defaults DEF FinalizerInv, Copies, Lineage, WellFormed, PassMovesOn
<1>2. PassLineage' /\ HoldsUnderFinalizer'
  BY DEF FinalizerInv, PassLineage, HoldsUnderFinalizer, PassMovesOn
<1> QED
  BY <1>1, <1>2 DEF FinalizerInv

\* A pass that ends with a write to its own object.
LEMMA PassEndsWithWrite ==
    ASSUME TypeOK, FinalizerInv, NEW requeue, NEW change,
           Finish(requeue), NEW s \in Names, fresh[s],
           NEW o \in Objects, Write(s, o, change), WellFormed(o),
           cache[s].finalizer /\ ~cache[s].deleting => o.finalizer,
           cache[s].deleting /\ o.finalizer => o.deleting
    PROVE  FinalizerInv'
<1>1. api \in [Names -> Objects] /\ fresh \in [Names -> BOOLEAN]
  BY DEF TypeOK, ControllerTypeOK
<1>2. Copies' /\ Lineage'
  BY <1>1, Defaults DEF FinalizerInv, Copies, Lineage, Write, Finish, WellFormed
<1>3. PassLineage' /\ HoldsUnderFinalizer'
  BY DEF Finish, PassLineage, HoldsUnderFinalizer
<1> QED
  BY <1>2, <1>3 DEF FinalizerInv

\* What a user does to an object, whatever the informer and the running pass have
\* seen of it.
LEMMA UserWrites ==
    ASSUME TypeOK, FinalizerInv, UNCHANGED <<pc, pass>>,
           NEW s \in Names, NEW o \in Objects, NEW change, Write(s, o, change), WellFormed(o),
           o.finalizer = api[s].finalizer, api[s].deleting => o.deleting
    PROVE  FinalizerInv'
<1>1. api \in [Names -> Objects] /\ fresh \in [Names -> BOOLEAN] /\ pass.name \in Names
  BY DEF TypeOK, ControllerTypeOK, Passes
<1>2. /\ api' \in [Names -> Objects] /\ api'[s] = o
      /\ \A t \in Names \ {s} : api'[t] = api[t] /\ fresh'[t] = fresh[t]
      /\ fresh'[s] = FALSE /\ UNCHANGED cache
  BY <1>1 DEF Write
<1>3. Copies' /\ Lineage'
  BY <1>2 DEF FinalizerInv, Copies, Lineage, WellFormed
<1>4. \A t \in Names : /\ api'[t].finalizer = api[t].finalizer
                       /\ api[t].deleting => api'[t].deleting
                       /\ api'[t].finalizer => api'[t].exists
  BY <1>2, <1>3 DEF Copies, WellFormed
<1>5. PassLineage'
  BY <1>1, <1>2, <1>4 DEF FinalizerInv, PassLineage
<1>6. HoldsUnderFinalizer'
  BY <1>1, <1>4 DEF FinalizerInv, HoldsUnderFinalizer
<1> QED
  BY <1>3, <1>5, <1>6 DEF FinalizerInv

\* FinalizerInv is inductive: a finalizer that a copy shows can only have been
\* taken away by a finalizing pass, whose patch needs an up-to-date cache.
LEMMA FinalizerInvariant == Spec => []FinalizerInv
<1>1. ASSUME Init PROVE FinalizerInv
  BY <1>1, Defaults DEF Init, ControllerInit, FinalizerInv, Copies, Lineage, PassLineage, WellFormed,
                        HoldsUnderFinalizer
<1>2. ASSUME TypeOK, FinalizerInv, [Next]_vars PROVE FinalizerInv'
  <2> USE <1>2
  <2>0. /\ pass.name \in Names /\ pass \in Passes
        /\ api \in [Names -> Objects] /\ cache \in [Names -> Objects]
        /\ fresh \in [Names -> BOOLEAN]
    BY DEF TypeOK, ControllerTypeOK, Passes
  <2>1. ASSUME NEW s \in Names, Sync(s) PROVE FinalizerInv'
    <3>1. /\ UNCHANGED <<api, pc, pass>>
          /\ cache'[s] = api[s] /\ \A t \in Names \ {s} : cache'[t] = cache[t]
          /\ \A t \in Names \ {s} : fresh'[t] = fresh[t]
      BY <2>0, <2>1 DEF Sync, Deliver
    <3>2. Copies' /\ Lineage'
      BY <3>1 DEF FinalizerInv, Copies, Lineage, WellFormed
    <3>3. PassLineage' /\ HoldsUnderFinalizer'
      BY <2>0, <3>1 DEF FinalizerInv, PassLineage, HoldsUnderFinalizer
    <3> QED
      BY <3>2, <3>3 DEF FinalizerInv
  <2>2. ASSUME NEW s \in Names, TimerFires(s) PROVE FinalizerInv'
    BY <2>2, ObjectsUntouched DEF TimerFires, informer
  <2>3. ASSUME NEW s \in Names, Fetch(s) PROVE FinalizerInv'
    <3>1. UNCHANGED <<api, cache, fresh>>
      BY <2>3 DEF Fetch, informer
    <3>2. CASE UNCHANGED <<pc, pass>>
      BY <3>1, <3>2, ObjectsUntouched
    <3>3. CASE pc' = "finalizer" /\ pass' = [IdlePass EXCEPT !.name = s, !.copy = cache[s]]
      <4>1. pass'.name = s /\ pass'.copy = cache[s] /\ pass'.shouldFinalize = FALSE
        BY <3>3, Defaults DEF Passes
      <4>2. Copies' /\ Lineage'
        BY <3>1, <4>1 DEF FinalizerInv, Copies, Lineage, WellFormed
      <4>3. PassLineage' /\ HoldsUnderFinalizer'
        BY <3>1, <3>3, <4>1 DEF FinalizerInv, Lineage, PassLineage, HoldsUnderFinalizer
      <4> QED
        BY <4>2, <4>3 DEF FinalizerInv
    <3> QED
      BY <2>3, <3>2, <3>3 DEF Fetch
  <2>4. ASSUME FinalizerHandler PROVE FinalizerInv'
    <3>1. CASE UNCHANGED informer /\ (Finish(FALSE) \/ Finish(TRUE))
      BY <3>1, ObjectsUntouched DEF informer, Finish
    <3>2. CASE /\ UNCHANGED <<informer, pass>> /\ Proceed("auth") /\ ~pass.copy.deleting
               /\ pass.copy.finalizer \/ cache[pass.name].finalizer
      <4>1. api[pass.name].finalizer /\ api[pass.name].exists /\ ~pass.shouldFinalize
        BY <2>0, <2>4, <3>2 DEF FinalizerHandler, FinalizerInv, PassLineage, Copies, WellFormed
      <4>2. Copies' /\ Lineage'
        BY <3>2 DEF informer, FinalizerInv, Copies, Lineage, WellFormed
      <4>3. PassLineage' /\ HoldsUnderFinalizer'
        BY <4>1, <2>4, <3>2 DEF FinalizerHandler, informer, Proceed, PassLineage, HoldsUnderFinalizer
      <4> QED
        BY <4>2, <4>3 DEF FinalizerInv
    <3>3. CASE /\ UNCHANGED informer /\ Proceed("auth") /\ pass.copy.deleting
               /\ pass' = [pass EXCEPT !.shouldFinalize = TRUE]
      <4>1. pass'.name = pass.name /\ pass'.copy = pass.copy /\ pass'.shouldFinalize = TRUE
        BY <2>0, <3>3 DEF Passes
      <4>2. Copies' /\ Lineage'
        BY <3>3, <4>1 DEF informer, FinalizerInv, Copies, Lineage, WellFormed
      <4>3. PassLineage' /\ HoldsUnderFinalizer'
        BY <4>1, <2>4, <3>3 DEF FinalizerHandler, informer, Proceed, FinalizerInv, PassLineage,
                                HoldsUnderFinalizer
      <4> QED
        BY <4>2, <4>3 DEF FinalizerInv
    <3>4. CASE /\ CanWrite(pass.name) /\ ~cache[pass.name].finalizer /\ ~pass.copy.deleting
               /\ Write(pass.name, [api[pass.name] EXCEPT !.finalizer = TRUE], "finalizer")
               /\ Proceed("auth") /\ UNCHANGED pass
      <4>1. /\ cache[pass.name] = api[pass.name] /\ api[pass.name].exists
            /\ ~api[pass.name].deleting
        BY <2>0, <3>4 DEF CanWrite, NotFound, FinalizerInv, Copies, WellFormed
      <4>2. /\ api'[pass.name].finalizer /\ api'[pass.name].exists
            /\ ~api'[pass.name].deleting
            /\ \A t \in Names \ {pass.name} : api'[t] = api[t] /\ fresh'[t] = fresh[t]
            /\ fresh'[pass.name] = FALSE
        BY <2>0, <3>4, <4>1 DEF Write, Objects
      <4>3. Copies' /\ Lineage'
        BY <3>4, <4>1, <4>2 DEF Write, FinalizerInv, Copies, Lineage, WellFormed
      <4>4. PassLineage' /\ HoldsUnderFinalizer'
        BY <2>4, <3>4, <4>2 DEF FinalizerHandler, Write, Proceed, FinalizerInv, PassLineage,
                                HoldsUnderFinalizer
      <4> QED
        BY <4>3, <4>4 DEF FinalizerInv
    <3>5. CASE /\ CanWrite(pass.name) /\ ~cache[pass.name].finalizer /\ ~pass.copy.deleting
               /\ Write(pass.name, [api[pass.name] EXCEPT !.finalizer = TRUE], "finalizer")
               /\ Finish(TRUE)
      <4> DEFINE o == [api[pass.name] EXCEPT !.finalizer = TRUE]
      <4>1. o \in Objects
        BY <2>0, ObjectUpdates
      <4>2. o.exists = api[pass.name].exists /\ o.deleting = api[pass.name].deleting
            /\ o.finalizer
        BY <2>0 DEF Objects
      <4>3. /\ cache[pass.name] = api[pass.name] /\ api[pass.name].exists
            /\ ~api[pass.name].deleting /\ fresh[pass.name]
        BY <2>0, <3>5 DEF CanWrite, NotFound, FinalizerInv, Copies, WellFormed
      <4>4. WellFormed(o)
        BY <4>2, <4>3 DEF WellFormed
      <4> HIDE DEF o
      <4> QED
        BY <2>0, <3>5, <4>1, <4>2, <4>3, <4>4, PassEndsWithWrite DEF o
    <3> QED
      BY <2>4, <3>1, <3>2, <3>3, <3>4, <3>5 DEF FinalizerHandler, AddFinalizer, FailedWrite
  <2>5. ASSUME AuthHandler \/ PeriodHandler PROVE FinalizerInv'
    <3>1. CASE PassMovesOn
      BY <2>5, <3>1, ObjectsUntouched DEF AuthHandler, PeriodHandler, informer
    <3>2. CASE pc' = "idle" /\ pass' = IdlePass
      BY <2>5, <3>2, ObjectsUntouched DEF AuthHandler, PeriodHandler, informer
    <3>3. AuthHandler => PassMovesOn \/ (pc' = "idle" /\ pass' = IdlePass)
      BY <2>0 DEF AuthHandler, PassMovesOn, Finish, Proceed, Passes
    <3>4. PeriodHandler => PassMovesOn \/ (pc' = "idle" /\ pass' = IdlePass)
      BY <2>0 DEF PeriodHandler, PassMovesOn, Finish, Proceed, Passes
    <3> QED
      BY <2>5, <3>1, <3>2, <3>3, <3>4
  <2>6. ASSUME ListInstances PROVE FinalizerInv'
    <3>1. PassMovesOn
      BY <2>0, <2>6 DEF ListInstances, PassMovesOn, Proceed, Passes
    <3> QED
      BY <2>6, <3>1, ObjectsUntouched DEF ListInstances, informer
  <2>7. ASSUME NEW v \in Vms, ApplyInstanceState(v) PROVE FinalizerInv'
    <3>1. PassMovesOn
      BY <2>0, <2>7 DEF ApplyInstanceState, PassMovesOn, Passes
    <3> QED
      BY <2>7, <3>1, ObjectsUntouched DEF ApplyInstanceState, informer
  <2>8. ASSUME NEW v \in Vms, Disturb(v) \/ UNCHANGED pass, UNCHANGED <<informer, pc>>
        PROVE  FinalizerInv'
    <3>1. pass'.name = pass.name /\ pass'.copy = pass.copy
          /\ pass'.shouldFinalize = pass.shouldFinalize /\ UNCHANGED <<api, cache, fresh>>
      BY <2>0, <2>8 DEF Disturb, Passes, informer
    <3> QED
      BY <2>8, <3>1 DEF FinalizerInv, Copies, Lineage, PassLineage, HoldsUnderFinalizer
  <2>9. ASSUME NEW v \in Vms, VmSettles(v) PROVE FinalizerInv'
    BY <2>8, <2>9 DEF VmSettles
  <2>10. ASSUME AllProcessed PROVE FinalizerInv'
    BY <2>10, ObjectsUntouched DEF AllProcessed, informer, PassMovesOn, Proceed
  <2>11. ASSUME RemoveFinalizer PROVE FinalizerInv'
    <3>1. CASE UNCHANGED informer /\ (Finish(FALSE) \/ Finish(TRUE))
      BY <3>1, ObjectsUntouched DEF informer, Finish
    <3>2. CASE /\ CanWrite(pass.name) /\ cache[pass.name].finalizer
               /\ Write(pass.name,
                        IF api[pass.name].deleting THEN Gone
                        ELSE [api[pass.name] EXCEPT !.finalizer = FALSE], "finalizer")
               /\ (Finish(FALSE) \/ Finish(TRUE))
      <4>1. cache[pass.name] = api[pass.name] /\ api[pass.name].finalizer
        BY <2>0, <3>2 DEF CanWrite, FinalizerInv, Copies
      <4>2. api[pass.name].deleting
        BY <4>1, <2>11 DEF RemoveFinalizer, FinalizerInv, PassLineage
      <4> QED
        BY <2>0, <3>2, <4>1, <4>2, Defaults, PassEndsWithWrite DEF CanWrite, WellFormed
    <3> QED
      BY <2>11, <3>1, <3>2 DEF RemoveFinalizer, FailedWrite
  <2>12. ASSUME UpdateStatus PROVE FinalizerInv'
    <3>1. CASE UNCHANGED informer /\ (Finish(FALSE) \/ Finish(TRUE))
      BY <3>1, ObjectsUntouched DEF informer, Finish
    <3>2. CASE /\ CanWrite(pass.name)
               /\ Write(pass.name, [api[pass.name] EXCEPT !.status = pass.period], "status")
               /\ Finish(TRUE)
      <4> DEFINE o == [api[pass.name] EXCEPT !.status = pass.period]
      <4>1. o \in Objects
        BY <2>0, ObjectUpdates DEF Passes
      <4>2. /\ o.exists = api[pass.name].exists /\ o.deleting = api[pass.name].deleting
            /\ o.finalizer = api[pass.name].finalizer
        BY <2>0 DEF Objects
      <4>3. WellFormed(o) /\ fresh[pass.name] /\ cache[pass.name] = api[pass.name]
        BY <2>0, <3>2, <4>2 DEF FinalizerInv, Copies, WellFormed, CanWrite
      <4> HIDE DEF o
      <4> QED
        BY <2>0, <3>2, <4>1, <4>2, <4>3, PassEndsWithWrite DEF o
    <3> QED
      BY <2>12, <3>1, <3>2 DEF UpdateStatus, FailedWrite
  <2>13. ASSUME Restart PROVE FinalizerInv'
    BY <2>0, <2>13, Defaults DEF Restart, Relist, FinalizerInv, Copies, Lineage, PassLineage,
                                 HoldsUnderFinalizer, WellFormed
  <2>14. ASSUME NEW s \in Names, NEW spec \in Specs, UserCreates(s, spec) PROVE FinalizerInv'
    <3> DEFINE o == [Gone EXCEPT !.exists = TRUE, !.spec = spec]
    <3>0. spec \in SpecFields
      BY SpecAssumption
    <3>1. o \in Objects /\ o.finalizer = FALSE /\ o.deleting = FALSE
      BY <3>0, Defaults DEF Objects
    <3>2. api[s].finalizer = FALSE /\ ~api[s].deleting
      BY <2>0, <2>14 DEF UserCreates, Creates, FinalizerInv, Copies, WellFormed, Objects
    <3>3. WellFormed(o)
      BY <3>1 DEF WellFormed
    <3> HIDE DEF o
    <3> QED
      BY <2>14, <3>1, <3>2, <3>3, UserWrites DEF UserCreates, Creates, Outside, o
  <2>15. ASSUME NEW s \in Names, UserDeletes(s) PROVE FinalizerInv'
    <3>1. CASE api[s].finalizer
      <4> DEFINE o == [api[s] EXCEPT !.deleting = TRUE]
      <4>1. o \in Objects
        BY <2>0, ObjectUpdates
      <4>2. o.finalizer = api[s].finalizer /\ o.deleting /\ WellFormed(o)
        BY <2>0, <2>15, <3>1 DEF UserDeletes, Deletes, Objects, WellFormed
      <4> HIDE DEF o
      <4> QED
        BY <2>15, <3>1, <4>1, <4>2, UserWrites DEF UserDeletes, Deletes, Outside, o
    <3>2. CASE ~api[s].finalizer
      <4>1. Gone \in Objects /\ Gone.finalizer = api[s].finalizer /\ WellFormed(Gone)
        BY <2>0, <3>2, Defaults DEF WellFormed, Objects
      <4> QED
        BY <2>15, <3>2, <4>1, UserWrites DEF UserDeletes, Deletes, Outside
    <3> QED
      BY <3>1, <3>2
  <2>16. ASSUME NEW s \in Names, NEW e, Stores(s, e), UNCHANGED Outside,
                [api[s] EXCEPT !.spec = e.spec, !.notes = e.notes] \in Objects
         PROVE  FinalizerInv'
    <3> DEFINE o == [api[s] EXCEPT !.spec = e.spec, !.notes = e.notes]
    <3>1. /\ o.finalizer = api[s].finalizer /\ o.deleting = api[s].deleting
          /\ o.exists = api[s].exists
      BY <2>0 DEF Objects
    <3>2. WellFormed(o)
      BY <3>1 DEF FinalizerInv, Copies, WellFormed
    <3> HIDE DEF o
    <3> QED
      BY <2>16, <3>1, <3>2, UserWrites DEF Stores, ChangesSpec, Outside, o
  <2>17. ASSUME NEW s \in Names, NEW spec \in Specs, UserEditsSpec(s, spec) PROVE FinalizerInv'
    BY <2>0, <2>16, <2>17, EditsType, SpecAssumption DEF UserEditsSpec
  <2>18. ASSUME NEW s \in Names, NEW spec \in OldSpecs, NEW legacy \in {Unset, "kept"},
                UserEditsV1alpha1(s, spec, legacy)
         PROVE  FinalizerInv'
    BY <2>0, <2>16, <2>18, EditsType, SpecAssumption DEF UserEditsV1alpha1
  <2>19. ASSUME NEW v \in Vms, NEW state, OwnerCalls(v, state) PROVE FinalizerInv'
    BY <2>8, <2>19 DEF OwnerCalls
  <2>20. CASE (\E t \in Times : ClockAdvances(t)) \/ SecretChanges \/ UNCHANGED vars
    BY <2>20, ObjectsUntouched DEF ClockAdvances, SecretChanges, vars, informer
  <2> QED
    BY <2>1, <2>2, <2>3, <2>4, <2>5, <2>6, <2>7, <2>9, <2>10, <2>11, <2>12, <2>13,
       <2>14, <2>15, <2>17, <2>18, <2>19, <2>20 DEF Next, Handlers, Environment
<1> QED
  BY <1>1, <1>2, TypeCorrect, PTL DEF Spec

\* Whatever a pass does to instances, and however old the copy it works from, it
\* does under the finalizer of the object on the API server, so that a deletion
\* waits for the pass that restores them.
THEOREM HoldsUnderFinalizerSafe == Spec => []HoldsUnderFinalizer
<1>1. FinalizerInv => HoldsUnderFinalizer
  BY DEF FinalizerInv
<1> QED
  BY <1>1, FinalizerInvariant, PTL

----
(***************************************************************************)
(* The worker always comes back.                                           *)
(***************************************************************************)
\* A difference between the informer's copy and the server's object that matters
\* to the chain is an undelivered event.
Delivery ==
    \A s \in Names : api[s].exists =>
        /\ ~cache[s].exists \/ cache[s].spec # api[s].spec => event[s]
        /\ cache[s].deleting /\ ~api[s].finalizer => event[s]

\* While the pass runs, s is queued again as soon as such an event arrives; and
\* an object on its way out keeps its finalizer in the informer's copy until the
\* pass itself removes it.
PassDelivery ==
    LET s == pass.name IN
    pc # "idle" /\ api[s].exists =>
        /\ pass.copy.spec # api[s].spec => event[s] \/ s \in queued
        /\ pass.copy.deleting /\ ~api[s].finalizer => event[s] \/ s \in queued
        /\ pass.copy.deleting /\ api[s].finalizer => cache[s].finalizer

DeliveryInv == Delivery /\ PassDelivery /\ NeverForgotten

\* The objects NeverForgotten is about.
Watched(s) ==
    /\ api[s].exists /\ ~api[s].spec.authSecret
    /\ \A t \in Times : api[s].spec.periods[t].once => api[s].spec.ahead[t]

\* A step that leaves the objects alone and forgets nothing: the pass goes on, or
\* ends with something that brings the worker back.
LEMMA NothingForgotten ==
    ASSUME TypeOK, DeliveryInv, UNCHANGED <<api, cache, event>>,
           queued \subseteq queued', timers \subseteq timers',
           \/ pc # "idle" /\ pc' # "idle" /\ pass'.name = pass.name /\ pass'.copy = pass.copy
           \/ UNCHANGED <<pc, pass>>
           \/ pc' = "idle" /\ (Watched(pass.name) =>
                                 pass.name \in queued' \/ pass.name \in timers'
                                 \/ event[pass.name])
    PROVE  DeliveryInv'
<1>1. Delivery'
  BY DEF DeliveryInv, Delivery
<1>2. PassDelivery'
  BY DEF DeliveryInv, PassDelivery
<1>3. NeverForgotten'
  BY DEF DeliveryInv, NeverForgotten, Scheduled, Watched
<1> QED
  BY <1>1, <1>2, <1>3 DEF DeliveryInv

\* A write of the running pass to its own object, which changes neither its
\* existence nor its spec: it is no event, and the pass goes on or is repeated.
LEMMA PassWrites ==
    ASSUME TypeOK, DeliveryInv, NEW o \in Objects, NEW change, Write(pass.name, o, change),
           queued \subseteq queued', timers \subseteq timers', pc # "idle",
           o.exists = api[pass.name].exists, o.spec = api[pass.name].spec,
           o.finalizer \/ o.finalizer = api[pass.name].finalizer,
           \/ pc' = "idle" /\ pass.name \in timers'
           \/ pc' # "idle" /\ UNCHANGED pass /\ ~pass.copy.deleting
    PROVE  DeliveryInv'
<1> DEFINE s == pass.name
<1>1. s \in Names /\ api \in [Names -> Objects] /\ event \in [Names -> BOOLEAN]
  BY DEF TypeOK, ControllerTypeOK, Passes
<1>2. /\ api'[s] = o /\ \A t \in Names \ {s} : api'[t] = api[t]
      /\ \A t \in Names : event[t] => event'[t]
      /\ UNCHANGED cache
  BY <1>1 DEF Write
<1>3. Delivery'
  BY <1>1, <1>2 DEF DeliveryInv, Delivery
<1>4. PassDelivery'
  BY <1>1, <1>2 DEF DeliveryInv, PassDelivery
<1>5. NeverForgotten'
  BY <1>1, <1>2 DEF DeliveryInv, NeverForgotten, Scheduled
<1> QED
  BY <1>3, <1>4, <1>5 DEF DeliveryInv

\* A user's change of s is an event, or the object is gone.
LEMMA UserChanges ==
    ASSUME TypeOK, DeliveryInv, UNCHANGED <<sched, pc, pass>>,
           NEW s \in Names, NEW o \in Objects, NEW change, Write(s, o, change),
           Triggers(change) \/ ~o.exists, o.finalizer => api[s].finalizer /\ api[s].exists
    PROVE  DeliveryInv'
<1>1. api \in [Names -> Objects] /\ event \in [Names -> BOOLEAN]
      /\ pass.name \in Names
  BY DEF TypeOK, ControllerTypeOK, Passes
<1>2. /\ api'[s] = o /\ \A t \in Names \ {s} : api'[t] = api[t]
      /\ \A t \in Names : event[t] => event'[t]
      /\ o.exists => event'[s]
      /\ UNCHANGED cache
  BY <1>1 DEF Write
<1>3. Delivery'
  BY <1>1, <1>2 DEF DeliveryInv, Delivery
<1>4. PassDelivery'
  BY <1>1, <1>2 DEF DeliveryInv, PassDelivery, sched
<1>5. NeverForgotten'
  BY <1>1, <1>2 DEF DeliveryInv, NeverForgotten, Scheduled, sched
<1> QED
  BY <1>3, <1>4, <1>5 DEF DeliveryInv

\* Past the finalizer handler an object that is still there although its patch
\* answers "not found", or no longer shows a finalizer, is another one than the
\* pass began with.
LEMMA ReplacedIsQueued ==
    ASSUME TypeOK, DeliveryInv, pc # "idle", api[pass.name].exists,
           \/ NotFound(pass.name)
           \/ pass.copy.deleting /\ ~cache[pass.name].finalizer
           \/ pass.copy.spec # api[pass.name].spec
    PROVE  event[pass.name] \/ pass.name \in queued
BY DEF TypeOK, ControllerTypeOK, Passes, DeliveryInv, Delivery, PassDelivery, NotFound

\* No lost, delayed or filtered event, no failure of the chain, no restart and no
\* recreation under the same name leaves an existing object without something
\* that will bring the worker back to it.
THEOREM NeverForgottenSafe == Spec => []NeverForgotten
<1>1. ASSUME Init PROVE DeliveryInv
  BY <1>1, Defaults DEF Init, ControllerInit, DeliveryInv, Delivery, PassDelivery, NeverForgotten
<1>2. ASSUME TypeOK, FinalizerInv, DeliveryInv, [Next]_vars PROVE DeliveryInv'
  <2> USE <1>2
  <2>0. /\ pass.name \in Names /\ pass \in Passes
        /\ api \in [Names -> Objects] /\ cache \in [Names -> Objects]
        /\ event \in [Names -> BOOLEAN]
    BY DEF TypeOK, ControllerTypeOK, Passes
  <2>1. ASSUME NEW s \in Names, Sync(s) PROVE DeliveryInv'
    <3>1. /\ UNCHANGED <<api, timers, pc, pass>> /\ queued \subseteq queued'
          /\ cache'[s] = api[s] /\ \A t \in Names \ {s} : cache'[t] = cache[t]
          /\ \A t \in Names \ {s} : event'[t] = event[t]
          /\ event[s] => s \in queued'
      BY <2>0, <2>1 DEF Sync, Deliver
    <3>2. Delivery'
      BY <3>1 DEF DeliveryInv, Delivery, FinalizerInv, Copies, WellFormed
    <3>3. PassDelivery'
      BY <2>0, <3>1 DEF DeliveryInv, PassDelivery
    <3>4. NeverForgotten'
      BY <3>1 DEF DeliveryInv, NeverForgotten, Scheduled
    <3> QED
      BY <3>2, <3>3, <3>4 DEF DeliveryInv
  <2>2. ASSUME NEW s \in Names, TimerFires(s) PROVE DeliveryInv'
    <3>1. UNCHANGED <<informer, pc, pass>> /\ queued' = queued \cup {s}
          /\ timers' = timers \ {s}
      BY <2>2 DEF TimerFires, Elapse
    <3> QED
      BY <3>1 DEF DeliveryInv, Delivery, PassDelivery, NeverForgotten, Scheduled, informer
  <2>3. ASSUME NEW s \in Names, Fetch(s) PROVE DeliveryInv'
    <3>1. /\ UNCHANGED <<api, cache, event>> /\ queued' = queued \ {s} /\ pc = "idle"
          /\ timers \subseteq timers'
      BY <2>3 DEF Fetch, Take, informer
    <3>2. CASE cache[s].exists /\ pc' = "finalizer"
               /\ pass' = [IdlePass EXCEPT !.name = s, !.copy = cache[s]]
      <4>1. pass'.name = s /\ pass'.copy = cache[s]
        BY <3>2, Defaults DEF Passes
      <4> QED
        BY <3>1, <3>2, <4>1 DEF DeliveryInv, Delivery, PassDelivery, NeverForgotten, Scheduled,
                                FinalizerInv, Copies, WellFormed
    <3>3. CASE pc' = "idle" /\ (~cache[s].exists \/ s \in timers')
      BY <3>1, <3>3 DEF DeliveryInv, Delivery, PassDelivery, NeverForgotten, Scheduled
    <3> QED
      BY <2>3, <3>1, <3>2, <3>3 DEF Fetch
  <2>4. ASSUME NEW handler, pc # "idle", handler # "idle", Proceed(handler),
               UNCHANGED informer, pass'.name = pass.name, pass'.copy = pass.copy
        PROVE  DeliveryInv'
    BY <2>4, NothingForgotten DEF Proceed, informer, sched
  <2>5. ASSUME pc # "idle", Finish(TRUE), UNCHANGED informer PROVE DeliveryInv'
    BY <2>5, NothingForgotten DEF Finish, Return, informer
  <2>6. ASSUME pc # "idle", Finish(FALSE), UNCHANGED informer,
               \/ NotFound(pass.name)
               \/ pass.copy.deleting /\ ~cache[pass.name].finalizer
               \/ pass.copy.spec # api[pass.name].spec
               \/ ~Watched(pass.name)
        PROVE  DeliveryInv'
    <3>1. Watched(pass.name) => event[pass.name] \/ pass.name \in queued
      BY <2>6, ReplacedIsQueued DEF Watched
    <3> QED
      BY <2>6, <3>1, NothingForgotten DEF Finish, Return, informer
  <2>7. ASSUME FinalizerHandler PROVE DeliveryInv'
    <3>1. CASE AddFinalizer(pass.name)
      <4>1. CASE /\ CanWrite(pass.name) /\ ~pass.copy.deleting
                 /\ Write(pass.name, [api[pass.name] EXCEPT !.finalizer = TRUE], "finalizer")
                 /\ Proceed("auth") /\ UNCHANGED pass
        <5> DEFINE o == [api[pass.name] EXCEPT !.finalizer = TRUE]
        <5>1. o \in Objects
          BY <2>0, ObjectUpdates
        <5>2. o.finalizer /\ o.exists = api[pass.name].exists /\ o.spec = api[pass.name].spec
          BY <2>0 DEF Objects
        <5> HIDE DEF o
        <5> QED
          BY <2>7, <4>1, <5>1, <5>2, PassWrites DEF FinalizerHandler, Proceed, sched, o
      <4>2. CASE /\ CanWrite(pass.name)
                 /\ Write(pass.name, [api[pass.name] EXCEPT !.finalizer = TRUE], "finalizer")
                 /\ Finish(TRUE)
        <5> DEFINE o == [api[pass.name] EXCEPT !.finalizer = TRUE]
        <5>1. o \in Objects
          BY <2>0, ObjectUpdates
        <5>2. o.finalizer /\ o.exists = api[pass.name].exists /\ o.spec = api[pass.name].spec
          BY <2>0 DEF Objects
        <5> HIDE DEF o
        <5> QED
          BY <2>7, <4>2, <5>1, <5>2, PassWrites DEF FinalizerHandler, Finish, Return, o
      <4> QED
        BY <2>4, <2>5, <2>6, <2>7, <3>1, <4>1, <4>2 DEF AddFinalizer, FailedWrite, FinalizerHandler
    <3>2. CASE pass' = [pass EXCEPT !.shouldFinalize = TRUE] /\ Proceed("auth")
               /\ UNCHANGED informer
      BY <2>0, <2>4, <2>7, <3>2 DEF FinalizerHandler, Passes
    <3> QED
      BY <2>4, <2>7, <3>1, <3>2 DEF FinalizerHandler, FinalizerInv, Copies, WellFormed
  <2>8. ASSUME AuthHandler PROVE DeliveryInv'
    <3>1. UNCHANGED informer /\ pc = "auth"
      BY <2>8 DEF AuthHandler
    <3>2. CASE /\ Proceed("period")
               /\ pass' = [pass EXCEPT !.key = KeyOf(pass.copy.spec),
                                       !.version = VersionOf(pass.copy.spec)]
      BY <2>0, <2>4, <3>1, <3>2 DEF Passes
    <3>3. CASE pass.copy.spec.authSecret /\ Finish(FALSE)
      BY <2>6, <3>1, <3>3 DEF Watched
    <3> QED
      BY <2>5, <2>8, <3>1, <3>2, <3>3 DEF AuthHandler
  <2>9. ASSUME PeriodHandler PROVE DeliveryInv'
    <3>1. UNCHANGED informer /\ pc = "period"
      BY <2>9 DEF PeriodHandler
    <3>2. CASE pass' = [pass EXCEPT !.period = ActivePeriod] /\ Proceed("list")
      BY <2>0, <2>4, <3>1, <3>2 DEF Passes
    <3>3. CASE /\ RunOnceApplied(ActivePeriod)
               /\ Finish(RequeueAfterEnd(pass.copy.spec))
      <4>1. CASE RequeueAfterEnd(pass.copy.spec)
        BY <3>1, <3>3, <4>1, NothingForgotten DEF Finish, Return, informer
      <4>2. CASE ~RequeueAfterEnd(pass.copy.spec)
        <5>1. pass.copy.spec.periods[clock].once /\ ~pass.copy.spec.ahead[clock]
          BY <3>3, <4>2 DEF RunOnceApplied, ActivePeriod, NoAction, RequeueAfterEnd
        <5>2. pass.copy.spec # api[pass.name].spec \/ ~Watched(pass.name)
          BY <5>1 DEF Watched, TypeOK
        <5>3. Watched(pass.name) => event[pass.name] \/ pass.name \in queued
          BY <3>1, <5>2, ReplacedIsQueued DEF Watched
        <5> QED
          BY <3>1, <3>3, <4>2, <5>3, NothingForgotten DEF Finish, Return, informer
      <4> QED
        BY <4>1, <4>2
    <3> QED
      BY <2>5, <2>9, <3>1, <3>2, <3>3 DEF PeriodHandler
  <2>10. ASSUME ListInstances PROVE DeliveryInv'
    <3>1. pc # "idle" /\ pc' # "idle" /\ pass'.name = pass.name /\ pass'.copy = pass.copy
      BY <2>0, <2>10 DEF ListInstances, Proceed, Passes
    <3> QED
      BY <2>10, <3>1, NothingForgotten DEF ListInstances, Proceed, informer, sched
  <2>11. ASSUME NEW v \in Vms, ApplyInstanceState(v) PROVE DeliveryInv'
    <3>1. pc # "idle" /\ pc' # "idle" /\ pass'.name = pass.name /\ pass'.copy = pass.copy
      BY <2>0, <2>11 DEF ApplyInstanceState, Passes
    <3> QED
      BY <2>11, <3>1, NothingForgotten DEF ApplyInstanceState, informer, sched
  <2>12. ASSUME NEW v \in Vms, Disturb(v) \/ UNCHANGED pass, UNCHANGED <<informer, sched, pc>>
         PROVE  DeliveryInv'
    <3>1. pc' = pc /\ pass'.name = pass.name /\ pass'.copy = pass.copy
          /\ UNCHANGED <<api, cache, event, queued, timers>>
      BY <2>0, <2>12 DEF Disturb, Passes, informer, sched
    <3> QED
      BY <3>1 DEF DeliveryInv, Delivery, PassDelivery, NeverForgotten, Scheduled
  <2>13. ASSUME AllProcessed PROVE DeliveryInv'
    BY <2>13, NothingForgotten DEF AllProcessed, Proceed, informer, sched
  <2>14. ASSUME RemoveFinalizer PROVE DeliveryInv'
    <3>1. pc # "idle" /\ pass.copy.deleting
      BY <2>14 DEF RemoveFinalizer, FinalizerInv, PassLineage
    <3>2. CASE /\ CanWrite(pass.name) /\ cache[pass.name].finalizer
               /\ Write(pass.name,
                        IF api[pass.name].deleting THEN Gone
                        ELSE [api[pass.name] EXCEPT !.finalizer = FALSE], "finalizer")
               /\ (Finish(FALSE) \/ Finish(TRUE))
      <4>1. api[pass.name].deleting
        BY <2>0, <3>1, <3>2 DEF CanWrite, FinalizerInv, PassLineage, Copies
      <4>2. /\ api'[pass.name] = Gone
            /\ \A t \in Names \ {pass.name} : api'[t] = api[t]
            /\ \A t \in Names : event[t] => event'[t]
            /\ UNCHANGED cache
        BY <2>0, <3>2, <4>1 DEF Write
      <4>3. pc' = "idle" /\ queued' = queued /\ timers \subseteq timers'
        BY <3>2 DEF Finish, Return
      <4> QED
        BY <3>2, <4>2, <4>3, Defaults DEF DeliveryInv, Delivery, PassDelivery, NeverForgotten,
                                          Scheduled
    <3> QED
      BY <2>5, <2>6, <2>14, <3>1, <3>2 DEF RemoveFinalizer, FailedWrite
  <2>15. ASSUME UpdateStatus PROVE DeliveryInv'
    <3>1. CASE /\ CanWrite(pass.name)
               /\ Write(pass.name, [api[pass.name] EXCEPT !.status = pass.period], "status")
               /\ Finish(TRUE)
      <4> DEFINE o == [api[pass.name] EXCEPT !.status = pass.period]
      <4>1. o \in Objects
        BY <2>0, ObjectUpdates DEF Passes
      <4>2. /\ o.finalizer = api[pass.name].finalizer /\ o.exists = api[pass.name].exists
            /\ o.spec = api[pass.name].spec
        BY <2>0 DEF Objects
      <4> HIDE DEF o
      <4> QED
        BY <2>15, <3>1, <4>1, <4>2, PassWrites DEF UpdateStatus, Finish, Return, o
    <3> QED
      BY <2>5, <2>15, <3>1 DEF UpdateStatus, FailedWrite, informer
  <2>16. ASSUME Restart PROVE DeliveryInv'
    BY <2>0, <2>16 DEF Restart, Relist, DeliveryInv, Delivery, PassDelivery, NeverForgotten, Scheduled,
                       FinalizerInv, Copies, WellFormed
  <2>17. ASSUME NEW s \in Names, NEW spec \in Specs, UserCreates(s, spec) PROVE DeliveryInv'
    <3>1. spec \in SpecFields
      BY SpecAssumption
    <3>2. [Gone EXCEPT !.exists = TRUE, !.spec = spec] \in Objects
          /\ [Gone EXCEPT !.exists = TRUE, !.spec = spec].finalizer = FALSE
      BY <3>1, Defaults DEF Objects
    <3> QED
      BY <2>17, <3>2, UserChanges DEF UserCreates, Creates, Outside, Triggers
  <2>18. ASSUME NEW s \in Names, UserDeletes(s) PROVE DeliveryInv'
    <3>1. CASE api[s].finalizer
      <4>1. [api[s] EXCEPT !.deleting = TRUE] \in Objects
        BY <2>0, ObjectUpdates
      <4> QED
        BY <2>18, <3>1, <4>1, UserChanges DEF UserDeletes, Deletes, Outside, Triggers
    <3>2. CASE ~api[s].finalizer
      BY <2>0, <2>18, <3>2, Defaults, UserChanges DEF UserDeletes, Deletes, Outside
    <3> QED
      BY <3>1, <3>2
  <2>19. ASSUME NEW s \in Names, NEW e, Stores(s, e), UNCHANGED Outside,
                [api[s] EXCEPT !.spec = e.spec, !.notes = e.notes] \in Objects
         PROVE  DeliveryInv'
    <3>1. [api[s] EXCEPT !.spec = e.spec, !.notes = e.notes].finalizer = api[s].finalizer
      BY <2>0 DEF Objects
    <3> QED
      BY <2>19, <3>1, UserChanges DEF Stores, ChangesSpec, Outside, Triggers
  <2>20. ASSUME NEW s \in Names, NEW spec \in Specs, UserEditsSpec(s, spec) PROVE DeliveryInv'
    BY <2>0, <2>19, <2>20, EditsType, SpecAssumption DEF UserEditsSpec
  <2>21. ASSUME NEW s \in Names, NEW spec \in OldSpecs, NEW legacy \in {Unset, "kept"},
                UserEditsV1alpha1(s, spec, legacy)
         PROVE  DeliveryInv'
    BY <2>0, <2>19, <2>21, EditsType, SpecAssumption DEF UserEditsV1alpha1
  <2>22. ASSUME NEW v \in Vms, NEW state, VmSettles(v) \/ OwnerCalls(v, state)
         PROVE  DeliveryInv'
    BY <2>12, <2>22 DEF VmSettles, OwnerCalls
  <2>23. CASE (\E t \in Times : ClockAdvances(t)) \/ SecretChanges \/ UNCHANGED vars
    BY <2>23, NothingForgotten DEF ClockAdvances, SecretChanges, vars, informer, sched
  <2> QED
    BY <2>1, <2>2, <2>3, <2>7, <2>8, <2>9, <2>10, <2>11, <2>13, <2>14, <2>15, <2>16,
       <2>17, <2>18, <2>20, <2>21, <2>22, <2>23 DEF Next, Handlers, Environment
<1>3. DeliveryInv => NeverForgotten
  BY DEF DeliveryInv
<1> QED
  BY <1>1, <1>2, <1>3, TypeCorrect, FinalizerInvariant, PTL DEF Spec

----
(***************************************************************************)
(* The restore of a finalizing pass.                                       *)
(***************************************************************************)
\* From the listing on, what the pass selects and nobody else moved is still to be
\* called, or heads for the desired state.
ScaleInv ==
    /\ pc \in {"list", "scale", "status"} /\ pass.shouldFinalize
       /\ pass.copy.spec.restoreOnDelete => pass.period = NoAction
    /\ pc \in {"scale", "status"} /\ ~pass.failed =>
          \A v \in pass.copy.spec.vms \ pass.excused : v \in pass.todo \/ Toward(v, Desired)
    /\ pc = "status" /\ ~pass.failed => pass.todo = {}

\* A call that is accepted sends the instance where it is wanted.
LEMMA CalledToward ==
    ASSUME TypeOK, NEW v \in Vms, NEW state \in {"RUNNING", "TERMINATED"},
           Accepts(state, vm[v]), vm' = [vm EXCEPT ![v] = Called(state, @)]
    PROVE  /\ Toward(v, state)'
           /\ \A w \in Vms \ {v} : vm'[w] = vm[w]
<1>1. vm \in [Vms -> Statuses] /\ vm[v] \in Statuses
  BY DEF TypeOK
<1>2. vm'[v] = Called(state, vm[v]) /\ \A w \in Vms \ {v} : vm'[w] = vm[w]
  BY <1>1
<1>3. Called(state, vm[v]) \in IF state = "RUNNING" THEN {"RUNNING", "STAGING"}
                               ELSE {"TERMINATED", "STOPPING"}
  BY <1>1 DEF Called, Accepts, Statuses
<1> QED
  BY <1>2, <1>3 DEF Toward

\* A change of instances that somebody else makes excuses them.
LEMMA Disturbed ==
    ASSUME TypeOK, ScaleInv, NEW v \in Vms, Disturb(v), UNCHANGED pc,
           \A w \in Vms \ {v} : vm'[w] = vm[w]
    PROVE  ScaleInv'
<1>1. pass \in Passes /\ pass.copy \in Objects /\ pass.copy.spec.vms \in SUBSET Vms
  BY DEF TypeOK, Passes, Objects, SpecFields
<1>2. CASE pc \in {"scale", "status"}
  <2>1. /\ pass'.copy = pass.copy /\ pass'.shouldFinalize = pass.shouldFinalize
        /\ pass'.period = pass.period /\ pass'.failed = pass.failed /\ pass'.todo = pass.todo
        /\ pass'.excused = pass.excused \cup {v}
    BY <1>1, <1>2 DEF Disturb, Passes
  <2>2. Desired' = Desired
    BY <2>1 DEF Desired
  <2>3. \A w \in Vms \ {v} : Toward(w, Desired) => Toward(w, Desired)'
    BY <2>2 DEF Toward
  <2> QED
    BY <1>1, <2>1, <2>3 DEF ScaleInv
<1>3. CASE pc \notin {"scale", "status"}
  BY <1>3 DEF Disturb, ScaleInv
<1> QED
  BY <1>2, <1>3

\* A finalizing pass that recorded no failure, whatever operation failed under it and
\* whatever moved since it listed the instances, ends with each instance it selects
\* at the default state, but those it found, or somebody set, moving.
THEOREM CleanFinalizeSafe == Spec => []CleanFinalize
<1>1. ASSUME Init PROVE ScaleInv
  BY <1>1 DEF Init, ScaleInv
<1>2. ASSUME TypeOK, ScaleInv, [Next]_vars PROVE ScaleInv'
  <2> USE <1>2
  <2>0. /\ pass \in Passes /\ pass.copy \in Objects /\ pass.copy.spec.vms \in SUBSET Vms
        /\ pass.failed \in BOOLEAN /\ vm \in [Vms -> Statuses]
    BY DEF TypeOK, Passes, Objects, SpecFields
  <2>1. CASE pc' \in {"idle", "finalizer", "auth", "period"}
    BY <2>1 DEF ScaleInv
  <2>2. CASE UNCHANGED <<pc, pass, vm>>
    BY <2>2 DEF ScaleInv, Toward, Desired
  <2>3. ASSUME PeriodHandler, pc' = "list" PROVE ScaleInv'
    <3>1. /\ pass'.period = ActivePeriod /\ pass'.copy = pass.copy
          /\ pass'.shouldFinalize = pass.shouldFinalize
      BY <2>0, <2>3 DEF PeriodHandler, Finish, Passes
    <3> QED
      BY <2>3, <3>1 DEF ScaleInv, ActivePeriod
  <2>4. ASSUME ListInstances PROVE ScaleInv'
    <3>1. CASE pass' = [pass EXCEPT !.failed = TRUE] /\ pc' = "status"
      <4>1. /\ pass'.failed = TRUE /\ pass'.copy = pass.copy /\ pass'.period = pass.period
            /\ pass'.shouldFinalize = pass.shouldFinalize
        BY <2>0, <3>1 DEF Passes
      <4> QED
        BY <2>4, <3>1, <4>1 DEF ListInstances, ScaleInv
    <3>2. CASE pc' = "scale" /\
               pass' = [pass EXCEPT
                 !.todo = {v \in pass.copy.spec.vms : ~Transitioning(vm[v]) /\ vm[v] # Desired},
                 !.excused = {v \in pass.copy.spec.vms : Transitioning(vm[v])}]
      <4>1. /\ pass'.copy = pass.copy /\ pass'.period = pass.period
            /\ pass'.shouldFinalize = pass.shouldFinalize
            /\ pass'.todo = {v \in pass.copy.spec.vms : ~Transitioning(vm[v]) /\ vm[v] # Desired}
            /\ pass'.excused = {v \in pass.copy.spec.vms : Transitioning(vm[v])}
        BY <2>0, <3>2 DEF Passes
      <4>2. Desired' = Desired /\ UNCHANGED vm
        BY <2>4, <4>1 DEF Desired, ListInstances
      <4>3. \A v \in Vms : vm[v] = Desired => Toward(v, Desired)'
        BY <4>2, DesiredType DEF Toward
      <4> QED
        BY <2>0, <2>4, <3>2, <4>1, <4>3 DEF ListInstances, ScaleInv
    <3> QED
      BY <2>4, <3>1, <3>2 DEF ListInstances, Proceed
  <2>5. ASSUME NEW v \in Vms, ApplyInstanceState(v) PROVE ScaleInv'
    <3>1. /\ pc = "scale" /\ UNCHANGED pc
          /\ pass'.copy = pass.copy /\ pass'.period = pass.period
          /\ pass'.shouldFinalize = pass.shouldFinalize /\ pass'.excused = pass.excused
          /\ pass'.todo = pass.todo \ {v}
      BY <2>0, <2>5 DEF ApplyInstanceState, Passes
    <3>2. Desired' = Desired
      BY <3>1 DEF Desired
    <3>3. CASE pass'.failed
      BY <3>1, <3>3 DEF ScaleInv
    <3>4. CASE ~pass'.failed
      <4>1. /\ ~pass.failed /\ Accepts(Desired, vm[v])
            /\ vm' = [vm EXCEPT ![v] = Called(Desired, @)]
        BY <2>0, <2>5, <3>4 DEF ApplyInstanceState, Passes
      <4>2. Toward(v, Desired)' /\ \A w \in Vms \ {v} : vm'[w] = vm[w]
        BY <3>2, <4>1, CalledToward, DesiredType DEF Toward
      <4>3. \A w \in Vms \ {v} : Toward(w, Desired) => Toward(w, Desired)'
        BY <3>2, <4>2 DEF Toward
      <4> QED
        BY <2>0, <3>1, <4>1, <4>2, <4>3 DEF ScaleInv
    <3> QED
      BY <3>3, <3>4
  <2>6. ASSUME AllProcessed PROVE ScaleInv'
    BY <2>6 DEF AllProcessed, Proceed, ScaleInv, Toward, Desired
  <2>7. ASSUME NEW v \in Vms, VmSettles(v) PROVE ScaleInv'
    <3>1. UNCHANGED pc /\ \A w \in Vms \ {v} : vm'[w] = vm[w]
      BY <2>0, <2>7 DEF VmSettles
    <3>2. CASE UNCHANGED pass
      <4>1. Desired' = Desired
        BY <3>2 DEF Desired
      <4>2. CASE \/ vm[v] = "STAGING" /\ vm'[v] = "RUNNING"
                 \/ vm[v] = "STOPPING" /\ vm'[v] = "TERMINATED"
        <5>1. \A w \in Vms : Toward(w, Desired) => Toward(w, Desired)'
          BY <3>1, <4>1, <4>2 DEF Toward
        <5> QED
          BY <2>0, <3>1, <3>2, <5>1 DEF ScaleInv
      <4> QED
        BY <2>0, <2>7, <3>1, <4>2, Disturbed DEF VmSettles
    <3>3. CASE Disturb(v)
      BY <3>1, <3>3, Disturbed
    <3> QED
      BY <2>7, <3>2, <3>3 DEF VmSettles
  <2>8. ASSUME NEW v \in Vms, NEW state, OwnerCalls(v, state) PROVE ScaleInv'
    <3>1. UNCHANGED pc /\ Disturb(v) /\ \A w \in Vms \ {v} : vm'[w] = vm[w]
      BY <2>0, <2>8 DEF OwnerCalls
    <3> QED
      BY <3>1, Disturbed
  <2>9. ASSUME PeriodHandler PROVE ScaleInv'
    BY <2>1, <2>3, <2>9 DEF PeriodHandler, Finish, Proceed
  <2>10. CASE \/ FinalizerHandler \/ AuthHandler \/ RemoveFinalizer \/ UpdateStatus \/ Restart
    BY <2>1, <2>10 DEF FinalizerHandler, AddFinalizer, AuthHandler, RemoveFinalizer,
                       UpdateStatus, Restart, Finish, Proceed
  <2>11. ASSUME NEW s \in Names, Fetch(s) PROVE ScaleInv'
    BY <2>1, <2>11 DEF Fetch
  <2> QED
    BY <2>2, <2>4, <2>5, <2>6, <2>7, <2>8, <2>9, <2>10, <2>11
       DEF Next, Handlers, Environment, Sync, TimerFires, UserCreates, UserEditsSpec,
           UserEditsV1alpha1, UserDeletes, ClockAdvances, SecretChanges, Outside, vars
<1>3. TypeOK /\ ScaleInv => CleanFinalize
  BY DEF ScaleInv, CleanFinalize, Desired
<1> QED
  BY <1>1, <1>2, <1>3, TypeCorrect, PTL DEF Spec
====
