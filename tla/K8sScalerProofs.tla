---- MODULE K8sScalerProofs ----
(***************************************************************************)
(* Proofs about K8sScaler for every set of scalers, workloads, periods and *)
(* specs.                                                                  *)
(***************************************************************************)
EXTENDS K8sScaler, TLAPS


(***************************************************************************)
(* What scaling makes of a workload.                                       *)
(***************************************************************************)
\* Scaling and restoring keep a workload a workload and never change the replica
\* count its owner asked for.
LEMMA ScalingKeepsOriginal ==
    ASSUME NEW w \in Workload(PeriodNames), NEW p \in Periods \cup {NoAction}
    PROVE  /\ ApplyScaling(w, p) \in Workload(PeriodNames)
           /\ Original(ApplyScaling(w, p)) = Original(w)
<1>1. CASE p \in Periods
  <2>1. /\ p \in [name : STRING, type : {"down", "up"}, min : Nat, max : Nat, once : BOOLEAN]
        /\ p.name \in PeriodNames
    BY <1>1, PeriodAssumption DEF PeriodNames
  <2>2. /\ AddIntAnnotations(w, p) \in Workload(PeriodNames)
        /\ AddIntAnnotations(w, p).orig = Original(w)
        /\ Original(w) \in Nat
    BY <2>1 DEF AddIntAnnotations, Workload, Held, Original, Absent
  <2>3. \A n \in Nat : LET x == [AddIntAnnotations(w, p) EXCEPT !.replicas = n] IN
            x \in Workload(PeriodNames) /\ Original(x) = Original(w)
    BY <2>2 DEF Workload, Original, Held, Absent
  <2>4. CASE p.type = "down"
    BY <2>1, <2>3, <2>4 DEF ApplyScaling
  <2>5. CASE p.type = "up"
    BY <2>1, <2>3, <2>5 DEF ApplyScaling
  <2> QED
    BY <2>1, <2>4, <2>5
<1>2. CASE p = NoAction
  <2>1. ApplyScaling(w, p) = IF Held(w) THEN RestoreIntAnnotations(w) ELSE w
    BY <1>2 DEF ApplyScaling, NoAction
  <2> QED
    BY <2>1 DEF RestoreIntAnnotations, Workload, Original, Held, Absent
<1> QED
  BY <1>1, <1>2

----
(***************************************************************************)
(* Type correctness.                                                       *)
(***************************************************************************)
LEMMA Defaults ==
    /\ Gone \in Objects
    /\ Gone.exists = FALSE /\ Gone.deleting = FALSE /\ Gone.finalizer = FALSE
    /\ IdlePass \in Passes
    /\ IdlePass.copy = Gone /\ IdlePass.shouldFinalize = FALSE /\ IdlePass.current = FALSE
<1>1. (CHOOSE s \in Scalers : TRUE) \in Scalers /\ (CHOOSE w \in Workloads : TRUE) \in Workloads
      /\ (CHOOSE spec \in Specs : TRUE) \in Specs
  BY ScalersAssumption
<1>2. Gone \in Objects
  BY <1>1 DEF Gone, Objects, Statuses
<1>3. [replicas |-> 0, orig |-> Absent, period |-> NoPeriodName] \in Workload(PeriodNames)
  BY DEF Workload
<1>4. IdlePass \in Passes
  BY <1>1, <1>2, <1>3 DEF IdlePass, Passes
<1> QED
  BY <1>2, <1>4 DEF Gone, IdlePass

\* What the handlers and the users make of an object is an object.
LEMMA ObjectUpdates ==
    ASSUME NEW o \in Objects
    PROVE  /\ \A b \in BOOLEAN : [o EXCEPT !.finalizer = b] \in Objects
           /\ [o EXCEPT !.deleting = TRUE] \in Objects
           /\ \A spec \in Specs : [o EXCEPT !.spec = spec] \in Objects
           /\ \A p \in Periods \cup {NoAction} : [o EXCEPT !.status = p] \in Objects
BY DEF Objects, Statuses

\* The clauses of TypeOK each group of variables answers for.
LEMMA WriteType ==
    ASSUME TypeOK, NEW s \in Scalers, NEW o \in Objects, NEW change, Write(s, o, change)
    PROVE  /\ api' \in [Scalers -> Objects]
           /\ fresh' \in [Scalers -> BOOLEAN]
           /\ event' \in [Scalers -> BOOLEAN]
BY DEF TypeOK, Write, Triggers

LEMMA FinishType ==
    ASSUME TypeOK, NEW requeue, Finish(requeue)
    PROVE  pc' = "idle" /\ pass' \in Passes /\ queued' \in SUBSET Scalers
           /\ timers' \in SUBSET Scalers
BY Defaults DEF TypeOK, Finish, Passes

LEMMA FaultType ==
    ASSUME TypeOK, Fault \/ UNCHANGED faults
    PROVE  faults' \in 0 .. MaxFaults
BY BoundAssumption DEF TypeOK, Fault

LEMMA EditType ==
    ASSUME TypeOK, Edit
    PROVE  edits' \in 0 .. MaxEdits
BY BoundAssumption DEF TypeOK, Edit

\* Every variable keeps its type: in particular what the handlers read, keep in
\* the pass and write to the API server are always objects and workloads.
THEOREM TypeCorrect == Spec => []TypeOK
<1>1. ASSUME Init PROVE TypeOK
  <2>1. \A w \in Workloads : desired[w] \in Nat
    BY <1>1, PeriodAssumption DEF Init
  <2>2. work \in [Workloads -> Workload(PeriodNames)]
    BY <1>1, <2>1 DEF Init, Workload
  <2>3. desired \in [Workloads -> Nat]
    BY <1>1, PeriodAssumption DEF Init
  <2> QED
    BY <1>1, <2>2, <2>3, Defaults, BoundAssumption DEF Init, TypeOK
<1>2. ASSUME TypeOK, [Next]_vars PROVE TypeOK'
  <2> USE <1>2
  <2>1. ASSUME NEW s \in Scalers, Sync(s) PROVE TypeOK'
    BY <2>1 DEF TypeOK, Sync, env
  <2>2. ASSUME NEW s \in Scalers, TimerFires(s) PROVE TypeOK'
    BY <2>2 DEF TypeOK, TimerFires, informer, env
  <2>3. ASSUME NEW s \in Scalers, Fetch(s) PROVE TypeOK'
    <3>1. faults' \in 0 .. MaxFaults
      BY <2>3, FaultType DEF Fetch
    <3>2. [IdlePass EXCEPT !.scaler = s, !.copy = cache[s]] \in Passes
      BY Defaults DEF TypeOK, Passes
    <3>3. pc' \in {"idle", "finalizer"} /\ pass' \in Passes
      <4>1. CASE cache[s].exists /\ pc' = "finalizer"
                 /\ pass' = [IdlePass EXCEPT !.scaler = s, !.copy = cache[s]]
        BY <3>2, <4>1
      <4>2. CASE UNCHANGED <<pc, pass>>
        BY <2>3, <4>2 DEF Fetch, TypeOK
      <4> QED
        BY <2>3, <4>1, <4>2 DEF Fetch
    <3>4. queued' \in SUBSET Scalers /\ timers' \in SUBSET Scalers
      BY <2>3 DEF Fetch, TypeOK
    <3>5. UNCHANGED <<informer, work, env>>
      BY <2>3 DEF Fetch
    <3> QED
      BY <3>1, <3>3, <3>4, <3>5 DEF TypeOK, informer, env
  <2>4. ASSUME FinalizerHandler PROVE TypeOK'
    <3>1. pass.scaler \in Scalers
      BY DEF TypeOK, Passes
    <3>2. UNCHANGED <<work, env>>
      BY <2>4 DEF FinalizerHandler
    <3>3. CASE AddFinalizer(pass.scaler)
      <4>1. [api[pass.scaler] EXCEPT !.finalizer = TRUE] \in Objects
        BY <3>1, ObjectUpdates DEF TypeOK
      <4>2. faults' \in 0 .. MaxFaults
        BY <3>3, FaultType DEF AddFinalizer, FailedPatch
      <4>3. CASE UNCHANGED informer /\ (Finish(FALSE) \/ Finish(TRUE))
        BY <4>2, <4>3, <3>2, FinishType DEF TypeOK, informer, env
      <4>4. CASE UNCHANGED informer /\ Proceed("auth") /\ UNCHANGED pass
        BY <4>2, <4>4, <3>2 DEF TypeOK, informer, env, sched, Proceed
      <4>5. CASE /\ Write(pass.scaler, [api[pass.scaler] EXCEPT !.finalizer = TRUE], "finalizer")
                 /\ Proceed("auth") /\ UNCHANGED <<cache, pass>>
        BY <4>1, <4>2, <4>5, <3>1, <3>2, WriteType DEF TypeOK, env, sched, Proceed
      <4>6. CASE /\ Write(pass.scaler, [api[pass.scaler] EXCEPT !.finalizer = TRUE], "finalizer")
                 /\ Finish(TRUE) /\ UNCHANGED cache
        BY <4>1, <4>2, <4>6, <3>1, <3>2, WriteType, FinishType DEF TypeOK, env
      <4> QED
        BY <3>3, <4>3, <4>4, <4>5, <4>6 DEF AddFinalizer, FailedPatch
    <3>4. CASE Proceed("auth") /\ UNCHANGED <<informer, faults>>
               /\ (UNCHANGED pass \/ pass' = [pass EXCEPT !.shouldFinalize = TRUE])
      BY <3>2, <3>4 DEF TypeOK, informer, env, sched, Proceed, Passes
    <3>5. CASE Finish(FALSE) /\ UNCHANGED <<informer, faults>>
      BY <3>2, <3>5, FinishType DEF TypeOK, informer, env
    <3> QED
      BY <2>4, <3>3, <3>4, <3>5 DEF FinalizerHandler
  <2>5. ASSUME AuthHandler PROVE TypeOK'
    <3>1. faults' \in 0 .. MaxFaults
      BY <2>5, FaultType DEF AuthHandler
    <3> QED
      BY <2>5, <3>1, FinishType DEF TypeOK, AuthHandler, informer, sched, env
  <2>6. ASSUME PeriodHandler PROVE TypeOK'
    <3>1. pass.scaler \in Scalers /\ api[pass.scaler] \in Objects
      BY DEF TypeOK, Passes
    <3>2. ~Critical(ActivePeriod) => ActivePeriod \in Periods \cup {NoAction}
      <4>1. pass.copy.spec.periods[clock] \in Outcomes
        BY SpecAssumption DEF TypeOK, Passes, Objects
      <4> QED
        BY <4>1 DEF ActivePeriod, Critical, Outcomes
    <3>3. UNCHANGED <<work, env, faults>>
      BY <2>6 DEF PeriodHandler
    <3>4. CASE UNCHANGED informer /\ Finish(TRUE)
      BY <3>3, <3>4, FinishType DEF TypeOK, informer, env
    <3>5. CASE Write(pass.scaler, api[pass.scaler], "status") /\ UNCHANGED cache /\ Finish(TRUE)
      BY <3>1, <3>3, <3>5, WriteType, FinishType DEF TypeOK, env
    <3>6. CASE /\ ~Critical(ActivePeriod)
               /\ pass' = [pass EXCEPT !.period = ActivePeriod]
               /\ Proceed("scaling") /\ UNCHANGED informer
      BY <3>2, <3>3, <3>6 DEF TypeOK, informer, env, sched, Proceed, Passes
    <3> QED
      BY <2>6, <3>4, <3>5, <3>6 DEF PeriodHandler
  <2>7. ASSUME ListResources PROVE TypeOK'
    <3>1. faults' \in 0 .. MaxFaults
      BY <2>7, FaultType DEF ListResources
    <3>2. pass' \in Passes /\ pc' \in {"process", "status"}
      BY <2>7 DEF ListResources, TypeOK, Passes, Selected
    <3> QED
      BY <2>7, <3>1, <3>2 DEF TypeOK, ListResources, informer, sched, env
  <2>8. ASSUME NEW w \in Workloads, GetWorkload(w) PROVE TypeOK'
    <3>1. faults' \in 0 .. MaxFaults
      BY <2>8, FaultType DEF GetWorkload
    <3>2. pass' \in Passes /\ pc' \in {"process", "update"}
      BY <2>8 DEF GetWorkload, TypeOK, Passes
    <3> QED
      BY <2>8, <3>1, <3>2 DEF TypeOK, GetWorkload, informer, sched, env
  <2>9. ASSUME UpdateWorkload PROVE TypeOK'
    <3>1. faults' \in 0 .. MaxFaults
      BY <2>9, FaultType DEF UpdateWorkload
    <3>2. pass' \in Passes
      <4>1. \A f \in BOOLEAN :
               [pass EXCEPT !.todo = @ \ {pass.item}, !.failed = f, !.current = FALSE] \in Passes
        BY DEF TypeOK, Passes
      <4>2. \E f \in BOOLEAN :
               pass' = [pass EXCEPT !.todo = @ \ {pass.item}, !.failed = f, !.current = FALSE]
        <5>1. (pass.failed \/ FALSE) \in BOOLEAN /\ (pass.failed \/ TRUE) \in BOOLEAN
          OBVIOUS
        <5> QED
          BY <2>9, <5>1, Zenon DEF UpdateWorkload
      <4> QED
        BY <4>1, <4>2
    <3>3. ApplyScaling(pass.read, pass.period) \in Workload(PeriodNames)
      BY ScalingKeepsOriginal DEF TypeOK, Passes
    <3>4. work' \in [Workloads -> Workload(PeriodNames)]
      BY <2>9, <3>3 DEF UpdateWorkload, TypeOK
    <3> QED
      BY <2>9, <3>1, <3>2, <3>4 DEF TypeOK, UpdateWorkload, informer, sched, env
  <2>10. ASSUME AllProcessed PROVE TypeOK'
    BY <2>10 DEF TypeOK, AllProcessed, informer, sched, env
  <2>11. ASSUME RemoveFinalizer PROVE TypeOK'
    <3>1. pass.scaler \in Scalers
      BY DEF TypeOK, Passes
    <3>2. Gone \in Objects /\ [api[pass.scaler] EXCEPT !.finalizer = FALSE] \in Objects
      BY <3>1, Defaults, ObjectUpdates DEF TypeOK
    <3>3. faults' \in 0 .. MaxFaults
      BY <2>11, FaultType DEF RemoveFinalizer, FailedPatch
    <3>4. UNCHANGED <<work, env>> /\ (Finish(TRUE) \/ Finish(FALSE))
      BY <2>11 DEF RemoveFinalizer, FailedPatch
    <3>5. CASE UNCHANGED informer
      BY <3>3, <3>4, <3>5, FinishType DEF TypeOK, informer, env
    <3>6. CASE \E o \in Objects : Write(pass.scaler, o, "finalizer") /\ UNCHANGED cache
      BY <3>1, <3>3, <3>4, <3>6, WriteType, FinishType DEF TypeOK, env
    <3> QED
      BY <2>11, <3>2, <3>5, <3>6 DEF RemoveFinalizer, FailedPatch
  <2>12. ASSUME UpdateStatus PROVE TypeOK'
    <3>1. pass.scaler \in Scalers
      BY DEF TypeOK, Passes
    <3>2. [api[pass.scaler] EXCEPT !.status = pass.period] \in Objects
      BY <3>1, ObjectUpdates DEF TypeOK, Passes
    <3>3. faults' \in 0 .. MaxFaults
      BY <2>12, FaultType DEF UpdateStatus, FailedPatch
    <3>4. UNCHANGED <<work, env>> /\ (Finish(TRUE) \/ Finish(FALSE))
      BY <2>12 DEF UpdateStatus, FailedPatch
    <3>5. CASE UNCHANGED informer
      BY <3>3, <3>4, <3>5, FinishType DEF TypeOK, informer, env
    <3>6. CASE \E o \in Objects : Write(pass.scaler, o, "status") /\ UNCHANGED cache
      BY <3>1, <3>3, <3>4, <3>6, WriteType, FinishType DEF TypeOK, env
    <3> QED
      BY <2>12, <3>2, <3>5, <3>6 DEF UpdateStatus, FailedPatch
  <2>13. ASSUME Restart PROVE TypeOK'
    BY <2>13, FaultType, Defaults DEF TypeOK, Restart, env
  <2>14. ASSUME Environment PROVE TypeOK'
    <3>1. edits' \in 0 .. MaxEdits
      BY <2>14, EditType DEF Environment, UserCreates, UserEditsSpec, UserDeletes,
                             ClockAdvances, UserScales, SecretToggles
    <3>2. ASSUME NEW s \in Scalers, NEW spec \in Specs, UserCreates(s, spec) PROVE TypeOK'
      <4>1. [Gone EXCEPT !.exists = TRUE, !.spec = spec] \in Objects
        BY Defaults DEF Objects
      <4> QED
        BY <3>1, <3>2, <4>1, WriteType DEF TypeOK, UserCreates, sched
    <3>3. ASSUME NEW s \in Scalers, NEW spec \in Specs, UserEditsSpec(s, spec) PROVE TypeOK'
      <4>1. [api[s] EXCEPT !.spec = spec] \in Objects
        BY ObjectUpdates DEF TypeOK
      <4> QED
        BY <3>1, <3>3, <4>1, WriteType DEF TypeOK, UserEditsSpec, sched
    <3>4. ASSUME NEW s \in Scalers, UserDeletes(s) PROVE TypeOK'
      <4>1. [api[s] EXCEPT !.deleting = TRUE] \in Objects /\ Gone \in Objects
        BY Defaults, ObjectUpdates DEF TypeOK
      <4> QED
        BY <3>1, <3>4, <4>1, WriteType DEF TypeOK, UserDeletes, sched
    <3>5. ASSUME NEW t \in Times, ClockAdvances(t) PROVE TypeOK'
      BY <3>1, <3>5 DEF TypeOK, ClockAdvances, informer, sched
    <3>6. ASSUME NEW w \in Workloads, NEW n \in Counts, UserScales(w, n) PROVE TypeOK'
      <4>1. n \in Nat
        BY PeriodAssumption
      <4>2. work' \in [Workloads -> Workload(PeriodNames)] /\ desired' \in [Workloads -> Nat]
        BY <3>6, <4>1 DEF TypeOK, UserScales, Workload
      <4>3. pass' \in Passes
        BY <3>6 DEF TypeOK, UserScales, Passes
      <4> QED
        BY <3>1, <3>6, <4>2, <4>3 DEF TypeOK, UserScales, informer, sched
    <3>7. ASSUME SecretToggles PROVE TypeOK'
      BY <3>1, <3>7 DEF TypeOK, SecretToggles, informer, sched
    <3> QED
      BY <2>14, <3>2, <3>3, <3>4, <3>5, <3>6, <3>7 DEF Environment
  <2>15. ASSUME UNCHANGED vars PROVE TypeOK'
    BY <2>15 DEF TypeOK, vars, informer, sched, env
  <2> QED
    BY <2>1, <2>2, <2>3, <2>4, <2>5, <2>6, <2>7, <2>8, <2>9, <2>10, <2>11, <2>12, <2>13,
       <2>14, <2>15 DEF Next, Handlers
<1> QED
  BY <1>1, <1>2, PTL DEF Spec

----
(***************************************************************************)
(* The owner's replica count survives.                                     *)
(***************************************************************************)
\* What the worker read of a workload is what the API server holds, unless
\* somebody overtook it: without this, OriginalKept is not inductive.
ReadCurrent == pc = "update" /\ pass.current => pass.read = work[pass.item]

OriginalInv == OriginalKept /\ ReadCurrent

\* Only three steps touch a workload or what is known of it.
LEMMA WorkloadsUntouched ==
    ASSUME TypeOK, OriginalInv, UNCHANGED <<work, desired>>,
           pc' # "update" \/ UNCHANGED <<pc, pass>>
    PROVE  OriginalInv'
BY DEF OriginalInv, OriginalKept, ReadCurrent

LEMMA OriginalInvInit == ASSUME Init PROVE OriginalInv
BY PeriodAssumption DEF Init, OriginalInv, OriginalKept, ReadCurrent, Original, Held, Absent

LEMMA OriginalInvNext == ASSUME TypeOK, OriginalInv, [Next]_vars PROVE OriginalInv'
<1>1. ASSUME NEW w \in Workloads, GetWorkload(w) PROVE OriginalInv'
  <2>1. pass \in Passes /\ UNCHANGED <<work, desired>>
    BY <1>1 DEF TypeOK, GetWorkload, env
  <2>2. ReadCurrent'
    BY <1>1, <2>1 DEF GetWorkload, ReadCurrent, Passes
  <2> QED
    BY <2>1, <2>2 DEF OriginalInv, OriginalKept
<1>2. ASSUME UpdateWorkload PROVE OriginalInv'
  <2>1. /\ pass.read \in Workload(PeriodNames) /\ pass.period \in Periods \cup {NoAction}
        /\ pass.item \in Workloads /\ work \in [Workloads -> Workload(PeriodNames)]
    BY DEF TypeOK, Passes
  <2>2. pc' = "process" /\ UNCHANGED desired
    BY <1>2 DEF UpdateWorkload, env
  <2>3. CASE UNCHANGED work
    BY <2>2, <2>3, WorkloadsUntouched
  <2>4. CASE pc = "update" /\ pass.current
             /\ work' = [work EXCEPT ![pass.item] = ApplyScaling(pass.read, pass.period)]
    <3>1. pass.read = work[pass.item]
      BY <2>4 DEF OriginalInv, ReadCurrent
    <3>2. Original(ApplyScaling(pass.read, pass.period)) = Original(work[pass.item])
      BY <2>1, <3>1, ScalingKeepsOriginal
    <3>3. \A w \in Workloads : Original(work'[w]) = Original(work[w])
      BY <2>1, <2>4, <3>2
    <3> QED
      BY <2>2, <3>3 DEF OriginalInv, OriginalKept, ReadCurrent
  <2> QED
    BY <1>2, <2>3, <2>4 DEF UpdateWorkload, UpToDate
<1>3. ASSUME NEW w \in Workloads, NEW n \in Counts, UserScales(w, n) PROVE OriginalInv'
  <2>1. pass \in Passes /\ work \in [Workloads -> Workload(PeriodNames)] /\ UNCHANGED pc
        /\ desired \in [Workloads -> Nat]
    BY <1>3 DEF TypeOK, UserScales
  <2>2. /\ work' = [work EXCEPT ![w] = [work[w] EXCEPT !.replicas = n]]
        /\ Held(work'[w]) = Held(work[w])
    BY <1>3, <2>1 DEF UserScales, Held, Workload
  <2>3. OriginalKept'
    <3>1. CASE Held(work[w])
      <4>1. Original(work'[w]) = Original(work[w])
        BY <2>1, <2>2, <3>1 DEF Original, Held, Workload
      <4> QED
        BY <1>3, <2>1, <2>2, <3>1, <4>1 DEF UserScales, OriginalInv, OriginalKept
    <3>2. CASE ~Held(work[w])
      <4>1. Original(work'[w]) = n
        BY <2>1, <2>2, <3>2 DEF Original, Workload
      <4> QED
        BY <1>3, <2>1, <2>2, <3>2, <4>1 DEF UserScales, OriginalInv, OriginalKept
    <3> QED
      BY <3>1, <3>2
  <2>4. ReadCurrent'
    <3>1. CASE pc = "update" /\ pass.item = w
      BY <1>3, <2>1, <3>1 DEF UserScales, ReadCurrent, Passes
    <3>2. CASE ~(pc = "update" /\ pass.item = w)
      BY <1>3, <2>1, <2>2, <3>2 DEF UserScales, OriginalInv, ReadCurrent, Passes
    <3> QED
      BY <3>1, <3>2
  <2> QED
    BY <2>3, <2>4 DEF OriginalInv
<1>4. CASE \E s \in Scalers : Sync(s) \/ TimerFires(s) \/ Fetch(s)
  BY <1>4, WorkloadsUntouched DEF Sync, TimerFires, Fetch, env
<1>5. CASE \/ FinalizerHandler \/ AuthHandler \/ PeriodHandler \/ ListResources
           \/ AllProcessed \/ RemoveFinalizer \/ UpdateStatus
  <2>1. UNCHANGED <<work, desired>>
    BY <1>5 DEF FinalizerHandler, AuthHandler, PeriodHandler, ListResources, AllProcessed,
                RemoveFinalizer, UpdateStatus, env
  <2>2. pc' # "update"
    BY <1>5 DEF FinalizerHandler, AddFinalizer, AuthHandler, PeriodHandler, ListResources,
                AllProcessed, RemoveFinalizer, UpdateStatus, FailedPatch, Finish, Proceed
  <2> QED
    BY <2>1, <2>2, WorkloadsUntouched
<1>6. CASE Restart
  BY <1>6, WorkloadsUntouched DEF Restart, env
<1>7. CASE \/ \E s \in Scalers, spec \in Specs : UserCreates(s, spec) \/ UserEditsSpec(s, spec)
           \/ \E s \in Scalers : UserDeletes(s)
           \/ \E t \in Times : ClockAdvances(t)
           \/ SecretToggles
  BY <1>7, WorkloadsUntouched DEF UserCreates, UserEditsSpec, UserDeletes, ClockAdvances,
                                  SecretToggles
<1>8. CASE UNCHANGED vars
  BY <1>8, WorkloadsUntouched DEF vars, env
<1> QED
  BY <1>1, <1>2, <1>3, <1>4, <1>5, <1>6, <1>7, <1>8 DEF Next, Handlers, Environment

\* Across scaling, restoring, failed and lost updates, crashes, overlapping
\* scalers and users who overtake the controller, the replica count the owner of
\* a workload last chose is in the spec or in the annotation.
THEOREM OriginalSafe == Spec => []OriginalKept
<1>1. OriginalInv => OriginalKept
  BY DEF OriginalInv
<1> QED
  BY <1>1, OriginalInvInit, OriginalInvNext, TypeCorrect, PTL DEF Spec

----
(***************************************************************************)
(* The scalers implement Borrowing.                                        *)
(***************************************************************************)
\* What owners see of a step that stores x as the workload w, and nothing else.
LEMMA OneWorkload ==
    ASSUME TypeOK, NEW w \in Workloads, NEW x \in Workload(PeriodNames),
           work' = [work EXCEPT ![w] = x]
    PROVE  /\ Lending!Set(w)
           /\ [v \in Workloads |-> Held(work'[v])] =
                [[v \in Workloads |-> Held(work[v])] EXCEPT ![w] = Held(x)]
           /\ work'[w] = x /\ x.replicas \in Nat
<1>1. work \in [Workloads -> Workload(PeriodNames)]
  BY DEF TypeOK
<1>2. work'[w] = x /\ x.replicas \in Nat
  BY <1>1 DEF Workload
<1>3. [v \in Workloads |-> work'[v].replicas] =
        [[v \in Workloads |-> work[v].replicas] EXCEPT ![w] = x.replicas]
  BY <1>1
<1>4. [v \in Workloads |-> Held(work'[v])] =
        [[v \in Workloads |-> Held(work[v])] EXCEPT ![w] = Held(x)]
  BY <1>1
<1> QED
  BY <1>2, <1>3, <1>4 DEF Lending!Set

\* A pass takes hold of a workload under a period, and releases it at noaction, with
\* the count that OriginalKept says is the owner's.
LEMMA ScalingLends ==
    ASSUME TypeOK, OriginalInv, NEW w \in Workloads, NEW p \in Periods \cup {NoAction},
           work' = [work EXCEPT ![w] = ApplyScaling(work[w], p)], UNCHANGED desired
    PROVE  [Lending!Next]_(Lending!vars)
<1> DEFINE x == ApplyScaling(work[w], p)
<1>1. /\ work \in [Workloads -> Workload(PeriodNames)] /\ work[w] \in Workload(PeriodNames)
      /\ desired \in [Workloads -> Nat]
  BY DEF TypeOK
<1>2. x \in Workload(PeriodNames) /\ Original(x) = desired[w]
  BY <1>1, ScalingKeepsOriginal DEF OriginalInv, OriginalKept
<1>3. /\ Lending!Set(w) /\ work'[w] = x
      /\ [v \in Workloads |-> Held(work'[v])] =
           [[v \in Workloads |-> Held(work[v])] EXCEPT ![w] = Held(x)]
  BY <1>2, OneWorkload
<1>4. CASE Held(x)
  BY <1>3, <1>4 DEF Lending!Next, Lending!Hold
<1>5. CASE ~Held(x) /\ Held(work[w])
  <2>1. x.replicas = desired[w]
    BY <1>2, <1>5 DEF Original
  <2>2. Held(x) = FALSE
    BY <1>5 DEF Held
  <2>3. Lending!Release(w)
    BY <1>1, <1>3, <1>5, <2>1, <2>2 DEF Lending!Release
  <2> QED BY <2>3 DEF Lending!Next
<1>6. CASE ~Held(x) /\ ~Held(work[w])
  <2>1. x.replicas = work[w].replicas
    BY <1>1, <1>2, <1>6 DEF Original, OriginalInv, OriginalKept
  <2>2. [v \in Workloads |-> work'[v].replicas] = [v \in Workloads |-> work[v].replicas]
    BY <1>1, <2>1
  <2>3. [v \in Workloads |-> Held(work'[v])] = [v \in Workloads |-> Held(work[v])]
    <3>1. Held(x) = FALSE /\ Held(work[w]) = FALSE
      BY <1>6 DEF Held
    <3> QED BY <1>1, <3>1
  <2> QED BY <2>2, <2>3 DEF Lending!vars
<1> QED BY <1>4, <1>5, <1>6

\* Users, passes, crashes and lost answers do to the workloads nothing but what the
\* abstract lender does: for any scalers, workloads, periods and specs, what is
\* given back is what the owner wished for.
THEOREM Lends == Spec => LendsWorkloads
<1>1. ASSUME Init PROVE Lending!Init
  <2>1. desired \in [Workloads -> Nat]
    BY <1>1, PeriodAssumption DEF Init
  <2>2. [w \in Workloads |-> work[w].replicas] = desired
    BY <1>1, <2>1 DEF Init
  <2>3. [w \in Workloads |-> Held(work[w])] = [w \in Workloads |-> FALSE]
    BY <1>1 DEF Init, Held, Absent
  <2> QED BY <2>1, <2>2, <2>3 DEF Lending!Init
<1>2. ASSUME TypeOK, OriginalInv, [Next]_vars PROVE [Lending!Next]_(Lending!vars)
  <2> USE <1>2
  <2>1. ASSUME UNCHANGED <<work, desired>> PROVE [Lending!Next]_(Lending!vars)
    BY <2>1 DEF Lending!vars
  <2>2. CASE UpdateWorkload
    <3>1. /\ pass.period \in Periods \cup {NoAction} /\ pass.item \in Workloads
          /\ pc = "update" /\ UNCHANGED desired
      BY <2>2 DEF TypeOK, Passes, UpdateWorkload, env
    <3>2. CASE /\ pass.current
               /\ work' = [work EXCEPT ![pass.item] = ApplyScaling(pass.read, pass.period)]
      BY <3>1, <3>2, ScalingLends DEF OriginalInv, ReadCurrent
    <3>3. CASE UNCHANGED work
      BY <2>1, <3>1, <3>3
    <3> QED BY <2>2, <3>2, <3>3 DEF UpdateWorkload, UpToDate
  <2>3. ASSUME NEW w \in Workloads, NEW n \in Counts, UserScales(w, n)
        PROVE  [Lending!Next]_(Lending!vars)
    <3> DEFINE x == [work[w] EXCEPT !.replicas = n]
    <3>1. /\ work' = [work EXCEPT ![w] = x]
          /\ desired' = IF Held(work[w]) THEN desired ELSE [desired EXCEPT ![w] = n]
      BY <2>3 DEF UserScales
    <3>2. x \in Workload(PeriodNames) /\ x.replicas = n /\ (Held(x) <=> Held(work[w]))
      BY PeriodAssumption DEF TypeOK, Workload, Held
    <3>3. /\ Lending!Set(w) /\ work'[w] = x
          /\ [v \in Workloads |-> Held(work'[v])] =
               [[v \in Workloads |-> Held(work[v])] EXCEPT ![w] = Held(x)]
      BY <3>1, <3>2, OneWorkload
    <3>4. [v \in Workloads |-> Held(work'[v])] = [v \in Workloads |-> Held(work[v])]
      <4>1. Held(x) = Held(work[w])
        BY <3>2 DEF Held
      <4> QED BY <3>3, <4>1
    <3>5. Lending!OwnerSets(w)
      BY <3>1, <3>2, <3>3, <3>4 DEF Lending!OwnerSets
    <3> QED BY <3>5 DEF Lending!Next
  <2>4. CASE \E s \in Scalers : Sync(s) \/ TimerFires(s) \/ Fetch(s)
    BY <2>1, <2>4 DEF Sync, TimerFires, Fetch, env
  <2>5. CASE \/ FinalizerHandler \/ AuthHandler \/ PeriodHandler \/ ListResources
             \/ (\E w \in Workloads : GetWorkload(w))
             \/ AllProcessed \/ RemoveFinalizer \/ UpdateStatus
    BY <2>1, <2>5 DEF FinalizerHandler, AuthHandler, PeriodHandler, ListResources, GetWorkload,
                      AllProcessed, RemoveFinalizer, UpdateStatus, env
  <2>6. CASE Restart \/ UNCHANGED vars
    BY <2>1, <2>6 DEF Restart, vars, env
  <2>7. CASE \/ \E s \in Scalers, spec \in Specs : UserCreates(s, spec) \/ UserEditsSpec(s, spec)
             \/ \E s \in Scalers : UserDeletes(s)
             \/ \E t \in Times : ClockAdvances(t)
             \/ SecretToggles
    BY <2>1, <2>7 DEF UserCreates, UserEditsSpec, UserDeletes, ClockAdvances, SecretToggles
  <2> QED
    BY <2>2, <2>3, <2>4, <2>5, <2>6, <2>7 DEF Next, Handlers, Environment
<1> QED
  BY <1>1, <1>2, OriginalInvInit, OriginalInvNext, TypeCorrect, PTL
     DEF Spec, LendsWorkloads, Lending!Spec

\* What BorrowingProofs says of every lender, for this one.
Lent == INSTANCE BorrowingProofs WITH
    Resources <- Workloads, States <- Nat, Recordable <- Nat,
    wish <- desired,
    shown <- [w \in Workloads |-> work[w].replicas],
    held <- [w \in Workloads |-> Held(work[w])]

\* A workload nobody holds has the replicas its owner asked for, through whatever
\* passes of several scalers, edits, failures and restarts.
THEOREM GivenBackSafe ==
    Spec => [](\A w \in Workloads : ~Held(work[w]) => work[w].replicas = desired[w])
<1>1. Lending!Init => Lent!Init
  BY DEF Lending!Init, Lent!Init
<1>2. [Lending!Next]_(Lending!vars) => [Lent!Next]_(Lent!vars)
  BY DEF Lending!Next, Lending!vars, Lending!OwnerSets, Lending!Hold, Lending!Release, Lending!Set,
         Lent!Next, Lent!vars, Lent!OwnerSets, Lent!Hold, Lent!Release, Lent!Set
<1>3. Lending!Spec => Lent!Spec
  BY <1>1, <1>2, PTL DEF Lending!Spec, Lent!Spec
<1>4. TypeOK /\ Lent!GivenBack =>
         \A w \in Workloads : ~Held(work[w]) => work[w].replicas = desired[w]
  BY DEF Lent!GivenBack, TypeOK
<1>5. Lent!Spec => []Lent!GivenBack
  BY Lent!AlwaysGivenBack
<1> QED
  BY <1>3, <1>4, <1>5, Lends, TypeCorrect, PTL DEF LendsWorkloads
====
