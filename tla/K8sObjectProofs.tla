---- MODULE K8sObjectProofs ----
(***************************************************************************)
(* Proofs about the K8s objects themselves: the finalizer that protects    *)
(* what a pass takes hold of, the worker that always comes back, the       *)
(* status that tells what is held and the release of it when an object     *)
(* goes.                                                                   *)
(***************************************************************************)
EXTENDS K8sScalerProofs

----
(***************************************************************************)
(* The finalizer.                                                          *)
(***************************************************************************)
\* Objects on their way out are the ones with a finalizer, on the server and in
\* every copy, and a cache that is up to date holds the server's object.
WellFormed(o) == (o.deleting => o.finalizer) /\ (o.finalizer => o.exists)
Copies ==
    /\ \A s \in Scalers : WellFormed(api[s]) /\ WellFormed(cache[s])
    /\ \A s \in Scalers : fresh[s] => cache[s] = api[s]
    /\ WellFormed(pass.copy)

\* What the informer last saw of the finalizer is still so: nothing takes it
\* away but a finalizing pass, and nothing gives one to the next object of the
\* same name but a pass whose cache is up to date.
Lineage ==
    \A s \in Scalers :
        /\ cache[s].finalizer /\ ~cache[s].deleting => api[s].finalizer
        /\ cache[s].deleting /\ api[s].finalizer => api[s].deleting

\* The same of the object the running pass is about.
PassLineage ==
    pc # "idle" =>
        /\ ~pass.copy.deleting /\ (cache[pass.scaler].finalizer \/ pass.copy.finalizer)
               => api[pass.scaler].finalizer
        /\ pass.copy.deleting /\ api[pass.scaler].finalizer => api[pass.scaler].deleting
        /\ pc = "finalizer" => ~pass.shouldFinalize
        /\ pc # "finalizer" => (pass.shouldFinalize <=> pass.copy.deleting)

FinalizerInv == Copies /\ Lineage /\ PassLineage /\ HoldsUnderFinalizer

\* A step that leaves the objects alone, and ends the pass or moves it forward.
PassMovesOn ==
    /\ pc \notin {"idle", "finalizer"} /\ pc' \notin {"idle", "finalizer"}
    /\ pass'.scaler = pass.scaler /\ pass'.copy = pass.copy
    /\ pass'.shouldFinalize = pass.shouldFinalize

LEMMA ObjectsUntouched ==
    ASSUME TypeOK, FinalizerInv, UNCHANGED <<api, cache, fresh>>,
           (pc' = "idle" /\ pass' = IdlePass) \/ PassMovesOn \/ UNCHANGED <<pc, pass>>
    PROVE  FinalizerInv'
<1>1. Copies' /\ Lineage'
  BY Defaults DEF FinalizerInv, Copies, Lineage, WellFormed, PassMovesOn
<1>2. PassLineage' /\ HoldsUnderFinalizer'
  BY DEF FinalizerInv, PassLineage, HoldsUnderFinalizer, PassMovesOn
<1> QED
  BY <1>1, <1>2 DEF FinalizerInv

\* A pass that ends with a write to its own object.
LEMMA PassEndsWithWrite ==
    ASSUME TypeOK, FinalizerInv, NEW requeue, NEW change,
           Finish(requeue), UNCHANGED cache, NEW s \in Scalers, fresh[s],
           NEW o \in Objects, Write(s, o, change), WellFormed(o),
           cache[s].finalizer /\ ~cache[s].deleting => o.finalizer,
           cache[s].deleting /\ o.finalizer => o.deleting
    PROVE  FinalizerInv'
<1>1. api \in [Scalers -> Objects] /\ fresh \in [Scalers -> BOOLEAN]
  BY DEF TypeOK
<1>2. Copies' /\ Lineage'
  BY <1>1, Defaults DEF FinalizerInv, Copies, Lineage, Write, Finish, WellFormed
<1>3. PassLineage' /\ HoldsUnderFinalizer'
  BY DEF Finish, PassLineage, HoldsUnderFinalizer
<1> QED
  BY <1>2, <1>3 DEF FinalizerInv

\* What a user does to an object, whatever the informer and the running pass have
\* seen of it.
LEMMA UserWrites ==
    ASSUME TypeOK, FinalizerInv, UNCHANGED <<cache, pc, pass>>,
           NEW s \in Scalers, NEW o \in Objects, NEW change, Write(s, o, change), WellFormed(o),
           o.finalizer = api[s].finalizer, api[s].deleting => o.deleting
    PROVE  FinalizerInv'
<1>1. api \in [Scalers -> Objects] /\ fresh \in [Scalers -> BOOLEAN] /\ pass.scaler \in Scalers
  BY DEF TypeOK, Passes
<1>2. /\ api' \in [Scalers -> Objects] /\ api'[s] = o
      /\ \A t \in Scalers \ {s} : api'[t] = api[t] /\ fresh'[t] = fresh[t]
      /\ fresh'[s] = FALSE
  BY <1>1 DEF Write
<1>3. Copies' /\ Lineage'
  BY <1>2 DEF FinalizerInv, Copies, Lineage, WellFormed
<1>4. \A t \in Scalers : /\ api'[t].finalizer = api[t].finalizer
                         /\ api[t].deleting => api'[t].deleting
                         /\ api'[t].finalizer => api'[t].exists
  BY <1>2, <1>3 DEF Copies, WellFormed
<1>5. PassLineage' /\ HoldsUnderFinalizer'
  BY <1>1, <1>4 DEF FinalizerInv, PassLineage, HoldsUnderFinalizer
<1> QED
  BY <1>3, <1>5 DEF FinalizerInv

\* FinalizerInv is inductive: a finalizer that a copy shows can only have been
\* taken away by a finalizing pass, whose patch needs an up-to-date cache.
LEMMA FinalizerInvariant == Spec => []FinalizerInv
<1>1. ASSUME Init PROVE FinalizerInv
  BY <1>1, Defaults DEF Init, FinalizerInv, Copies, Lineage, PassLineage, WellFormed,
                        HoldsUnderFinalizer
<1>2. ASSUME TypeOK, FinalizerInv, [Next]_vars PROVE FinalizerInv'
  <2> USE <1>2
  <2>0. /\ pass.scaler \in Scalers /\ pass \in Passes
        /\ api \in [Scalers -> Objects] /\ cache \in [Scalers -> Objects]
        /\ fresh \in [Scalers -> BOOLEAN]
    BY DEF TypeOK, Passes
  <2>1. ASSUME NEW s \in Scalers, Sync(s) PROVE FinalizerInv'
    <3>1. /\ UNCHANGED <<api, pc, pass>>
          /\ cache'[s] = api[s] /\ \A t \in Scalers \ {s} : cache'[t] = cache[t]
          /\ \A t \in Scalers \ {s} : fresh'[t] = fresh[t]
      BY <2>0, <2>1 DEF Sync
    <3>2. Copies' /\ Lineage'
      BY <3>1 DEF FinalizerInv, Copies, Lineage, WellFormed
    <3>3. PassLineage' /\ HoldsUnderFinalizer'
      BY <2>0, <3>1 DEF FinalizerInv, PassLineage, HoldsUnderFinalizer
    <3> QED
      BY <3>2, <3>3 DEF FinalizerInv
  <2>2. ASSUME NEW s \in Scalers, TimerFires(s) PROVE FinalizerInv'
    BY <2>2, ObjectsUntouched DEF TimerFires, informer
  <2>3. ASSUME NEW s \in Scalers, Fetch(s) PROVE FinalizerInv'
    <3>1. UNCHANGED <<api, cache, fresh>>
      BY <2>3 DEF Fetch, informer
    <3>2. CASE UNCHANGED <<pc, pass>>
      BY <3>1, <3>2, ObjectsUntouched
    <3>3. CASE pc' = "finalizer" /\ pass' = [IdlePass EXCEPT !.scaler = s, !.copy = cache[s]]
      <4>1. pass'.scaler = s /\ pass'.copy = cache[s] /\ pass'.shouldFinalize = FALSE
        BY <3>3, Defaults DEF Passes
      <4>2. Copies' /\ Lineage'
        BY <3>1, <4>1 DEF FinalizerInv, Copies, Lineage, WellFormed
      <4>3. PassLineage' /\ HoldsUnderFinalizer'
        BY <3>1, <3>3, <4>1 DEF FinalizerInv, Lineage, PassLineage, HoldsUnderFinalizer
      <4> QED
        BY <4>2, <4>3 DEF FinalizerInv
    <3> QED
      BY <2>3, <3>2, <3>3 DEF Fetch
  <2>4. ASSUME FinalizerHandler PROVE FinalizerInv'
    <3>1. CASE UNCHANGED informer /\ (Finish(FALSE) \/ Finish(TRUE))
      BY <3>1, ObjectsUntouched DEF informer, Finish
    <3>2. CASE /\ UNCHANGED <<informer, pass>> /\ Proceed("auth") /\ ~pass.copy.deleting
               /\ pass.copy.finalizer \/ cache[pass.scaler].finalizer
      <4>1. api[pass.scaler].finalizer /\ api[pass.scaler].exists /\ ~pass.shouldFinalize
        BY <2>0, <2>4, <3>2 DEF FinalizerHandler, FinalizerInv, PassLineage, Copies, WellFormed
      <4>2. Copies' /\ Lineage'
        BY <3>2 DEF informer, FinalizerInv, Copies, Lineage, WellFormed
      <4>3. PassLineage' /\ HoldsUnderFinalizer'
        BY <4>1, <2>4, <3>2 DEF FinalizerHandler, informer, Proceed, PassLineage, HoldsUnderFinalizer
      <4> QED
        BY <4>2, <4>3 DEF FinalizerInv
    <3>3. CASE /\ UNCHANGED informer /\ Proceed("auth") /\ pass.copy.deleting
               /\ pass' = [pass EXCEPT !.shouldFinalize = TRUE]
      <4>1. pass'.scaler = pass.scaler /\ pass'.copy = pass.copy /\ pass'.shouldFinalize = TRUE
        BY <2>0, <3>3 DEF Passes
      <4>2. Copies' /\ Lineage'
        BY <3>3, <4>1 DEF informer, FinalizerInv, Copies, Lineage, WellFormed
      <4>3. PassLineage' /\ HoldsUnderFinalizer'
        BY <4>1, <2>4, <3>3 DEF FinalizerHandler, informer, Proceed, FinalizerInv, PassLineage,
                                HoldsUnderFinalizer
      <4> QED
        BY <4>2, <4>3 DEF FinalizerInv
    <3>4. CASE /\ CanPatch(pass.scaler) /\ ~cache[pass.scaler].finalizer /\ ~pass.copy.deleting
               /\ Write(pass.scaler, [api[pass.scaler] EXCEPT !.finalizer = TRUE], "finalizer")
               /\ Proceed("auth") /\ UNCHANGED <<cache, pass>>
      <4>1. /\ cache[pass.scaler] = api[pass.scaler] /\ api[pass.scaler].exists
            /\ ~api[pass.scaler].deleting
        BY <2>0, <3>4 DEF CanPatch, PatchNotFound, FinalizerInv, Copies, WellFormed
      <4>2. /\ api'[pass.scaler].finalizer /\ api'[pass.scaler].exists
            /\ ~api'[pass.scaler].deleting
            /\ \A t \in Scalers \ {pass.scaler} : api'[t] = api[t] /\ fresh'[t] = fresh[t]
            /\ fresh'[pass.scaler] = FALSE
        BY <2>0, <3>4, <4>1 DEF Write, Objects
      <4>3. Copies' /\ Lineage'
        BY <3>4, <4>1, <4>2 DEF FinalizerInv, Copies, Lineage, WellFormed
      <4>4. PassLineage' /\ HoldsUnderFinalizer'
        BY <2>4, <3>4, <4>2 DEF FinalizerHandler, Proceed, FinalizerInv, PassLineage,
                                HoldsUnderFinalizer
      <4> QED
        BY <4>3, <4>4 DEF FinalizerInv
    <3>5. CASE /\ CanPatch(pass.scaler) /\ ~cache[pass.scaler].finalizer /\ ~pass.copy.deleting
               /\ Write(pass.scaler, [api[pass.scaler] EXCEPT !.finalizer = TRUE], "finalizer")
               /\ Finish(TRUE) /\ UNCHANGED cache
      <4> DEFINE o == [api[pass.scaler] EXCEPT !.finalizer = TRUE]
      <4>1. o \in Objects
        BY <2>0, ObjectUpdates
      <4>2. o.exists = api[pass.scaler].exists /\ o.deleting = api[pass.scaler].deleting
            /\ o.finalizer
        BY <2>0 DEF Objects
      <4>3. /\ cache[pass.scaler] = api[pass.scaler] /\ api[pass.scaler].exists
            /\ ~api[pass.scaler].deleting /\ fresh[pass.scaler]
        BY <2>0, <3>5 DEF CanPatch, PatchNotFound, FinalizerInv, Copies, WellFormed
      <4>4. WellFormed(o)
        BY <4>2, <4>3 DEF WellFormed
      <4> HIDE DEF o
      <4> QED
        BY <2>0, <3>5, <4>1, <4>2, <4>3, <4>4, PassEndsWithWrite DEF o
    <3> QED
      BY <2>4, <3>1, <3>2, <3>3, <3>4, <3>5 DEF FinalizerHandler, AddFinalizer, FailedPatch
  <2>5. ASSUME AuthHandler PROVE FinalizerInv'
    <3>1. CASE pc' = "period" /\ UNCHANGED pass
      BY <2>5, <3>1, ObjectsUntouched DEF AuthHandler, informer, PassMovesOn
    <3> QED
      BY <2>5, <3>1, ObjectsUntouched DEF AuthHandler, informer, Finish
  <2>6. ASSUME PeriodHandler PROVE FinalizerInv'
    <3>1. CASE UNCHANGED informer /\ Finish(TRUE)
      BY <3>1, ObjectsUntouched DEF informer, Finish
    <3>2. CASE UNCHANGED informer /\ pass' = [pass EXCEPT !.period = ActivePeriod]
               /\ Proceed("scaling")
      BY <2>0, <2>6, <3>2, ObjectsUntouched DEF PeriodHandler, informer, PassMovesOn, Passes, Proceed
    <3>3. CASE /\ CanPatch(pass.scaler) /\ Write(pass.scaler, api[pass.scaler], "status")
               /\ UNCHANGED cache /\ Finish(TRUE)
      BY <2>0, <3>3, PassEndsWithWrite DEF CanPatch, FinalizerInv, Copies, Lineage
    <3> QED
      BY <2>6, <3>1, <3>2, <3>3 DEF PeriodHandler
  <2>7. ASSUME ListResources PROVE FinalizerInv'
    <3>1. PassMovesOn
      BY <2>0, <2>7 DEF ListResources, PassMovesOn, Passes
    <3> QED
      BY <2>7, <3>1, ObjectsUntouched DEF ListResources, informer
  <2>8. ASSUME NEW w \in Workloads, GetWorkload(w) PROVE FinalizerInv'
    <3>1. PassMovesOn
      BY <2>0, <2>8 DEF GetWorkload, PassMovesOn, Passes
    <3> QED
      BY <2>8, <3>1, ObjectsUntouched DEF GetWorkload, informer
  <2>9. ASSUME UpdateWorkload PROVE FinalizerInv'
    <3>1. PassMovesOn
      BY <2>0, <2>9 DEF UpdateWorkload, PassMovesOn, Passes
    <3> QED
      BY <2>9, <3>1, ObjectsUntouched DEF UpdateWorkload, informer
  <2>10. ASSUME AllProcessed PROVE FinalizerInv'
    BY <2>10, ObjectsUntouched DEF AllProcessed, informer, PassMovesOn
  <2>11. ASSUME RemoveFinalizer PROVE FinalizerInv'
    <3>1. CASE UNCHANGED informer /\ (Finish(FALSE) \/ Finish(TRUE))
      BY <3>1, ObjectsUntouched DEF informer, Finish
    <3>2. CASE /\ CanPatch(pass.scaler) /\ cache[pass.scaler].finalizer
               /\ Write(pass.scaler,
                        IF api[pass.scaler].deleting THEN Gone
                        ELSE [api[pass.scaler] EXCEPT !.finalizer = FALSE], "finalizer")
               /\ (Finish(FALSE) \/ Finish(TRUE)) /\ UNCHANGED cache
      <4>1. cache[pass.scaler] = api[pass.scaler] /\ api[pass.scaler].finalizer
        BY <2>0, <3>2 DEF CanPatch, FinalizerInv, Copies
      <4>2. api[pass.scaler].deleting
        BY <4>1, <2>11 DEF RemoveFinalizer, FinalizerInv, PassLineage
      <4> QED
        BY <2>0, <3>2, <4>1, <4>2, Defaults, PassEndsWithWrite DEF CanPatch, WellFormed
    <3> QED
      BY <2>11, <3>1, <3>2 DEF RemoveFinalizer, FailedPatch
  <2>12. ASSUME UpdateStatus PROVE FinalizerInv'
    <3>1. CASE UNCHANGED informer /\ (Finish(FALSE) \/ Finish(TRUE))
      BY <3>1, ObjectsUntouched DEF informer, Finish
    <3>2. CASE /\ CanPatch(pass.scaler)
               /\ Write(pass.scaler, [api[pass.scaler] EXCEPT !.status = pass.period], "status")
               /\ Finish(TRUE) /\ UNCHANGED cache
      <4> DEFINE o == [api[pass.scaler] EXCEPT !.status = pass.period]
      <4>1. o \in Objects
        BY <2>0, ObjectUpdates DEF Passes
      <4>2. /\ o.exists = api[pass.scaler].exists /\ o.deleting = api[pass.scaler].deleting
            /\ o.finalizer = api[pass.scaler].finalizer
        BY <2>0 DEF Objects
      <4>3. WellFormed(o) /\ fresh[pass.scaler] /\ cache[pass.scaler] = api[pass.scaler]
        BY <2>0, <3>2, <4>2 DEF FinalizerInv, Copies, WellFormed, CanPatch
      <4> HIDE DEF o
      <4> QED
        BY <2>0, <3>2, <4>1, <4>2, <4>3, PassEndsWithWrite DEF o
    <3> QED
      BY <2>12, <3>1, <3>2 DEF UpdateStatus, FailedPatch
  <2>13. ASSUME Restart PROVE FinalizerInv'
    BY <2>0, <2>13, Defaults DEF Restart, FinalizerInv, Copies, Lineage, PassLineage,
                                 HoldsUnderFinalizer, WellFormed
  <2>14. ASSUME NEW s \in Scalers, NEW spec \in Specs, UserCreates(s, spec) PROVE FinalizerInv'
    <3> DEFINE o == [Gone EXCEPT !.exists = TRUE, !.spec = spec]
    <3>1. o \in Objects /\ o.finalizer = FALSE /\ WellFormed(o)
      BY Defaults DEF Objects, WellFormed
    <3>2. api[s].finalizer = FALSE /\ ~api[s].deleting
      BY <2>0, <2>14 DEF UserCreates, FinalizerInv, Copies, WellFormed, Objects
    <3> HIDE DEF o
    <3> QED
      BY <2>14, <3>1, <3>2, UserWrites DEF UserCreates, o
  <2>15. ASSUME NEW s \in Scalers, UserDeletes(s) PROVE FinalizerInv'
    <3>1. CASE api[s].finalizer
      <4> DEFINE o == [api[s] EXCEPT !.deleting = TRUE]
      <4>1. o \in Objects
        BY <2>0, ObjectUpdates
      <4>2. o.finalizer = api[s].finalizer /\ o.deleting /\ WellFormed(o)
        BY <2>0, <2>15, <3>1 DEF UserDeletes, Objects, WellFormed
      <4> HIDE DEF o
      <4> QED
        BY <2>15, <3>1, <4>1, <4>2, UserWrites DEF UserDeletes, o
    <3>2. CASE ~api[s].finalizer
      <4>1. Gone \in Objects /\ Gone.finalizer = api[s].finalizer /\ WellFormed(Gone)
        BY <2>0, <3>2, Defaults DEF WellFormed, Objects
      <4> QED
        BY <2>15, <3>2, <4>1, UserWrites DEF UserDeletes
    <3> QED
      BY <3>1, <3>2
  <2>16. ASSUME NEW s \in Scalers, NEW spec \in Specs, UserEditsSpec(s, spec) PROVE FinalizerInv'
    <3> DEFINE o == [api[s] EXCEPT !.spec = spec]
    <3>1. o \in Objects
      BY <2>0, ObjectUpdates
    <3>2. /\ o.finalizer = api[s].finalizer /\ o.deleting = api[s].deleting
          /\ o.exists = api[s].exists
      BY <2>0 DEF Objects
    <3>3. WellFormed(o)
      BY <3>2 DEF FinalizerInv, Copies, WellFormed
    <3> HIDE DEF o
    <3> QED
      BY <2>16, <3>1, <3>2, <3>3, UserWrites DEF UserEditsSpec, o
  <2>17. ASSUME NEW w \in Workloads, NEW n \in Counts, UserScales(w, n) PROVE FinalizerInv'
    <3>1. pc' = pc /\ pass'.scaler = pass.scaler /\ pass'.copy = pass.copy
          /\ pass'.shouldFinalize = pass.shouldFinalize /\ UNCHANGED <<api, cache, fresh>>
      BY <2>0, <2>17 DEF UserScales, Passes, informer
    <3> QED
      BY <3>1 DEF FinalizerInv, Copies, Lineage, PassLineage, HoldsUnderFinalizer
  <2>18. CASE (\E t \in Times : ClockAdvances(t)) \/ SecretToggles \/ UNCHANGED vars
    BY <2>18, ObjectsUntouched DEF ClockAdvances, SecretToggles, vars, informer
  <2> QED
    BY <2>1, <2>2, <2>3, <2>4, <2>5, <2>6, <2>7, <2>8, <2>9, <2>10, <2>11, <2>12, <2>13,
       <2>14, <2>15, <2>16, <2>17, <2>18 DEF Next, Handlers, Environment
<1> QED
  BY <1>1, <1>2, TypeCorrect, PTL DEF Spec

\* Whatever a pass does to workloads, and however old the copy it works from, it
\* does under the finalizer of the object on the API server, so that a deletion
\* waits for the pass that releases them.
THEOREM FinalizerSafe == Spec => []HoldsUnderFinalizer
<1>1. FinalizerInv => HoldsUnderFinalizer
  BY DEF FinalizerInv
<1> QED
  BY <1>1, FinalizerInvariant, PTL

----
(***************************************************************************)
(* The worker always comes back.                                           *)
(***************************************************************************)
\* A difference between the informer's copy and the server's object that matters
\* to the chain is an undelivered event.
Delivery ==
    \A s \in Scalers : api[s].exists =>
        /\ ~cache[s].exists \/ cache[s].spec # api[s].spec => event[s]
        /\ cache[s].deleting /\ ~api[s].finalizer => event[s]

\* While the pass runs, s is queued again as soon as such an event arrives; and
\* an object on its way out keeps its finalizer in the informer's copy until the
\* pass itself removes it.
PassDelivery ==
    LET s == pass.scaler IN
    pc # "idle" /\ api[s].exists =>
        /\ pass.copy.spec # api[s].spec => event[s] \/ s \in queued
        /\ pass.copy.deleting /\ ~api[s].finalizer => event[s] \/ s \in queued
        /\ pass.copy.deleting /\ api[s].finalizer => cache[s].finalizer

DeliveryInv == Delivery /\ PassDelivery /\ NeverForgotten

\* A step that leaves the objects alone and forgets nothing: the pass goes on, or
\* ends with something that brings the worker back.
LEMMA NothingForgotten ==
    ASSUME TypeOK, DeliveryInv, UNCHANGED <<api, cache, event>>,
           queued \subseteq queued', timers \subseteq timers',
           \/ pc # "idle" /\ pc' # "idle" /\ pass'.scaler = pass.scaler /\ pass'.copy = pass.copy
           \/ UNCHANGED <<pc, pass>>
           \/ pc' = "idle" /\ (api[pass.scaler].exists /\ ~api[pass.scaler].spec.authSecret =>
                                 pass.scaler \in queued' \/ pass.scaler \in timers'
                                 \/ event[pass.scaler])
    PROVE  DeliveryInv'
<1>1. Delivery'
  BY DEF DeliveryInv, Delivery
<1>2. PassDelivery'
  BY DEF DeliveryInv, PassDelivery
<1>3. NeverForgotten'
  BY DEF DeliveryInv, NeverForgotten, Scheduled
<1> QED
  BY <1>1, <1>2, <1>3 DEF DeliveryInv

\* A write of the running pass to its own object, which changes neither its
\* existence nor its spec: it is no event, and the pass goes on or is repeated.
LEMMA PassWrites ==
    ASSUME TypeOK, DeliveryInv, NEW o \in Objects, NEW change, Write(pass.scaler, o, change),
           UNCHANGED cache, queued \subseteq queued', timers \subseteq timers', pc # "idle",
           o.exists = api[pass.scaler].exists, o.spec = api[pass.scaler].spec,
           o.finalizer \/ o.finalizer = api[pass.scaler].finalizer,
           \/ pc' = "idle" /\ pass.scaler \in timers'
           \/ pc' # "idle" /\ UNCHANGED pass /\ ~pass.copy.deleting
    PROVE  DeliveryInv'
<1> DEFINE s == pass.scaler
<1>1. s \in Scalers /\ api \in [Scalers -> Objects] /\ event \in [Scalers -> BOOLEAN]
  BY DEF TypeOK, Passes
<1>2. /\ api'[s] = o /\ \A t \in Scalers \ {s} : api'[t] = api[t]
      /\ \A t \in Scalers : event[t] => event'[t]
  BY <1>1 DEF Write
<1>3. Delivery'
  BY <1>1, <1>2 DEF DeliveryInv, Delivery
<1>4. PassDelivery'
  BY <1>1, <1>2 DEF DeliveryInv, PassDelivery
<1>5. NeverForgotten'
  BY <1>1, <1>2 DEF DeliveryInv, NeverForgotten, Scheduled
<1> QED
  BY <1>3, <1>4, <1>5 DEF DeliveryInv

\* A user's change of s is an event, or the object is gone.
LEMMA UserChanges ==
    ASSUME TypeOK, DeliveryInv, UNCHANGED <<cache, sched, pc, pass>>,
           NEW s \in Scalers, NEW o \in Objects, NEW change, Write(s, o, change),
           Triggers(change) \/ ~o.exists, o.finalizer => api[s].finalizer /\ api[s].exists
    PROVE  DeliveryInv'
<1>1. api \in [Scalers -> Objects] /\ event \in [Scalers -> BOOLEAN]
      /\ pass.scaler \in Scalers
  BY DEF TypeOK, Passes
<1>2. /\ api'[s] = o /\ \A t \in Scalers \ {s} : api'[t] = api[t]
      /\ \A t \in Scalers : event[t] => event'[t]
      /\ o.exists => event'[s]
  BY <1>1 DEF Write
<1>3. Delivery'
  BY <1>1, <1>2 DEF DeliveryInv, Delivery
<1>4. PassDelivery'
  BY <1>1, <1>2 DEF DeliveryInv, PassDelivery, sched
<1>5. NeverForgotten'
  BY <1>1, <1>2 DEF DeliveryInv, NeverForgotten, Scheduled, sched
<1> QED
  BY <1>3, <1>4, <1>5 DEF DeliveryInv

\* Past the finalizer handler an object that is still there although its patch
\* answers "not found", or no longer shows a finalizer, is another one than the
\* pass began with.
LEMMA ReplacedIsQueued ==
    ASSUME TypeOK, DeliveryInv, pc # "idle", api[pass.scaler].exists,
           \/ PatchNotFound(pass.scaler)
           \/ pass.copy.deleting /\ ~cache[pass.scaler].finalizer
           \/ pass.copy.spec # api[pass.scaler].spec
    PROVE  event[pass.scaler] \/ pass.scaler \in queued
BY DEF TypeOK, Passes, DeliveryInv, Delivery, PassDelivery, PatchNotFound

\* No lost, delayed or filtered event, no failure of the chain, no restart and no
\* recreation under the same name leaves an existing object without something
\* that will bring the worker back to it.
THEOREM NeverForgottenSafe == Spec => []NeverForgotten
<1>1. ASSUME Init PROVE DeliveryInv
  BY <1>1, Defaults DEF Init, DeliveryInv, Delivery, PassDelivery, NeverForgotten
<1>2. ASSUME TypeOK, FinalizerInv, DeliveryInv, [Next]_vars PROVE DeliveryInv'
  <2> USE <1>2
  <2>0. /\ pass.scaler \in Scalers /\ pass \in Passes
        /\ api \in [Scalers -> Objects] /\ cache \in [Scalers -> Objects]
        /\ event \in [Scalers -> BOOLEAN]
    BY DEF TypeOK, Passes
  <2>1. ASSUME NEW s \in Scalers, Sync(s) PROVE DeliveryInv'
    <3>1. /\ UNCHANGED <<api, timers, pc, pass>> /\ queued \subseteq queued'
          /\ cache'[s] = api[s] /\ \A t \in Scalers \ {s} : cache'[t] = cache[t]
          /\ \A t \in Scalers \ {s} : event'[t] = event[t]
          /\ event[s] => s \in queued'
      BY <2>0, <2>1 DEF Sync
    <3>2. Delivery'
      BY <3>1 DEF DeliveryInv, Delivery, FinalizerInv, Copies, WellFormed
    <3>3. PassDelivery'
      BY <2>0, <3>1 DEF DeliveryInv, PassDelivery
    <3>4. NeverForgotten'
      BY <3>1 DEF DeliveryInv, NeverForgotten, Scheduled
    <3> QED
      BY <3>2, <3>3, <3>4 DEF DeliveryInv
  <2>2. ASSUME NEW s \in Scalers, TimerFires(s) PROVE DeliveryInv'
    <3>1. UNCHANGED <<informer, pc, pass>> /\ queued' = queued \cup {s}
          /\ timers' = timers \ {s}
      BY <2>2 DEF TimerFires
    <3> QED
      BY <3>1 DEF DeliveryInv, Delivery, PassDelivery, NeverForgotten, Scheduled, informer
  <2>3. ASSUME NEW s \in Scalers, Fetch(s) PROVE DeliveryInv'
    <3>1. /\ UNCHANGED <<api, cache, event>> /\ queued' = queued \ {s} /\ pc = "idle"
          /\ timers \subseteq timers'
      BY <2>3 DEF Fetch, informer
    <3>2. CASE cache[s].exists /\ pc' = "finalizer"
               /\ pass' = [IdlePass EXCEPT !.scaler = s, !.copy = cache[s]]
      <4>1. pass'.scaler = s /\ pass'.copy = cache[s]
        BY <3>2, Defaults DEF Passes
      <4> QED
        BY <3>1, <3>2, <4>1 DEF DeliveryInv, Delivery, PassDelivery, NeverForgotten, Scheduled,
                                FinalizerInv, Copies, WellFormed
    <3>3. CASE pc' = "idle" /\ (~cache[s].exists \/ s \in timers')
      BY <3>1, <3>3 DEF DeliveryInv, Delivery, PassDelivery, NeverForgotten, Scheduled
    <3> QED
      BY <2>3, <3>1, <3>2, <3>3 DEF Fetch
  <2>4. ASSUME NEW handler, pc # "idle", handler # "idle", Proceed(handler),
               UNCHANGED informer, pass'.scaler = pass.scaler, pass'.copy = pass.copy
        PROVE  DeliveryInv'
    BY <2>4, NothingForgotten DEF Proceed, informer, sched
  <2>5. ASSUME pc # "idle", Finish(TRUE), UNCHANGED informer PROVE DeliveryInv'
    BY <2>5, NothingForgotten DEF Finish, informer
  <2>6. ASSUME pc # "idle", Finish(FALSE), UNCHANGED informer,
               \/ PatchNotFound(pass.scaler)
               \/ pass.copy.deleting /\ ~cache[pass.scaler].finalizer
               \/ pass.copy.spec # api[pass.scaler].spec
               \/ api[pass.scaler].spec.authSecret
        PROVE  DeliveryInv'
    <3>1. api[pass.scaler].exists /\ ~api[pass.scaler].spec.authSecret
              => event[pass.scaler] \/ pass.scaler \in queued
      BY <2>6, ReplacedIsQueued
    <3> QED
      BY <2>6, <3>1, NothingForgotten DEF Finish, informer, sched
  <2>7. ASSUME FinalizerHandler PROVE DeliveryInv'
    <3>1. CASE AddFinalizer(pass.scaler)
      <4>1. CASE /\ CanPatch(pass.scaler) /\ ~pass.copy.deleting
                 /\ Write(pass.scaler, [api[pass.scaler] EXCEPT !.finalizer = TRUE], "finalizer")
                 /\ Proceed("auth") /\ UNCHANGED <<cache, pass>>
        <5> DEFINE o == [api[pass.scaler] EXCEPT !.finalizer = TRUE]
        <5>1. o \in Objects
          BY <2>0, ObjectUpdates
        <5>2. o.finalizer /\ o.exists = api[pass.scaler].exists /\ o.spec = api[pass.scaler].spec
          BY <2>0 DEF Objects
        <5> HIDE DEF o
        <5> QED
          BY <2>7, <4>1, <5>1, <5>2, PassWrites DEF FinalizerHandler, Proceed, sched, o
      <4>2. CASE /\ CanPatch(pass.scaler)
                 /\ Write(pass.scaler, [api[pass.scaler] EXCEPT !.finalizer = TRUE], "finalizer")
                 /\ Finish(TRUE) /\ UNCHANGED cache
        <5> DEFINE o == [api[pass.scaler] EXCEPT !.finalizer = TRUE]
        <5>1. o \in Objects
          BY <2>0, ObjectUpdates
        <5>2. o.finalizer /\ o.exists = api[pass.scaler].exists /\ o.spec = api[pass.scaler].spec
          BY <2>0 DEF Objects
        <5> HIDE DEF o
        <5> QED
          BY <2>7, <4>2, <5>1, <5>2, PassWrites DEF FinalizerHandler, Finish, o
      <4> QED
        BY <2>4, <2>5, <2>6, <2>7, <3>1, <4>1, <4>2 DEF AddFinalizer, FailedPatch, FinalizerHandler
    <3>2. CASE pass' = [pass EXCEPT !.shouldFinalize = TRUE] /\ Proceed("auth")
               /\ UNCHANGED informer
      BY <2>0, <2>4, <2>7, <3>2 DEF FinalizerHandler, Passes
    <3> QED
      BY <2>4, <2>7, <3>1, <3>2 DEF FinalizerHandler, FinalizerInv, Copies, WellFormed
  <2>8. ASSUME AuthHandler PROVE DeliveryInv'
    <3>1. UNCHANGED informer /\ pc = "auth"
      BY <2>8 DEF AuthHandler
    <3>2. CASE pc' = "period" /\ UNCHANGED <<sched, pass>>
      BY <2>4, <3>1, <3>2 DEF Proceed
    <3>3. CASE pass.copy.spec.authSecret /\ Finish(FALSE)
      BY <2>6, <3>1, <3>3
    <3> QED
      BY <2>5, <2>8, <3>1, <3>2, <3>3 DEF AuthHandler
  <2>9. ASSUME PeriodHandler PROVE DeliveryInv'
    <3>1. CASE UNCHANGED informer /\ pass' = [pass EXCEPT !.period = ActivePeriod]
               /\ Proceed("scaling")
      BY <2>0, <2>4, <2>9, <3>1 DEF PeriodHandler, Passes
    <3>2. CASE /\ Write(pass.scaler, api[pass.scaler], "status")
               /\ UNCHANGED cache /\ Finish(TRUE)
      BY <2>0, <2>9, <3>2, PassWrites DEF PeriodHandler, Finish
    <3> QED
      BY <2>5, <2>9, <3>1, <3>2 DEF PeriodHandler
  <2>10. ASSUME ListResources PROVE DeliveryInv'
    <3>1. pc # "idle" /\ pc' # "idle" /\ pass'.scaler = pass.scaler /\ pass'.copy = pass.copy
      BY <2>0, <2>10 DEF ListResources, Passes
    <3> QED
      BY <2>10, <3>1, NothingForgotten DEF ListResources, informer, sched
  <2>11. ASSUME NEW w \in Workloads, GetWorkload(w) PROVE DeliveryInv'
    <3>1. pc # "idle" /\ pc' # "idle" /\ pass'.scaler = pass.scaler /\ pass'.copy = pass.copy
      BY <2>0, <2>11 DEF GetWorkload, Passes
    <3> QED
      BY <2>11, <3>1, NothingForgotten DEF GetWorkload, informer, sched
  <2>12. ASSUME UpdateWorkload PROVE DeliveryInv'
    <3>1. pc # "idle" /\ pc' # "idle" /\ pass'.scaler = pass.scaler /\ pass'.copy = pass.copy
      BY <2>0, <2>12 DEF UpdateWorkload, Passes
    <3> QED
      BY <2>12, <3>1, NothingForgotten DEF UpdateWorkload, informer, sched
  <2>13. ASSUME AllProcessed PROVE DeliveryInv'
    BY <2>13, NothingForgotten DEF AllProcessed, informer, sched
  <2>14. ASSUME RemoveFinalizer PROVE DeliveryInv'
    <3>1. pc # "idle" /\ pass.copy.deleting
      BY <2>14 DEF RemoveFinalizer, FinalizerInv, PassLineage
    <3>2. CASE /\ CanPatch(pass.scaler) /\ cache[pass.scaler].finalizer
               /\ Write(pass.scaler,
                        IF api[pass.scaler].deleting THEN Gone
                        ELSE [api[pass.scaler] EXCEPT !.finalizer = FALSE], "finalizer")
               /\ (Finish(FALSE) \/ Finish(TRUE)) /\ UNCHANGED cache
      <4>1. api[pass.scaler].deleting
        BY <2>0, <3>1, <3>2 DEF CanPatch, FinalizerInv, PassLineage, Copies
      <4>2. /\ api'[pass.scaler] = Gone
            /\ \A t \in Scalers \ {pass.scaler} : api'[t] = api[t]
            /\ \A t \in Scalers : event[t] => event'[t]
        BY <2>0, <3>2, <4>1 DEF Write
      <4>3. pc' = "idle" /\ queued' = queued /\ timers \subseteq timers'
        BY <3>2 DEF Finish, sched
      <4> QED
        BY <3>2, <4>2, <4>3, Defaults DEF DeliveryInv, Delivery, PassDelivery, NeverForgotten,
                                          Scheduled
    <3> QED
      BY <2>5, <2>6, <2>14, <3>1, <3>2 DEF RemoveFinalizer, FailedPatch
  <2>15. ASSUME UpdateStatus PROVE DeliveryInv'
    <3>1. CASE /\ CanPatch(pass.scaler)
               /\ Write(pass.scaler, [api[pass.scaler] EXCEPT !.status = pass.period], "status")
               /\ Finish(TRUE) /\ UNCHANGED cache
      <4> DEFINE o == [api[pass.scaler] EXCEPT !.status = pass.period]
      <4>1. o \in Objects
        BY <2>0, ObjectUpdates DEF Passes
      <4>2. /\ o.finalizer = api[pass.scaler].finalizer /\ o.exists = api[pass.scaler].exists
            /\ o.spec = api[pass.scaler].spec
        BY <2>0 DEF Objects
      <4> HIDE DEF o
      <4> QED
        BY <2>15, <3>1, <4>1, <4>2, PassWrites DEF UpdateStatus, Finish, o
    <3> QED
      BY <2>5, <2>6, <2>15, <3>1 DEF UpdateStatus, FailedPatch
  <2>16. ASSUME Restart PROVE DeliveryInv'
    BY <2>0, <2>16 DEF Restart, DeliveryInv, Delivery, PassDelivery, NeverForgotten, Scheduled,
                       FinalizerInv, Copies, WellFormed
  <2>17. ASSUME NEW s \in Scalers, NEW spec \in Specs, UserCreates(s, spec) PROVE DeliveryInv'
    <3>1. [Gone EXCEPT !.exists = TRUE, !.spec = spec] \in Objects
          /\ [Gone EXCEPT !.exists = TRUE, !.spec = spec].finalizer = FALSE
      BY Defaults DEF Objects
    <3> QED
      BY <2>17, <3>1, UserChanges DEF UserCreates, Triggers
  <2>18. ASSUME NEW s \in Scalers, UserDeletes(s) PROVE DeliveryInv'
    <3>1. CASE api[s].finalizer
      BY <2>0, <2>18, <3>1, ObjectUpdates, UserChanges DEF UserDeletes, Triggers
    <3>2. CASE ~api[s].finalizer
      BY <2>0, <2>18, <3>2, Defaults, UserChanges DEF UserDeletes
    <3> QED
      BY <3>1, <3>2
  <2>19. ASSUME NEW s \in Scalers, NEW spec \in Specs, UserEditsSpec(s, spec) PROVE DeliveryInv'
    <3>1. [api[s] EXCEPT !.spec = spec] \in Objects
      BY <2>0, ObjectUpdates
    <3>2. [api[s] EXCEPT !.spec = spec].finalizer = api[s].finalizer
      BY <2>0 DEF Objects
    <3> QED
      BY <2>19, <3>1, <3>2, UserChanges DEF UserEditsSpec, Triggers
  <2>20. ASSUME NEW w \in Workloads, NEW n \in Counts, UserScales(w, n) PROVE DeliveryInv'
    <3>1. pc' = pc /\ pass'.scaler = pass.scaler /\ pass'.copy = pass.copy
          /\ UNCHANGED <<api, cache, event, queued, timers>>
      BY <2>0, <2>20 DEF UserScales, Passes, informer, sched
    <3> QED
      BY <3>1 DEF DeliveryInv, Delivery, PassDelivery, NeverForgotten, Scheduled
  <2>21. CASE (\E t \in Times : ClockAdvances(t)) \/ SecretToggles \/ UNCHANGED vars
    BY <2>21, NothingForgotten DEF ClockAdvances, SecretToggles, vars, informer, sched
  <2> QED
    BY <2>1, <2>2, <2>3, <2>7, <2>8, <2>9, <2>10, <2>11, <2>12, <2>13, <2>14, <2>15, <2>16,
       <2>17, <2>18, <2>19, <2>20, <2>21 DEF Next, Handlers, Environment
<1>3. DeliveryInv => NeverForgotten
  BY DEF DeliveryInv
<1> QED
  BY <1>1, <1>2, <1>3, TypeCorrect, FinalizerInvariant, PTL DEF Spec

----
(***************************************************************************)
(* What a pass has done when it ends.                                      *)
(***************************************************************************)
Restores == pass.shouldFinalize /\ pass.copy.spec.restoreOnDelete

\* From the listing on, what a pass selects is still to be processed or is held as
\* its period asks, unless the pass recorded a failure; a restoring pass releases.
PassInv ==
    /\ pc \in {"scaling", "process", "update", "status"} /\ Restores => pass.period = NoAction
    /\ pc \in {"process", "update", "status"} /\ ~pass.failed =>
          \A w \in Selected(pass.copy.spec) : w \in pass.todo \/ HeldFor(work[w], pass.period)
    /\ pc = "status" /\ ~pass.failed => pass.todo = {}

\* What a period makes of a workload is held for that period, or by nobody.
LEMMA ScalingHolds ==
    ASSUME NEW w \in Workload(PeriodNames), NEW p \in Periods \cup {NoAction}
    PROVE  /\ HeldFor(ApplyScaling(w, p), p)
           /\ AlreadyRestored(w, p) => HeldFor(w, p)
<1>1. CASE p = NoAction
  BY <1>1 DEF ApplyScaling, NoAction, RestoreIntAnnotations, Held, HeldFor, AlreadyRestored
<1>2. CASE p \in Periods /\ p # NoAction
  <2>1. p.type \in {"down", "up"} /\ p.min \in Nat /\ p.max \in Nat
    BY <1>2, PeriodAssumption
  <2> DEFINE x == AddIntAnnotations(w, p)
  <2>2. /\ x \in [replicas : Nat, orig : Nat, period : {p.name}]
        /\ ApplyScaling(w, p) = [x EXCEPT !.replicas = IF p.type = "down" THEN p.min ELSE p.max]
    BY <2>1 DEF ApplyScaling, AddIntAnnotations, Workload, Held, Absent
  <2> HIDE DEF x
  <2>3. Held(ApplyScaling(w, p)) /\ ApplyScaling(w, p).period = p.name
    BY <2>2 DEF Held, Absent
  <2> QED
    BY <1>2, <2>1, <2>3 DEF HeldFor, AlreadyRestored
<1> QED
  BY <1>1, <1>2

LEMMA PassInvariant == Spec => []PassInv
<1>1. ASSUME Init PROVE PassInv
  BY <1>1 DEF Init, PassInv
<1>2. ASSUME TypeOK, PassInv, [Next]_vars PROVE PassInv'
  <2> USE <1>2
  <2>0. /\ pass \in Passes /\ pass.failed \in BOOLEAN /\ pass.item \in Workloads
        /\ pass.period \in Periods \cup {NoAction} /\ pass.read \in Workload(PeriodNames)
        /\ work \in [Workloads -> Workload(PeriodNames)]
        /\ Selected(pass.copy.spec) \subseteq Workloads
    BY DEF TypeOK, Passes, Selected
  <2>1. CASE pc' \in {"idle", "finalizer", "auth", "period"}
    BY <2>1 DEF PassInv
  <2>2. CASE UNCHANGED <<pc, pass, work>>
    BY <2>2 DEF PassInv, Restores
  <2>3. ASSUME PeriodHandler PROVE PassInv'
    <3>1. CASE pass' = [pass EXCEPT !.period = ActivePeriod] /\ pc' = "scaling"
      <4>1. /\ pass'.period = ActivePeriod /\ pass'.copy = pass.copy
            /\ pass'.shouldFinalize = pass.shouldFinalize
        BY <2>0, <3>1 DEF Passes
      <4> QED
        BY <3>1, <4>1 DEF PassInv, Restores, ActivePeriod
    <3> QED
      BY <2>1, <2>3, <3>1 DEF PeriodHandler, Finish, Proceed
  <2>4. ASSUME ListResources PROVE PassInv'
    <3>1. /\ pass'.copy = pass.copy /\ pass'.shouldFinalize = pass.shouldFinalize
          /\ pass'.period = pass.period /\ pc = "scaling" /\ pc' \in {"process", "status"}
          /\ pc' = "status" => pass'.failed
          /\ ~pass'.failed => pass'.todo = Selected(pass.copy.spec)
      BY <2>0, <2>4 DEF ListResources, Passes
    <3> QED
      BY <3>1 DEF PassInv, Restores
  <2>5. ASSUME NEW w \in Workloads, GetWorkload(w) PROVE PassInv'
    <3>1. /\ pass'.copy = pass.copy /\ pass'.shouldFinalize = pass.shouldFinalize
          /\ pass'.period = pass.period /\ UNCHANGED work
          /\ pc = "process" /\ pc' \in {"process", "update"}
      BY <2>0, <2>5 DEF GetWorkload, Passes
    <3>2. CASE pass'.failed
      BY <3>1, <3>2 DEF PassInv, Restores
    <3>3. CASE ~pass'.failed
      <4>1. /\ ~pass.failed
            /\ \/ pass'.todo = pass.todo
               \/ pass'.todo = pass.todo \ {w} /\ HeldFor(work[w], pass.period)
        BY <2>0, <2>5, <3>3, ScalingHolds DEF GetWorkload, Passes
      <4> QED
        BY <3>1, <4>1 DEF PassInv, Restores
    <3> QED
      BY <3>2, <3>3
  <2>6. ASSUME UpdateWorkload PROVE PassInv'
    <3>1. /\ pass'.copy = pass.copy /\ pass'.shouldFinalize = pass.shouldFinalize
          /\ pass'.period = pass.period /\ pass'.todo = pass.todo \ {pass.item}
          /\ pc = "update" /\ pc' = "process"
      BY <2>0, <2>6 DEF UpdateWorkload, Passes
    <3>2. CASE pass'.failed
      BY <3>1, <3>2 DEF PassInv, Restores
    <3>3. CASE ~pass'.failed
      <4>1. /\ ~pass.failed
            /\ work' = [work EXCEPT ![pass.item] = ApplyScaling(pass.read, pass.period)]
        BY <2>0, <2>6, <3>3 DEF UpdateWorkload, Passes
      <4>2. \A w \in Workloads \ {pass.item} : work'[w] = work[w]
        BY <2>0, <4>1
      <4>3. HeldFor(work'[pass.item], pass.period)
        BY <2>0, <4>1, ScalingHolds
      <4> QED
        BY <2>0, <3>1, <4>1, <4>2, <4>3 DEF PassInv, Restores
    <3> QED
      BY <3>2, <3>3
  <2>7. ASSUME AllProcessed PROVE PassInv'
    BY <2>7 DEF AllProcessed, PassInv, Restores
  <2>8. ASSUME NEW w \in Workloads, NEW n \in Counts, UserScales(w, n) PROVE PassInv'
    <3>1. /\ pass'.copy = pass.copy /\ pass'.shouldFinalize = pass.shouldFinalize
          /\ pass'.period = pass.period /\ pass'.failed = pass.failed
          /\ pass'.todo = pass.todo /\ UNCHANGED pc
      BY <2>0, <2>8 DEF UserScales, Passes
    <3>2. \A v \in Workloads : Held(work'[v]) = Held(work[v]) /\ work'[v].period = work[v].period
      BY <2>0, <2>8 DEF UserScales, Workload, Held
    <3>3. \A v \in Workloads : HeldFor(work'[v], pass.period) <=> HeldFor(work[v], pass.period)
      BY <3>2 DEF HeldFor
    <3> QED
      BY <2>0, <3>1, <3>3 DEF PassInv, Restores
  <2>9. CASE \/ FinalizerHandler \/ AuthHandler \/ RemoveFinalizer \/ UpdateStatus \/ Restart
    BY <2>1, <2>9 DEF FinalizerHandler, AddFinalizer, AuthHandler, RemoveFinalizer,
                      UpdateStatus, FailedPatch, Restart, Finish, Proceed
  <2>10. ASSUME NEW s \in Scalers, Fetch(s) PROVE PassInv'
    BY <2>1, <2>2, <2>10 DEF Fetch
  <2> QED
    BY <2>2, <2>3, <2>4, <2>5, <2>6, <2>7, <2>8, <2>9, <2>10
       DEF Next, Handlers, Environment, Sync, TimerFires, UserCreates, UserEditsSpec,
           UserDeletes, ClockAdvances, SecretToggles, vars
<1> QED
  BY <1>1, <1>2, TypeCorrect, PTL DEF Spec

\* What the status handler records of a pass without a failure is so: every workload
\* selected is held for the period of the pass, or by nobody, for any number of
\* scalers with overlapping selections, users and failures before.
THEOREM HonestStatusSafe == Spec => []HonestStatus
<1>1. PassInv => HonestStatus
  BY DEF PassInv, HonestStatus
<1> QED
  BY <1>1, PassInvariant, PTL

\* A finalizing pass that recorded no failure has released every workload it selects
\* when it removes the finalizer, whatever updates were refused or lost before.
THEOREM CleanFinalizeSafe == Spec => []CleanFinalize
<1>1. PassInv => CleanFinalize
  BY DEF PassInv, Restores, CleanFinalize, HeldFor
<1> QED
  BY <1>1, PassInvariant, PTL
====
