---- MODULE FlowProofs ----
(***************************************************************************)
(* Proofs about Flow for every set of flows, specs and children: types,    *)
(* the owners of children, the worker that always comes back, what a flow  *)
(* is refused for, and that children are scaled as their flow plans it.    *)
(***************************************************************************)
EXTENDS Flow, TLAPS, WellFoundedInduction, SequenceTheorems

----
(***************************************************************************)
(* Type correctness.                                                       *)
(***************************************************************************)
LEMMA Defaults ==
    /\ \A uid \in Incarnations : /\ Gone(uid) \in Objects
                                 /\ Gone(uid).exists = FALSE /\ Gone(uid).deleting = FALSE
                                 /\ Gone(uid).finalizer = FALSE /\ Gone(uid).uid = uid
    /\ 0 \in Incarnations
    /\ IdlePass \in Passes
    /\ IdlePass.copy = Gone(0)
    /\ NoChild \in ChildObjects /\ NoChild.exists = FALSE /\ NoChild.owner = Unowned
<1>1. (CHOOSE s \in Names : TRUE) \in Names /\ (CHOOSE spec \in Specs : TRUE) \in Specs
  BY ControllerAssumption, FlowAssumption
<1>2. 0 \in Incarnations
  BY ControllerAssumption DEF Incarnations
<1>3. \A uid \in Incarnations : Gone(uid) \in Objects
  BY <1>1 DEF Gone, Objects, Conditions
<1>4. IdlePass \in Passes
  BY <1>1, <1>2, <1>3 DEF IdlePass, Passes, Conditions
<1>5. NoChild \in ChildObjects
  BY <1>2 DEF NoChild, ChildObjects, Unowned
<1> QED
  BY <1>2, <1>3, <1>4, <1>5 DEF Gone, IdlePass, NoChild

LEMMA ObjectUpdates ==
    ASSUME NEW o \in Objects
    PROVE  /\ \A b \in BOOLEAN : [o EXCEPT !.finalizer = b] \in Objects
           /\ [o EXCEPT !.deleting = TRUE] \in Objects
           /\ \A spec \in Specs : [o EXCEPT !.spec = spec] \in Objects
           /\ \A cond \in Conditions : [o EXCEPT !.cond = cond] \in Objects
BY DEF Objects

LEMMA WriteType ==
    ASSUME TypeOK, NEW s \in Names, NEW o \in Objects, NEW change, Write(s, o, change)
    PROVE  /\ api' \in [Names -> Objects] /\ cache' \in [Names -> Objects]
           /\ fresh' \in [Names -> BOOLEAN] /\ event' \in [Names -> BOOLEAN]
BY DEF TypeOK, ControllerTypeOK, Write, Triggers

LEMMA WriteChildType ==
    ASSUME TypeOK, NEW c \in Children, NEW o \in ChildObjects, NEW change,
           WriteChild(c, o, change)
    PROVE  /\ child' \in [Children -> ChildObjects] /\ childCache' \in [Children -> ChildObjects]
           /\ childFresh' \in [Children -> BOOLEAN] /\ childEvent' \in [Children -> BOOLEAN]
<1>1. \A b \in BOOLEAN : (b \/ (Triggers(change) /\ o.owner # Unowned)) \in BOOLEAN
  BY DEF Triggers
<1> QED
  BY <1>1 DEF TypeOK, WriteChild

LEMMA FinishType ==
    ASSUME TypeOK, NEW requeue, Finish(requeue)
    PROVE  /\ pc' = "idle" /\ pass' \in Passes
           /\ queued' \in SUBSET Names /\ timers' \in SUBSET Names
BY Defaults DEF TypeOK, ControllerTypeOK, Finish, Return, Passes

LEMMA FaultType ==
    ASSUME TypeOK, Fault \/ UNCHANGED faults
    PROVE  faults' \in 0 .. MaxFaults
BY ControllerAssumption DEF TypeOK, ControllerTypeOK, Fault

LEMMA EditType ==
    ASSUME TypeOK, Edit
    PROVE  edits \in Nat /\ edits' = edits + 1 /\ edits' \in 0 .. MaxEdits
BY ControllerAssumption DEF TypeOK, ControllerTypeOK, Edit

\* What a pass has to write, and the condition it may come to.
LEMMA PlanType ==
    ASSUME NEW spec \in Specs
    PROVE  /\ Refusals[spec] \subseteq Conditions
           /\ "True" \in Conditions /\ "ProcessingFailed" \in Conditions
           /\ Refusals[spec] = {} => spec \in Sound /\ DOMAIN Plan[spec] \subseteq Keys
BY DEF Conditions, Sound, Keys

\* An incarnation is an edit, and only a sound spec has children to be written.
Numbered == \A s \in Names : api[s].uid <= edits
Planned ==
    pc = "children" => pass.copy.spec \in Sound /\ pass.todo \subseteq DOMAIN Plan[pass.copy.spec]

TypeInv == TypeOK /\ Numbered /\ Planned

\* A child that a pass writes is one of its flow's.
LEMMA WantedType ==
    ASSUME TypeInv, pc = "children", NEW key \in pass.todo
    PROVE  /\ key \in Keys /\ <<pass.name, key>> \in Children
           /\ Stored(<<pass.name, key>>, key) \in ChildObjects
<1>1. pass \in Passes /\ pass.name \in Names /\ pass.copy.uid \in Incarnations
  BY DEF TypeInv, TypeOK, Passes, Objects
<1>2. key \in Keys
  BY <1>1 DEF Passes
<1>3. <<pass.name, key>> \in Children /\ child[<<pass.name, key>>] \in ChildObjects
  BY <1>1, <1>2 DEF Children, TypeInv, TypeOK
<1>4. Wanted(key)
        \in UNION {{Plan[spec][k] : k \in DOMAIN Plan[spec]} : spec \in Sound}
  BY DEF TypeInv, Planned, Wanted
<1>5. Creation(key) \in ChildObjects
  BY <1>1, <1>4 DEF Creation, ChildObjects
<1>6. [child[<<pass.name, key>>] EXCEPT !.spec = Wanted(key)] \in ChildObjects
  BY <1>3, <1>4 DEF ChildObjects
<1> QED
  BY <1>2, <1>3, <1>5, <1>6 DEF Stored

\* Every variable keeps its type, with the bounds and the plan that it rests on.
LEMMA TypeInvariant == Spec => []TypeInv
<1>1. ASSUME Init PROVE TypeInv
  <2>1. ControllerTypeOK(Objects)
    BY <1>1, Defaults, ControllerAssumption DEF Init, ControllerInit, ControllerTypeOK
  <2>2. Numbered
    <3>1. Gone(0).uid = 0
      BY Defaults
    <3>2. edits = 0 /\ \A s \in Names : api[s] = Gone(0)
      BY <1>1 DEF Init, ControllerInit
    <3>3. \A s \in Names : api[s].uid = 0
      BY <3>1, <3>2
    <3>4. 0 <= 0
      OBVIOUS
    <3>5. ASSUME NEW s \in Names PROVE api[s].uid <= edits
      <4>1. api[s].uid = 0 /\ edits = 0
        BY <3>2, <3>3
      <4> QED
        BY <3>4, <4>1, Zenon
    <3> QED
      BY <3>5 DEF Numbered
  <2> QED
    BY <1>1, <2>1, <2>2, Defaults DEF Init, TypeInv, TypeOK, Planned
<1>2. ASSUME TypeInv, [Next]_vars PROVE TypeInv'
  <2> USE <1>2
  <2>0. /\ TypeOK /\ pass \in Passes /\ pass.name \in Names /\ pass.copy \in Objects
        /\ api \in [Names -> Objects] /\ cache \in [Names -> Objects]
        /\ edits \in Nat /\ \A s \in Names : api[s].uid \in Nat
    BY ControllerAssumption
       DEF TypeInv, TypeOK, ControllerTypeOK, Passes, Objects, Incarnations
  <2>1. ASSUME NEW s \in Names, Sync(s) PROVE TypeInv'
    BY <2>1 DEF TypeInv, TypeOK, ControllerTypeOK, Numbered, Planned, Sync, Deliver, family
  <2>2. ASSUME NEW s \in Names, TimerFires(s) PROVE TypeInv'
    BY <2>2
       DEF TypeInv, TypeOK, ControllerTypeOK, Numbered, Planned, TimerFires, Elapse, informer, family
  <2>3. ASSUME NEW s \in Names, Fetch(s) PROVE TypeInv'
    <3>1. faults' \in 0 .. MaxFaults
      BY <2>0, <2>3, FaultType DEF Fetch
    <3>2. [IdlePass EXCEPT !.name = s, !.copy = cache[s]] \in Passes
      BY <2>0, Defaults DEF Passes
    <3>3. pc' \in {"idle", "finalizer"} /\ pass' \in Passes
      BY <2>0, <2>3, <3>2 DEF Fetch
    <3>4. queued' \in SUBSET Names /\ timers' \in SUBSET Names
      BY <2>0, <2>3 DEF Fetch, Take, TypeOK, ControllerTypeOK
    <3> QED
      BY <2>0, <2>3, <3>1, <3>3, <3>4
         DEF Fetch, TypeInv, TypeOK, ControllerTypeOK, Numbered, Planned, informer, family
  <2>4. ASSUME UNCHANGED <<edits, family>>, faults' \in 0 .. MaxFaults,
               pass' \in Passes, queued' \in SUBSET Names, timers' \in SUBSET Names,
               pc' \in {"idle", "finalizer", "process", "children", "status"}, Planned',
               \/ UNCHANGED informer
               \/ \E o \in Objects : \E change :
                     Write(pass.name, o, change) /\ o.uid = api[pass.name].uid
        PROVE  TypeInv'
    <3>1. CASE UNCHANGED informer
      BY <2>0, <2>4, <3>1
         DEF TypeInv, TypeOK, ControllerTypeOK, Numbered, informer, family
    <3>2. ASSUME NEW o \in Objects, NEW change, Write(pass.name, o, change),
                 o.uid = api[pass.name].uid
          PROVE  TypeInv'
      <4>1. /\ api' \in [Names -> Objects] /\ cache' \in [Names -> Objects]
            /\ fresh' \in [Names -> BOOLEAN] /\ event' \in [Names -> BOOLEAN]
        BY <2>0, <3>2, WriteType
      <4>2. \A s \in Names : api'[s].uid = api[s].uid
        BY <2>0, <3>2 DEF Write
      <4> QED
        BY <2>0, <2>4, <4>1, <4>2
           DEF TypeInv, TypeOK, ControllerTypeOK, Numbered, family
    <3> QED
      BY <2>4, <3>1, <3>2
  <2>5. ASSUME NEW requeue, Finish(requeue), UNCHANGED <<edits, family>>,
               faults' \in 0 .. MaxFaults,
               \/ UNCHANGED informer
               \/ \E o \in Objects : \E change :
                     Write(pass.name, o, change) /\ o.uid = api[pass.name].uid
        PROVE  TypeInv'
    <3>1. /\ pc' = "idle" /\ pass' \in Passes
          /\ queued' \in SUBSET Names /\ timers' \in SUBSET Names
      BY <2>0, <2>5, FinishType
    <3>2. Planned'
      BY <3>1 DEF Planned
    <3> QED
      BY <2>4, <2>5, <3>1, <3>2
  <2>6. ASSUME FinalizerHandler PROVE TypeInv'
    <3> DEFINE s == pass.name
               o == [api[s] EXCEPT !.finalizer = TRUE]
               p == IF api[s].deleting THEN Gone(api[s].uid)
                    ELSE [api[s] EXCEPT !.finalizer = FALSE]
    <3>1. UNCHANGED <<edits, family>>
      BY <2>6 DEF FinalizerHandler
    <3>2. faults' \in 0 .. MaxFaults
      BY <2>0, <2>6, FaultType DEF FinalizerHandler, AddFinalizer, RemoveFinalizer, FailedWrite
    <3>3. o \in Objects /\ o.uid = api[s].uid
      BY <2>0, ObjectUpdates DEF Objects
    <3>4. p \in Objects /\ p.uid = api[s].uid
      <4>1. api[s].uid \in Incarnations
        BY <2>0 DEF Objects
      <4>2. CASE api[s].deleting
        BY <4>1, <4>2, Defaults
      <4>3. CASE ~api[s].deleting
        BY <2>0, <4>3, ObjectUpdates DEF Objects
      <4> QED
        BY <4>2, <4>3
    <3> HIDE DEF o, p
    <3>5. CASE (UNCHANGED informer \/ Write(s, o, "finalizer") \/ Write(s, p, "finalizer"))
               /\ (Finish(TRUE) \/ Finish(FALSE))
      BY <2>5, <3>1, <3>2, <3>3, <3>4, <3>5
    <3>6. CASE /\ UNCHANGED informer \/ Write(s, o, "finalizer")
               /\ Proceed("process")
               /\ \/ UNCHANGED pass
                  \/ pass' = [pass EXCEPT !.copy = cache[s]]
                  \/ pass' = [pass EXCEPT !.copy = o]
      <4>1. pass' \in Passes
        BY <2>0, <3>3, <3>6 DEF Passes
      <4>2. queued' \in SUBSET Names /\ timers' \in SUBSET Names /\ pc' = "process"
        BY <2>0, <3>6 DEF Proceed, sched, TypeOK, ControllerTypeOK
      <4>3. Planned'
        BY <4>2 DEF Planned
      <4> QED
        BY <2>4, <3>1, <3>2, <3>3, <3>6, <4>1, <4>2, <4>3
    <3> QED
      BY <2>6, <3>5, <3>6 DEF FinalizerHandler, AddFinalizer, RemoveFinalizer, FailedWrite, o, p
  <2>7. ASSUME ProcessFlow PROVE TypeInv'
    <3> DEFINE spec == pass.copy.spec
    <3>1. /\ UNCHANGED <<informer, edits, family, sched>> /\ faults' = faults
          /\ pc' \in {"children", "status"}
      BY <2>7 DEF ProcessFlow, Proceed
    <3>2. spec \in Specs
      BY <2>0 DEF Objects
    <3>3. CASE pc' = "status" /\ \E reason \in Refusals[spec] : pass' = [pass EXCEPT !.outcome = reason]
      <4>1. pass' \in Passes
        BY <2>0, <3>2, <3>3, PlanType DEF Passes
      <4>2. Planned'
        BY <3>3 DEF Planned
      <4> QED
        BY <2>0, <2>4, <3>1, <4>1, <4>2, FaultType DEF sched, TypeOK, ControllerTypeOK
    <3>4. CASE /\ pc' = "children" /\ Refusals[spec] = {}
               /\ pass' = [pass EXCEPT !.todo = DOMAIN Plan[spec], !.outcome = "True"]
      <4>1. pass' \in Passes
        BY <2>0, <3>2, <3>4, PlanType DEF Passes
      <4>2. pass'.copy = pass.copy /\ pass'.todo = DOMAIN Plan[spec]
        BY <2>0, <3>4 DEF Passes
      <4>3. Planned'
        BY <3>2, <3>4, <4>2, PlanType DEF Planned
      <4> QED
        BY <2>0, <2>4, <3>1, <4>1, <4>3, FaultType DEF sched, TypeOK, ControllerTypeOK
    <3> QED
      BY <2>7, <3>3, <3>4 DEF ProcessFlow, Proceed
  <2>8. ASSUME NEW key \in Keys, ProcessResource(key) PROVE TypeInv'
    <3> DEFINE c == <<pass.name, key>>
    <3>1. UNCHANGED <<informer, sched, edits>> /\ pc = "children" /\ key \in pass.todo
      BY <2>8 DEF ProcessResource
    <3>2. faults' \in 0 .. MaxFaults
      BY <2>0, <2>8, FaultType DEF ProcessResource
    <3>3. /\ pass' \in Passes /\ pc' \in {"children", "status"} /\ pass'.copy = pass.copy
          /\ pc' = "children" => pass'.todo \subseteq pass.todo
      <4>1. "ProcessingFailed" \in Conditions
        BY DEF Conditions
      <4>2. CASE pass' = [pass EXCEPT !.todo = @ \ {key}] /\ UNCHANGED pc
        BY <2>0, <3>1, <4>2 DEF Passes
      <4>3. CASE ChildFails(key)
        BY <2>0, <4>1, <4>3 DEF ChildFails, Passes
      <4> QED
        BY <2>8, <4>2, <4>3 DEF ProcessResource
    <3>4. Planned'
      BY <3>1, <3>3 DEF TypeInv, Planned
    <3>5. /\ child' \in [Children -> ChildObjects] /\ childCache' \in [Children -> ChildObjects]
          /\ childFresh' \in [Children -> BOOLEAN] /\ childEvent' \in [Children -> BOOLEAN]
      <4>1. CASE UNCHANGED family
        BY <2>0, <4>1 DEF family, TypeOK
      <4>2. CASE WriteChild(c, Stored(c, key), ChangeOf(c))
        BY <2>0, <3>1, <4>2, WantedType, WriteChildType
      <4> QED
        BY <2>8, <4>1, <4>2 DEF ProcessResource
    <3> QED
      BY <2>0, <3>1, <3>2, <3>3, <3>4, <3>5
         DEF TypeInv, TypeOK, ControllerTypeOK, Numbered, informer, sched
  <2>9. ASSUME AllProcessed PROVE TypeInv'
    BY <2>9 DEF AllProcessed, Proceed, TypeInv, TypeOK, ControllerTypeOK, Numbered, Planned,
                informer, sched, family
  <2>10. ASSUME UpdateStatus PROVE TypeInv'
    <3> DEFINE o == [api[pass.name] EXCEPT !.cond = pass.outcome]
    <3>1. UNCHANGED <<edits, family>> /\ \E requeue : Finish(requeue)
      BY <2>10 DEF UpdateStatus
    <3>2. faults' \in 0 .. MaxFaults
      BY <2>0, <2>10, FaultType DEF UpdateStatus, FailedWrite
    <3>3. o \in Objects /\ o.uid = api[pass.name].uid
      BY <2>0, ObjectUpdates DEF Objects, Passes
    <3>4. UNCHANGED informer \/ Write(pass.name, o, "status")
      BY <2>10 DEF UpdateStatus, FailedWrite
    <3> HIDE DEF o
    <3> QED
      BY <2>5, <3>1, <3>2, <3>3, <3>4
  <2>11. ASSUME NEW c \in Children, SyncChild(c) PROVE TypeInv'
    <3>1. c[1] \in Names
      BY DEF Children
    <3> QED
      BY <2>11, <3>1
         DEF SyncChild, TypeInv, TypeOK, ControllerTypeOK, Numbered, Planned, informer
  <2>12. ASSUME NEW c \in Children, NEW o \in ChildObjects, NEW change, WriteChild(c, o, change),
                UNCHANGED <<informer, Outside>>, edits' \in 0 .. MaxEdits, edits' >= edits
         PROVE  TypeInv'
    <3>1. /\ child' \in [Children -> ChildObjects] /\ childCache' \in [Children -> ChildObjects]
          /\ childFresh' \in [Children -> BOOLEAN] /\ childEvent' \in [Children -> BOOLEAN]
      BY <2>0, <2>12, WriteChildType
    <3>2. Numbered'
      <4>1. \A s \in Names : api[s].uid <= edits
        BY DEF TypeInv, Numbered
      <4>2. UNCHANGED api /\ edits' \in Nat
        BY <2>12 DEF informer
      <4> QED
        BY <2>0, <2>12, <4>1, <4>2 DEF Numbered
    <3> QED
      BY <2>0, <2>12, <3>1, <3>2
         DEF TypeInv, TypeOK, ControllerTypeOK, Planned, Outside, informer, sched
  <2>13. ASSUME NEW c \in Children, Collect(c) PROVE TypeInv'
    BY <2>0, <2>12, <2>13, Defaults DEF Collect, Outside, TypeOK, ControllerTypeOK
  <2>14. ASSUME Restart PROVE TypeInv'
    <3>1. faults' \in 0 .. MaxFaults
      BY <2>0, <2>14, FaultType DEF Restart, Relist
    <3> QED
      BY <2>0, <2>14, <3>1, Defaults
         DEF Restart, Relist, TypeInv, TypeOK, ControllerTypeOK, Numbered, Planned
  <2>15. ASSUME Environment PROVE TypeInv'
    <3>1. ASSUME NEW s \in Names, NEW o \in Objects, NEW change, Edit, Write(s, o, change),
                 UNCHANGED <<family, Outside>>, o.uid <= edits + 1
          PROVE  TypeInv'
      <4>1. /\ api' \in [Names -> Objects] /\ cache' \in [Names -> Objects]
            /\ fresh' \in [Names -> BOOLEAN] /\ event' \in [Names -> BOOLEAN]
        BY <2>0, <3>1, WriteType
      <4>2. edits' = edits + 1 /\ edits' \in 0 .. MaxEdits
        BY <2>0, <3>1, EditType
      <4>3. Numbered'
        <5>1. \A t \in Names : api[t].uid <= edits
          BY DEF TypeInv, Numbered
        <5>2. \A t \in Names : api'[t].uid = api[t].uid \/ api'[t].uid = o.uid
          BY <2>0, <3>1 DEF Write
        <5> QED
          BY <2>0, <3>1, <4>2, <5>1, <5>2 DEF Numbered
      <4> QED
        BY <2>0, <3>1, <4>1, <4>2, <4>3
           DEF TypeInv, TypeOK, ControllerTypeOK, Planned, Outside, sched, family
    <3>2. ASSUME NEW s \in Names, NEW spec \in Specs, UserCreates(s, spec) PROVE TypeInv'
      <4> DEFINE o == [Gone(api[s].uid + 1) EXCEPT !.exists = TRUE, !.spec = spec]
      <4>1. Edit
        BY <3>2 DEF UserCreates, Creates
      <4>2. api[s].uid + 1 \in Incarnations /\ api[s].uid + 1 <= edits + 1
        BY <2>0, <4>1, EditType, ControllerAssumption DEF TypeInv, Numbered, Incarnations
      <4>3. o \in Objects /\ o.uid = api[s].uid + 1
        BY <4>2, Defaults DEF Objects
      <4> HIDE DEF o
      <4> QED
        BY <3>1, <3>2, <4>1, <4>2, <4>3 DEF UserCreates, Creates, o
    <3>3. ASSUME NEW s \in Names, NEW spec \in Specs, UserEditsSpec(s, spec) PROVE TypeInv'
      <4> DEFINE o == [api[s] EXCEPT !.spec = spec]
      <4>1. o \in Objects /\ o.uid = api[s].uid
        BY <2>0, ObjectUpdates DEF Objects
      <4>2. api[s].uid <= edits + 1
        BY <2>0 DEF TypeInv, Numbered
      <4> HIDE DEF o
      <4> QED
        BY <3>1, <3>3, <4>1, <4>2 DEF UserEditsSpec, ChangesSpec, o
    <3>4. ASSUME NEW s \in Names, UserDeletes(s) PROVE TypeInv'
      <4> DEFINE o == [api[s] EXCEPT !.deleting = TRUE]
                 p == Gone(api[s].uid)
      <4>1. api[s].uid <= edits + 1 /\ api[s].uid \in Incarnations
        BY <2>0 DEF TypeInv, Numbered, Objects
      <4>2. o \in Objects /\ o.uid = api[s].uid
        BY <2>0, ObjectUpdates DEF Objects
      <4>3. p \in Objects /\ p.uid = api[s].uid
        BY <4>1, Defaults
      <4>4. /\ Edit /\ UNCHANGED <<family, Outside>>
            /\ Write(s, o, "deletionStarted") \/ Write(s, p, "removed")
        BY <3>4 DEF UserDeletes, Deletes
      <4> HIDE DEF o, p
      <4>5. o.uid <= edits + 1 /\ p.uid <= edits + 1
        BY <4>1, <4>2, <4>3
      <4>6. CASE Write(s, o, "deletionStarted")
        BY <3>1, <4>2, <4>4, <4>5, <4>6
      <4>7. CASE Write(s, p, "removed")
        BY <3>1, <4>3, <4>4, <4>5, <4>7
      <4> QED
        BY <4>4, <4>6, <4>7
    <3>5. ASSUME NEW c \in Children, UserPutsChild(c) PROVE TypeInv'
      <4> DEFINE Written == {NoSpec, Manual}
                              \cup UNION {{Plan[spec][key] : key \in DOMAIN Plan[spec]} : spec \in Sound}
      <4>0. /\ child[c] \in [exists : BOOLEAN, owner : Incarnations, spec : Written]
            /\ Manual \in Written
        BY <2>0 DEF TypeOK, ChildObjects
      <4> HIDE DEF Written
      <4>1. [child[c] EXCEPT !.exists = TRUE, !.spec = Manual] \in ChildObjects
        BY <4>0 DEF ChildObjects, Written
      <4>2. Edit
        BY <3>5 DEF UserPutsChild
      <4>3. edits' \in 0 .. MaxEdits /\ edits' >= edits
        BY <2>0, <4>2, EditType
      <4> QED
        BY <2>12, <3>5, <4>1, <4>3 DEF UserPutsChild
    <3>6. ASSUME NEW c \in Children, UserDeletesChild(c) PROVE TypeInv'
      <4>1. Edit
        BY <3>6 DEF UserDeletesChild
      <4>2. edits' \in 0 .. MaxEdits /\ edits' >= edits
        BY <2>0, <4>1, EditType
      <4> QED
        BY <2>12, <3>6, <4>2, Defaults DEF UserDeletesChild
    <3> QED
      BY <2>15, <3>2, <3>3, <3>4, <3>5, <3>6 DEF Environment
  <2>16. CASE UNCHANGED vars
    BY <2>16
       DEF TypeInv, TypeOK, ControllerTypeOK, Numbered, Planned, vars, informer, sched, family
  <2> QED
    BY <2>1, <2>2, <2>3, <2>6, <2>7, <2>8, <2>9, <2>10, <2>11, <2>13, <2>14, <2>15, <2>16
       DEF Next, Handlers
<1> QED
  BY <1>1, <1>2, PTL DEF Spec

\* The controller, users and the garbage collector make nothing but flows and
\* children of them, however old the copies are they work from.
THEOREM TypeCorrect == Spec => []TypeOK
<1>1. TypeInv => TypeOK
  BY DEF TypeInv
<1> QED
  BY <1>1, TypeInvariant, PTL

----
(***************************************************************************)
(* The finalizer, and the incarnation a pass works for.                    *)
(***************************************************************************)
\* Objects on their way out are the ones with a finalizer, on the server and in
\* every copy, and a cache that is up to date holds the server's object.
WellFormed(o) == (o.deleting => o.finalizer) /\ (o.finalizer => o.exists)
Copies ==
    /\ \A s \in Names : WellFormed(api[s]) /\ WellFormed(cache[s])
    /\ \A s \in Names : fresh[s] => cache[s] = api[s]
    /\ WellFormed(pass.copy)

\* The server's flow is still the incarnation a copy shows, and kept.
Keeps(o, s) == api[s].finalizer /\ api[s].uid = o.uid

\* A finalizer that the informer shows is still there, unless on its way out, and
\* the flow with it.
Lineage ==
    \A s \in Names :
        /\ cache[s].finalizer /\ ~cache[s].deleting => Keeps(cache[s], s)
        /\ cache[s].deleting /\ api[s].finalizer => api[s].deleting

\* The same of the flow the running pass is about.  Until the finalizer handler is
\* done, this may be read once more from the cache.
PassLineage ==
    LET s == pass.name  copy == pass.copy IN
    /\ pc = "finalizer" =>
         /\ ~copy.deleting /\ copy.finalizer => Keeps(copy, s)
         /\ ~copy.deleting /\ ~copy.finalizer /\ cache[s].finalizer => Keeps(cache[s], s)
         /\ copy.deleting /\ api[s].finalizer => api[s].deleting
    /\ pc \notin {"idle", "finalizer"} => Keeps(copy, s)

FinalizerInv == Copies /\ Lineage /\ PassLineage

\* A step that leaves the flows alone, and ends the pass or moves it forward.
PassMovesOn ==
    /\ pc \notin {"idle", "finalizer"} /\ pc' \notin {"idle", "finalizer"}
    /\ pass'.name = pass.name /\ pass'.copy = pass.copy

LEMMA FlowsUntouched ==
    ASSUME TypeOK, FinalizerInv, UNCHANGED <<api, cache, fresh>>,
           (pc' = "idle" /\ pass' = IdlePass) \/ PassMovesOn \/ UNCHANGED <<pc, pass>>
    PROVE  FinalizerInv'
<1>1. WellFormed(Gone(0)) /\ IdlePass.copy = Gone(0)
  BY Defaults DEF WellFormed
<1>2. Copies' /\ Lineage'
  BY <1>1 DEF FinalizerInv, Copies, Lineage, Keeps, WellFormed, PassMovesOn
<1>3. PassLineage'
  BY DEF FinalizerInv, PassLineage, Keeps, PassMovesOn
<1> QED
  BY <1>2, <1>3 DEF FinalizerInv

\* A pass that ends with a write to its own flow, on an up-to-date cache.
LEMMA PassEndsWithWrite ==
    ASSUME TypeOK, FinalizerInv, NEW requeue, NEW change,
           Finish(requeue), NEW s \in Names, CanWrite(s),
           NEW o \in Objects, Write(s, o, change), WellFormed(o), o.uid = api[s].uid,
           cache[s].finalizer /\ ~cache[s].deleting => o.finalizer,
           cache[s].deleting /\ o.finalizer => o.deleting
    PROVE  FinalizerInv'
<1>1. api \in [Names -> Objects] /\ fresh \in [Names -> BOOLEAN]
  BY DEF TypeOK, ControllerTypeOK
<1>2. /\ api'[s] = o /\ cache[s] = api[s] /\ fresh'[s] = FALSE /\ UNCHANGED cache
      /\ \A t \in Names \ {s} : api'[t] = api[t] /\ fresh'[t] = fresh[t]
  BY <1>1 DEF Write, CanWrite, FinalizerInv, Copies
<1>3. WellFormed(Gone(0)) /\ IdlePass.copy = Gone(0)
  BY Defaults DEF WellFormed
<1>4. Copies'
  BY <1>2, <1>3 DEF FinalizerInv, Copies, Finish, WellFormed
<1>5. Lineage'
  BY <1>2 DEF FinalizerInv, Lineage, Keeps
<1>6. PassLineage'
  BY DEF Finish, PassLineage
<1> QED
  BY <1>4, <1>5, <1>6 DEF FinalizerInv

\* What a user does to a flow, whatever the informer and the running pass have
\* seen of it.
LEMMA UserWrites ==
    ASSUME TypeOK, FinalizerInv, UNCHANGED <<pc, pass>>,
           NEW s \in Names, NEW o \in Objects, NEW change, Write(s, o, change), WellFormed(o),
           o.finalizer = api[s].finalizer, api[s].finalizer => o.uid = api[s].uid,
           api[s].deleting => o.deleting
    PROVE  FinalizerInv'
<1>1. api \in [Names -> Objects] /\ fresh \in [Names -> BOOLEAN] /\ pass.name \in Names
  BY DEF TypeOK, ControllerTypeOK, Passes
<1>2. /\ api' \in [Names -> Objects] /\ api'[s] = o
      /\ \A t \in Names \ {s} : api'[t] = api[t] /\ fresh'[t] = fresh[t]
      /\ fresh'[s] = FALSE /\ UNCHANGED cache
  BY <1>1 DEF Write
<1>3. Copies'
  BY <1>2 DEF FinalizerInv, Copies, WellFormed
<1>4. \A t \in Names : /\ api'[t].finalizer = api[t].finalizer
                       /\ api[t].finalizer => api'[t].uid = api[t].uid
                       /\ api[t].deleting => api'[t].deleting
  BY <1>2
<1>5. Lineage'
  BY <1>2, <1>4 DEF FinalizerInv, Lineage, Keeps
<1>6. PassLineage'
  BY <1>1, <1>2, <1>4 DEF FinalizerInv, PassLineage, Keeps
<1> QED
  BY <1>3, <1>5, <1>6 DEF FinalizerInv

\* FinalizerInv is inductive: a finalizer that a copy shows can only have been
\* taken away by a pass over a flow that is being deleted, whose patch needs an
\* up-to-date cache.
LEMMA FinalizerInvariant == Spec => []FinalizerInv
<1>1. ASSUME Init PROVE FinalizerInv
  <2>1. WellFormed(Gone(0)) /\ IdlePass.copy = Gone(0)
    BY Defaults DEF WellFormed
  <2>2. \A s \in Names : api[s] = Gone(0) /\ cache[s] = Gone(0)
    BY <1>1 DEF Init, ControllerInit
  <2>3. ~Gone(0).finalizer /\ ~Gone(0).deleting
    BY Defaults
  <2> QED
    BY <1>1, <2>1, <2>2, <2>3 DEF Init, FinalizerInv, Copies, Lineage, PassLineage
<1>2. ASSUME TypeOK, TypeOK', FinalizerInv, [Next]_vars PROVE FinalizerInv'
  <2> USE <1>2
  <2>0. /\ pass.name \in Names /\ pass \in Passes
        /\ api \in [Names -> Objects] /\ cache \in [Names -> Objects]
        /\ fresh \in [Names -> BOOLEAN]
    BY DEF TypeOK, ControllerTypeOK, Passes
  <2>1. ASSUME NEW s \in Names, Sync(s) PROVE FinalizerInv'
    <3>1. /\ UNCHANGED <<api, pc, pass>>
          /\ cache'[s] = api[s] /\ \A t \in Names \ {s} : cache'[t] = cache[t]
          /\ \A t \in Names \ {s} : fresh'[t] = fresh[t]
      BY <2>0, <2>1 DEF Sync, Deliver
    <3>2. Copies' /\ Lineage'
      BY <3>1 DEF FinalizerInv, Copies, Lineage, Keeps, WellFormed
    <3>3. PassLineage'
      BY <2>0, <3>1 DEF FinalizerInv, PassLineage, Keeps
    <3> QED
      BY <3>2, <3>3 DEF FinalizerInv
  <2>2. ASSUME NEW s \in Names, TimerFires(s) PROVE FinalizerInv'
    BY <2>2, FlowsUntouched DEF TimerFires, informer
  <2>3. ASSUME NEW s \in Names, Fetch(s) PROVE FinalizerInv'
    <3>1. UNCHANGED <<api, cache, fresh>>
      BY <2>3 DEF Fetch, informer
    <3>2. CASE UNCHANGED <<pc, pass>>
      BY <3>1, <3>2, FlowsUntouched
    <3>3. CASE pc' = "finalizer" /\ pass' = [IdlePass EXCEPT !.name = s, !.copy = cache[s]]
      <4>1. pass'.name = s /\ pass'.copy = cache[s]
        BY <3>3, Defaults DEF Passes
      <4>2. Copies' /\ Lineage'
        BY <3>1, <4>1 DEF FinalizerInv, Copies, Lineage, Keeps, WellFormed
      <4>3. PassLineage'
        BY <3>1, <3>3, <4>1 DEF FinalizerInv, Lineage, PassLineage, Keeps
      <4> QED
        BY <4>2, <4>3 DEF FinalizerInv
    <3> QED
      BY <2>3, <3>2, <3>3 DEF Fetch
  <2>4. ASSUME FinalizerHandler PROVE FinalizerInv'
    <3> DEFINE s == pass.name
               o == [api[s] EXCEPT !.finalizer = TRUE]
               p == IF api[s].deleting THEN Gone(api[s].uid)
                    ELSE [api[s] EXCEPT !.finalizer = FALSE]
    <3>0. /\ o \in Objects /\ o.finalizer /\ o.uid = api[s].uid
          /\ o.exists = api[s].exists /\ o.deleting = api[s].deleting
      <4>1. api[s] \in Objects
        BY <2>0
      <4>2. o \in Objects
        BY <4>1, ObjectUpdates
      <4> QED
        BY <4>1, <4>2 DEF Objects
    <3>1. CASE UNCHANGED informer /\ (Finish(FALSE) \/ Finish(TRUE))
      BY <3>1, FlowsUntouched DEF informer, Finish
    <3>2. CASE /\ UNCHANGED informer /\ Proceed("process") /\ ~pass.copy.deleting
               /\ \/ pass.copy.finalizer /\ UNCHANGED pass
                  \/ /\ ~pass.copy.finalizer /\ cache[s].finalizer
                     /\ pass' = [pass EXCEPT !.copy = cache[s]]
      <4>1. /\ pass'.name = s /\ pc' = "process" /\ UNCHANGED <<api, cache, fresh>>
            /\ pass'.copy = pass.copy \/ pass'.copy = cache[s]
        BY <2>0, <3>2 DEF Passes, Proceed, informer
      <4>2. Copies' /\ Lineage'
        BY <2>0, <4>1 DEF FinalizerInv, Copies, Lineage, Keeps, WellFormed
      <4>3. Keeps(pass'.copy, s)
        BY <2>0, <2>4, <3>2 DEF FinalizerHandler, FinalizerInv, PassLineage, Passes
      <4>4. PassLineage'
        BY <4>1, <4>3 DEF PassLineage, Keeps
      <4> QED
        BY <4>2, <4>4 DEF FinalizerInv
    <3>3. CASE /\ CanWrite(s) /\ ~cache[s].finalizer /\ Write(s, o, "finalizer")
               /\ \/ Proceed("process") /\ pass' = [pass EXCEPT !.copy = o]
                  \/ Finish(TRUE)
      <4>1. /\ cache[s] = api[s] /\ api[s].exists /\ ~api[s].deleting
        BY <2>0, <3>3 DEF CanWrite, NotFound, FinalizerInv, Copies, WellFormed
      <4>2. WellFormed(o)
        BY <3>0, <4>1 DEF WellFormed
      <4>3. CASE Proceed("process") /\ pass' = [pass EXCEPT !.copy = o]
        <5> HIDE DEF o
        <5>1. pass'.name = s /\ pass'.copy = o /\ pc' = "process"
          BY <2>0, <4>3 DEF Passes, Proceed
        <5>2. /\ api'[s] = o /\ fresh'[s] = FALSE /\ UNCHANGED cache
              /\ \A t \in Names \ {s} : api'[t] = api[t] /\ fresh'[t] = fresh[t]
          BY <2>0, <3>3 DEF Write
        <5>3. Copies'
          BY <4>2, <5>1, <5>2 DEF FinalizerInv, Copies, WellFormed
        <5>4. Lineage'
          BY <3>0, <3>3, <4>1, <5>2 DEF FinalizerInv, Lineage, Keeps
        <5>5. PassLineage'
          BY <3>0, <5>1, <5>2 DEF PassLineage, Keeps
        <5> QED
          BY <5>3, <5>4, <5>5 DEF FinalizerInv
      <4>4. CASE Finish(TRUE)
        <5> HIDE DEF o
        <5> QED
          BY <2>0, <3>0, <3>3, <4>1, <4>2, <4>4, PassEndsWithWrite
      <4> QED
        BY <3>3, <4>3, <4>4
    <3>4. CASE /\ CanWrite(s) /\ cache[s].finalizer /\ pass.copy.deleting
               /\ Write(s, p, "finalizer") /\ (Finish(FALSE) \/ Finish(TRUE))
      <4>1. cache[s] = api[s] /\ api[s].deleting /\ api[s].uid \in Incarnations
        BY <2>0, <2>4, <3>4
           DEF FinalizerHandler, CanWrite, FinalizerInv, Copies, PassLineage, Objects
      <4>2. p = Gone(api[s].uid)
        BY <4>1
      <4>3. p \in Objects /\ WellFormed(p) /\ ~p.finalizer /\ p.uid = api[s].uid
        BY <4>1, <4>2, Defaults DEF WellFormed
      <4> HIDE DEF p
      <4> QED
        BY <2>0, <3>4, <4>1, <4>3, PassEndsWithWrite
    <3> QED
      BY <2>4, <3>1, <3>2, <3>3, <3>4
         DEF FinalizerHandler, AddFinalizer, RemoveFinalizer, FailedWrite
  <2>5. ASSUME ProcessFlow \/ AllProcessed PROVE FinalizerInv'
    <3>1. PassMovesOn /\ UNCHANGED <<api, cache, fresh>>
      BY <2>0, <2>5 DEF ProcessFlow, AllProcessed, PassMovesOn, Proceed, Passes, informer
    <3> QED
      BY <3>1, FlowsUntouched
  <2>6. ASSUME NEW key \in Keys, ProcessResource(key) PROVE FinalizerInv'
    <3>1. PassMovesOn /\ UNCHANGED <<api, cache, fresh>>
      BY <2>0, <2>6 DEF ProcessResource, ChildFails, PassMovesOn, Passes, informer
    <3> QED
      BY <3>1, FlowsUntouched
  <2>7. ASSUME UpdateStatus PROVE FinalizerInv'
    <3> DEFINE s == pass.name
               o == [api[s] EXCEPT !.cond = pass.outcome]
    <3>1. CASE UNCHANGED informer /\ \E requeue : Finish(requeue)
      BY <3>1, FlowsUntouched DEF informer, Finish
    <3>2. CASE CanWrite(s) /\ Write(s, o, "status") /\ \E requeue : Finish(requeue)
      <4>1. o \in Objects
        BY <2>0, ObjectUpdates DEF Passes
      <4>2. /\ o.exists = api[s].exists /\ o.deleting = api[s].deleting
            /\ o.finalizer = api[s].finalizer /\ o.uid = api[s].uid
        BY <2>0 DEF Objects
      <4>3. WellFormed(o) /\ cache[s] = api[s]
        BY <2>0, <3>2, <4>2 DEF FinalizerInv, Copies, WellFormed, CanWrite
      <4> HIDE DEF o
      <4> QED
        BY <2>0, <3>2, <4>1, <4>2, <4>3, PassEndsWithWrite
    <3> QED
      BY <2>7, <3>1, <3>2 DEF UpdateStatus, FailedWrite
  <2>8. ASSUME NEW c \in Children,
               SyncChild(c) \/ Collect(c) \/ UserPutsChild(c) \/ UserDeletesChild(c)
        PROVE  FinalizerInv'
    BY <2>8, FlowsUntouched
       DEF SyncChild, Collect, UserPutsChild, UserDeletesChild, Outside, informer
  <2>9. ASSUME Restart PROVE FinalizerInv'
    <3>1. WellFormed(Gone(0)) /\ IdlePass.copy = Gone(0)
      BY Defaults DEF WellFormed
    <3>2. /\ UNCHANGED api /\ cache' = api /\ fresh' = [s \in Names |-> TRUE]
          /\ pc' = "idle" /\ pass' = IdlePass
      BY <2>9 DEF Restart, Relist
    <3> QED
      BY <2>0, <3>1, <3>2 DEF FinalizerInv, Copies, Lineage, PassLineage, Keeps, WellFormed
  <2>10. ASSUME NEW s \in Names, NEW spec \in Specs, UserCreates(s, spec)
         PROVE  FinalizerInv'
    <3> DEFINE o == [Gone(api[s].uid + 1) EXCEPT !.exists = TRUE, !.spec = spec]
    <3>1. api'[s] = o /\ ~api[s].exists
      BY <2>0, <2>10 DEF UserCreates, Creates, Write
    <3>2. o \in Objects
      BY <2>10, <3>1 DEF TypeOK, ControllerTypeOK
    <3>3. o.finalizer = FALSE /\ o.deleting = FALSE
      BY DEF Gone
    <3>4. WellFormed(o) /\ api[s].finalizer = FALSE /\ ~api[s].deleting
      BY <2>0, <3>1, <3>3 DEF FinalizerInv, Copies, WellFormed, Objects
    <3> HIDE DEF o
    <3> QED
      BY <2>10, <3>2, <3>3, <3>4, UserWrites DEF UserCreates, Creates, Outside, o
  <2>11. ASSUME NEW s \in Names, NEW spec \in Specs, UserEditsSpec(s, spec)
         PROVE  FinalizerInv'
    <3> DEFINE o == [api[s] EXCEPT !.spec = spec]
    <3>1. /\ o \in Objects /\ o.exists = api[s].exists /\ o.deleting = api[s].deleting
          /\ o.finalizer = api[s].finalizer /\ o.uid = api[s].uid
      BY <2>0, ObjectUpdates DEF Objects
    <3>2. WellFormed(o)
      BY <3>1 DEF FinalizerInv, Copies, WellFormed
    <3> HIDE DEF o
    <3> QED
      BY <2>11, <3>1, <3>2, UserWrites DEF UserEditsSpec, ChangesSpec, Outside, o
  <2>12. ASSUME NEW s \in Names, UserDeletes(s) PROVE FinalizerInv'
    <3>1. CASE api[s].finalizer
      <4> DEFINE o == [api[s] EXCEPT !.deleting = TRUE]
      <4>1. /\ o \in Objects /\ o.exists = api[s].exists /\ o.deleting
            /\ o.finalizer = api[s].finalizer /\ o.uid = api[s].uid
        BY <2>0, ObjectUpdates DEF Objects
      <4>2. WellFormed(o)
        BY <2>12, <3>1, <4>1 DEF UserDeletes, Deletes, WellFormed
      <4> HIDE DEF o
      <4> QED
        BY <2>12, <3>1, <4>1, <4>2, UserWrites DEF UserDeletes, Deletes, Outside, o
    <3>2. CASE ~api[s].finalizer
      <4> DEFINE o == Gone(api[s].uid)
      <4>1. api[s].uid \in Incarnations /\ api[s].finalizer = FALSE
        BY <2>0, <3>2 DEF Objects
      <4>2. o \in Objects /\ o.finalizer = FALSE /\ WellFormed(o)
        BY <4>1, Defaults DEF WellFormed
      <4>3. Write(s, o, "removed") /\ UNCHANGED <<pc, pass>> /\ ~api[s].deleting
        BY <2>12, <3>2 DEF UserDeletes, Deletes, Outside
      <4> HIDE DEF o
      <4> QED
        BY <3>2, <4>1, <4>2, <4>3, UserWrites
    <3> QED
      BY <3>1, <3>2
  <2>13. CASE UNCHANGED vars
    BY <2>13, FlowsUntouched DEF vars, informer
  <2> QED
    BY <2>1, <2>2, <2>3, <2>4, <2>5, <2>6, <2>7, <2>8, <2>9, <2>10, <2>11, <2>12, <2>13
       DEF Next, Handlers, Environment
<1> QED
  BY <1>1, <1>2, TypeCorrect, PTL DEF Spec

\* A child that is not there has no owner.
ChildInv == \A c \in Children : ~child[c].exists => child[c].owner = Unowned

\* Only the processing of a resource, the collector and users write children.
LEMMA ChildrenUntouched ==
    ASSUME \/ \E s \in Names : Sync(s) \/ TimerFires(s) \/ Fetch(s) \/ UserDeletes(s)
           \/ FinalizerHandler \/ ProcessFlow \/ AllProcessed \/ UpdateStatus \/ Restart
           \/ \E c \in Children : SyncChild(c)
           \/ \E s \in Names, spec \in Specs : UserCreates(s, spec) \/ UserEditsSpec(s, spec)
           \/ UNCHANGED vars
    PROVE  UNCHANGED child
BY DEF Sync, TimerFires, Fetch, FinalizerHandler, ProcessFlow, AllProcessed, UpdateStatus,
       Restart, SyncChild, UserCreates, UserEditsSpec, UserDeletes, vars, family

LEMMA ChildInvariant == Spec => []ChildInv
<1>1. ASSUME Init PROVE ChildInv
  BY <1>1, Defaults DEF Init, ChildInv
<1>2. ASSUME TypeInv, ChildInv, [Next]_vars PROVE ChildInv'
  <2> USE <1>2
  <2>0. child \in [Children -> ChildObjects]
    BY DEF TypeInv, TypeOK
  <2>1. ASSUME NEW c \in Children, NEW o, NEW change, WriteChild(c, o, change),
               ~o.exists => o.owner = Unowned
        PROVE  ChildInv'
    BY <2>0, <2>1 DEF WriteChild, ChildInv
  <2>2. ASSUME NEW key \in Keys, ProcessResource(key) PROVE ChildInv'
    <3> DEFINE c == <<pass.name, key>>
    <3>1. CASE UNCHANGED child
      BY <3>1 DEF ChildInv
    <3>2. CASE WriteChild(c, Stored(c, key), ChangeOf(c))
      <4>1. c \in Children
        BY <2>2, WantedType DEF ProcessResource
      <4>2. Stored(c, key).exists \/ Stored(c, key).owner = Unowned
        BY <2>0, <4>1 DEF Stored, Creation, ChildObjects, ChildInv
      <4> QED
        BY <2>1, <3>2, <4>1, <4>2
    <3> QED
      BY <2>2, <3>1, <3>2 DEF ProcessResource, family
  <2>3. ASSUME NEW c \in Children, Collect(c) \/ UserDeletesChild(c) PROVE ChildInv'
    BY <2>1, <2>3, Defaults DEF Collect, UserDeletesChild
  <2>4. ASSUME NEW c \in Children, UserPutsChild(c) PROVE ChildInv'
    <3>1. [child[c] EXCEPT !.exists = TRUE, !.spec = Manual].exists
      BY <2>0 DEF ChildObjects
    <3> QED
      BY <2>1, <2>4, <3>1 DEF UserPutsChild
  <2>5. CASE UNCHANGED child
    BY <2>5 DEF ChildInv
  <2> QED
    BY <2>2, <2>3, <2>4, <2>5, ChildrenUntouched DEF Next, Handlers, Environment
<1> QED
  BY <1>1, <1>2, TypeInvariant, PTL DEF Spec

\* A child is only created for the incarnation of its flow that is there and kept
\* by its finalizer, however old the copies are that the pass decided on.
THEOREM OwnedAtBirthSafe == Spec => OwnedAtBirth
<1> DEFINE Born(c) == ~child[c].exists /\ child'[c].exists /\ child'[c].owner # Unowned
           Held(c) == api[c[1]].exists /\ api[c[1]].finalizer /\ api[c[1]].uid = child'[c].owner
<1>1. ASSUME TypeInv, FinalizerInv, ChildInv, [Next]_vars, NEW c \in Children, Born(c)
      PROVE  Held(c)
  <2> USE <1>1
  <2>0. child \in [Children -> ChildObjects] /\ pass.name \in Names
    BY DEF TypeInv, TypeOK, Passes
  <2>1. ASSUME NEW d \in Children, NEW o, NEW change, WriteChild(d, o, change)
        PROVE  d = c /\ child'[c] = o
    BY <2>0, <2>1 DEF WriteChild
  <2>2. ASSUME NEW key \in Keys, ProcessResource(key) PROVE Held(c)
    <3> DEFINE d == <<pass.name, key>>
    <3>1. pc = "children" /\ d \in Children
      BY <2>2, WantedType DEF ProcessResource
    <3>2. WriteChild(d, Stored(d, key), ChangeOf(d))
      BY <2>2 DEF ProcessResource, family
    <3>3. d = c /\ child'[c] = Stored(c, key)
      BY <2>1, <3>1, <3>2
    <3>4. child'[c] = Creation(key)
      BY <2>0, <3>3 DEF Stored, ChildObjects
    <3>5. child'[c].owner = pass.copy.uid /\ c[1] = pass.name
      BY <3>3, <3>4 DEF Creation
    <3>6. Keeps(pass.copy, pass.name) /\ WellFormed(api[pass.name])
      BY <2>0, <3>1 DEF FinalizerInv, PassLineage, Copies
    <3> QED
      BY <3>5, <3>6 DEF Keeps, WellFormed
  <2>3. ASSUME NEW d \in Children, Collect(d) \/ UserDeletesChild(d) PROVE FALSE
    BY <2>1, <2>3, Defaults DEF Collect, UserDeletesChild
  <2>4. ASSUME NEW d \in Children, UserPutsChild(d) PROVE FALSE
    <3>1. d = c /\ child'[c] = [child[c] EXCEPT !.exists = TRUE, !.spec = Manual]
      BY <2>1, <2>4 DEF UserPutsChild
    <3>2. child'[c].owner = child[c].owner
      BY <2>0, <3>1 DEF ChildObjects
    <3> QED
      BY <3>2 DEF ChildInv
  <2>5. CASE UNCHANGED child
    BY <2>5
  <2> QED
    BY <2>2, <2>3, <2>4, <2>5, ChildrenUntouched DEF Next, Handlers, Environment
<1>2. TypeInv /\ FinalizerInv /\ ChildInv /\ [Next]_vars
        => [\A c \in Children : Born(c) => Held(c)]_vars
  BY <1>1
<1> QED
  BY <1>2, TypeInvariant, FinalizerInvariant, ChildInvariant, PTL DEF Spec, OwnedAtBirth

----
(***************************************************************************)
(* The worker always comes back.                                           *)
(***************************************************************************)
\* A difference between the informer's copy and the server's flow that matters to
\* the chain is an undelivered event.
Delivery ==
    \A s \in Names : api[s].exists =>
        /\ ~cache[s].exists => event[s]
        /\ cache[s].deleting /\ ~api[s].finalizer => event[s]

\* A pass that is going to remove the finalizer removes it, or its flow has been
\* made anew and is queued again.
PassDelivery ==
    LET s == pass.name IN
    pc = "finalizer" /\ api[s].exists /\ pass.copy.deleting =>
        IF api[s].finalizer THEN cache[s].finalizer ELSE event[s] \/ s \in queued

DeliveryInv == Delivery /\ PassDelivery /\ NeverForgotten

\* A step that leaves the flows alone and forgets nothing: the pass goes on, or ends
\* with something that brings the worker back.
LEMMA NothingForgotten ==
    ASSUME TypeOK, DeliveryInv, UNCHANGED <<api, cache, event>>,
           queued \subseteq queued', timers \subseteq timers',
           \/ pc # "idle" /\ pc' \notin {"idle", "finalizer"} /\ pass'.name = pass.name
           \/ UNCHANGED <<pc, pass>>
           \/ pc' = "idle" /\ (api[pass.name].exists =>
                                 pass.name \in queued' \/ pass.name \in timers' \/ event[pass.name])
    PROVE  DeliveryInv'
<1>1. Delivery'
  BY DEF DeliveryInv, Delivery
<1>2. PassDelivery'
  BY DEF DeliveryInv, PassDelivery
<1>3. NeverForgotten'
  BY DEF DeliveryInv, NeverForgotten, Scheduled
<1> QED
  BY <1>1, <1>2, <1>3 DEF DeliveryInv

\* A write of the running pass to its own flow: it is no event, and the pass goes
\* on, is repeated, or has removed the flow.
LEMMA PassWrites ==
    ASSUME TypeOK, DeliveryInv, NEW o \in Objects, NEW change, Write(pass.name, o, change),
           queued \subseteq queued', timers \subseteq timers', pc # "idle",
           o.exists => api[pass.name].exists,
           o.finalizer \/ o.finalizer = api[pass.name].finalizer \/ ~o.exists,
           \/ pc' = "idle" /\ (o.exists => pass.name \in timers')
           \/ pc' \notin {"idle", "finalizer"} /\ pass'.name = pass.name
    PROVE  DeliveryInv'
<1> DEFINE s == pass.name
<1>1. s \in Names /\ api \in [Names -> Objects] /\ event \in [Names -> BOOLEAN]
  BY DEF TypeOK, ControllerTypeOK, Passes
<1>2. /\ api'[s] = o /\ \A t \in Names \ {s} : api'[t] = api[t]
      /\ \A t \in Names : event[t] => event'[t]
      /\ UNCHANGED cache
  BY <1>1 DEF Write
<1>3. Delivery'
  BY <1>1, <1>2 DEF DeliveryInv, Delivery
<1>4. PassDelivery'
  BY DEF PassDelivery
<1>5. NeverForgotten'
  BY <1>1, <1>2 DEF DeliveryInv, NeverForgotten, Scheduled
<1> QED
  BY <1>3, <1>4, <1>5 DEF DeliveryInv

\* A user's change of s is an event, or the flow is gone.
LEMMA UserChanges ==
    ASSUME TypeOK, DeliveryInv, UNCHANGED <<sched, pc, pass>>,
           NEW s \in Names, NEW o \in Objects, NEW change, Write(s, o, change),
           Triggers(change) \/ ~o.exists, o.finalizer => api[s].finalizer /\ api[s].exists
    PROVE  DeliveryInv'
<1>1. api \in [Names -> Objects] /\ event \in [Names -> BOOLEAN]
      /\ pass.name \in Names
  BY DEF TypeOK, ControllerTypeOK, Passes
<1>2. /\ api'[s] = o /\ \A t \in Names \ {s} : api'[t] = api[t]
      /\ \A t \in Names : event[t] => event'[t]
      /\ o.exists => event'[s]
      /\ UNCHANGED cache
  BY <1>1 DEF Write
<1>3. Delivery'
  BY <1>1, <1>2 DEF DeliveryInv, Delivery
<1>4. PassDelivery'
  BY <1>1, <1>2 DEF DeliveryInv, PassDelivery, sched
<1>5. NeverForgotten'
  BY <1>1, <1>2 DEF DeliveryInv, NeverForgotten, Scheduled, sched
<1> QED
  BY <1>3, <1>4, <1>5 DEF DeliveryInv

\* A change of children and of nothing else a flow is scheduled by, or one that
\* brings flows back.
LEMMA OnlyChildren ==
    ASSUME TypeOK, DeliveryInv, UNCHANGED <<informer, timers, pc, pass>>, queued \subseteq queued'
    PROVE  DeliveryInv'
BY NothingForgotten DEF informer

\* No lost, delayed or filtered event, no failure of the chain, no restart and no
\* recreation under the same name leaves a flow without something that will bring
\* the worker back to it.
THEOREM NeverForgottenSafe == Spec => []NeverForgotten
<1>1. ASSUME Init PROVE DeliveryInv
  <2>1. \A s \in Names : api[s] = Gone(0)
    BY <1>1 DEF Init, ControllerInit
  <2>2. ~Gone(0).exists
    BY Defaults
  <2> QED
    BY <1>1, <2>1, <2>2 DEF Init, DeliveryInv, Delivery, PassDelivery, NeverForgotten
<1>2. ASSUME TypeOK, TypeOK', FinalizerInv, DeliveryInv, [Next]_vars PROVE DeliveryInv'
  <2> USE <1>2
  <2>0. /\ pass.name \in Names /\ pass \in Passes
        /\ api \in [Names -> Objects] /\ cache \in [Names -> Objects]
        /\ event \in [Names -> BOOLEAN]
    BY DEF TypeOK, ControllerTypeOK, Passes
  <2>1. ASSUME NEW s \in Names, Sync(s) PROVE DeliveryInv'
    <3>1. /\ UNCHANGED <<api, timers, pc, pass>> /\ queued \subseteq queued'
          /\ cache'[s] = api[s] /\ \A t \in Names \ {s} : cache'[t] = cache[t]
          /\ \A t \in Names \ {s} : event'[t] = event[t]
          /\ event[s] => s \in queued'
      BY <2>0, <2>1 DEF Sync, Deliver
    <3>2. Delivery'
      BY <3>1 DEF DeliveryInv, Delivery, FinalizerInv, Copies, WellFormed
    <3>3. PassDelivery'
      BY <2>0, <3>1 DEF DeliveryInv, PassDelivery
    <3>4. NeverForgotten'
      BY <3>1 DEF DeliveryInv, NeverForgotten, Scheduled
    <3> QED
      BY <3>2, <3>3, <3>4 DEF DeliveryInv
  <2>2. ASSUME NEW s \in Names, TimerFires(s) PROVE DeliveryInv'
    <3>1. UNCHANGED <<informer, pc, pass>> /\ queued' = queued \cup {s}
          /\ timers' = timers \ {s}
      BY <2>2 DEF TimerFires, Elapse
    <3> QED
      BY <3>1 DEF DeliveryInv, Delivery, PassDelivery, NeverForgotten, Scheduled, informer
  <2>3. ASSUME NEW s \in Names, Fetch(s) PROVE DeliveryInv'
    <3>1. /\ UNCHANGED <<api, cache, event>> /\ queued' = queued \ {s} /\ pc = "idle"
          /\ timers \subseteq timers'
      BY <2>3 DEF Fetch, Take, informer
    <3>2. CASE cache[s].exists /\ pc' = "finalizer"
               /\ pass' = [IdlePass EXCEPT !.name = s, !.copy = cache[s]]
      <4>1. pass'.name = s /\ pass'.copy = cache[s]
        BY <3>2, Defaults DEF Passes
      <4> QED
        BY <3>1, <3>2, <4>1 DEF DeliveryInv, Delivery, PassDelivery, NeverForgotten, Scheduled,
                                FinalizerInv, Copies, WellFormed
    <3>3. CASE pc' = "idle" /\ (~cache[s].exists \/ s \in timers')
      BY <3>1, <3>3 DEF DeliveryInv, Delivery, PassDelivery, NeverForgotten, Scheduled
    <3> QED
      BY <2>3, <3>1, <3>2, <3>3 DEF Fetch
  <2>4. ASSUME pc # "idle", UNCHANGED informer,
               Finish(TRUE) \/ (Finish(FALSE) /\ (api[pass.name].exists =>
                                    pass.name \in queued \/ event[pass.name]))
        PROVE  DeliveryInv'
    BY <2>4, NothingForgotten DEF Finish, Return, informer
  <2>5. ASSUME pc # "idle", UNCHANGED informer, NotFound(pass.name), Finish(FALSE)
        PROVE  DeliveryInv'
    BY <2>0, <2>4, <2>5 DEF DeliveryInv, Delivery, NotFound
  <2>6. ASSUME FinalizerHandler PROVE DeliveryInv'
    <3> DEFINE s == pass.name
               o == [api[s] EXCEPT !.finalizer = TRUE]
               p == IF api[s].deleting THEN Gone(api[s].uid)
                    ELSE [api[s] EXCEPT !.finalizer = FALSE]
    <3>0. pc = "finalizer"
      BY <2>6 DEF FinalizerHandler
    <3>1. CASE /\ UNCHANGED informer /\ Proceed("process")
               /\ \/ UNCHANGED pass
                  \/ pass' = [pass EXCEPT !.copy = cache[s]]
      <4>1. pass'.name = s
        BY <2>0, <3>1 DEF Passes
      <4> QED
        BY <3>0, <3>1, <4>1, NothingForgotten DEF Proceed, sched, informer
    <3>2. CASE /\ CanWrite(s) /\ Write(s, o, "finalizer")
               /\ \/ Proceed("process") /\ pass' = [pass EXCEPT !.copy = o]
                  \/ Finish(TRUE)
      <4>1. o \in Objects /\ o.finalizer /\ o.exists = api[s].exists
        <5>1. api[s] \in Objects
          BY <2>0
        <5>2. o \in Objects
          BY <5>1, ObjectUpdates
        <5> QED
          BY <5>1, <5>2 DEF Objects
      <4> HIDE DEF o
      <4>2. Proceed("process") /\ pass' = [pass EXCEPT !.copy = o] => pass'.name = s
        BY <2>0 DEF Passes
      <4> QED
        BY <3>0, <3>2, <4>1, <4>2, PassWrites DEF Proceed, Finish, Return, sched
    <3>3. CASE /\ CanWrite(s) /\ cache[s].finalizer /\ pass.copy.deleting
               /\ Write(s, p, "finalizer") /\ (Finish(FALSE) \/ Finish(TRUE))
      <4>1. cache[s] = api[s] /\ api[s].deleting /\ api[s].uid \in Incarnations
        BY <2>0, <3>0, <3>3 DEF CanWrite, FinalizerInv, Copies, PassLineage, Objects
      <4>2. p = Gone(api[s].uid)
        BY <4>1
      <4>3. p \in Objects /\ ~p.exists
        BY <4>1, <4>2, Defaults
      <4> HIDE DEF p
      <4> QED
        BY <3>0, <3>3, <4>3, PassWrites DEF Finish, Return
    <3>4. CASE /\ UNCHANGED informer /\ Finish(FALSE) /\ pass.copy.deleting
               /\ ~cache[s].finalizer \/ ~pass.copy.finalizer
      <4>1. api[s].exists => s \in queued \/ event[s]
        BY <3>0, <3>4 DEF DeliveryInv, PassDelivery, FinalizerInv, Copies, WellFormed
      <4> QED
        BY <2>4, <3>0, <3>4, <4>1
    <3> QED
      BY <2>4, <2>5, <2>6, <3>0, <3>1, <3>2, <3>3, <3>4
         DEF FinalizerHandler, AddFinalizer, RemoveFinalizer, FailedWrite
  <2>7. ASSUME ProcessFlow \/ AllProcessed PROVE DeliveryInv'
    <3>1. /\ pc # "idle" /\ pc' \notin {"idle", "finalizer"} /\ pass'.name = pass.name
          /\ UNCHANGED <<api, cache, event, queued, timers>>
      BY <2>0, <2>7 DEF ProcessFlow, AllProcessed, Proceed, Passes, informer, sched
    <3> QED
      BY <3>1, NothingForgotten
  <2>8. ASSUME NEW key \in Keys, ProcessResource(key) PROVE DeliveryInv'
    <3>1. /\ pc # "idle" /\ pc' \notin {"idle", "finalizer"} /\ pass'.name = pass.name
          /\ UNCHANGED <<api, cache, event, queued, timers>>
      BY <2>0, <2>8 DEF ProcessResource, ChildFails, Passes, informer, sched
    <3> QED
      BY <3>1, NothingForgotten
  <2>9. ASSUME UpdateStatus PROVE DeliveryInv'
    <3> DEFINE s == pass.name
               o == [api[s] EXCEPT !.cond = pass.outcome]
    <3>1. pc # "idle"
      BY <2>9 DEF UpdateStatus
    <3>2. CASE Write(s, o, "status") /\ Finish(TRUE)
      <4>1. o \in Objects
        BY <2>0, ObjectUpdates DEF Passes
      <4>2. o.exists = api[s].exists /\ o.finalizer = api[s].finalizer
        BY <2>0 DEF Objects
      <4> HIDE DEF o
      <4> QED
        BY <3>1, <3>2, <4>1, <4>2, PassWrites DEF Finish, Return
    <3>3. CASE NotFound(s) /\ UNCHANGED informer /\ (Finish(FALSE) \/ Finish(TRUE))
      BY <2>4, <2>5, <3>1, <3>3
    <3>4. CASE UNCHANGED informer /\ Finish(TRUE)
      BY <2>4, <3>1, <3>4
    <3>5. \A b \in BOOLEAN : Finish(b) => Finish(FALSE) \/ Finish(TRUE)
      OBVIOUS
    <3> QED
      BY <2>9, <3>2, <3>3, <3>4, <3>5 DEF UpdateStatus, FailedWrite
  <2>10. ASSUME NEW c \in Children,
                SyncChild(c) \/ Collect(c) \/ UserPutsChild(c) \/ UserDeletesChild(c)
         PROVE  DeliveryInv'
    BY <2>10, OnlyChildren
       DEF SyncChild, Collect, UserPutsChild, UserDeletesChild, Outside, sched
  <2>11. ASSUME Restart PROVE DeliveryInv'
    <3>1. /\ UNCHANGED api /\ cache' = api /\ queued' = {s \in Names : api[s].exists}
          /\ pc' = "idle"
      BY <2>11 DEF Restart, Relist
    <3> QED
      BY <2>0, <3>1 DEF DeliveryInv, Delivery, PassDelivery, NeverForgotten, Scheduled,
                        FinalizerInv, Copies, WellFormed
  <2>12. ASSUME NEW s \in Names, NEW spec \in Specs, UserCreates(s, spec) PROVE DeliveryInv'
    <3> DEFINE o == [Gone(api[s].uid + 1) EXCEPT !.exists = TRUE, !.spec = spec]
    <3>1. api'[s] = o
      BY <2>0, <2>12 DEF UserCreates, Creates, Write
    <3>2. o \in Objects
      BY <3>1 DEF TypeOK, ControllerTypeOK
    <3>3. o.finalizer = FALSE
      BY DEF Gone
    <3> HIDE DEF o
    <3> QED
      BY <2>12, <3>2, <3>3, UserChanges DEF UserCreates, Creates, Outside, Triggers, o
  <2>13. ASSUME NEW s \in Names, NEW spec \in Specs, UserEditsSpec(s, spec)
         PROVE  DeliveryInv'
    <3> DEFINE o == [api[s] EXCEPT !.spec = spec]
    <3>1. o \in Objects /\ o.finalizer = api[s].finalizer /\ api[s].exists
      BY <2>0, <2>13, ObjectUpdates DEF Objects, UserEditsSpec, ChangesSpec
    <3> HIDE DEF o
    <3> QED
      BY <2>13, <3>1, UserChanges DEF UserEditsSpec, ChangesSpec, Outside, Triggers, o
  <2>14. ASSUME NEW s \in Names, UserDeletes(s) PROVE DeliveryInv'
    <3>1. CASE api[s].finalizer
      <4> DEFINE o == [api[s] EXCEPT !.deleting = TRUE]
      <4>1. o \in Objects /\ api[s].exists
        BY <2>0, <2>14, ObjectUpdates DEF UserDeletes, Deletes
      <4> HIDE DEF o
      <4> QED
        BY <2>14, <3>1, <4>1, UserChanges DEF UserDeletes, Deletes, Outside, Triggers, o
    <3>2. CASE ~api[s].finalizer
      <4> DEFINE o == Gone(api[s].uid)
      <4>1. api[s].uid \in Incarnations
        BY <2>0 DEF Objects
      <4>2. o \in Objects /\ ~o.exists /\ ~o.finalizer
        BY <4>1, Defaults
      <4>3. Write(s, o, "removed") /\ UNCHANGED <<sched, pc, pass>>
        BY <2>14, <3>2 DEF UserDeletes, Deletes, Outside
      <4> HIDE DEF o
      <4> QED
        BY <4>2, <4>3, UserChanges
    <3> QED
      BY <3>1, <3>2
  <2>15. CASE UNCHANGED vars
    BY <2>15, NothingForgotten DEF vars, informer, sched
  <2> QED
    BY <2>1, <2>2, <2>3, <2>6, <2>7, <2>8, <2>9, <2>10, <2>11, <2>12, <2>13, <2>14, <2>15
       DEF Next, Handlers, Environment
<1>3. DeliveryInv => NeverForgotten
  BY DEF DeliveryInv
<1> QED
  BY <1>1, <1>2, <1>3, TypeCorrect, FinalizerInvariant, PTL DEF Spec

----
(***************************************************************************)
(* Children are scaled when the flow asks for it.                          *)
(***************************************************************************)
\* Induction: any set of numbers has a least one.
Below == {pair \in Nat \X Nat : pair[1] < pair[2]}

LEMMA Least ==
    ASSUME NEW T, T \subseteq Nat, T # {}
    PROVE  \E least \in T : \A n \in T : least <= n
<1>1. IsWellFoundedOn(Below, Nat)
  BY NatLessThanWellFounded, Zenon DEF OpToRel, Below
<1>2. PICK least \in T : \A n \in T : <<n, least>> \notin Below
  BY <1>1, WFMin
<1>3. ASSUME NEW n \in T PROVE least <= n
  <2>1. least \in Nat /\ n \in Nat /\ <<n, least>> \notin Below
    BY <1>2
  <2>2. ~(n < least)
    BY <2>1 DEF Below
  <2> QED
    BY <2>1, <2>2
<1> QED
  BY <1>3

\* Places are in the order of the plan, none before itself.
LEMMA PlacesOrdered ==
    ASSUME NEW x \in Nat \X Nat, NEW y \in Nat \X Nat
    PROVE  ~Precedes(x, x) /\ (Precedes(x, y) => ~Precedes(y, x))
BY DEF Precedes

\* Of several places there is a first one.
LEMMA FirstPlace ==
    ASSUME NEW W, W \subseteq Nat \X Nat, W # {}
    PROVE  \E place \in W : \A other \in W : ~Precedes(other, place)
<1> DEFINE Rows == {place[1] : place \in W}
           Row(i) == {place[2] : place \in {p \in W : p[1] = i}}
<1>0. Rows \subseteq Nat /\ Rows # {}
  OBVIOUS
<1>1. PICK i \in Rows : \A j \in Rows : i <= j
  <2> HIDE DEF Rows
  <2> QED
    BY <1>0, Least
<1>2. Row(i) # {} /\ Row(i) \subseteq Nat
  BY <1>1
<1>3. PICK k \in Row(i) : \A l \in Row(i) : k <= l
  <2> HIDE DEF Row
  <2> QED
    BY <1>2, Least
<1>4. PICK place \in W : place[1] = i /\ place[2] = k
  BY <1>3
<1>5. ASSUME NEW other \in W PROVE ~Precedes(other, place)
  <2>1. i \in Nat /\ k \in Nat /\ other[1] \in Nat /\ other[2] \in Nat /\ i <= other[1]
    BY <1>0, <1>1, <1>2, <1>3
  <2>2. other[1] = i => k <= other[2]
    BY <1>3
  <2> QED
    BY <1>4, <2>1, <2>2 DEF Precedes
<1> QED
  BY <1>4, <1>5

\* How a sequence is put together from others: for each of its elements, the
\* sequence and the place in it that the element comes from.
ComesFrom(seqs, n, flat, at) ==
    /\ at \in [DOMAIN flat -> Nat \X Nat]
    /\ \A m \in DOMAIN flat : /\ at[m][1] \in 1 .. n /\ at[m][2] \in DOMAIN seqs[at[m][1]]
                              /\ flat[m] = seqs[at[m][1]][at[m][2]]
    /\ \A m, l \in DOMAIN flat : m < l => Precedes(at[m], at[l])
    /\ \A i \in 1 .. n : \A k \in DOMAIN seqs[i] : \E m \in DOMAIN flat : at[m] = <<i, k>>

\* One more sequence is put behind the others.
LEMMA OneMore ==
    ASSUME NEW S, NEW seqs \in Seq(Seq(S)), NEW n \in 1 .. Len(seqs), NEW flat \in Seq(S), NEW at,
           ComesFrom(seqs, n - 1, flat, at)
    PROVE  \E new : ComesFrom(seqs, n, flat \o seqs[n], new)
<1> DEFINE L == Len(flat)
           s == seqs[n]
           all == flat \o s
           new == [m \in 1 .. L + Len(s) |-> IF m <= L THEN at[m] ELSE <<n, m - L>>]
<1>1. n \in Nat /\ n \in DOMAIN seqs /\ s \in Seq(S) /\ L \in Nat /\ Len(s) \in Nat
  OBVIOUS
<1>2. DOMAIN flat = 1 .. L /\ DOMAIN s = 1 .. Len(s)
  BY <1>1
<1>3. /\ DOMAIN all = 1 .. L + Len(s)
      /\ \A m \in 1 .. L : all[m] = flat[m]
      /\ \A m \in L + 1 .. L + Len(s) : all[m] = s[m - L]
  BY <1>1
<1> HIDE DEF all, L
<1>4. \A m \in 1 .. L : /\ at[m] \in Nat \X Nat /\ at[m][1] \in 1 .. n - 1
                        /\ at[m][2] \in DOMAIN seqs[at[m][1]]
                        /\ flat[m] = seqs[at[m][1]][at[m][2]]
  BY <1>2 DEF ComesFrom
<1>5. \A m \in 1 .. L : new[m] = at[m]
  BY <1>1
<1>6. \A m \in L + 1 .. L + Len(s) : new[m] = <<n, m - L>> /\ m - L \in DOMAIN s
  BY <1>1, <1>2
<1>7. \A m \in 1 .. L + Len(s) : m \in 1 .. L \/ m \in L + 1 .. L + Len(s)
  BY <1>1
<1>8. new \in [1 .. L + Len(s) -> Nat \X Nat]
  BY <1>1, <1>2, <1>4
<1> HIDE DEF new
<1>9. ASSUME NEW m \in DOMAIN all
      PROVE  /\ new[m][1] \in 1 .. n /\ new[m][2] \in DOMAIN seqs[new[m][1]]
             /\ all[m] = seqs[new[m][1]][new[m][2]]
  <2>1. CASE m \in 1 .. L
    <3>1. new[m] = at[m] /\ all[m] = flat[m]
      BY <1>3, <1>5, <2>1
    <3>2. at[m][1] \in 1 .. n
      BY <1>1, <1>4, <2>1
    <3> QED
      BY <1>4, <2>1, <3>1, <3>2
  <2>2. CASE m \in L + 1 .. L + Len(s)
    BY <1>1, <1>3, <1>6, <2>2
  <2> QED
    BY <1>3, <1>7, <2>1, <2>2
<1>10. ASSUME NEW m \in DOMAIN all, NEW l \in DOMAIN all, m < l PROVE Precedes(new[m], new[l])
  <2>1. CASE l \in 1 .. L
    <3>1. m \in 1 .. L
      BY <1>1, <1>3, <1>10, <2>1
    <3>2. Precedes(at[m], at[l])
      BY <1>2, <1>10, <2>1, <3>1 DEF ComesFrom
    <3> QED
      BY <1>5, <2>1, <3>1, <3>2
  <2>2. CASE l \in L + 1 .. L + Len(s) /\ m \in 1 .. L
    <3>1. new[l] = <<n, l - L>> /\ new[m] = at[m]
      BY <1>5, <1>6, <2>2
    <3>2. new[m][1] < n
      BY <1>1, <1>4, <2>2, <3>1
    <3> QED
      BY <3>1, <3>2 DEF Precedes
  <2>3. CASE l \in L + 1 .. L + Len(s) /\ m \in L + 1 .. L + Len(s)
    BY <1>1, <1>6, <1>10, <2>3 DEF Precedes
  <2> QED
    BY <1>3, <1>7, <2>1, <2>2, <2>3
<1>11. ASSUME NEW i \in 1 .. n, NEW k \in DOMAIN seqs[i]
       PROVE  \E m \in DOMAIN all : new[m] = <<i, k>>
  <2>1. CASE i = n
    <3>0. k \in 1 .. Len(s)
      BY <1>2, <2>1
    <3>1. PICK m \in L + 1 .. L + Len(s) : m - L = k
      <4> HIDE DEF s
      <4>1. L + k \in L + 1 .. L + Len(s) /\ (L + k) - L = k
        BY <1>1, <3>0
      <4> QED
        BY <4>1
    <3>2. m \in DOMAIN all
      BY <1>1, <1>3, <3>1
    <3>3. new[m] = <<n, m - L>>
      BY <1>6
    <3>4. new[m] = <<i, k>>
      BY <2>1, <3>1, <3>3
    <3> QED
      BY <3>2, <3>4
  <2>2. CASE i # n
    <3>1. i \in 1 .. n - 1
      BY <1>1, <2>2
    <3>2. PICK m \in 1 .. L : at[m] = <<i, k>>
      BY <1>2, <3>1 DEF ComesFrom
    <3> QED
      <4>1. m \in DOMAIN all /\ new[m] = <<i, k>>
        BY <1>1, <1>3, <1>5, <3>2
      <4> QED
        BY <4>1
  <2> QED
    BY <2>1, <2>2
<1>12. ComesFrom(seqs, n, all, new)
  BY <1>3, <1>8, <1>9, <1>10, <1>11 DEF ComesFrom
<1> QED
  BY <1>12 DEF all

\* What FlattenSeq computes: from left to right, one sequence after the other.
LEMMA FlattenBuilds ==
    ASSUME NEW S, NEW seqs \in Seq(Seq(S)), Len(seqs) # 0
    PROVE  \E f : /\ \A i \in 1 .. Len(seqs) : f[i] = IF i = 1 THEN seqs[i] ELSE f[i - 1] \o seqs[i]
                  /\ FlattenSeq(seqs) = f[Len(seqs)]
<1> DEFINE N == Len(seqs)
           IsFlat(f, n) == f = [i \in 1 .. n |-> IF i = 1 THEN seqs[i] ELSE f[i - 1] \o seqs[i]]
<1>1. N \in Nat /\ \A i \in 1 .. N : seqs[i] \in Seq(S)
  OBVIOUS
<1>2. \E f : IsFlat(f, N)
  <2> DEFINE Missing == {n \in 0 .. N : ~\E f : IsFlat(f, n)}
  <2>0. N \in 0 .. N
    BY <1>1
  <2>1. SUFFICES ASSUME Missing # {} PROVE FALSE
    BY <2>0, Zenon
  <2>2. PICK n \in Missing : \A m \in Missing : n <= m
    <3>1. 0 .. N \subseteq Nat
      BY <1>1
    <3>2. Missing \subseteq 0 .. N
      BY Zenon
    <3> HIDE DEF Missing
    <3> QED
      BY <2>1, <3>1, <3>2, Least
  <2>3. CASE n = 0
    <3>1. IsFlat([i \in 1 .. 0 |-> seqs[i]], 0)
      OBVIOUS
    <3> QED
      BY <2>2, <2>3, <3>1
  <2>4. CASE n # 0
    <3>0. n \in 0 .. N
      BY <2>2
    <3>1. n - 1 \in 0 .. N /\ n - 1 \notin Missing /\ n \in Nat
      <4>1. n - 1 \in 0 .. N /\ n \in Nat /\ ~(n <= n - 1)
        BY <1>1, <2>4, <3>0
      <4> HIDE DEF Missing
      <4> QED
        BY <2>2, <4>1
    <3>2. PICK f : IsFlat(f, n - 1)
      BY <3>1, Zenon
    <3> DEFINE g == [i \in 1 .. n |-> IF i = 1 THEN seqs[i] ELSE f[i - 1] \o seqs[i]]
    <3>3. ASSUME NEW i \in 1 .. n - 1 PROVE f[i] = g[i]
      <4>1. i \in 1 .. n
        BY <3>1
      <4>2. f[i] = IF i = 1 THEN seqs[i] ELSE f[i - 1] \o seqs[i]
        BY <3>2, Zenon
      <4> QED
        BY <4>1, <4>2
    <3>4. \A i \in 1 .. n : i # 1 => i - 1 \in 1 .. n - 1
      BY <3>1
    <3>5. \A i \in 1 .. n : (IF i = 1 THEN seqs[i] ELSE f[i - 1] \o seqs[i])
                            = IF i = 1 THEN seqs[i] ELSE g[i - 1] \o seqs[i]
      <4> HIDE DEF g
      <4> QED
        BY <3>3, <3>4
    <3>6. IsFlat(g, n)
      BY <3>5, Zenon
    <3> QED
      BY <2>2, <3>6
  <2> QED
    BY <2>3, <2>4
<1> DEFINE flatten == CHOOSE f : IsFlat(f, N)
<1>3. IsFlat(flatten, N)
  BY <1>2
<1>4. FlattenSeq(seqs) = flatten[N]
  BY DEF FlattenSeq, flatten
<1> HIDE DEF flatten
<1>5. \A i \in 1 .. N : flatten[i] = IF i = 1 THEN seqs[i] ELSE flatten[i - 1] \o seqs[i]
  BY <1>3, Zenon
<1> QED
  BY <1>4, <1>5

\* What is made of sequences put together consists of what they consist of, each
\* element once and in their order.
LEMMA Flattened ==
    ASSUME NEW S, NEW seqs \in Seq(Seq(S))
    PROVE  /\ FlattenSeq(seqs) \in Seq(S)
           /\ \E at : ComesFrom(seqs, Len(seqs), FlattenSeq(seqs), at)
<1> DEFINE N == Len(seqs)
           Right(flat, n) == flat \in Seq(S) /\ \E at : ComesFrom(seqs, n, flat, at)
<1>1. N \in Nat /\ \A i \in 1 .. N : seqs[i] \in Seq(S)
  OBVIOUS
<1>2. Right(<<>>, 0)
  <2>1. ComesFrom(seqs, 0, <<>>, <<>>)
    BY DEF ComesFrom
  <2> QED
    BY <2>1
<1>3. ASSUME NEW n \in 1 .. N, NEW flat, Right(flat, n - 1) PROVE Right(flat \o seqs[n], n)
  BY <1>1, <1>3, OneMore, ConcatProperties
<1>4. CASE N = 0
  <2>1. FlattenSeq(seqs) = <<>>
    BY <1>4 DEF FlattenSeq
  <2> HIDE DEF Right
  <2>2. Right(FlattenSeq(seqs), N)
    BY <1>2, <1>4, <2>1
  <2> QED
    BY <2>2 DEF Right
<1>5. CASE N # 0
  <2>1. PICK f : /\ \A i \in 1 .. N : f[i] = IF i = 1 THEN seqs[i] ELSE f[i - 1] \o seqs[i]
                 /\ FlattenSeq(seqs) = f[N]
    BY <1>5, FlattenBuilds
  <2> DEFINE Wrong == {i \in 1 .. N : ~Right(f[i], i)}
  <2> HIDE DEF Right
  <2>2. ASSUME Wrong # {} PROVE FALSE
    <3>1. Wrong \subseteq Nat
      OBVIOUS
    <3>2. PICK i \in Wrong : \A j \in Wrong : i <= j
      <4> HIDE DEF Wrong
      <4> QED
        BY <2>2, <3>1, Least
    <3>3. CASE i = 1
      <4>1. <<>> \o seqs[1] = seqs[1]
        BY <1>1, <3>2, <3>3, ConcatEmptySeq
      <4>2. f[1] = <<>> \o seqs[1]
        BY <2>1, <3>2, <3>3, <4>1
      <4>3. 1 \in 1 .. N /\ Right(<<>>, 1 - 1)
        BY <1>2, <3>2, <3>3
      <4>4. Right(f[1], 1)
        BY <1>3, <4>2, <4>3
      <4> QED
        BY <3>2, <3>3, <4>4
    <3>4. CASE i # 1
      <4>1. i - 1 \in 1 .. N /\ i - 1 \notin Wrong
        BY <1>1, <3>2, <3>4
      <4>2. Right(f[i - 1], i - 1) /\ f[i] = f[i - 1] \o seqs[i]
        BY <2>1, <3>2, <3>4, <4>1
      <4> QED
        BY <1>3, <3>2, <4>2
    <3> QED
      BY <3>3, <3>4
  <2>3. N \in 1 .. N
    BY <1>1, <1>5
  <2>4. Right(f[N], N)
    BY <2>2, <2>3
  <2> QED
    BY <2>1, <2>4 DEF Right
<1> QED
  BY <1>4, <1>5

\* What the elements and the places of a sequence are.
LEMMA SeqFacts ==
    ASSUME NEW S, NEW s \in Seq(S)
    PROVE  /\ Len(s) \in Nat /\ DOMAIN s = 1 .. Len(s) /\ DOMAIN s \subseteq Nat
           /\ \A i \in DOMAIN s : s[i] \in S
OBVIOUS

\* What a flow lists of a resource.
Resources == [name : STRING, startDelay : Minutes, endDelay : Minutes]

\* The places of a plan are pairs of numbers, and the resources there are resources.
LEMMA PlacesType ==
    ASSUME NEW spec \in FlowSpecs
    PROVE  /\ spec.flows \in Seq([period : STRING, resources : Seq(Resources)])
           /\ \A i \in DOMAIN spec.flows : spec.flows[i].resources \in Seq(Resources)
           /\ Places(spec) \subseteq Nat \X Nat
           /\ \A place \in Places(spec) :
                 /\ place[1] \in DOMAIN spec.flows
                 /\ place[2] \in DOMAIN spec.flows[place[1]].resources
                 /\ ResourceAt(spec, place) \in Resources
           /\ \A i \in DOMAIN spec.flows : \A k \in DOMAIN spec.flows[i].resources :
                 <<i, k>> \in Places(spec)
<1> DEFINE F == [period : STRING, resources : Seq(Resources)]
<1>1. spec.flows \in Seq(F)
  BY DEF FlowSpecs, Resources
<1>2. DOMAIN spec.flows \subseteq Nat /\ \A i \in DOMAIN spec.flows : spec.flows[i] \in F
  <2> HIDE DEF F
  <2> QED
    BY <1>1, SeqFacts
<1>3. ASSUME NEW f \in F
      PROVE  DOMAIN f.resources \subseteq Nat
             /\ \A k \in DOMAIN f.resources : f.resources[k] \in Resources
  <2>1. f.resources \in Seq(Resources)
    OBVIOUS
  <2> QED
    BY <2>1, SeqFacts
<1>7. \A i \in DOMAIN spec.flows : spec.flows[i].resources \in Seq(Resources)
  BY <1>2
<1> HIDE DEF F
<1>4. \A i \in DOMAIN spec.flows :
         /\ DOMAIN spec.flows[i].resources \subseteq Nat
         /\ \A k \in DOMAIN spec.flows[i].resources : spec.flows[i].resources[k] \in Resources
  BY <1>2, <1>3
<1>5. ASSUME NEW place \in Places(spec)
      PROVE  place \in Nat \X Nat /\ place[1] \in DOMAIN spec.flows
             /\ place[2] \in DOMAIN spec.flows[place[1]].resources
  <2>1. PICK i \in DOMAIN spec.flows : place \in {i} \X DOMAIN spec.flows[i].resources
    BY DEF Places
  <2> QED
    BY <1>2, <1>4, <2>1
<1>6. \A i \in DOMAIN spec.flows : \A k \in DOMAIN spec.flows[i].resources :
         <<i, k>> \in Places(spec)
  BY DEF Places
<1> QED
  BY <1>1, <1>4, <1>5, <1>6, <1>7 DEF ResourceAt, F

\* findAssociatedPeriods: what a resource follows are the places where it is listed,
\* each once and in the order of spec.flows, with their periods and delays.
LEMMA Follows ==
    ASSUME NEW spec \in FlowSpecs, NEW name
    PROVE  LET named == {place \in Places(spec) : ResourceAt(spec, place).name = name}
               followed == Associated(spec, name)
           IN  /\ \E n \in Nat : DOMAIN followed = 1 .. n
               /\ \E at \in [DOMAIN followed -> named] :
                    /\ \A m \in DOMAIN followed :
                          followed[m] = Association(spec.flows[at[m][1]], ResourceAt(spec, at[m]))
                    /\ \A m, l \in DOMAIN followed : m < l => Precedes(at[m], at[l])
                    /\ \A place \in named : \E m \in DOMAIN followed : at[m] = place
<1> DEFINE named == {place \in Places(spec) : ResourceAt(spec, place).name = name}
           S == {Association(spec.flows[place[1]], ResourceAt(spec, place)) : place \in named}
           One(f, k) == IF f.resources[k].name = name
                        THEN <<Association(f, f.resources[k])>> ELSE <<>>
           parts(i) == [k \in DOMAIN spec.flows[i].resources |-> One(spec.flows[i], k)]
           Of(f) == FlattenSeq([k \in DOMAIN f.resources |-> One(f, k)])
           all == [i \in DOMAIN spec.flows |-> Of(spec.flows[i])]
<1>1. ASSUME NEW i \in DOMAIN spec.flows, NEW k \in DOMAIN spec.flows[i].resources
      PROVE  /\ One(spec.flows[i], k) \in Seq(S)
             /\ \A l \in DOMAIN One(spec.flows[i], k) :
                   /\ l = 1 /\ <<i, k>> \in named
                   /\ One(spec.flows[i], k)[l]
                        = Association(spec.flows[i], ResourceAt(spec, <<i, k>>))
             /\ <<i, k>> \in named => 1 \in DOMAIN One(spec.flows[i], k)
  <2>0. <<i, k>> \in Places(spec) /\ ResourceAt(spec, <<i, k>>) = spec.flows[i].resources[k]
    BY PlacesType DEF ResourceAt
  <2>1. CASE spec.flows[i].resources[k].name = name
    <3>1. <<i, k>> \in named
      BY <2>0, <2>1
    <3>2. Association(spec.flows[i], spec.flows[i].resources[k]) \in S
      BY <2>0, <3>1
    <3> HIDE DEF S, named
    <3> QED
      BY <2>0, <2>1, <3>1, <3>2
  <2>2. CASE spec.flows[i].resources[k].name # name
    <3>1. <<i, k>> \notin named
      BY <2>0, <2>2
    <3> HIDE DEF S, named
    <3> QED
      BY <2>2, <3>1
  <2> QED
    BY <2>1, <2>2
<1> HIDE DEF S, named, One
<1>2. ASSUME NEW i \in DOMAIN spec.flows
      PROVE  /\ parts(i) \in Seq(Seq(S))
             /\ DOMAIN parts(i) = 1 .. Len(parts(i))
             /\ \A k \in DOMAIN parts(i) : /\ k \in DOMAIN spec.flows[i].resources
                                           /\ parts(i)[k] = One(spec.flows[i], k)
             /\ \A k \in DOMAIN spec.flows[i].resources : k \in DOMAIN parts(i)
  <2>1. PICK n \in Nat : DOMAIN spec.flows[i].resources = 1 .. n
    BY PlacesType, SeqFacts
  <2>2. \A k \in 1 .. n : One(spec.flows[i], k) \in Seq(S)
    BY <1>1, <2>1, Zenon
  <2>3. parts(i) = [k \in 1 .. n |-> One(spec.flows[i], k)]
    BY <2>1, Zenon
  <2>4. parts(i) \in Seq(Seq(S))
    <3> HIDE DEF parts
    <3> QED
      BY <2>2, <2>3
  <2>5. DOMAIN parts(i) = 1 .. Len(parts(i))
    <3> HIDE DEF parts
    <3> QED
      BY <2>4, SeqFacts
  <2> QED
    BY <2>1, <2>4, <2>5, Zenon
<1> HIDE DEF parts
<1>3. \A i \in DOMAIN spec.flows : Of(spec.flows[i]) = FlattenSeq(parts(i))
  BY DEF parts
<1> HIDE DEF Of
<1>4. ASSUME NEW i \in DOMAIN spec.flows
      PROVE  /\ Of(spec.flows[i]) \in Seq(S)
             /\ \E at : ComesFrom(parts(i), Len(parts(i)), Of(spec.flows[i]), at)
  <2>1. FlattenSeq(parts(i)) \in Seq(S)
        /\ \E at : ComesFrom(parts(i), Len(parts(i)), FlattenSeq(parts(i)), at)
    BY <1>2, Flattened
  <2> QED
    BY <1>3, <2>1
<1> DEFINE inner == [i \in DOMAIN spec.flows |->
                       CHOOSE at : ComesFrom(parts(i), Len(parts(i)), Of(spec.flows[i]), at)]
<1>5. \A i \in DOMAIN spec.flows :
         ComesFrom(parts(i), Len(parts(i)), Of(spec.flows[i]), inner[i])
  BY <1>4, Zenon
<1> HIDE DEF inner
<1>6. /\ all \in Seq(Seq(S)) /\ DOMAIN all = 1 .. Len(all) /\ DOMAIN all = DOMAIN spec.flows
      /\ \A i \in DOMAIN spec.flows : all[i] = Of(spec.flows[i])
  <2>1. PICK n \in Nat : DOMAIN spec.flows = 1 .. n
    BY PlacesType, SeqFacts
  <2>2. all = [i \in 1 .. n |-> Of(spec.flows[i])]
    BY <2>1, Zenon
  <2>3. all \in Seq(Seq(S))
    <3> HIDE DEF all
    <3> QED
      BY <1>4, <2>1, <2>2
  <2>4. DOMAIN all = 1 .. Len(all)
    <3> HIDE DEF all
    <3> QED
      BY <2>3, SeqFacts
  <2> QED
    BY <2>3, <2>4, Zenon
<1>7. Associated(spec, name) = FlattenSeq(all)
  BY DEF Associated, Of, One
<1> HIDE DEF all
<1> DEFINE flat == Associated(spec, name)
<1>8. flat \in Seq(S)
  BY <1>6, <1>7, Flattened
<1>9. PICK outer : ComesFrom(all, Len(all), flat, outer)
  BY <1>6, <1>7, Flattened
<1> HIDE DEF flat
\* An element of the whole is an element of one flow, at one of its resources.
<1> DEFINE flow(m) == outer[m][1]
           place(m) == <<outer[m][1], inner[outer[m][1]][outer[m][2]][1]>>
<1>10. ASSUME NEW m \in DOMAIN flat
       PROVE  /\ flow(m) \in DOMAIN spec.flows /\ outer[m] \in Nat \X Nat
              /\ outer[m][2] \in DOMAIN Of(spec.flows[flow(m)])
              /\ flat[m] = Of(spec.flows[flow(m)])[outer[m][2]]
  BY <1>6, <1>9 DEF ComesFrom
<1>11. ASSUME NEW i \in DOMAIN spec.flows, NEW l \in DOMAIN Of(spec.flows[i])
       PROVE  LET k == inner[i][l][1] IN
              /\ k \in DOMAIN spec.flows[i].resources /\ <<i, k>> \in named
              /\ inner[i][l] = <<k, 1>> /\ k \in Nat
              /\ Of(spec.flows[i])[l] = Association(spec.flows[i], ResourceAt(spec, <<i, k>>))
  <2> DEFINE k == inner[i][l][1]
  <2>1. /\ inner[i][l] \in Nat \X Nat /\ k \in DOMAIN parts(i)
        /\ inner[i][l][2] \in DOMAIN parts(i)[k]
        /\ Of(spec.flows[i])[l] = parts(i)[k][inner[i][l][2]]
    BY <1>2, <1>5 DEF ComesFrom
  <2>2. k \in DOMAIN spec.flows[i].resources /\ parts(i)[k] = One(spec.flows[i], k)
    BY <1>2, <2>1
  <2>3. /\ inner[i][l][2] = 1 /\ <<i, k>> \in named
        /\ Of(spec.flows[i])[l] = Association(spec.flows[i], ResourceAt(spec, <<i, k>>))
    <3> DEFINE x == inner[i][l][2]
    <3>1. x \in DOMAIN One(spec.flows[i], k) /\ Of(spec.flows[i])[l] = One(spec.flows[i], k)[x]
      BY <2>1, <2>2
    <3>2. k \in DOMAIN spec.flows[i].resources
      BY <2>2
    <3> HIDE DEF k, x
    <3>3. /\ x = 1 /\ <<i, k>> \in named
          /\ One(spec.flows[i], k)[x] = Association(spec.flows[i], ResourceAt(spec, <<i, k>>))
      BY <1>1, <3>1, <3>2
    <3> QED
      BY <3>1, <3>3 DEF x
  <2>4. inner[i][l] = <<k, 1>> /\ k \in Nat
    BY <2>1, <2>3
  <2> QED
    BY <2>2, <2>3, <2>4
<1>12. ASSUME NEW m \in DOMAIN flat
       PROVE  /\ place(m) \in named
              /\ flat[m] = Association(spec.flows[place(m)[1]], ResourceAt(spec, place(m)))
  BY <1>10, <1>11
<1>13. ASSUME NEW m \in DOMAIN flat, NEW l \in DOMAIN flat, m < l
       PROVE  Precedes(place(m), place(l))
  <2>1. Precedes(outer[m], outer[l])
    BY <1>9, <1>13 DEF ComesFrom
  <2>2. CASE outer[m][1] < outer[l][1]
    BY <2>2 DEF Precedes
  <2>3. CASE outer[m][1] = outer[l][1] /\ outer[m][2] < outer[l][2]
    <3> DEFINE i == outer[m][1]
               a == outer[m][2]
               b == outer[l][2]
    <3>1. i \in DOMAIN spec.flows /\ a \in DOMAIN Of(spec.flows[i]) /\ b \in DOMAIN Of(spec.flows[i])
      BY <1>10, <2>3
    <3>2. Precedes(inner[i][a], inner[i][b])
      BY <1>5, <2>3, <3>1 DEF ComesFrom
    <3>3. PICK u \in Nat : inner[i][a] = <<u, 1>>
      BY <1>11, <3>1
    <3>4. PICK v \in Nat : inner[i][b] = <<v, 1>>
      BY <1>11, <3>1
    <3>5. u < v
      BY <3>2, <3>3, <3>4 DEF Precedes
    <3>6. place(m) = <<i, u>> /\ place(l) = <<i, v>>
      BY <2>3, <3>3, <3>4
    <3> HIDE DEF place, i
    <3> QED
      BY <3>5, <3>6 DEF Precedes
  <2> QED
    BY <2>1, <2>2, <2>3 DEF Precedes
<1>14. ASSUME NEW other \in named PROVE \E m \in DOMAIN flat : place(m) = other
  <2> DEFINE i == other[1]
             k == other[2]
  <2>1. /\ other = <<i, k>> /\ i \in DOMAIN spec.flows
        /\ k \in DOMAIN spec.flows[i].resources
    BY PlacesType DEF named
  <2>2. k \in DOMAIN parts(i) /\ 1 \in DOMAIN parts(i)[k]
    BY <1>1, <1>2, <2>1
  <2>3. PICK l \in DOMAIN Of(spec.flows[i]) : inner[i][l] = <<k, 1>>
    <3>1. ComesFrom(parts(i), Len(parts(i)), Of(spec.flows[i]), inner[i])
      BY <1>5, <2>1
    <3>2. k \in 1 .. Len(parts(i)) /\ 1 \in DOMAIN parts(i)[k]
      BY <1>2, <2>1, <2>2
    <3> HIDE DEF i, k
    <3> QED
      BY <3>1, <3>2 DEF ComesFrom
  <2>4. i \in 1 .. Len(all) /\ l \in DOMAIN all[i]
    BY <1>6, <2>1, <2>3
  <2>5. PICK m \in DOMAIN flat : outer[m] = <<i, l>>
    BY <1>9, <2>4 DEF ComesFrom
  <2>6. place(m) = other
    BY <2>1, <2>3, <2>5
  <2> QED
    BY <2>6
<1> DEFINE at == [m \in DOMAIN flat |-> place(m)]
<1>15. at \in [DOMAIN flat -> named] /\ \A m \in DOMAIN flat : at[m] = place(m)
  BY <1>12
<1> HIDE DEF at, place
<1>16. \E n \in Nat : DOMAIN flat = 1 .. n
  BY <1>8, SeqFacts
<1> QED
  BY <1>12, <1>13, <1>14, <1>15, <1>16 DEF flat, named

\* What validateResourceDelays lets through: nothing is wrong at any place of a flow
\* that is not refused.
LEMMA NothingWrong ==
    ASSUME NEW spec \in FlowSpecs, Reasons(spec) = {}, NEW place \in Places(spec)
    PROVE  LET name == spec.flows[place[1]].period
               p    == PeriodNamed(spec, name)
           IN  /\ name \in ToSet(PeriodNames(spec.periods))
               /\ DurationReason(p) = ""
               /\ DelayReason(p, ResourceAt(spec, place)) = ""
<1> DEFINE name == spec.flows[place[1]].period
           p == PeriodNamed(spec, name)
           wrong == WrongDelays(spec, name)
           first == {q \in wrong : \A other \in wrong : ~Precedes(other, q)}
<1>1. TimingReasons(spec) = {}
  BY DEF Reasons
<1>2. name \in Followed(spec)
  BY PlacesType DEF Followed
<1>3. TimingReason(spec, name) = {}
  BY <1>1, <1>2 DEF TimingReasons
<1>4. /\ name \in ToSet(PeriodNames(spec.periods))
      /\ DurationReason(p) = ""
      /\ {DelayReason(p, ResourceAt(spec, q)) : q \in first} = {}
  <2> HIDE DEF first
  <2>1. TimingReason(spec, name)
          = IF name \notin ToSet(PeriodNames(spec.periods)) THEN {"UnknownPeriod"}
            ELSE IF DurationReason(p) # "" THEN {DurationReason(p)}
            ELSE {DelayReason(p, ResourceAt(spec, q)) : q \in first}
    BY DEF TimingReason, first
  <2> HIDE DEF p, name
  <2> QED
    BY <1>3, <2>1
<1>5. first = {}
  BY <1>4
<1>6. wrong = {}
  <2>1. wrong \subseteq Nat \X Nat
    BY PlacesType DEF WrongDelays
  <2> HIDE DEF wrong
  <2> QED
    BY <1>5, <2>1, FirstPlace
<1>7. DelayReason(p, ResourceAt(spec, place)) = ""
  BY <1>6 DEF WrongDelays
<1> QED
  BY <1>4, <1>7

\* A period that is asked for by its name is one of the flow's.
LEMMA PeriodNamedType ==
    ASSUME NEW spec \in FlowSpecs, NEW name \in ToSet(PeriodNames(spec.periods))
    PROVE  PeriodNamed(spec, name) \in PeriodRecords /\ PeriodNamed(spec, name).name = name
<1>1. spec.periods \in Seq(PeriodRecords)
  BY DEF FlowSpecs
<1>2. \E i \in DOMAIN spec.periods : spec.periods[i].name = name
  BY DEF ToSet, PeriodNames
<1>3. \A i \in DOMAIN spec.periods : spec.periods[i] \in PeriodRecords
  BY <1>1, SeqFacts
<1> DEFINE i == CHOOSE i \in DOMAIN spec.periods : spec.periods[i].name = name
<1>4. i \in DOMAIN spec.periods /\ spec.periods[i].name = name
  BY <1>2
<1> HIDE DEF i
<1> QED
  BY <1>3, <1>4 DEF PeriodNamed, i

\* With the delays of a resource a period still begins before it ends.
LEMMA WindowsRemain ==
    ASSUME NEW spec \in FlowSpecs, Reasons(spec) = {}, NEW place \in Places(spec)
    PROVE  LET p == PeriodNamed(spec, spec.flows[place[1]].period)
               r == ResourceAt(spec, place)
           IN  /\ p \in PeriodRecords /\ p.time \in {"recurring", "fixed"}
               /\ p.start \in Nat /\ p.end \in Nat /\ p.start # p.end
               /\ p.time = "fixed" => p.start < p.end
               /\ r.startDelay \in Nat /\ r.endDelay \in Nat
               /\ r.startDelay < Duration(p) + r.endDelay
<1> DEFINE p == PeriodNamed(spec, spec.flows[place[1]].period)
           r == ResourceAt(spec, place)
<1>1. p \in PeriodRecords /\ r \in Resources /\ DurationReason(p) = "" /\ DelayReason(p, r) = ""
  BY NothingWrong, PeriodNamedType, PlacesType
<1> HIDE DEF p, r
<1>2. /\ p.time \in {"recurring", "fixed", "none"}
      /\ p.start \in Minutes /\ p.end \in Minutes
      /\ r.startDelay \in Minutes /\ r.endDelay \in Minutes
  BY <1>1 DEF PeriodRecords, Resources
<1>3. /\ p.time # "none" /\ p.start # Nil /\ p.end # Nil /\ p.start # p.end
      /\ ~(p.time = "fixed" /\ p.end < p.start)
  BY <1>1 DEF DurationReason
<1>4. /\ r.startDelay # Nil /\ r.endDelay # Nil
      /\ ~(Duration(p) - r.startDelay + r.endDelay <= 0)
  BY <1>1 DEF DelayReason
<1>5. /\ p.start \in Nat /\ p.end \in Nat /\ r.startDelay \in Nat /\ r.endDelay \in Nat
  BY <1>2, <1>3, <1>4 DEF Minutes
<1>6. Duration(p) \in Int
  BY <1>5, DayAssumption DEF Duration
<1>7. r.startDelay < Duration(p) + r.endDelay /\ (p.time = "fixed" => p.start < p.end)
  BY <1>3, <1>4, <1>5, <1>6
<1> QED
  BY <1>1, <1>2, <1>3, <1>5, <1>7 DEF p, r

\* A minute of the day is what it is, without the days before it.
LEMMA MinuteOfDay ==
    ASSUME NEW x \in Nat, x < DayLength
    PROVE  x % DayLength = x
BY DayAssumption

\* The instants of the day are counted from its begin.
LEMMA DayType ==
    ASSUME NEW now \in Instants
    PROVE  now \in Int /\ DayOf(now) * DayLength \in Int
<1>1. now \in Int /\ DayLength * PerMinute \in Nat /\ DayLength * PerMinute > 0 /\ DayLength \in Int
  BY DayAssumption DEF Instants, PerMinute
<1>2. DayOf(now) \in Int
  BY <1>1 DEF DayOf
<1> QED
  BY <1>1, <1>2

\* The period of a child, shifted by the delays of its resource, is loaded, and is
\* active when asked for.
LEMMA ShiftedAsAsked ==
    ASSUME NEW p \in PeriodRecords, NEW r \in Resources, NEW now \in Instants,
           p.time \in {"recurring", "fixed"}, p.start \in Nat, p.end \in Nat, p.start # p.end,
           p.time = "fixed" => p.start < p.end,
           r.startDelay \in Nat, r.endDelay \in Nat, r.startDelay < Duration(p) + r.endDelay,
           Fits(p, r), MinReplicas(p) <= MaxReplicas(p), p.loads, ValidPeriod(Shift(p, r))
    PROVE  /\ ~Fails(Shift(p, r), now)
           /\ IsActive(Shift(p, r), now) <=> Asked(p, r, now)
<1> DEFINE q == Shift(p, r)
           c == Converted(q)
           day == IF p.time = "recurring" THEN DayOf(now) * DayLength ELSE 0
<1>1. now \in Int /\ day \in Int /\ DayLength \in Nat /\ DayLength > 0
  BY DayType, DayAssumption
<1>2. /\ q.time = p.time /\ q.days = p.days /\ q.min = p.min /\ q.max = p.max
      /\ q.loads = p.loads /\ q.reverse = p.reverse /\ q \in PeriodRecords
      /\ q.start \in Nat /\ q.end \in Nat
  <2>1. /\ p.start + r.startDelay \in Nat /\ p.end + r.endDelay \in Nat
        /\ (p.start + r.startDelay) % DayLength \in Nat
        /\ (p.end + r.endDelay) % DayLength \in Nat
    BY <1>1
  <2>2. PICK start \in Nat, end \in Nat : q = [p EXCEPT !.start = start, !.end = end]
    <3>1. CASE p.time = "recurring"
      BY <2>1, <3>1, Zenon DEF Shift
    <3>2. CASE p.time # "recurring"
      BY <2>1, <3>2, Zenon DEF Shift
    <3> QED
      BY <3>1, <3>2
  <2> HIDE DEF q
  <2> QED
    BY <2>2 DEF PeriodRecords, Minutes
<1>3. /\ q.start = p.start + r.startDelay
      /\ EndMinute(q) = EndMinute(p) + r.endDelay
      /\ q.start <= EndMinute(q)
  <2>1. CASE p.time = "fixed"
    <3>1. q.start = p.start + r.startDelay /\ q.end = p.end + r.endDelay
      BY <2>1 DEF Shift, PeriodRecords
    <3>2. Duration(p) = p.end - p.start
      BY <2>1 DEF Duration
    <3> HIDE DEF q
    <3> QED
      BY <1>2, <2>1, <3>1, <3>2 DEF EndMinute
  <2>2. CASE p.time = "recurring" /\ p.end = 0
    <3>1. r.endDelay = 0 /\ p.start < DayLength /\ p.start > 0
      BY <1>1, <2>2 DEF Fits, EndMinute
    <3>2. p.start + r.startDelay < DayLength
      BY <1>1, <2>2, <3>1 DEF Duration
    <3>3. q.start = p.start + r.startDelay /\ q.end = 0
      <4>1. (p.start + r.startDelay) % DayLength = p.start + r.startDelay
            /\ (p.end + r.endDelay) % DayLength = 0
        BY <1>1, <2>2, <3>1, <3>2, MinuteOfDay
      <4> QED
        BY <2>2, <4>1 DEF Shift, PeriodRecords
    <3> HIDE DEF q
    <3> QED
      BY <1>1, <1>2, <2>2, <3>1, <3>2, <3>3 DEF EndMinute
  <2>3. CASE p.time = "recurring" /\ p.end # 0
    <3>1. p.start < p.end /\ p.end + r.endDelay < DayLength
      BY <1>1, <2>3 DEF Fits, EndMinute
    <3>2. p.start + r.startDelay < p.end + r.endDelay
      BY <1>1, <2>3, <3>1 DEF Duration
    <3>3. q.start = p.start + r.startDelay /\ q.end = p.end + r.endDelay
      <4>1. (p.start + r.startDelay) % DayLength = p.start + r.startDelay
            /\ (p.end + r.endDelay) % DayLength = p.end + r.endDelay
        BY <1>1, <2>3, <3>1, <3>2, MinuteOfDay
      <4> QED
        BY <2>3, <4>1 DEF Shift, PeriodRecords
    <3> HIDE DEF q
    <3> QED
      BY <1>1, <1>2, <2>3, <3>1, <3>2, <3>3 DEF EndMinute
  <2> QED
    BY <2>1, <2>2, <2>3
<1> HIDE DEF q
<1>4. /\ c.start = q.start /\ c.end = q.end /\ c.time = q.time
      /\ c.days = IF p.time = "fixed" THEN <<AllDays>> ELSE p.days
      /\ c.reverse = (p.time = "recurring" /\ p.reverse)
  BY <1>2 DEF Converted, PeriodRecords
<1>5. \A i \in DOMAIN c.days : c.days[i] # BadDay
  BY <1>2, <1>4 DEF ValidPeriod, ValidTime, ValidRecurring, ValidDay, AllDays, BadDay, q
<1>6. OnDay(c.days, now) <=> (p.time = "recurring" => OnDay(p.days, now))
  <2>1. CASE p.time = "fixed"
    BY <1>4, <2>1 DEF OnDay, IsDay
  <2>2. CASE p.time = "recurring"
    BY <1>4, <2>2
  <2> QED
    BY <2>1, <2>2
<1> HIDE DEF c
<1>7. EndMinute(c) = EndMinute(q) /\ EndMinute(p) \in Int
  BY <1>1, <1>2, <1>4 DEF EndMinute
<1>8. Anchor(c, now) = day * PerMinute
  BY <1>1, <1>2, <1>4 DEF Anchor, PerMinute
<1> HIDE DEF day
<1>9. /\ StartInstant(c, now) = (day + p.start + r.startDelay) * PerMinute
      /\ EndInstant(c, now) = (day + EndMinute(p) + r.endDelay) * PerMinute + PerMinute - 1
  BY <1>1, <1>3, <1>4, <1>7, <1>8 DEF StartInstant, EndInstant, PerMinute
<1>10. Readable(c, now)
  BY <1>1, <1>2, <1>3, <1>4, <1>7, <1>9 DEF Readable, PerMinute, Nil
<1>11. ~Fails(q, now)
  <2>1. MinReplicas(q) = MinReplicas(p) /\ MaxReplicas(q) = MaxReplicas(p)
    BY <1>2 DEF MinReplicas, MaxReplicas
  <2>2. ~(MinReplicas(q) > MaxReplicas(q)) /\ q.loads
    <3>1. MinReplicas(p) \in Int /\ MaxReplicas(p) \in Int
      BY DEF MinReplicas, MaxReplicas, PeriodRecords
    <3> QED
      BY <1>2, <2>1, <3>1
  <2>3. ~BadDayFirst(c.days, now)
    BY <1>5 DEF BadDayFirst
  <2> QED
    BY <1>10, <2>2, <2>3 DEF Fails, c
<1>12. IsActive(q, now) <=> OnDay(c.days, now) /\ (Within(c, now) # c.reverse)
  BY <1>11 DEF IsActive, c
<1>13. Asked(p, r, now) <=>
         /\ p.time = "recurring" => OnDay(p.days, now)
         /\ Within(c, now) # (p.time = "recurring" /\ p.reverse)
  BY <1>9 DEF Asked, Within, day
<1> QED
  BY <1>4, <1>6, <1>11, <1>12, <1>13 DEF q

\* A period that ends before it starts, on the next day as flow.md has it in its
\* first example, is never active, on no day and whether it is reverse or not.
THEOREM OvernightNeverActive ==
    ASSUME NEW p \in PeriodRecords, NEW now \in Instants,
           p.time = "recurring", p.end # 0, p.end < p.start
    PROVE  ~IsActive(p, now)
<1>1. p.start \in Int /\ p.end \in Int /\ Converted(p) = p
  BY DEF PeriodRecords, Minutes, Converted, Nil
<1>2. ASSUME p.start # Nil, p.end # Nil, StartInstant(p, now) <= EndInstant(p, now) PROVE FALSE
  <2> DEFINE anchor == DayOf(now) * DayLength * PerMinute
  <2>1. /\ StartInstant(p, now) = anchor + p.start * PerMinute
        /\ EndInstant(p, now) = anchor + p.end * PerMinute + (PerMinute - 1)
    BY DEF StartInstant, EndInstant, Anchor, EndMinute
  <2>2. anchor \in Int
    <3>1. now \in Int /\ PerMinute = 3 /\ DayLength \in Nat \ {0}
      BY DayAssumption DEF Instants, PerMinute
    <3> DEFINE d == DayLength * PerMinute
    <3>2. d \in Nat \ {0}
      BY <3>1
    <3>3. DayOf(now) = now \div d
      BY DEF DayOf
    <3> HIDE DEF d
    <3>4. DayOf(now) \in Int
      BY <3>1, <3>2, <3>3
    <3> QED
      BY <3>1, <3>4
  <2> HIDE DEF anchor
  <2> QED
    BY <1>1, <1>2, <2>1, <2>2 DEF PerMinute
<1> QED
  BY <1>1, <1>2 DEF IsActive, Fails, Readable

\* For every spec that ProcessFlow does not refuse, every resource of it whose child
\* the webhook accepts, and every instant: where the delays leave each window within
\* its day, SetActivePeriod finds of the child's periods the one that the flow asks
\* for.
THEOREM ChildAsAsked ==
    ASSUME NEW spec \in FlowSpecs, Reasons(spec) = {}, NEW name, AllFit(spec, name),
           ValidK8s(ChildPeriods(spec, name)), NEW now \in Instants
    PROVE  SetActivePeriod(ChildPeriods(spec, name), now) = AskedPeriod(spec, name, now)
<1> DEFINE followed == Associated(spec, name)
           p(i) == PeriodNamed(spec, followed[i].period)
           r(i) == followed[i].delays
           periods == ChildPeriods(spec, name)
           asked == {i \in DOMAIN followed : Asked(p(i), r(i), now)}
           decides == {i \in DOMAIN periods : IsActive(periods[i], now) \/ Fails(periods[i], now)}
<1>1. /\ DOMAIN followed \subseteq Nat
      /\ \A i \in DOMAIN followed : \E place \in Places(spec) :
            followed[i] = Association(spec.flows[place[1]], ResourceAt(spec, place))
  <2>1. \E n \in Nat : DOMAIN followed = 1 .. n
    BY Follows
  <2>2. \E at \in [DOMAIN followed -> Places(spec)] : \A m \in DOMAIN followed :
           followed[m] = Association(spec.flows[at[m][1]], ResourceAt(spec, at[m]))
    <3> DEFINE named == {place \in Places(spec) : ResourceAt(spec, place).name = name}
    <3>1. PICK at \in [DOMAIN followed -> named] : \A m \in DOMAIN followed :
             followed[m] = Association(spec.flows[at[m][1]], ResourceAt(spec, at[m]))
      BY Follows
    <3>2. at \in [DOMAIN followed -> Places(spec)]
      OBVIOUS
    <3> QED
      BY <3>1, <3>2
  <2> HIDE DEF followed
  <2> QED
    BY <2>1, <2>2
<1>2. DOMAIN periods = DOMAIN followed /\ \A i \in DOMAIN followed : periods[i] = Shift(p(i), r(i))
  BY DEF ChildPeriods
<1>3. ASSUME NEW i \in DOMAIN followed
      PROVE  ~Fails(periods[i], now) /\ (IsActive(periods[i], now) <=> Asked(p(i), r(i), now))
  <2>1. PICK place \in Places(spec) :
           followed[i] = Association(spec.flows[place[1]], ResourceAt(spec, place))
    BY <1>1
  <2>2. /\ p(i) = PeriodNamed(spec, spec.flows[place[1]].period)
        /\ r(i) = ResourceAt(spec, place)
    BY <2>1 DEF Association
  <2>3. Fits(p(i), r(i)) /\ MinReplicas(p(i)) <= MaxReplicas(p(i)) /\ p(i).loads
    BY DEF AllFit
  <2>4. ValidPeriod(Shift(p(i), r(i)))
    BY <1>2 DEF ValidK8s
  <2>5. r(i) \in Resources
    BY <2>2, PlacesType
  <2> HIDE DEF p, r
  <2> QED
    BY <1>2, <2>2, <2>3, <2>4, <2>5, WindowsRemain, ShiftedAsAsked
<1>4. decides = asked
  BY <1>2, <1>3
<1>5. SetActivePeriod(periods, now)
        = LET first == CHOOSE i \in decides : \A j \in decides : i <= j
          IN  IF decides = {} THEN NoPeriod
              ELSE IF Fails(periods[first], now) THEN LoadError ELSE first
  BY DEF SetActivePeriod
<1>6. AskedPeriod(spec, name, now)
        = IF asked = {} THEN NoPeriod ELSE CHOOSE i \in asked : \A j \in asked : i <= j
  BY DEF AskedPeriod
<1> DEFINE least == CHOOSE i \in asked : \A j \in asked : i <= j
<1>7. asked # {} => least \in asked
  <2>1. asked \subseteq Nat
    BY <1>1
  <2> HIDE DEF asked
  <2> QED
    BY <2>1, Least
<1>8. asked # {} => ~Fails(periods[least], now)
  BY <1>3, <1>7
<1>9. CASE asked = {}
  BY <1>4, <1>5, <1>6, <1>9
<1>10. CASE asked # {}
  <2>1. SetActivePeriod(periods, now)
          = IF Fails(periods[least], now) THEN LoadError ELSE least
    <3> HIDE DEF asked, periods
    <3> QED
      BY <1>4, <1>5, <1>10
  <2> QED
    BY <1>6, <1>8, <1>10, <2>1
<1> QED
  BY <1>9, <1>10

\* The place of a plan asks for its resource to be scaled at an instant.
AskedAt(spec, place, now) ==
    Asked(PeriodNamed(spec, spec.flows[place[1]].period), ResourceAt(spec, place), now)

\* The same from the plan alone, without the lists that findAssociatedPeriods makes:
\* of the places in the plan that list the resource and ask for it now, the first one
\* gives the child the period it is in.  When none asks, no period is active.
THEOREM ScaledAsPlanned ==
    ASSUME NEW spec \in FlowSpecs, Reasons(spec) = {}, NEW name, NEW now \in Instants,
           ValidK8s(ChildPeriods(spec, name)),
           \A place \in Places(spec) : ResourceAt(spec, place).name = name =>
              LET p == PeriodNamed(spec, spec.flows[place[1]].period)
              IN  Fits(p, ResourceAt(spec, place)) /\ MinReplicas(p) <= MaxReplicas(p) /\ p.loads
    PROVE  LET periods == ChildPeriods(spec, name)
               active  == SetActivePeriod(periods, now)
               asked   == {place \in Places(spec) : /\ ResourceAt(spec, place).name = name
                                                    /\ AskedAt(spec, place, now)}
           IN  IF asked = {} THEN active = NoPeriod
               ELSE \E place \in asked :
                       /\ \A other \in asked : ~Precedes(other, place)
                       /\ active \in DOMAIN periods
                       /\ periods[active] = Shift(PeriodNamed(spec, spec.flows[place[1]].period),
                                                  ResourceAt(spec, place))
<1> DEFINE followed == Associated(spec, name)
           named == {place \in Places(spec) : ResourceAt(spec, place).name = name}
           periods == ChildPeriods(spec, name)
           active == SetActivePeriod(periods, now)
           asked == {place \in named : AskedAt(spec, place, now)}
           turns == {m \in DOMAIN followed :
                       Asked(PeriodNamed(spec, followed[m].period), followed[m].delays, now)}
<1>1. PICK n \in Nat : DOMAIN followed = 1 .. n
  BY Follows
<1>2. PICK at \in [DOMAIN followed -> named] :
        /\ \A m \in DOMAIN followed :
              followed[m] = Association(spec.flows[at[m][1]], ResourceAt(spec, at[m]))
        /\ \A m, l \in DOMAIN followed : m < l => Precedes(at[m], at[l])
        /\ \A place \in named : \E m \in DOMAIN followed : at[m] = place
  BY Follows
<1>3. ASSUME NEW m \in DOMAIN followed
      PROVE  /\ at[m] \in named
             /\ followed[m].period = spec.flows[at[m][1]].period
             /\ followed[m].delays = ResourceAt(spec, at[m])
  <2>1. followed[m] = Association(spec.flows[at[m][1]], ResourceAt(spec, at[m]))
    BY <1>2
  <2> QED
    BY <1>2, <2>1 DEF Association
<1>4. AllFit(spec, name)
  <2> SUFFICES ASSUME NEW m \in DOMAIN followed
               PROVE  LET p == PeriodNamed(spec, followed[m].period)
                      IN  Fits(p, followed[m].delays) /\ MinReplicas(p) <= MaxReplicas(p) /\ p.loads
    BY DEF AllFit
  <2> QED
    BY <1>3
<1>5. active = AskedPeriod(spec, name, now)
  BY <1>4, ChildAsAsked
<1>6. AskedPeriod(spec, name, now)
        = IF turns = {} THEN NoPeriod ELSE CHOOSE i \in turns : \A j \in turns : i <= j
  BY DEF AskedPeriod
<1>7. \A m \in DOMAIN followed : m \in turns <=> at[m] \in asked
  BY <1>3 DEF AskedAt
<1>8. \A place \in asked : \E m \in turns : at[m] = place
  BY <1>2, <1>7
<1>9. CASE asked = {}
  <2>1. turns = {}
    BY <1>7, <1>9
  <2> QED
    BY <1>5, <1>6, <1>9, <2>1
<1>10. CASE asked # {}
  <2>1. turns # {} /\ turns \subseteq Nat
    BY <1>1, <1>8, <1>10
  <2>2. PICK first \in turns : active = first /\ \A j \in turns : first <= j
    <3>1. active = CHOOSE i \in turns : \A j \in turns : i <= j
      BY <1>5, <1>6, <2>1
    <3> HIDE DEF turns, active
    <3>2. \E i \in turns : \A j \in turns : i <= j
      BY <2>1, Least
    <3> QED
      BY <3>1, <3>2, Zenon
  <2> HIDE DEF active
  <2>3. at[first] \in asked
    BY <1>7
  <2>4. ASSUME NEW other \in asked PROVE ~Precedes(other, at[first])
    <3>1. PICK l \in turns : at[l] = other
      BY <1>8
    <3>2. first \in Nat /\ l \in Nat /\ first <= l
      BY <2>1, <2>2
    <3>3. first < l => Precedes(at[first], other)
      BY <1>2, <3>1
    <3>4. other \in Nat \X Nat /\ at[first] \in Nat \X Nat
      BY <2>3, PlacesType
    <3>5. CASE first = l
      BY <3>1, <3>4, <3>5, PlacesOrdered
    <3>6. CASE first < l
      BY <3>3, <3>4, <3>6, PlacesOrdered
    <3> QED
      BY <3>2, <3>5, <3>6
  <2>5. periods[first] = Shift(PeriodNamed(spec, spec.flows[at[first][1]].period),
                               ResourceAt(spec, at[first]))
        /\ first \in DOMAIN periods
    <3>1. first \in DOMAIN followed
      OBVIOUS
    <3>2. /\ periods[first] = Shift(PeriodNamed(spec, followed[first].period), followed[first].delays)
          /\ first \in DOMAIN periods
      BY <3>1 DEF ChildPeriods
    <3> QED
      BY <1>3, <3>1, <3>2
  <2> QED
    BY <1>10, <2>2, <2>3, <2>4, <2>5 DEF active
<1> QED
  BY <1>9, <1>10

\* Every child of a sound spec that its webhook accepts is as asked.
LEMMA AcceptedAsAsked ==
    ASSUME NEW spec \in Sound
    PROVE  Accepted[spec] \subseteq AsAsked[spec]
<1> DEFINE d == Definition[spec]
<1>1. d \in FlowSpecs /\ Reasons(d) = {}
  BY FlowAssumption DEF Sound, Refusals
<1>2. ASSUME NEW key \in Accepted[spec]
      PROVE  /\ key \in DOMAIN Plan[spec]
             /\ Plan[spec][key].periods = ChildPeriods(d, key[2])
             /\ ValidK8s(ChildPeriods(d, key[2]))
  <2>1. key \in DOMAIN Plan[spec] /\ ChildAdmitted(key[1], Plan[spec][key])
    BY DEF Accepted
  <2>2. Plan[spec][key] = ChildSpec(d, key)
    BY <2>1 DEF Plan
  <2>3. Plan[spec][key].periods = ChildPeriods(d, key[2])
    BY <2>2 DEF ChildSpec
  <2> QED
    BY <2>1, <2>3 DEF ChildAdmitted, ValidGcp
<1> HIDE DEF d
<1>3. ASSUME NEW key \in Accepted[spec], AllFit(d, key[2]), NEW now \in Instants
      PROVE  SetActivePeriod(Plan[spec][key].periods, now) = AskedPeriod(d, key[2], now)
  BY <1>1, <1>2, <1>3, ChildAsAsked
<1>4. ASSUME NEW key \in Accepted[spec] PROVE key \in AsAsked[spec]
  BY <1>2, <1>3 DEF AsAsked, d
<1> QED
  BY <1>4

\* A child that a pass writes and that its webhook accepts is at every instant in
\* the period that the flow asks for, whatever periods, delays and resources are
\* combined, as far as they leave each window within its day.
THEOREM WindowsAsAskedSafe == Spec => []WindowsAsAsked
<1>1. TypeInv => WindowsAsAsked
  BY AcceptedAsAsked DEF TypeInv, Planned, WindowsAsAsked
<1> QED
  BY <1>1, TypeInvariant, PTL

----
(***************************************************************************)
(* A flow is refused for what is wrong with it.                            *)
(***************************************************************************)
\* The period that a name stands for, with its place in the spec.
LEMMA PeriodNamedPlace ==
    ASSUME NEW spec \in FlowSpecs
    PROVE  /\ \A name \in ToSet(PeriodNames(spec.periods)) : \E i \in DOMAIN spec.periods :
                 PeriodNamed(spec, name) = spec.periods[i] /\ spec.periods[i].name = name
           /\ \A name : name \notin ToSet(PeriodNames(spec.periods))
                 => \A i \in DOMAIN spec.periods : spec.periods[i].name # name
           /\ UniquePeriodNames(spec) => \A i \in DOMAIN spec.periods :
                 PeriodNamed(spec, spec.periods[i].name) = spec.periods[i]
<1>1. ASSUME NEW name, NEW k \in DOMAIN spec.periods, spec.periods[k].name = name
      PROVE  \E i \in DOMAIN spec.periods :
                PeriodNamed(spec, name) = spec.periods[i] /\ spec.periods[i].name = name
  <2> DEFINE i == CHOOSE i \in DOMAIN spec.periods : spec.periods[i].name = name
  <2>1. i \in DOMAIN spec.periods /\ spec.periods[i].name = name
    BY <1>1
  <2>2. PeriodNamed(spec, name) = spec.periods[i]
    BY DEF PeriodNamed
  <2> HIDE DEF i
  <2> QED
    BY <2>1, <2>2
<1>2. ASSUME NEW name \in ToSet(PeriodNames(spec.periods))
      PROVE  \E k \in DOMAIN spec.periods : spec.periods[k].name = name
  BY DEF ToSet, PeriodNames
<1>3. ASSUME NEW k \in DOMAIN spec.periods
      PROVE  spec.periods[k].name \in ToSet(PeriodNames(spec.periods))
  BY DEF ToSet, PeriodNames
<1>4. ASSUME UniquePeriodNames(spec), NEW k \in DOMAIN spec.periods
      PROVE  PeriodNamed(spec, spec.periods[k].name) = spec.periods[k]
  <2>1. PICK i \in DOMAIN spec.periods :
           /\ PeriodNamed(spec, spec.periods[k].name) = spec.periods[i]
           /\ spec.periods[i].name = spec.periods[k].name
    BY <1>1
  <2>2. i = k
    BY <1>4, <2>1 DEF UniquePeriodNames, IsInjective, PeriodNames
  <2> QED
    BY <2>1, <2>2
<1> QED
  BY <1>1, <1>2, <1>3, <1>4

\* No two associations of a resource are for one period: IsInjective in MappingReason.
FollowsOnce(spec, name) ==
    LET followed == Associated(spec, name)
    IN  IsInjective([i \in DOMAIN followed |-> followed[i].period])

\* Each association of a resource is a place in the plan that lists it, and the other
\* way round.
LEMMA Relisting ==
    ASSUME NEW spec \in FlowSpecs, NEW name
    PROVE  LET named == {place \in Places(spec) : ResourceAt(spec, place).name = name}
           IN  FollowsOnce(spec, name)
                 <=> \A a, b \in named : PeriodAt(spec, a) = PeriodAt(spec, b) => a = b
<1> DEFINE followed == Associated(spec, name)
           named == {place \in Places(spec) : ResourceAt(spec, place).name = name}
           periods == [i \in DOMAIN followed |-> followed[i].period]
<1>1. PICK at \in [DOMAIN followed -> named] :
         /\ \A m \in DOMAIN followed :
               followed[m] = Association(spec.flows[at[m][1]], ResourceAt(spec, at[m]))
         /\ \A m, l \in DOMAIN followed : m < l => Precedes(at[m], at[l])
         /\ \A place \in named : \E m \in DOMAIN followed : at[m] = place
  BY Follows
<1>2. DOMAIN followed \subseteq Nat
  <2>1. \E n \in Nat : DOMAIN followed = 1 .. n
    BY Follows
  <2> HIDE DEF followed
  <2> QED
    BY <2>1
<1>3. named \subseteq Nat \X Nat
  BY PlacesType
<1> HIDE DEF followed, named
<1>4. \A m \in DOMAIN followed : periods[m] = PeriodAt(spec, at[m])
  BY <1>1 DEF Association, PeriodAt
<1>5. ASSUME NEW m \in DOMAIN followed, NEW l \in DOMAIN followed, at[m] = at[l] PROVE m = l
  <2>1. m \in Nat /\ l \in Nat /\ at[m] \in Nat \X Nat
    BY <1>1, <1>2, <1>3
  <2>2. ~(m < l) /\ ~(l < m)
    BY <1>1, <1>5, <2>1, PlacesOrdered
  <2> QED
    BY <2>1, <2>2
<1>6. ASSUME IsInjective(periods), NEW a \in named, NEW b \in named,
             PeriodAt(spec, a) = PeriodAt(spec, b)
      PROVE  a = b
  <2>1. PICK m \in DOMAIN followed : at[m] = a
    BY <1>1
  <2>2. PICK l \in DOMAIN followed : at[l] = b
    BY <1>1
  <2>3. periods[m] = periods[l]
    BY <1>4, <1>6, <2>1, <2>2
  <2>4. m = l
    BY <1>6, <2>3 DEF IsInjective
  <2> QED
    BY <2>1, <2>2, <2>4
<1>7. ASSUME \A a, b \in named : PeriodAt(spec, a) = PeriodAt(spec, b) => a = b
      PROVE  IsInjective(periods)
  <2>1. ASSUME NEW m \in DOMAIN followed, NEW l \in DOMAIN followed, periods[m] = periods[l]
        PROVE  m = l
    <3>1. at[m] \in named /\ at[l] \in named
      BY <1>1
    <3>2. at[m] = at[l]
      BY <1>4, <1>7, <2>1, <3>1
    <3> QED
      BY <1>5, <3>2
  <2>2. DOMAIN periods = DOMAIN followed
    OBVIOUS
  <2> HIDE DEF periods
  <2> QED
    BY <2>1, <2>2 DEF IsInjective
<1>8. IsInjective(periods) <=> \A a, b \in named : PeriodAt(spec, a) = PeriodAt(spec, b) => a = b
  BY <1>6, <1>7
<1>9. FollowsOnce(spec, name) <=> IsInjective(periods)
  BY DEF FollowsOnce, followed
<1> QED
  BY <1>8, <1>9 DEF named

\* The mapping of a name that is not of both kinds.
LEMMA MappingReasonIs ==
    ASSUME NEW spec, NEW name, ~(name \in ToSet(spec.k8s) /\ name \in ToSet(spec.gcp))
    PROVE  /\ name \notin ToSet(spec.k8s) /\ name \notin ToSet(spec.gcp)
                => MappingReason(spec, name) = "UnknownResource"
           /\ name \in ToSet(spec.k8s) \/ name \in ToSet(spec.gcp)
                => MappingReason(spec, name) = IF FollowsOnce(spec, name) THEN ""
                                               ELSE "DuplicateResourceInPeriod"
<1> DEFINE k8s == name \in ToSet(spec.k8s)
           gcp == name \in ToSet(spec.gcp)
           once == FollowsOnce(spec, name)
<1>1. MappingReason(spec, name) =
        CASE k8s /\ gcp   -> "AmbiguousResource"
          [] ~k8s /\ ~gcp -> "UnknownResource"
          [] k8s # gcp    -> IF once THEN "" ELSE "DuplicateResourceInPeriod"
  BY DEF MappingReason, FollowsOnce
<1>2. k8s \in BOOLEAN /\ gcp \in BOOLEAN
  OBVIOUS
<1>3. ~(k8s /\ gcp)
  OBVIOUS
<1> SUFFICES /\ ~k8s /\ ~gcp => MappingReason(spec, name) = "UnknownResource"
             /\ k8s \/ gcp => MappingReason(spec, name) = IF once THEN ""
                                                         ELSE "DuplicateResourceInPeriod"
  OBVIOUS
<1> HIDE DEF k8s, gcp, once
<1> QED
  BY <1>1, <1>2, <1>3

\* Whatever a flow that the webhook admits is refused for is wrong with it, and is
\* not among what the webhook looks for.
LEMMA LateCause ==
    ASSUME NEW spec \in FlowSpecs, ValidFlow(spec), NEW reason \in Reasons(spec)
    PROVE  reason \in LateReasons /\ Defective(spec, reason)
<1>1. UniquePeriodNames(spec) /\ UniqueResourceNames(spec) /\ ValidTimings(spec)
  BY DEF ValidFlow
<1>2. DuplicateReasons(spec) = {}
  BY <1>1 DEF DuplicateReasons, UniquePeriodNames, UniqueResourceNames
<1>3. CASE reason \in TimingReasons(spec)
  <2>1. PICK name \in Followed(spec) : reason \in TimingReason(spec, name)
    BY <1>3 DEF TimingReasons
  <2> DEFINE p == PeriodNamed(spec, name)
  <2>2. CASE name \notin ToSet(PeriodNames(spec.periods))
    <3>1. reason = "UnknownPeriod"
      BY <2>1, <2>2 DEF TimingReason
    <3> QED
      BY <2>2, <3>1, PeriodNamedPlace DEF Defective, LateReasons
  <2>3. CASE name \in ToSet(PeriodNames(spec.periods))
    <3>1. PICK i \in DOMAIN spec.periods : p = spec.periods[i] /\ spec.periods[i].name = name
      BY <2>3, PeriodNamedPlace
    <3>2. PICK j \in DOMAIN spec.flows : spec.flows[j].period = name
      BY DEF Followed
    <3>3. HasTimes(p)
      BY <1>1, <3>1, <3>2 DEF ValidTimings
    <3>4. CASE DurationReason(p) # ""
      <4>1. reason = DurationReason(p)
        BY <2>1, <2>3, <3>4 DEF TimingReason
      <4>2. \/ reason = "ZeroPeriodDuration" /\ p.start = p.end
            \/ reason = "InvalidPeriodDuration" /\ p.time = "fixed" /\ p.end < p.start
        BY <3>3, <3>4, <4>1 DEF DurationReason, HasTimes
      <4> QED
        BY <3>1, <4>2 DEF Defective, LateReasons
    <3>5. CASE DurationReason(p) = ""
      <4>1. PICK place \in WrongDelays(spec, name) : reason = DelayReason(p, ResourceAt(spec, place))
        BY <2>1, <2>3, <3>5 DEF TimingReason
      <4> DEFINE r == ResourceAt(spec, place)
      <4>2. /\ place \in Places(spec) /\ PeriodAt(spec, place) = name
            /\ DelayReason(p, r) # ""
        BY DEF WrongDelays, PeriodAt
      <4>3. r \in Resources /\ p \in PeriodRecords
        BY <2>3, <4>2, PlacesType, PeriodNamedType
      <4>4. r.startDelay # Nil
        BY <1>1, <3>1, <4>2, PlacesType DEF ValidTimings, PeriodAt, ResourceAt
      <4>5. \/ reason = "InvalidDelayFormat" /\ r.endDelay = Nil
            \/ /\ reason = "InvertedWindow" /\ r.endDelay # Nil
               /\ Duration(p) - r.startDelay + r.endDelay <= 0
        BY <4>1, <4>2, <4>4 DEF DelayReason
      <4>6. Duration(p) \in Int /\ r.startDelay \in Int /\ r.endDelay \in Int
        BY <4>3, DayAssumption DEF Duration, PeriodRecords, Resources, Minutes, Nil
      <4>7. \/ reason = "InvalidDelayFormat" /\ r.endDelay = Nil
            \/ /\ reason = "InvertedWindow" /\ r.endDelay # Nil
               /\ Duration(p) + r.endDelay <= r.startDelay
        <5> HIDE DEF p, r
        <5> QED
          BY <4>5, <4>6
      <4> QED
        BY <3>1, <4>2, <4>7 DEF Defective, LateReasons
    <3> QED
      BY <3>4, <3>5
  <2> QED
    BY <2>2, <2>3
<1>4. CASE reason \in MappingReasons(spec)
  <2>1. PICK name \in Referenced(spec) : reason = MappingReason(spec, name) /\ reason # ""
    BY <1>4 DEF MappingReasons
  <2>2. ~(name \in ToSet(spec.k8s) /\ name \in ToSet(spec.gcp))
    BY <1>1 DEF UniqueResourceNames
  <2>3. CASE name \notin ToSet(spec.k8s) /\ name \notin ToSet(spec.gcp)
    BY <2>1, <2>2, <2>3, MappingReasonIs DEF Defective, LateReasons
  <2>4. CASE name \in ToSet(spec.k8s) \/ name \in ToSet(spec.gcp)
    <3>1. reason = "DuplicateResourceInPeriod" /\ ~FollowsOnce(spec, name)
      BY <2>1, <2>2, <2>4, MappingReasonIs
    <3>2. \E a, b \in Places(spec) : /\ a # b /\ PeriodAt(spec, a) = PeriodAt(spec, b)
                                     /\ ResourceAt(spec, a).name = ResourceAt(spec, b).name
      BY <3>1, Relisting
    <3> QED
      BY <3>1, <3>2 DEF Defective, LateReasons
  <2> QED
    BY <2>3, <2>4
<1> QED
  BY <1>2, <1>3, <1>4 DEF Reasons

\* And a flow that the webhook admits and the reconciler does not refuse has nothing
\* of the kind wrong with it.
LEMMA NoCause ==
    ASSUME NEW spec \in FlowSpecs, ValidFlow(spec), Reasons(spec) = {}, NEW reason
    PROVE  ~Defective(spec, reason)
<1>1. UniquePeriodNames(spec)
  BY DEF ValidFlow
<1>2. TimingReasons(spec) = {} /\ MappingReasons(spec) = {}
  BY DEF Reasons
<1>3. ASSUME NEW name \in Followed(spec)
      PROVE  /\ name \in ToSet(PeriodNames(spec.periods))
             /\ DurationReason(PeriodNamed(spec, name)) = ""
  <2>1. TimingReason(spec, name) = {}
    BY <1>2 DEF TimingReasons
  <2> QED
    BY <2>1 DEF TimingReason
<1>4. ASSUME NEW name \in Referenced(spec) PROVE MappingReason(spec, name) = ""
  BY <1>2 DEF MappingReasons
<1>5. ASSUME NEW name \in Followed(spec)
      PROVE  \E i \in DOMAIN spec.periods : spec.periods[i].name = name
  BY <1>3, PeriodNamedPlace
<1>6. ASSUME NEW name \in Referenced(spec)
      PROVE  /\ name \in ToSet(spec.k8s) \/ name \in ToSet(spec.gcp)
             /\ FollowsOnce(spec, name)
  <2>1. MappingReason(spec, name) = ""
    BY <1>4
  <2>2. ~(name \in ToSet(spec.k8s) /\ name \in ToSet(spec.gcp))
    BY DEF ValidFlow, UniqueResourceNames
  <2> QED
    BY <2>1, <2>2, MappingReasonIs
<1>7. ASSUME NEW a \in Places(spec), NEW b \in Places(spec), PeriodAt(spec, a) = PeriodAt(spec, b),
             ResourceAt(spec, a).name = ResourceAt(spec, b).name
      PROVE  a = b
  <2>1. ResourceAt(spec, a).name \in Referenced(spec)
    BY DEF Referenced
  <2> QED
    BY <1>6, <1>7, <2>1, Relisting
<1>8. ASSUME NEW i \in DOMAIN spec.periods, spec.periods[i].name \in Followed(spec)
      PROVE  /\ spec.periods[i].start # spec.periods[i].end
             /\ ~(spec.periods[i].time = "fixed" /\ spec.periods[i].end < spec.periods[i].start)
  <2> DEFINE p == spec.periods[i]
  <2>1. DurationReason(p) = ""
    BY <1>1, <1>3, <1>8, PeriodNamedPlace
  <2> HIDE DEF p
  <2>2. p.start # p.end /\ ~(p.time = "fixed" /\ p.end < p.start)
    BY <2>1 DEF DurationReason
  <2> QED
    BY <2>2 DEF p
<1>9. ASSUME NEW i \in DOMAIN spec.periods, NEW place \in Places(spec),
             PeriodAt(spec, place) = spec.periods[i].name
      PROVE  LET r == ResourceAt(spec, place)
             IN  r.endDelay # Nil /\ ~(Duration(spec.periods[i]) + r.endDelay <= r.startDelay)
  <2> DEFINE p == spec.periods[i]
             r == ResourceAt(spec, place)
  <2>1. PeriodNamed(spec, spec.flows[place[1]].period) = p
    BY <1>1, <1>9, PeriodNamedPlace DEF PeriodAt
  <2>2. /\ r.startDelay \in Nat /\ r.endDelay \in Nat /\ r.startDelay < Duration(p) + r.endDelay
        /\ p.start \in Nat /\ p.end \in Nat
    BY <2>1, WindowsRemain
  <2> HIDE DEF p, r
  <2>3. Duration(p) \in Int
    BY <2>2, DayAssumption DEF Duration
  <2>4. r.endDelay # Nil /\ ~(Duration(p) + r.endDelay <= r.startDelay)
    BY <2>2, <2>3 DEF Nil
  <2> QED
    BY <2>4 DEF p, r
<1> QED
  BY <1>5, <1>6, <1>7, <1>8, <1>9 DEF Defective

\* No reason is one of the other outcomes.
LEMMA OutcomesDiffer ==
    ASSUME NEW spec \in Admissible
    PROVE  Refusals[spec] \cap {"True", "ProcessingFailed"} = {}
<1>1. spec \in Specs /\ Definition[spec] \in FlowSpecs /\ ValidFlow(Definition[spec])
  BY FlowAssumption DEF Admissible
<1>2. \A reason \in Refusals[spec] : reason \in LateReasons
  BY <1>1, LateCause DEF Refusals
<1> QED
  BY <1>2 DEF LateReasons

\* What is stored has been admitted, every copy of it was, and a pass has its outcome
\* from the spec of its copy.
Admitted(o) == o.exists => o.spec \in Admissible
Concluded ==
    /\ pc = "children" => pass.outcome = "True" /\ Refusals[pass.copy.spec] = {}
    /\ pc = "status" => IF pass.outcome \in {"True", "ProcessingFailed"}
                        THEN Refusals[pass.copy.spec] = {}
                        ELSE pass.outcome \in Refusals[pass.copy.spec]
AdmittedInv ==
    /\ \A s \in Names : Admitted(api[s]) /\ Admitted(cache[s])
    /\ Admitted(pass.copy) /\ (pc # "idle" => pass.copy.exists)
    /\ Concluded

\* A step that leaves the flows alone.
LEMMA FlowsLeft ==
    ASSUME AdmittedInv, UNCHANGED <<api, cache>>,
           \/ pc' = "idle" /\ pass' = IdlePass
           \/ pc # "idle" /\ pass'.copy = pass.copy /\ Concluded'
           \/ UNCHANGED <<pc, pass>>
    PROVE  AdmittedInv'
<1>1. Admitted(IdlePass.copy)
  BY DEF IdlePass, Gone, Admitted
<1> QED
  BY <1>1 DEF AdmittedInv, Admitted, Concluded

\* A write of a flow that is admitted, by a user or at the end of a pass.
LEMMA FlowStored ==
    ASSUME TypeOK, AdmittedInv, NEW s \in Names, NEW o, NEW change, Write(s, o, change), Admitted(o),
           (pc' = "idle" /\ pass' = IdlePass) \/ UNCHANGED <<pc, pass>>
    PROVE  AdmittedInv'
<1>1. Admitted(IdlePass.copy)
  BY DEF IdlePass, Gone, Admitted
<1>2. UNCHANGED cache /\ \A t \in Names : api'[t] = o \/ api'[t] = api[t]
  BY DEF Write, TypeOK, ControllerTypeOK
<1> QED
  BY <1>1, <1>2 DEF AdmittedInv, Admitted, Concluded

LEMMA AdmittedInvariant == Spec => []AdmittedInv
<1>1. ASSUME Init PROVE AdmittedInv
  <2>1. \A s \in Names : api[s] = Gone(0) /\ cache[s] = Gone(0)
    BY <1>1 DEF Init, ControllerInit
  <2>2. Admitted(Gone(0)) /\ IdlePass.copy = Gone(0)
    BY DEF IdlePass, Gone, Admitted
  <2> QED
    BY <1>1, <2>1, <2>2 DEF Init, AdmittedInv, Concluded
<1>2. ASSUME TypeOK, FinalizerInv, AdmittedInv, [Next]_vars PROVE AdmittedInv'
  <2> USE <1>2
  <2>0. /\ pass.name \in Names /\ pass \in Passes
        /\ api \in [Names -> Objects] /\ cache \in [Names -> Objects]
    BY DEF TypeOK, ControllerTypeOK, Passes
  <2>1. ASSUME NEW s \in Names, Sync(s) PROVE AdmittedInv'
    <3>1. UNCHANGED <<api, pc, pass>> /\ \A t \in Names : cache'[t] = cache[t] \/ cache'[t] = api[t]
      BY <2>0, <2>1 DEF Sync, Deliver
    <3>2. Concluded'
      BY <3>1 DEF AdmittedInv, Concluded
    <3> QED
      BY <3>1, <3>2 DEF AdmittedInv, Admitted
  <2>2. ASSUME NEW s \in Names, TimerFires(s) PROVE AdmittedInv'
    BY <2>2, FlowsLeft DEF TimerFires, informer
  <2>3. ASSUME NEW s \in Names, Fetch(s) PROVE AdmittedInv'
    <3>1. UNCHANGED <<api, cache>>
      BY <2>3 DEF Fetch, informer
    <3>2. CASE UNCHANGED <<pc, pass>>
      BY <3>1, <3>2, FlowsLeft
    <3>3. CASE cache[s].exists /\ pass' = [IdlePass EXCEPT !.name = s, !.copy = cache[s]]
      <4>1. pass'.copy = cache[s]
        BY <3>3, Defaults DEF IdlePass
      <4>2. pc' = "finalizer" \/ UNCHANGED pc
        BY <2>3 DEF Fetch
      <4>3. pc = "idle"
        BY <2>3 DEF Fetch
      <4> QED
        BY <3>1, <3>3, <4>1, <4>2, <4>3 DEF AdmittedInv, Concluded
    <3> QED
      BY <2>3, <3>2, <3>3 DEF Fetch
  <2>4. ASSUME FinalizerHandler PROVE AdmittedInv'
    <3> DEFINE s == pass.name
               o == [api[s] EXCEPT !.finalizer = TRUE]
               p == IF api[s].deleting THEN Gone(api[s].uid)
                    ELSE [api[s] EXCEPT !.finalizer = FALSE]
    <3>0. Admitted(o) /\ Admitted(p)
      <4>1. Admitted(Gone(api[s].uid))
        BY DEF Gone, Admitted
      <4>2. \A b \in BOOLEAN : Admitted([api[s] EXCEPT !.finalizer = b])
        BY <2>0 DEF AdmittedInv, Admitted, Objects
      <4> QED
        BY <4>1, <4>2
    <3>1. o.exists = api[s].exists
      BY <2>0 DEF Objects
    <3>2. pc = "finalizer"
      BY <2>4 DEF FinalizerHandler
    <3> HIDE DEF o, p
    <3>3. CASE (UNCHANGED informer \/ Write(s, o, "finalizer") \/ Write(s, p, "finalizer"))
               /\ (Finish(TRUE) \/ Finish(FALSE))
      BY <2>0, <3>0, <3>3, FlowsLeft, FlowStored DEF Finish, informer
    <3>4. CASE UNCHANGED informer /\ Proceed("process") /\ UNCHANGED pass
      BY <3>2, <3>4, FlowsLeft DEF informer, AdmittedInv, Proceed, Concluded
    <3>5. CASE /\ UNCHANGED informer /\ cache[s].finalizer /\ Proceed("process")
               /\ pass' = [pass EXCEPT !.copy = cache[s]]
      <4>1. pass'.copy = cache[s] /\ cache[s].exists
        BY <2>0, <3>5 DEF Passes, FinalizerInv, Copies, WellFormed
      <4> QED
        BY <2>0, <3>5, <4>1 DEF AdmittedInv, Concluded, Proceed, informer
    <3>6. CASE /\ CanWrite(s) /\ Write(s, o, "finalizer") /\ Proceed("process")
               /\ pass' = [pass EXCEPT !.copy = o]
      <4>1. pass'.copy = o
        BY <2>0, <3>6 DEF Passes
      <4>2. o.exists
        BY <3>1, <3>6 DEF CanWrite, NotFound
      <4>3. UNCHANGED cache /\ \A t \in Names : api'[t] = o \/ api'[t] = api[t]
        BY <2>0, <3>6 DEF Write
      <4> QED
        BY <3>0, <3>6, <4>1, <4>2, <4>3 DEF AdmittedInv, Concluded, Proceed
    <3> QED
      BY <2>4, <3>3, <3>4, <3>5, <3>6
         DEF FinalizerHandler, AddFinalizer, RemoveFinalizer, FailedWrite, o, p
  <2>5. ASSUME ProcessFlow PROVE AdmittedInv'
    <3>1. UNCHANGED <<api, cache>> /\ pc = "process"
      BY <2>5 DEF ProcessFlow, informer
    <3>2. pass'.copy = pass.copy
      BY <2>0, <2>5 DEF ProcessFlow, Passes
    <3>3. CASE /\ pc' = "children" /\ Refusals[pass.copy.spec] = {}
               /\ pass' = [pass EXCEPT !.todo = DOMAIN Plan[pass.copy.spec], !.outcome = "True"]
      <4>1. pass'.outcome = "True"
        BY <2>0, <3>3 DEF Passes
      <4> QED
        BY <3>1, <3>2, <3>3, <4>1, FlowsLeft DEF Concluded
    <3>4. ASSUME NEW reason \in Refusals[pass.copy.spec], pc' = "status",
                 pass' = [pass EXCEPT !.outcome = reason]
          PROVE  AdmittedInv'
      <4>1. pass'.outcome = reason
        BY <2>0, <3>4 DEF Passes
      <4>2. reason \notin {"True", "ProcessingFailed"}
        BY <3>1, OutcomesDiffer DEF AdmittedInv, Admitted
      <4> QED
        BY <3>1, <3>2, <3>4, <4>1, <4>2, FlowsLeft DEF Concluded
    <3> QED
      BY <2>5, <3>3, <3>4 DEF ProcessFlow, Proceed
  <2>6. ASSUME NEW key \in Keys, ProcessResource(key) PROVE AdmittedInv'
    <3>1. UNCHANGED <<api, cache>> /\ pc = "children" /\ pass'.copy = pass.copy
      BY <2>0, <2>6 DEF ProcessResource, ChildFails, Passes, informer
    <3>2. \/ pc' = "children" /\ pass'.outcome = pass.outcome
          \/ pc' = "status" /\ pass'.outcome = "ProcessingFailed"
      BY <2>0, <2>6 DEF ProcessResource, ChildFails, Passes
    <3>3. Concluded'
      BY <3>1, <3>2 DEF AdmittedInv, Concluded
    <3> QED
      BY <3>1, <3>3, FlowsLeft
  <2>7. ASSUME AllProcessed PROVE AdmittedInv'
    BY <2>7, FlowsLeft DEF AllProcessed, AdmittedInv, Concluded, Proceed, informer
  <2>8. ASSUME UpdateStatus PROVE AdmittedInv'
    <3> DEFINE s == pass.name
               o == [api[s] EXCEPT !.cond = pass.outcome]
    <3>1. Admitted(o)
      BY <2>0 DEF AdmittedInv, Admitted, Objects
    <3>2. /\ pc' = "idle" /\ pass' = IdlePass
          /\ UNCHANGED informer \/ Write(s, o, "status")
      BY <2>8 DEF UpdateStatus, FailedWrite, Finish
    <3> HIDE DEF o
    <3> QED
      BY <2>0, <3>1, <3>2, FlowsLeft, FlowStored DEF informer
  <2>9. ASSUME NEW c \in Children,
               SyncChild(c) \/ Collect(c) \/ UserPutsChild(c) \/ UserDeletesChild(c)
        PROVE  AdmittedInv'
    BY <2>9, FlowsLeft
       DEF SyncChild, Collect, UserPutsChild, UserDeletesChild, Outside, informer
  <2>10. ASSUME Restart PROVE AdmittedInv'
    <3>1. Admitted(IdlePass.copy)
      BY DEF IdlePass, Gone, Admitted
    <3> QED
      BY <2>10, <3>1 DEF Restart, Relist, AdmittedInv, Admitted, Concluded
  <2>11. ASSUME NEW s \in Names, NEW spec \in Specs, UserCreates(s, spec) PROVE AdmittedInv'
    <3> DEFINE o == [Gone(api[s].uid + 1) EXCEPT !.exists = TRUE, !.spec = spec]
    <3>1. Admitted(o)
      BY <2>11 DEF UserCreates, Gone, Admitted
    <3> HIDE DEF o
    <3> QED
      BY <2>11, <3>1, FlowStored DEF UserCreates, Creates, Outside, o
  <2>12. ASSUME NEW s \in Names, NEW spec \in Specs, UserEditsSpec(s, spec) PROVE AdmittedInv'
    <3> DEFINE o == [api[s] EXCEPT !.spec = spec]
    <3>1. Admitted(o)
      BY <2>0, <2>12 DEF UserEditsSpec, AdmittedInv, Admitted, Objects
    <3> HIDE DEF o
    <3> QED
      BY <2>12, <3>1, FlowStored DEF UserEditsSpec, ChangesSpec, Outside, o
  <2>13. ASSUME NEW s \in Names, UserDeletes(s) PROVE AdmittedInv'
    <3> DEFINE o == [api[s] EXCEPT !.deleting = TRUE]
               p == Gone(api[s].uid)
    <3>1. Admitted(o) /\ Admitted(p)
      BY <2>0 DEF AdmittedInv, Admitted, Objects, Gone
    <3>2. UNCHANGED <<pc, pass>> /\ (Write(s, o, "deletionStarted") \/ Write(s, p, "removed"))
      BY <2>13 DEF UserDeletes, Deletes, Outside
    <3> HIDE DEF o, p
    <3> QED
      BY <3>1, <3>2, FlowStored
  <2>14. CASE UNCHANGED vars
    BY <2>14, FlowsLeft DEF vars, informer
  <2> QED
    BY <2>1, <2>2, <2>3, <2>4, <2>5, <2>6, <2>7, <2>8, <2>9, <2>10, <2>11, <2>12, <2>13, <2>14
       DEF Next, Handlers, Environment
<1> QED
  BY <1>1, <1>2, TypeCorrect, FinalizerInvariant, PTL DEF Spec

\* For any specs: a pass refuses a flow for what is wrong with its plan and the webhook
\* does not look for, and writes the children of one in which nothing of the kind is
\* wrong, however old the copies are that it works from.
THEOREM RefusedForCauseSafe == Spec => []RefusedForCause
<1>1. AdmittedInv => RefusedForCause
  <2> SUFFICES ASSUME AdmittedInv, pc = "status"
               PROVE  IF pass.outcome \in {"True", "ProcessingFailed"} THEN Defects[pass.copy.spec] = {}
                      ELSE pass.outcome \in Defects[pass.copy.spec]
    BY DEF RefusedForCause
  <2> DEFINE spec == pass.copy.spec
             d == Definition[spec]
  <2>1. spec \in Admissible
    BY DEF AdmittedInv, Admitted
  <2>2. spec \in Specs /\ d \in FlowSpecs /\ ValidFlow(d)
    BY <2>1, FlowAssumption DEF Admissible
  <2>3. /\ Refusals[spec] = Reasons(d)
        /\ Defects[spec] = {reason \in LateReasons : Defective(d, reason)}
    BY <2>2 DEF Refusals, Defects
  <2>4. IF pass.outcome \in {"True", "ProcessingFailed"} THEN Refusals[spec] = {}
        ELSE pass.outcome \in Refusals[spec]
    BY DEF AdmittedInv, Concluded
  <2> HIDE DEF spec, d
  <2>5. CASE pass.outcome \in {"True", "ProcessingFailed"}
    <3>1. \A reason : ~Defective(d, reason)
      BY <2>2, <2>3, <2>4, <2>5, NoCause
    <3> QED
      BY <2>3, <2>5, <3>1 DEF spec
  <2>6. CASE pass.outcome \notin {"True", "ProcessingFailed"}
    <3>1. pass.outcome \in Reasons(d)
      BY <2>3, <2>4, <2>6
    <3>2. pass.outcome \in LateReasons /\ Defective(d, pass.outcome)
      BY <2>2, <3>1, LateCause
    <3> QED
      BY <2>3, <2>6, <3>2 DEF spec
  <2> QED
    BY <2>5, <2>6
<1> QED
  BY <1>1, AdmittedInvariant, PTL
====
