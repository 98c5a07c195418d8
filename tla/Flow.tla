---- MODULE Flow ----
(***************************************************************************)
(* The Flow controller: one Reconcile fetches the flow, adds or removes    *)
(* its finalizer, writes one child scaler for each resource the flow       *)
(* refers to, and reports the outcome as a condition.  Children are K8s    *)
(* and Gcp objects; what their own controllers do of them is the matter of *)
(* K8sScaler and GcpScaler.  A pass is interleaved with users of flows and *)
(* of children, two informers, the garbage collector, and failing calls.   *)
(***************************************************************************)
EXTENDS Controller, FlowPlan

CONSTANTS
    Specs,       \* names of the specs users send to be stored, admitted or not
    Definition,  \* the spec of each name
    Manual       \* what users make of a child's spec

\* The resources of kind k8s have their name in k8s, those of kind gcp in gcp;
\* project tells whether these have a projectId.  Delays are in minutes; the pattern
\* of the CRD leaves no negative ones.
FlowSpecs ==
    [periods : Seq(PeriodRecords), k8s : Seq(STRING), gcp : Seq(STRING), project : BOOLEAN,
     flows : Seq([period : STRING,
                  resources : Seq([name : STRING, startDelay : Minutes, endDelay : Minutes])])]

\* What a flow writes into a child, and what the webhook of its kind looks at.
ChildSpecs == [periods : Seq(PeriodRecords), project : BOOLEAN]

ASSUME FlowAssumption ==
    /\ Definition \in [Specs -> FlowSpecs]
    /\ \E spec \in Specs : ValidFlow(Definition[spec])
    /\ Manual \in ChildSpecs

\* What depends on nothing but the spec: what the webhook admits, the reasons there
\* are to refuse it later, the children of a sound one with what is written into
\* them, and which of these writes their webhooks let through.
Admissible == {spec \in Specs : ValidFlow(Definition[spec])}
Refusals == [spec \in Specs |-> Reasons(Definition[spec])]
Sound == {spec \in Specs : Refusals[spec] = {}}
Plan == [spec \in Sound |->
            [key \in ChildKeys(Definition[spec]) |-> ChildSpec(Definition[spec], key)]]
Accepted == [spec \in Sound |-> {key \in DOMAIN Plan[spec] : ChildAdmitted(key[1], Plan[spec][key])}]

\* Two flows never name the same child: "flow-<flow>-<resource>" is taken to be
\* different for different pairs, and long names not to collide in their hash.
Keys == UNION {DOMAIN Plan[spec] : spec \in Sound}
Children == Names \X Keys

\* The owner reference of a child: the incarnation of its flow, or none.
Unowned == 0
Incarnations == 0 .. MaxEdits

Conditions ==
    {"none", "True", "ProcessingFailed"} \cup UNION {Refusals[spec] : spec \in Specs}

Objects == [exists : BOOLEAN, deleting : BOOLEAN, finalizer : BOOLEAN, spec : Specs,
            uid : Incarnations, cond : Conditions]
\* uid keeps the last incarnation there was.
Gone(uid) == [exists |-> FALSE, deleting |-> FALSE, finalizer |-> FALSE,
              spec |-> CHOOSE spec \in Specs : TRUE, uid |-> uid, cond |-> "none"]

\* The spec of a child that is not there says nothing.
NoSpec == [periods |-> <<>>, project |-> FALSE]
ChildObjects ==
    [exists : BOOLEAN, owner : Incarnations,
     spec : {NoSpec, Manual} \cup UNION {{Plan[spec][key] : key \in DOMAIN Plan[spec]} : spec \in Sound}]
NoChild == [exists |-> FALSE, owner |-> Unowned, spec |-> NoSpec]

VARIABLES
    pc,          \* the handler the worker is in
    pass,        \* the FlowReconciliationContext of the running pass
    child,       \* the API server's copy of each child
    childCache,  \* the informer's
    childFresh,  \* childCache[c] has the resourceVersion of child[c]
    childEvent   \* an undelivered change of c brings its owner back

family == <<child, childCache, childFresh, childEvent>>
vars   == <<informer, sched, edits, faults, pc, pass, family>>

\* outcome is the condition to be written; todo the children still to be written.
Passes == [name : Names, copy : Objects, todo : SUBSET Keys, outcome : Conditions]
IdlePass == [name |-> CHOOSE s \in Names : TRUE, copy |-> Gone(0), todo |-> {}, outcome |-> "none"]

TypeOK ==
    /\ ControllerTypeOK(Objects)
    /\ pc \in {"idle", "finalizer", "process", "children", "status"}
    /\ pass \in Passes
    /\ child \in [Children -> ChildObjects] /\ childCache \in [Children -> ChildObjects]
    /\ childFresh \in [Children -> BOOLEAN] /\ childEvent \in [Children -> BOOLEAN]

Init ==
    /\ ControllerInit(Gone(0))
    /\ pc = "idle" /\ pass = IdlePass
    /\ child = [c \in Children |-> NoChild] /\ childCache = child
    /\ childFresh = [c \in Children |-> TRUE] /\ childEvent = [c \in Children |-> FALSE]

----
(***************************************************************************)
(* The chain of handlers.                                                  *)
(***************************************************************************)
Finish(requeue) == pc' = "idle" /\ pass' = IdlePass /\ Return(pass.name, requeue)

Proceed(handler) == pc' = handler /\ UNCHANGED sched

\* FetchHandler
Fetch(s) ==
    /\ pc = "idle" /\ Take(s)
    /\ \/ /\ cache[s].exists
          /\ pc' = "finalizer"
          /\ pass' = [IdlePass EXCEPT !.name = s, !.copy = cache[s]]
          /\ UNCHANGED <<timers, faults>>
       \/ ~cache[s].exists /\ UNCHANGED <<timers, pc, pass, faults>>
       \/ Fault /\ timers' = timers \cup {s} /\ UNCHANGED <<pc, pass>>
    /\ UNCHANGED <<informer, edits, family>>

\* Mutant: a patch that fails is only logged.
AddFinalizer_IgnoresErrors(s) ==
    /\ Proceed("process")
    /\ IF CanWrite(s) THEN Write(s, [api[s] EXCEPT !.finalizer = TRUE], "finalizer")
       ELSE UNCHANGED informer
    /\ UNCHANGED <<pass, faults>>

\* patchAddFlowFinalizer; what it returns becomes the pass's copy.
AddFinalizer(s) ==
    \/ /\ cache[s].finalizer
       /\ pass' = [pass EXCEPT !.copy = cache[s]]
       /\ Proceed("process") /\ UNCHANGED <<informer, faults>>
    \/ /\ ~cache[s].finalizer
       /\ LET o == [api[s] EXCEPT !.finalizer = TRUE] IN
          \/ NotFound(s) /\ Finish(FALSE) /\ UNCHANGED <<informer, faults>>
          \/ /\ CanWrite(s) /\ Write(s, o, "finalizer")
             /\ pass' = [pass EXCEPT !.copy = o]
             /\ Proceed("process") /\ UNCHANGED faults
          \/ Conflict(s) /\ Finish(TRUE) /\ UNCHANGED <<informer, faults>>
          \/ FailedWrite(s, o, "finalizer") /\ Finish(TRUE)

\* patchRemoveFlowFinalizer: nothing is done about the children, which the garbage
\* collector finds.
RemoveFinalizer(s) ==
    LET o == IF api[s].deleting THEN Gone(api[s].uid) ELSE [api[s] EXCEPT !.finalizer = FALSE] IN
    \/ /\ NotFound(s) \/ ~cache[s].finalizer
       /\ Finish(FALSE) /\ UNCHANGED <<informer, faults>>
    \/ /\ cache[s].finalizer
       /\ \/ CanWrite(s) /\ Write(s, o, "finalizer") /\ Finish(FALSE) /\ UNCHANGED faults
          \/ Conflict(s) /\ Finish(TRUE) /\ UNCHANGED <<informer, faults>>
          \/ FailedWrite(s, o, "finalizer") /\ Finish(TRUE)

\* Deleting, the chain ends here.
FinalizerHandler ==
    /\ pc = "finalizer"
    /\ \/ /\ ~pass.copy.deleting /\ pass.copy.finalizer
          /\ Proceed("process") /\ UNCHANGED <<informer, pass, faults>>
       \/ ~pass.copy.deleting /\ ~pass.copy.finalizer /\ AddFinalizer(pass.name)
       \/ pass.copy.deleting /\ pass.copy.finalizer /\ RemoveFinalizer(pass.name)
       \/ /\ pass.copy.deleting /\ ~pass.copy.finalizer
          /\ Finish(FALSE) /\ UNCHANGED <<informer, faults>>
    /\ UNCHANGED <<edits, family>>

\* ProcessFlow up to its writes.
ProcessFlow ==
    LET spec == pass.copy.spec IN
    /\ pc = "process"
    /\ \/ \E reason \in Refusals[spec] :
             pass' = [pass EXCEPT !.outcome = reason] /\ Proceed("status")
       \/ /\ Refusals[spec] = {}
          /\ pass' = [pass EXCEPT !.todo = DOMAIN Plan[spec], !.outcome = "True"]
          /\ Proceed("children")
    /\ UNCHANGED <<informer, edits, faults, family>>

\* Store o as the child c.  Its owner is enqueued, if it has one; deletions and
\* labels bring nobody.
WriteChild(c, o, change) ==
    /\ child' = [child EXCEPT ![c] = o]
    /\ childFresh' = [childFresh EXCEPT ![c] = FALSE]
    /\ childEvent' = [childEvent EXCEPT ![c] = @ \/ (Triggers(change) /\ o.owner # Unowned)]
    /\ UNCHANGED childCache

\* CreateOrUpdate of a child: what the cache has not is created, with the owner the
\* pass read; what differs is updated, and keeps the owner it has.
Wanted(key) == Plan[pass.copy.spec][key]
Creation(key) == [exists |-> TRUE, owner |-> pass.copy.uid, spec |-> Wanted(key)]

Unchanged(c, key) == childCache[c].exists /\ childCache[c].spec = Wanted(key)
\* The API server takes the write: its webhook does, and it has what the cache shows.
Takes(c, key) == key \in Accepted[pass.copy.spec] /\ childFresh[c]

Stored(c, key) ==
    IF childCache[c].exists THEN [child[c] EXCEPT !.spec = Wanted(key)] ELSE Creation(key)

ChangeOf(c) == IF childCache[c].exists THEN "spec" ELSE "created"

\* Mutant: a reason outside the closed set.
ChildFails_OtherReason(key) ==
    pass' = [pass EXCEPT !.todo = {}, !.outcome = "CreationFailed"] /\ pc' = "status"

\* Mutant: a child that fails does not fail the flow.
ChildFails_Continues(key) ==
    pass' = [pass EXCEPT !.todo = @ \ {key}] /\ UNCHANGED pc

\* The first failure ends the processing: the others are written or not.
ChildFails(key) ==
    pass' = [pass EXCEPT !.todo = {}, !.outcome = "ProcessingFailed"] /\ pc' = "status"

ProcessResource(key) ==
    LET c == <<pass.name, key>>
        Done == pass' = [pass EXCEPT !.todo = @ \ {key}] /\ UNCHANGED pc
    IN  /\ pc = "children" /\ key \in pass.todo
        /\ \/ Unchanged(c, key) /\ Done /\ UNCHANGED <<family, faults>>
           \/ /\ ~Unchanged(c, key) /\ Takes(c, key)
              /\ WriteChild(c, Stored(c, key), ChangeOf(c))
              /\ Done /\ UNCHANGED faults
           \/ /\ ~Unchanged(c, key) /\ ~Takes(c, key)
              /\ ChildFails(key) /\ UNCHANGED <<family, faults>>
           \/ /\ Fault /\ ChildFails(key)
              /\ \/ UNCHANGED family
                 \/ /\ ~Unchanged(c, key) /\ Takes(c, key)
                    /\ WriteChild(c, Stored(c, key), ChangeOf(c))
        /\ UNCHANGED <<informer, sched, edits>>

AllProcessed ==
    /\ pc = "children" /\ pass.todo = {}
    /\ Proceed("status")
    /\ UNCHANGED <<informer, edits, faults, pass, family>>

\* UpdateFlowStatus writes the outcome into the flow as it is by now.  Every pass
\* comes back, the "critical" ones too, unless the flow is found to be gone after a
\* validation error: the joined error is critical and wraps NotFound.
UpdateStatus ==
    LET s == pass.name
        o == [api[s] EXCEPT !.cond = pass.outcome]
        validation == pass.outcome \notin {"True", "ProcessingFailed"}
    IN  /\ pc = "status"
        /\ \/ CanWrite(s) /\ Write(s, o, "status") /\ Finish(TRUE) /\ UNCHANGED faults
           \/ Conflict(s) /\ Finish(TRUE) /\ UNCHANGED <<informer, faults>>
           \/ NotFound(s) /\ Finish(~validation) /\ UNCHANGED <<informer, faults>>
           \/ FailedWrite(s, o, "status") /\ Finish(TRUE)
        /\ UNCHANGED <<edits, family>>

Handlers ==
    \/ FinalizerHandler \/ ProcessFlow
    \/ \E key \in Keys : ProcessResource(key)
    \/ AllProcessed \/ UpdateStatus

----
(***************************************************************************)
(* Around the worker.                                                      *)
(***************************************************************************)
Sync(s) == Deliver(s) /\ UNCHANGED <<edits, faults, pc, pass, family>>

\* The watch on the children.
SyncChild(c) ==
    /\ ~childFresh[c]
    /\ childCache' = [childCache EXCEPT ![c] = child[c]]
    /\ childFresh' = [childFresh EXCEPT ![c] = TRUE]
    /\ childEvent' = [childEvent EXCEPT ![c] = FALSE]
    /\ queued' = IF childEvent[c] THEN queued \cup {c[1]} ELSE queued
    /\ UNCHANGED <<informer, timers, edits, faults, pc, pass, child>>

TimerFires(s) == Elapse(s) /\ UNCHANGED <<informer, edits, faults, pc, pass, family>>

Restart ==
    /\ Relist
    /\ pc' = "idle" /\ pass' = IdlePass
    /\ childCache' = child
    /\ childFresh' = [c \in Children |-> TRUE] /\ childEvent' = [c \in Children |-> FALSE]
    /\ UNCHANGED child

\* The incarnation that owns the child is there.
OwnerLives(c) == api[c[1]].exists /\ api[c[1]].uid = child[c].owner

\* The garbage collector removes what belongs to a flow that is gone.  The child's
\* own finalizer delays it.
Collect(c) ==
    /\ child[c].exists /\ child[c].owner # Unowned /\ ~OwnerLives(c)
    /\ WriteChild(c, NoChild, "removed")
    /\ UNCHANGED <<informer, sched, edits, faults, pc, pass>>

Outside == <<sched, faults, pc, pass>>

\* What the webhook lets through.
UserCreates(s, spec) ==
    /\ spec \in Admissible
    /\ Creates(s, [Gone(api[s].uid + 1) EXCEPT !.exists = TRUE, !.spec = spec])
    /\ UNCHANGED <<family, Outside>>

UserEditsSpec(s, spec) ==
    /\ spec \in Admissible /\ ~api[s].deleting
    /\ ChangesSpec(s, [api[s] EXCEPT !.spec = spec])
    /\ UNCHANGED <<family, Outside>>

UserDeletes(s) == Deletes(s, Gone(api[s].uid)) /\ UNCHANGED <<family, Outside>>

\* A user edits a child, or makes a scaler of that name.
UserPutsChild(c) ==
    /\ Edit /\ child[c].spec # Manual
    /\ WriteChild(c, [child[c] EXCEPT !.exists = TRUE, !.spec = Manual],
                  IF child[c].exists THEN "spec" ELSE "created")
    /\ UNCHANGED <<informer, Outside>>

UserDeletesChild(c) ==
    /\ Edit /\ child[c].exists
    /\ WriteChild(c, NoChild, "removed")
    /\ UNCHANGED <<informer, Outside>>

Environment ==
    \/ \E s \in Names, spec \in Specs : UserCreates(s, spec) \/ UserEditsSpec(s, spec)
    \/ \E s \in Names : UserDeletes(s)
    \/ \E c \in Children : UserPutsChild(c) \/ UserDeletesChild(c)

Next ==
    \/ \E s \in Names : Sync(s) \/ TimerFires(s) \/ Fetch(s)
    \/ Handlers
    \/ \E c \in Children : SyncChild(c) \/ Collect(c)
    \/ Restart
    \/ Environment

Spec == Init /\ [][Next]_vars

\* The worker runs, both watches deliver, timers elapse, garbage is collected.
Fairness ==
    /\ WF_vars(Handlers)
    /\ \A s \in Names : WF_vars(Sync(s)) /\ WF_vars(TimerFires(s)) /\ SF_vars(Fetch(s))
    /\ \A c \in Children : WF_vars(SyncChild(c)) /\ WF_vars(Collect(c))

FairSpec == Spec /\ Fairness

----
(***************************************************************************)
(* Properties.                                                             *)
(***************************************************************************)
Scheduled(s) == s \in queued \/ s \in timers \/ event[s] \/ (pc # "idle" /\ pass.name = s)

\* A flow that exists is never forgotten: children that are deleted bring nobody
\* back (IgnoreDeletionPredicate), so only the next pass repairs them.
NeverForgotten == \A s \in Names : api[s].exists => Scheduled(s)

\* A child is only created for an incarnation of the flow that is there, however
\* old the copy the pass works from: its finalizer keeps the flow until the pass
\* is over, so that the child has an owner whose deletion takes it along.
OwnedAtBirth ==
    [][\A c \in Children :
         ~child[c].exists /\ child'[c].exists /\ child'[c].owner # Unowned
             => api[c[1]].exists /\ api[c[1]].finalizer /\ api[c[1]].uid = child'[c].owner]_vars

\* What the webhook let through though something is wrong with it.
Defects == [spec \in Specs |-> {reason \in LateReasons : Defective(Definition[spec], reason)}]

\* Webhook and reconciler validate a flow in different code, in different terms and in
\* stages that end at the first error.  Together they miss nothing and invent nothing:
\* what a pass refuses a flow for is a defect of its plan that the webhook does not
\* look for, and a flow whose children are written has no such defect.
RefusedForCause ==
    pc = "status" =>
        IF pass.outcome \in {"True", "ProcessingFailed"} THEN Defects[pass.copy.spec] = {}
        ELSE pass.outcome \in Defects[pass.copy.spec]

\* The children of a spec that are at every instant in the period asked for, as far
\* as its delays leave every window within its day.
AsAsked == [spec \in Sound |-> {key \in DOMAIN Plan[spec] :
    AllFit(Definition[spec], key[2]) =>
        \A now \in Instants : SetActivePeriod(Plan[spec][key].periods, now)
                                 = AskedPeriod(Definition[spec], key[2], now)}]

\* Where the delays leave every window within its day, a child that is written is at
\* every instant in the period the flow asks for: startTimeDelay after its begin
\* until endTimeDelay after its end, the first one if several.  Without that guard
\* it is not so: the shifted times are written without a day.
WindowsAsAsked ==
    pc = "children" =>
        pass.todo \cap Accepted[pass.copy.spec] \subseteq AsAsked[pass.copy.spec]

----
(***************************************************************************)
(* Liveness: users and faults, which are bounded, let the system alone in  *)
(* the end.                                                                *)
(***************************************************************************)
\* What the condition may say of a spec.
Verdicts(spec) ==
    IF Refusals[spec] # {} THEN Refusals[spec]
    ELSE IF Accepted[spec] = DOMAIN Plan[spec] THEN {"True"} ELSE {"ProcessingFailed"}

\* A flow ends with a condition that tells what is wrong with its spec, if anything
\* is, and a good one with its children as it asks, whatever became of them before:
\* deleted, edited, collected with an earlier incarnation, or written by a call
\* that lost its answer.  A deleted flow goes.
FlowConverges ==
    \A s \in Names : <>[](
        /\ ~api[s].deleting
        /\ api[s].exists =>
             /\ api[s].cond \in Verdicts(api[s].spec)
             /\ api[s].cond = "True" =>
                  \A key \in DOMAIN Plan[api[s].spec] :
                     /\ child[<<s, key>>].exists
                     /\ child[<<s, key>>].spec = Plan[api[s].spec][key])
====
