---- MODULE Controller ----
(***************************************************************************)
(* What the GCP scaler controller and the Flow controller share: the API   *)
(* server's copy of each watched object, the informer cache in front of    *)
(* it, the event filter, the work queue and its delayed additions.  The    *)
(* operators below say nothing of the other variables of a controller.     *)
(*                                                                         *)
(* An object is a record with at least the fields exists, deleting,        *)
(* finalizer and spec.  MaxConcurrentReconciles is left at 1.              *)
(***************************************************************************)
EXTENDS Integers

CONSTANTS
    Names,       \* names of the watched objects
    MaxEdits,    \* bound: steps of users and of the clock
    MaxFaults    \* bound: failed calls and controller restarts

ASSUME ControllerAssumption == Names # {} /\ MaxEdits \in Nat /\ MaxFaults \in Nat

VARIABLES
    api,      \* the API server's copy of each object
    cache,    \* the informer's copy, which every client Get reads
    fresh,    \* cache[s] has the resourceVersion of api[s]
    event,    \* a change of s that passes the event filter is still undelivered
    queued,   \* the work queue
    timers,   \* delayed additions to the queue: RequeueAfter and error backoff
    edits, faults

informer == <<api, cache, fresh, event>>
sched    == <<queued, timers>>

ControllerTypeOK(Objects) ==
    /\ api \in [Names -> Objects]
    /\ cache \in [Names -> Objects]
    /\ fresh \in [Names -> BOOLEAN]
    /\ event \in [Names -> BOOLEAN]
    /\ queued \in SUBSET Names
    /\ timers \in SUBSET Names
    /\ edits \in 0 .. MaxEdits
    /\ faults \in 0 .. MaxFaults

ControllerInit(Gone) ==
    /\ api = [s \in Names |-> Gone]
    /\ cache = api
    /\ fresh = [s \in Names |-> TRUE]
    /\ event = [s \in Names |-> FALSE]
    /\ queued = {} /\ timers = {}
    /\ edits = 0 /\ faults = 0

Fault == faults < MaxFaults /\ faults' = faults + 1
Edit  == edits < MaxEdits /\ edits' = edits + 1

\* Mutant: creations are filtered out too.
Triggers_NotCreation(change) == change \in {"spec", "deletionStarted"}

\* IgnoreDeletionPredicate: the changes of an object that reach the queue.
Triggers(change) == change \in {"created", "spec", "deletionStarted"}

\* Store o as the object s; whatever the informer holds is now old.
Write(s, o, change) ==
    /\ api' = [api EXCEPT ![s] = o]
    /\ fresh' = [fresh EXCEPT ![s] = FALSE]
    /\ event' = [event EXCEPT ![s] = @ \/ Triggers(change)]
    /\ UNCHANGED cache

\* The watch catches up with the API server and delivers what it missed.
Deliver(s) ==
    /\ ~fresh[s]
    /\ cache' = [cache EXCEPT ![s] = api[s]]
    /\ fresh' = [fresh EXCEPT ![s] = TRUE]
    /\ event' = [event EXCEPT ![s] = FALSE]
    /\ queued' = IF event[s] THEN queued \cup {s} ELSE queued
    /\ UNCHANGED <<api, timers>>

\* A RequeueAfter or a backoff elapses.
Elapse(s) ==
    /\ s \in timers
    /\ timers' = timers \ {s}
    /\ queued' = queued \cup {s}

\* Mutant: the result never carries a requeue.
Return_NoRequeue(s, requeue) == UNCHANGED sched

\* Reconcile returns; requeue says whether s is added back with a delay.
Return(s, requeue) ==
    /\ timers' = IF requeue THEN timers \cup {s} ELSE timers
    /\ UNCHANGED queued

\* The worker takes s.
Take(s) == s \in queued /\ queued' = queued \ {s}

\* The Get before a write answers NotFound, or the write does.
NotFound(s) == ~cache[s].exists \/ ~api[s].exists
\* A write carries the resourceVersion of the cached object: it is accepted only
\* when the cache has caught up.  Otherwise it is tried again until the informer
\* syncs, or given up with the conflict.
CanWrite(s) == ~NotFound(s) /\ fresh[s]
Conflict(s) == ~NotFound(s) /\ ~fresh[s]

\* A Get or a write fails: nothing happened, or o was stored and the answer lost.
FailedWrite(s, o, change) ==
    /\ Fault
    /\ UNCHANGED informer \/ (CanWrite(s) /\ Write(s, o, change))

\* The manager restarts: the queue is lost, the informer lists every object
\* afresh and each one is an event.
Relist ==
    /\ Fault
    /\ cache' = api
    /\ fresh' = [s \in Names |-> TRUE]
    /\ event' = [s \in Names |-> FALSE]
    /\ queued' = {s \in Names : api[s].exists}
    /\ timers' = {}
    /\ UNCHANGED <<api, edits>>

----
(***************************************************************************)
(* Users of the API server.                                                *)
(***************************************************************************)
Creates(s, o) == Edit /\ ~api[s].exists /\ Write(s, o, "created")

\* With a finalizer the object only starts to go.
Deletes(s, Gone) ==
    /\ Edit /\ api[s].exists /\ ~api[s].deleting
    /\ IF api[s].finalizer
       THEN Write(s, [api[s] EXCEPT !.deleting = TRUE], "deletionStarted")
       ELSE Write(s, Gone, "removed")

ChangesSpec(s, o) == Edit /\ api[s].exists /\ o # api[s] /\ Write(s, o, "spec")
====
