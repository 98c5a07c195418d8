---- MODULE IntReplicas ----
(***************************************************************************)
(* How one period changes one Deployment or StatefulSet: the annotation    *)
(* manager of pkg/k8s/utils and the IntReplicas strategy of                *)
(* pkg/k8s/resources/base.  A workload keeps spec.replicas and, while a    *)
(* scaler holds it, the replica count it had before ("original-value") and *)
(* the period written beside it.                                           *)
(***************************************************************************)
EXTENDS Integers

\* No original-value annotation.  Recorded replica counts are never negative.
Absent == -1

\* The period annotations of a workload no scaler holds.
NoPeriodName == "none"

Workload(names) ==
    [replicas : Nat, orig : Nat \cup {Absent}, period : names \cup {NoPeriodName}]

Held(w) == w.orig # Absent

\* The replica count the owner of the workload asked for: what is in the spec,
\* or what the annotation remembers while a scaler holds the workload.
Original(w) == IF Held(w) THEN w.orig ELSE w.replicas

----
\* Mutant: the value is recorded every time.
AddIntAnnotations_Overwrites(w, p) == [w EXCEPT !.orig = w.replicas, !.period = p.name]

\* Mutant: the period of an earlier hold stays.
AddIntAnnotations_KeepsPeriod(w, p) ==
    IF Held(w) THEN w ELSE [w EXCEPT !.orig = w.replicas, !.period = p.name]

\* AddIntAnnotations: the period is rewritten every time, the original value
\* only when none is recorded yet.
AddIntAnnotations(w, p) ==
    [w EXCEPT !.orig = IF Held(w) THEN @ ELSE w.replicas, !.period = p.name]

\* Mutant: the annotations go, the replica count stays.
RestoreIntAnnotations_KeepsReplicas(w) ==
    [replicas |-> w.replicas, orig |-> Absent, period |-> NoPeriodName]

\* RestoreIntAnnotations on a held workload: every annotation with the
\* kubecloudscaler prefix goes.
RestoreIntAnnotations(w) ==
    [replicas |-> w.orig, orig |-> Absent, period |-> NoPeriodName]

\* ApplyScaling of IntReplicasStrategy.  Any type but "down" and "up" restores.
ApplyScaling(w, p) ==
    CASE p.type = "down" -> [AddIntAnnotations(w, p) EXCEPT !.replicas = p.min]
      [] p.type = "up"   -> [AddIntAnnotations(w, p) EXCEPT !.replicas = p.max]
      [] OTHER           -> IF Held(w) THEN RestoreIntAnnotations(w) ELSE w

\* Mutant: the annotation is not looked at.
AlreadyRestored_ByType(w, p) == p.type \notin {"down", "up"}

\* The alreadyRestored result: processResource makes no Update call.
AlreadyRestored(w, p) == p.type \notin {"down", "up"} /\ ~Held(w)
====
