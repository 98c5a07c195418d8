---- MODULE MCK8sScaler ----
(***************************************************************************)
(* Small instances of K8sScaler.                                           *)
(***************************************************************************)
EXTENDS K8sScaler

Night == [name |-> "night", type |-> "down", min |-> 0, max |-> 2, once |-> FALSE]
Peak  == [name |-> "peak", type |-> "up", min |-> 1, max |-> 3, once |-> FALSE]
Once  == [name |-> "once", type |-> "down", min |-> 0, max |-> 2, once |-> TRUE]

MCTimes == {"day", "evening"}

At(day, evening) == [t \in MCTimes |-> IF t = "day" THEN day ELSE evening]

\* Deployments and StatefulSets, restored on deletion: the defaults.
Default(periods) ==
    [periods |-> periods, types |-> AppsResources, restoreOnDelete |-> TRUE, authSecret |-> FALSE]

Nightly  == Default(At(NoAction, Night))
\* Periods back to back.
Full     == Default(At(Peak, Night))
\* A run-once period, and an error when it is over.
OnceThenBroken == Default(At(Invalid, Once))
\* The selection is narrowed to what is not there.
Narrowed == [Nightly EXCEPT !.types = {"statefulsets"}]
\* A list that validResourceList refuses.
Refused  == [Nightly EXCEPT !.types = {"deployments", "hpa"}]
Remote   == [Nightly EXCEPT !.authSecret = TRUE]
\* Run-once without restoring on deletion.
OnceKept == [Default(At(NoAction, Once)) EXCEPT !.restoreOnDelete = FALSE]

NightSpecs   == {Nightly}
SafetySpecs  == {Full, OnceThenBroken, Refused, Remote}
OverlapSpecs == {Nightly}
LiveSpecs    == {Full, OnceThenBroken, Narrowed}
OnceSpecs    == {OnceKept}

MCPeriods == {Night, Peak, Once}

OneKind  == [w \in Workloads |-> "deployments"]
TwoKinds == [w \in Workloads |-> IF w = "web" THEN "deployments" ELSE "statefulsets"]
====
