---- MODULE MCGcpScaler ----
(***************************************************************************)
(* Small instances of GcpScaler.                                           *)
(***************************************************************************)
EXTENDS GcpScaler

Night == [name |-> "night", type |-> "down", once |-> FALSE]
Once  == [name |-> "once", type |-> "up", once |-> TRUE]

MCPeriods == {Night, Once}
MCTimes == {"day", "evening"}

At(day, evening) == [t \in MCTimes |-> IF t = "day" THEN day ELSE evening]

\* Stopped at night and running otherwise.
Nightly ==
    [periods |-> At(NoAction, Night), ahead |-> At(TRUE, TRUE), vms |-> Vms,
     restoreOnDelete |-> TRUE, authSecret |-> FALSE, defaultPeriodType |-> "up"]
\* A run-once period, and an error when it is over.
Broken == [Nightly EXCEPT !.periods = At(Invalid, Once), !.defaultPeriodType = "down"]
\* With a secret; a reverse run-once period is still active after its end.
Remote == [Nightly EXCEPT !.periods = At(NoAction, Once), !.ahead = At(TRUE, FALSE),
                          !.authSecret = TRUE]

MCSpecs == {Nightly, Broken, Remote}
MCOldSpecs == {Broken}
====
