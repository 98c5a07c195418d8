---- MODULE Admission ----
(***************************************************************************)
(* The validating webhooks of Flow, K8s and Gcp, and the period validation *)
(* of api/common the last two share.  Each is a predicate on what a user   *)
(* or a controller sends to be stored; deletions always pass.              *)
(***************************************************************************)
EXTENDS Period, SequencesExt

----
(***************************************************************************)
(* api/common: ScalerPeriod.Validate                                       *)
(***************************************************************************)
\* isValidDay accepts what isDay can index.
ValidDay(day) == day # BadDay

\* RecurringPeriod.Validate: the times have to be there, no more.
ValidRecurring(p) == p.days # <<>> /\ \A i \in DOMAIN p.days : ValidDay(p.days[i])

\* TimePeriod.Validate: one of the two, and nothing more of a fixed one.
ValidTime(p) == p.time = "fixed" \/ (p.time = "recurring" /\ ValidRecurring(p))

\* Counts are compared only when both are given, before any default.
ValidCounts(p) == p.min = Nil \/ p.max = Nil \/ p.min <= p.max

ValidPeriod(p) == p.type \in {"down", "up"} /\ ValidTime(p) /\ ValidCounts(p)

\* validateK8s, on spec.periods
ValidK8s(periods) == periods # <<>> /\ \A i \in DOMAIN periods : ValidPeriod(periods[i])

\* validateGcp
ValidGcp(periods, project) == project /\ ValidK8s(periods)

----
(***************************************************************************)
(* The Flow webhook.  A flow is [periods, k8s, gcp, flows]: its periods,   *)
(* the names of its resources of both kinds, and which resources follow    *)
(* which period with what delays, in minutes (Nil: "m", which the pattern  *)
(* of the CRD allows and ParseDuration does not).                          *)
(***************************************************************************)
PeriodNames(periods) == [i \in DOMAIN periods |-> periods[i].name]

\* validatePeriodNameUniqueness; the pattern of the CRD leaves no empty name.
UniquePeriodNames(spec) == IsInjective(PeriodNames(spec.periods))

\* Mutant: a name may be used in both kinds.
UniqueResourceNames_PerKind(spec) == IsInjective(spec.k8s) /\ IsInjective(spec.gcp)

\* validateResourceNameUniqueness
UniqueResourceNames(spec) ==
    /\ IsInjective(spec.k8s) /\ IsInjective(spec.gcp)
    /\ ToSet(spec.k8s) \cap ToSet(spec.gcp) = {}

HasTimes(p) == p.time # "none" /\ p.start # Nil /\ p.end # Nil

\* getPeriodDuration: the end is taken for one of the next day when it is not
\* after the start, in fixed periods too.
WebhookDuration(p) == IF p.end <= p.start THEN p.end + DayLength - p.start ELSE p.end - p.start

SumOfStartDelays(resources) ==
    FoldLeft(LAMBDA sum, r : sum + r.startDelay, 0, resources)

\* validateFlowTimings: for each period that some flow follows, its times parse and
\* the start delays of each flow add up to no more than it lasts.
ValidTimings(spec) ==
    \A i \in DOMAIN spec.periods, j \in DOMAIN spec.flows :
        LET p == spec.periods[i]
            resources == spec.flows[j].resources
        IN  spec.flows[j].period = p.name =>
              /\ HasTimes(p)
              /\ \A k \in DOMAIN resources : resources[k].startDelay # Nil
              /\ SumOfStartDelays(resources) <= WebhookDuration(p)

\* validateFlow
ValidFlow(spec) == UniquePeriodNames(spec) /\ UniqueResourceNames(spec) /\ ValidTimings(spec)
====
