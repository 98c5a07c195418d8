---- MODULE FlowPlan ----
(***************************************************************************)
(* What a Flow asks for: the reconciler's own validation of a flow, the    *)
(* mapping of its resources to periods with delays, and the periods of the *)
(* child scalers that come of it.  All of it is a function of the spec,    *)
(* but for the order in which Go iterates over maps.                       *)
(***************************************************************************)
EXTENDS Admission

\* Where spec.flows lists a resource, what it says of it there, and which of two
\* places comes first.
Places(spec) == UNION {{i} \X DOMAIN spec.flows[i].resources : i \in DOMAIN spec.flows}
ResourceAt(spec, place) == spec.flows[place[1]].resources[place[2]]
Precedes(a, b) == a[1] < b[1] \/ (a[1] = b[1] /\ a[2] < b[2])

----
(***************************************************************************)
(* ExtractFlowData and ValidatePeriodTimings                               *)
(***************************************************************************)
DuplicateReasons(spec) ==
    IF ~IsInjective(PeriodNames(spec.periods)) THEN {"DuplicatePeriod"}
    ELSE IF ~IsInjective(spec.k8s) \/ ~IsInjective(spec.gcp) THEN {"DuplicateResource"} ELSE {}

\* The periods and the resources that spec.flows refers to.
Followed(spec) == {spec.flows[i].period : i \in DOMAIN spec.flows}
Referenced(spec) == {ResourceAt(spec, place).name : place \in Places(spec)}

PeriodNamed(spec, name) ==
    LET i == CHOOSE i \in DOMAIN spec.periods : spec.periods[i].name = name IN spec.periods[i]

\* GetPeriodDuration: only a recurring period may end on the next day.
DurationReason(p) ==
    IF p.time = "none" \/ p.start = Nil \/ p.end = Nil THEN "InvalidPeriodDuration"
    ELSE IF p.start = p.end THEN "ZeroPeriodDuration"
    ELSE IF p.time = "fixed" /\ p.end < p.start THEN "InvalidPeriodDuration" ELSE ""

Duration(p) == IF p.end < p.start THEN p.end + DayLength - p.start ELSE p.end - p.start

\* validateOneResourceDelay; "" stands for no error.
DelayReason(p, r) ==
    IF r.startDelay = Nil \/ r.endDelay = Nil THEN "InvalidDelayFormat"
    ELSE IF Duration(p) - r.startDelay + r.endDelay <= 0 THEN "InvertedWindow" ELSE ""

\* The places under a period of that name whose delays do not go with it.
WrongDelays(spec, name) ==
    {place \in Places(spec) :
        /\ spec.flows[place[1]].period = name
        /\ DelayReason(PeriodNamed(spec, name), ResourceAt(spec, place)) # ""}

\* What is first found wrong with one period, if anything is.
TimingReason(spec, name) ==
    LET p     == PeriodNamed(spec, name)
        wrong == WrongDelays(spec, name)
        first == {place \in wrong : \A other \in wrong : ~Precedes(other, place)}
    IN  IF name \notin ToSet(PeriodNames(spec.periods)) THEN {"UnknownPeriod"}
        ELSE IF DurationReason(p) # "" THEN {DurationReason(p)}
        ELSE {DelayReason(p, ResourceAt(spec, place)) : place \in first}

TimingReasons(spec) == UNION {TimingReason(spec, name) : name \in Followed(spec)}

----
(***************************************************************************)
(* CreateResourceMappings                                                  *)
(***************************************************************************)
\* findAssociatedPeriods: what a resource follows, in the order of spec.flows.
Association(f, r) == [period |-> f.period, delays |-> r]
Associated(spec, name) ==
    LET of(f) == FlattenSeq([k \in DOMAIN f.resources |->
                                IF f.resources[k].name = name
                                THEN <<Association(f, f.resources[k])>> ELSE <<>>])
    IN  FlattenSeq([i \in DOMAIN spec.flows |-> of(spec.flows[i])])

\* Mutant: a resource may follow one period only.
MappingReason_AnyPeriod(spec, name) ==
    IF name \in ToSet(spec.k8s) /\ name \in ToSet(spec.gcp) THEN "AmbiguousResource"
    ELSE IF name \notin ToSet(spec.k8s) \cup ToSet(spec.gcp) THEN "UnknownResource"
    ELSE IF Len(Associated(spec, name)) > 1 THEN "DuplicateResourceInPeriod" ELSE ""

MappingReason(spec, name) ==
    LET k8s == name \in ToSet(spec.k8s)
        gcp == name \in ToSet(spec.gcp)
        followed == Associated(spec, name)
    IN  CASE k8s /\ gcp   -> "AmbiguousResource"
          [] ~k8s /\ ~gcp -> "UnknownResource"
          [] k8s # gcp    -> IF IsInjective([i \in DOMAIN followed |-> followed[i].period])
                             THEN "" ELSE "DuplicateResourceInPeriod"

MappingReasons(spec) == {MappingReason(spec, name) : name \in Referenced(spec)} \ {""}

\* The reasons ProcessFlow may give for refusing the flow: each stage iterates over
\* a map, and the first error it meets ends it.
Reasons(spec) ==
    IF DuplicateReasons(spec) # {} THEN DuplicateReasons(spec)
    ELSE IF TimingReasons(spec) # {} THEN TimingReasons(spec) ELSE MappingReasons(spec)

----
(***************************************************************************)
(* What can be wrong with a flow that the webhook does not look for, said  *)
(* of the places in its plan.                                              *)
(***************************************************************************)
LateReasons ==
    {"UnknownPeriod", "UnknownResource", "DuplicateResourceInPeriod", "ZeroPeriodDuration",
     "InvalidPeriodDuration", "InvalidDelayFormat", "InvertedWindow"}

PeriodAt(spec, place) == spec.flows[place[1]].period

Defective(spec, reason) ==
    \/ /\ reason = "UnknownPeriod"
       /\ \E name \in Followed(spec) : \A i \in DOMAIN spec.periods : spec.periods[i].name # name
    \/ /\ reason = "UnknownResource"
       /\ \E name \in Referenced(spec) : name \notin ToSet(spec.k8s) /\ name \notin ToSet(spec.gcp)
    \/ /\ reason = "DuplicateResourceInPeriod"
       /\ \E a, b \in Places(spec) : /\ a # b /\ PeriodAt(spec, a) = PeriodAt(spec, b)
                                     /\ ResourceAt(spec, a).name = ResourceAt(spec, b).name
    \/ \E i \in DOMAIN spec.periods :
         LET p == spec.periods[i] IN
         \/ /\ reason = "ZeroPeriodDuration"
            /\ p.name \in Followed(spec) /\ p.start = p.end
         \/ /\ reason = "InvalidPeriodDuration"
            /\ p.name \in Followed(spec) /\ p.time = "fixed" /\ p.end < p.start
         \/ \E place \in Places(spec) :
              LET r == ResourceAt(spec, place) IN
              /\ PeriodAt(spec, place) = p.name
              /\ \/ reason = "InvalidDelayFormat" /\ r.endDelay = Nil
                 \/ /\ reason = "InvertedWindow" /\ r.endDelay # Nil
                    /\ Duration(p) + r.endDelay <= r.startDelay

----
(***************************************************************************)
(* The children: one scaler for each resource that some flow refers to.    *)
(***************************************************************************)
\* The resources of a flow that become children, with their kinds.
ChildKeys(spec) ==
    {<<"k8s", name>> : name \in Referenced(spec) \cap ToSet(spec.k8s)}
        \cup {<<"gcp", name>> : name \in Referenced(spec) \cap ToSet(spec.gcp)}

\* Mutant: the end is shifted by the start's delay.
Shift_OneDelay(p, r) ==
    IF p.time = "recurring"
    THEN [p EXCEPT !.start = (@ + r.startDelay) % DayLength, !.end = (@ + r.startDelay) % DayLength]
    ELSE [p EXCEPT !.start = @ + r.startDelay, !.end = @ + r.startDelay]

\* createPeriodWithDelay and buildPeriods: the times of a recurring period are
\* written without a day.
Shift(p, r) ==
    IF p.time = "recurring"
    THEN [p EXCEPT !.start = (@ + r.startDelay) % DayLength, !.end = (@ + r.endDelay) % DayLength]
    ELSE [p EXCEPT !.start = @ + r.startDelay, !.end = @ + r.endDelay]

\* The periods of the child of a resource.
ChildPeriods(spec, name) ==
    LET followed == Associated(spec, name)
    IN  [i \in DOMAIN followed |->
            Shift(PeriodNamed(spec, followed[i].period), followed[i].delays)]

\* CreateK8sResource and CreateGcpResource: of the rest of the resource, only the
\* project is told apart.
ChildSpec(spec, key) ==
    [periods |-> ChildPeriods(spec, key[2]), project |-> key[1] = "gcp" /\ spec.project]

\* The webhook of the child's kind.
ChildAdmitted(kind, childSpec) ==
    IF kind = "k8s" THEN ValidK8s(childSpec.periods)
    ELSE ValidGcp(childSpec.periods, childSpec.project)

----
(***************************************************************************)
(* What the delays are for, said without the shifted times.                *)
(***************************************************************************)
\* The period does not end on the next day, not even with the delay of its end.
Fits(p, r) ==
    p.time = "recurring" => p.start <= EndMinute(p) /\ EndMinute(p) + r.endDelay < DayLength

\* "This resource starts scaling startTimeDelay after the period begins" and "stops
\* scaling endTimeDelay after the period ends".
Asked(p, r, now) ==
    LET day   == IF p.time = "recurring" THEN DayOf(now) * DayLength ELSE 0
        first == (day + p.start + r.startDelay) * PerMinute
        last  == (day + EndMinute(p) + r.endDelay) * PerMinute + PerMinute - 1
    IN  /\ p.time = "recurring" => OnDay(p.days, now)
        /\ (first < now /\ now < last) # (p.time = "recurring" /\ p.reverse)

\* Which of the periods a resource follows it is to be in.
AskedPeriod(spec, name, now) ==
    LET followed == Associated(spec, name)
        asked == {i \in DOMAIN followed :
                    Asked(PeriodNamed(spec, followed[i].period), followed[i].delays, now)}
    IN  IF asked = {} THEN NoPeriod ELSE CHOOSE i \in asked : \A j \in asked : i <= j

AllFit(spec, name) ==
    \A i \in DOMAIN Associated(spec, name) :
        LET f == Associated(spec, name)[i]
            p == PeriodNamed(spec, f.period)
        IN  Fits(p, f.delays) /\ MinReplicas(p) <= MaxReplicas(p) /\ p.loads
====
