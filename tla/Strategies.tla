---- MODULE Strategies ----
(***************************************************************************)
(* The kinds of resources whose state is not one replica count: runner     *)
(* sets (min and max), KEDA ScaledObjects (min and max, or a pause),       *)
(* CronJobs (suspend) and CloudNativePG clusters (hibernation).  One       *)
(* resource of any of these kinds goes through processResource again and   *)
(* again, under periods that follow each other in any order, while its     *)
(* owner edits it and the API server refuses updates or loses answers.     *)
(***************************************************************************)
EXTENDS Integers

CONSTANTS
    Periods,      \* the periods that can be active, noaction apart
    Settings,     \* what an owner may ask of a resource
    MaxEdits,     \* bound: steps of the owner
    MaxFaults     \* bound: failed calls

Kinds == {"github-ars", "scaledobjects", "cronjobs", "cnpg-clusters"}

\* An optional count that is not set.
Nil == -1
\* ptr.Deref(count, 0)
Deref(count) == IF count = Nil THEN 0 ELSE count

NoAction == [type |-> "noaction", min |-> 1, max |-> 1]

\* switch is spec.suspend of a CronJob, the hibernation annotation of a cluster
\* ("absent", "on", "off"), or the two pause annotations of a ScaledObject.
AnySettings == [min : Nat \cup {Nil}, max : Nat \cup {Nil}, switch : {"absent", "on", "off"}]

Counts(kind) == kind \in {"github-ars", "scaledobjects"}
Switches(kind) == kind \in {"scaledobjects", "cronjobs", "cnpg-clusters"}

\* The settings a resource of a kind can have: no field of the others.
SettingsOf(kind) ==
    {s \in Settings : /\ ~Counts(kind) => s.min = Nil /\ s.max = Nil
                      /\ ~Switches(kind) => s.switch = "absent"}

ASSUME SettingsAssumption == Settings # {} /\ Settings \subseteq AnySettings
ASSUME PeriodAssumption == Periods \subseteq [type : {"down", "up"}, min : Nat, max : Nat]
ASSUME BoundAssumption == MaxEdits \in Nat /\ MaxFaults \in Nat

\* kept tells whether the original-value annotations are there and readable;
\* orig is what they say.
Resources == [kind : Kinds, spec : AnySettings, kept : {"none", "kept", "corrupt"},
              orig : [min : Nat, max : Nat, on : BOOLEAN]]
NoOrig == [min |-> 0, max |-> 0, on |-> FALSE]

Held(r) == r.kept # "none"

----
(***************************************************************************)
(* The annotation manager.                                                 *)
(***************************************************************************)
Keep(r, orig) == IF Held(r) THEN r ELSE [r EXCEPT !.kept = "kept", !.orig = orig]

\* Mutant: an unset count is recorded as it is.
AddMinMaxAnnotations_NoDeref(r) ==
    Keep(r, [min |-> r.spec.min, max |-> r.spec.max, on |-> FALSE])

\* AddMinMaxAnnotations, with the Deref of the maximum its callers do.
AddMinMaxAnnotations(r) ==
    Keep(r, [min |-> Deref(r.spec.min), max |-> Deref(r.spec.max), on |-> FALSE])

AddBoolAnnotations(r) == Keep(r, [min |-> 0, max |-> 0, on |-> r.spec.switch = "on"])

\* RemoveAnnotations: all of the scaler's own go.
RemoveAnnotations(r) == [r EXCEPT !.kept = "none", !.orig = NoOrig]

----
(***************************************************************************)
(* ApplyScaling of each strategy, for a resource it does not refuse.  A    *)
(* type that is neither "down" nor "up" restores.                          *)
(***************************************************************************)
SetMinMax(r, lo, hi) == [r EXCEPT !.spec.min = lo, !.spec.max = hi]
Switch(r, value) == [r EXCEPT !.spec.switch = value]

Scales(p) == p.type \in {"down", "up"}

MinMaxReplicas(r, p) ==
    IF Scales(p) THEN SetMinMax(AddMinMaxAnnotations(r), p.min, p.max)
    ELSE SetMinMax(RemoveAnnotations(r), r.orig.min, r.orig.max)

\* Mutant: a period with replicas after a pause leaves the pause.
KedaScaling_StaysPaused(r, p) == SetMinMax(AddMinMaxAnnotations(r), p.min, p.max)

\* applyMinMaxScaling
KedaScaling(r, p) == Switch(SetMinMax(AddMinMaxAnnotations(r), p.min, p.max), "absent")

\* A pause leaves the counts alone; restoring removes it whoever wrote it.
KedaPause(r, p) ==
    CASE p.type = "down" /\ p.min = 0 -> Switch(AddMinMaxAnnotations(r), "on")
      [] Scales(p) /\ ~(p.type = "down" /\ p.min = 0) -> KedaScaling(r, p)
      [] OTHER -> Switch(SetMinMax(RemoveAnnotations(r), r.orig.min, r.orig.max), "absent")

\* CronJobs, which are only scaled down.
BoolSuspend(r, p) ==
    IF Scales(p) THEN Switch(AddBoolAnnotations(r), "on")
    ELSE Switch(RemoveAnnotations(r), IF r.orig.on THEN "on" ELSE "off")

\* Mutant: restoring always resumes the cluster.
CNPGHibernate_AlwaysResumes(r, p) ==
    IF Scales(p)
    THEN Switch(AddBoolAnnotations(r), IF p.type = "down" THEN "on" ELSE "off")
    ELSE Switch(RemoveAnnotations(r), "absent")

CNPGHibernate(r, p) ==
    IF Scales(p)
    THEN Switch(AddBoolAnnotations(r), IF p.type = "down" THEN "on" ELSE "off")
    ELSE Switch(RemoveAnnotations(r), IF r.orig.on THEN "on" ELSE "absent")

ApplyScaling(r, p) ==
    CASE r.kind = "github-ars"    -> MinMaxReplicas(r, p)
      [] r.kind = "scaledobjects" -> KedaPause(r, p)
      [] r.kind = "cronjobs"      -> BoolSuspend(r, p)
      [] r.kind = "cnpg-clusters" -> CNPGHibernate(r, p)

AlreadyRestored(r, p) == ~Scales(p) /\ ~Held(r)

\* Mutant: an original value that cannot be parsed is taken for zero.
Refused_ParsesAnything(r, p) == r.kind = "cronjobs" /\ p.type = "up"

\* ApplyScaling returns an error: no CronJob is scaled up, and nothing is
\* restored from an annotation that cannot be parsed.
Refused(r, p) ==
    \/ r.kind = "cronjobs" /\ p.type = "up"
    \/ ~Scales(p) /\ r.kept = "corrupt"

----
(***************************************************************************)
(* processResource on one resource, with its owner.                        *)
(***************************************************************************)
VARIABLES
    resource,  \* the API server's copy
    owner,     \* what its owner last asked for, outside any hold
    period,    \* the period of the pass
    read,      \* what the pass's Get returned
    current,   \* nobody has written the resource since
    result,    \* how processResource ended; "none" also when the owner changed it since
    edits, faults

vars == <<resource, owner, period, read, current, result, edits, faults>>

Results == {"none", "running", "success", "restored", "failed"}

TypeOK ==
    /\ resource \in Resources /\ read \in Resources
    /\ owner \in Settings
    /\ period \in Periods \cup {NoAction}
    /\ current \in BOOLEAN
    /\ result \in Results
    /\ edits \in 0 .. MaxEdits
    /\ faults \in 0 .. MaxFaults

Init ==
    /\ \E kind \in Kinds :
         /\ owner \in SettingsOf(kind)
         /\ resource = [kind |-> kind, spec |-> owner, kept |-> "none", orig |-> NoOrig]
    /\ period = NoAction
    /\ read = resource /\ current = TRUE
    /\ result = "none"
    /\ edits = 0 /\ faults = 0

Fault == faults < MaxFaults /\ faults' = faults + 1

\* A pass under any period reads the resource.
Get ==
    /\ result # "running"
    /\ period' \in Periods \cup {NoAction}
    /\ \/ /\ read' = resource /\ current' = TRUE
          /\ result' = "running"
          /\ UNCHANGED faults
       \/ Fault /\ result' = "failed" /\ UNCHANGED <<read, current>>
    /\ UNCHANGED <<resource, owner, edits>>

\* Mutant: the update does not carry the resourceVersion that was read.
Accepted_LastWriterWins == TRUE

\* The update carries the resourceVersion that was read.
Accepted == current

\* What the strategy made of the resource is stored, unless there is nothing to
\* store, the strategy refused, or the update did.
Update ==
    /\ result = "running"
    /\ \/ /\ Refused(read, period) /\ result' = "failed"
          /\ UNCHANGED <<resource, faults>>
       \/ /\ AlreadyRestored(read, period) /\ result' = "restored"
          /\ UNCHANGED <<resource, faults>>
       \/ /\ ~Refused(read, period) /\ ~AlreadyRestored(read, period)
          /\ \/ /\ Accepted /\ result' = "success"
                /\ resource' = ApplyScaling(read, period)
                /\ UNCHANGED faults
             \/ /\ ~Accepted /\ result' = "failed"
                /\ UNCHANGED <<resource, faults>>
             \/ /\ Fault /\ result' = "failed"
                /\ \/ UNCHANGED resource
                   \/ Accepted /\ resource' = ApplyScaling(read, period)
    /\ UNCHANGED <<owner, period, read, current, edits>>

\* Whoever edits the resource makes what was read old, and what was reported too.
Edited ==
    /\ edits < MaxEdits /\ edits' = edits + 1
    /\ current' = FALSE
    /\ result' = IF result = "running" THEN result ELSE "none"
    /\ UNCHANGED <<period, read, faults>>

OwnerEdits ==
    /\ \E settings \in SettingsOf(resource.kind) :
         /\ resource' = [resource EXCEPT !.spec = settings]
         /\ owner' = IF Held(resource) THEN owner ELSE settings
    /\ Edited

\* The original value is edited into something that is no number, no boolean.
OwnerCorrupts ==
    /\ Held(resource)
    /\ resource' = [resource EXCEPT !.kept = "corrupt"]
    /\ UNCHANGED owner
    /\ Edited

Next == Get \/ Update \/ OwnerEdits \/ OwnerCorrupts

Spec == Init /\ [][Next]_vars

----
(***************************************************************************)
(* Properties.                                                             *)
(***************************************************************************)
\* What settings amount to: the minimum of 0 is the default, and a switch is on
\* or not.  An unset maximum is no number: there is no limit but the default's.
Effective(kind, s) ==
    [min |-> IF Counts(kind) THEN Deref(s.min) ELSE 0,
     max |-> IF Counts(kind) THEN s.max ELSE 0,
     on  |-> Switches(kind) /\ s.switch = "on"]

\* What the owner asked for: in the resource, or in its annotations.
Original(r) == IF Held(r) THEN r.orig ELSE Effective(r.kind, r.spec)

\* What the annotations can express: a maximum that is set, and no pause of the
\* owner's own.
Expressible(kind, s) ==
    /\ Counts(kind) => s.max # Nil
    /\ kind = "scaledobjects" => s.switch # "on"

\* Whatever sequence of periods, edits and failures a resource goes through,
\* what its owner asked for is in its settings or in its annotations, as far as
\* these can express it and nobody damages them (the annotation manager records
\* only when nothing is recorded, and an update carries what it was made from).
OriginalKept ==
    resource.kept # "corrupt" /\ Expressible(resource.kind, owner) =>
        Original(resource) = Effective(resource.kind, owner)

\* The state a period asks of a resource of each kind.
InEffect(r, p) ==
    CASE ~Scales(p) -> ~Held(r)
      [] Scales(p) /\ r.kind = "github-ars" -> r.spec.min = p.min /\ r.spec.max = p.max
      [] Scales(p) /\ r.kind = "scaledobjects" ->
           IF p.type = "down" /\ p.min = 0 THEN r.spec.switch = "on"
           ELSE r.spec.min = p.min /\ r.spec.max = p.max /\ r.spec.switch # "on"
      [] Scales(p) /\ r.kind \in {"cronjobs", "cnpg-clusters"} ->
           (r.spec.switch = "on") <=> p.type = "down"

\* A resource that a pass does not list as failed is in the state the period of
\* that pass asks for, whatever periods came before (a pause is lifted, a
\* hibernated cluster resumed), until its owner changes it again: the status of
\* the scaler does not claim what is not so.
ReportHonest == result \in {"success", "restored"} => InEffect(resource, period)

\* No step of a scaler drops or replaces an original value that cannot be
\* parsed: the resource stays held, and listed as failed, until it is repaired.
CorruptedKept == [][resource.kept = "corrupt" => resource'.kept = "corrupt"]_vars

\* restoreOnDelete and the out-of-period restore promise the original state
\* (usage/_index.md, "restore resources to their original state"): a resource
\* nobody holds is what its owner asked for.  It is not: an unset maximum is
\* recorded as 0 and comes back as 0, and a pause of the owner's own is lifted.
RestoresOriginal == ~Held(resource) => Effective(resource.kind, resource.spec) =
                                         Effective(resource.kind, owner)

----
\* What a resource of a kind can be asked to be, and what annotations can express.
AnyState == [kind : Kinds, state : [min : Nat, max : Nat \cup {Nil}, on : BOOLEAN]]
Wish(kind, s) == [kind |-> kind, state |-> Effective(kind, s)]

Lending == INSTANCE Borrowing WITH
    Resources <- {"it"}, States <- AnyState,
    Recordable <- {x \in AnyState : /\ Counts(x.kind) => x.state.max # Nil
                                    /\ x.kind = "scaledobjects" => ~x.state.on},
    wish <- [r \in {"it"} |-> Wish(resource.kind, owner)],
    shown <- [r \in {"it"} |-> Wish(resource.kind, resource.spec)],
    held <- [r \in {"it"} |-> Held(resource)]

\* Whatever the kind and the strategy, the owner of a resource lends it and gets it
\* back as it was asked for, unless the annotations could not express that.
LendsResource == Lending!Spec
====
