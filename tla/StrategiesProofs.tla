---- MODULE StrategiesProofs ----
(***************************************************************************)
(* Proofs about Strategies for every set of periods and settings.          *)
(***************************************************************************)
EXTENDS Strategies, TLAPS

AnyPeriod == [type : {"down", "up", "noaction"}, min : Nat, max : Nat]

LEMMA PeriodTypes == Periods \cup {NoAction} \subseteq AnyPeriod
BY PeriodAssumption DEF AnyPeriod, NoAction

(***************************************************************************)
(* What recording and removing the original value do to a resource.        *)
(***************************************************************************)
\* Recording is idempotent, never touches the settings, and afterwards the
\* resource is held.
LEMMA Recording ==
    ASSUME NEW r \in Resources
    PROVE  /\ AddMinMaxAnnotations(r) \in Resources /\ AddBoolAnnotations(r) \in Resources
           /\ \A x \in {AddMinMaxAnnotations(r), AddBoolAnnotations(r)} :
                /\ x.kind = r.kind /\ x.spec = r.spec /\ Held(x)
                /\ Held(r) => x = r
                /\ ~Held(r) => x.kept = "kept"
           /\ ~Held(r) => AddMinMaxAnnotations(r).orig =
                            [min |-> Deref(r.spec.min), max |-> Deref(r.spec.max), on |-> FALSE]
           /\ ~Held(r) => AddBoolAnnotations(r).orig =
                            [min |-> 0, max |-> 0, on |-> r.spec.switch = "on"]
<1>1. r.spec \in AnySettings
  BY DEF Resources
<1>2. Deref(r.spec.min) \in Nat /\ Deref(r.spec.max) \in Nat
  BY <1>1 DEF AnySettings, Deref, Nil
<1>3. \A o \in [min : Nat, max : Nat, on : BOOLEAN] :
        /\ Keep(r, o) \in Resources
        /\ Keep(r, o).kind = r.kind /\ Keep(r, o).spec = r.spec /\ Held(Keep(r, o))
        /\ Held(r) => Keep(r, o) = r
        /\ ~Held(r) => Keep(r, o).kept = "kept" /\ Keep(r, o).orig = o
  BY DEF Keep, Held, Resources
<1>4. [min |-> Deref(r.spec.min), max |-> Deref(r.spec.max), on |-> FALSE]
        \in [min : Nat, max : Nat, on : BOOLEAN]
  BY <1>2
<1>5. [min |-> 0, max |-> 0, on |-> r.spec.switch = "on"] \in [min : Nat, max : Nat, on : BOOLEAN]
  OBVIOUS
<1> QED
  BY <1>3, <1>4, <1>5 DEF AddMinMaxAnnotations, AddBoolAnnotations

LEMMA Removing ==
    ASSUME NEW r \in Resources
    PROVE  /\ RemoveAnnotations(r) \in Resources
           /\ RemoveAnnotations(r).kind = r.kind /\ RemoveAnnotations(r).spec = r.spec
           /\ ~Held(RemoveAnnotations(r))
BY DEF RemoveAnnotations, Resources, NoOrig, Held

----
(***************************************************************************)
(* What each strategy does.                                                *)
(***************************************************************************)
\* A period takes hold: the resource is in the state it asks for, and what was
\* there before is recorded, once.
LEMMA Holding ==
    ASSUME NEW r \in Resources, NEW p \in AnyPeriod, Scales(p), ~Refused(r, p)
    PROVE  LET x == ApplyScaling(r, p) IN
           /\ x \in Resources /\ x.kind = r.kind /\ InEffect(x, p) /\ Held(x)
           /\ Held(r) => x.kept = r.kept /\ x.orig = r.orig
           /\ ~Held(r) /\ Expressible(r.kind, r.spec) =>
                x.kept = "kept" /\ x.orig = Effective(r.kind, r.spec)
<1> DEFINE x == ApplyScaling(r, p)
           m == AddMinMaxAnnotations(r)
           b == AddBoolAnnotations(r)
           c == SetMinMax(m, p.min, p.max)
<1>1. r.kind \in Kinds /\ r.spec \in AnySettings /\ p.min \in Nat /\ p.max \in Nat
      /\ p.type \in {"down", "up"}
  BY DEF Resources, AnyPeriod, Scales
<1>2. /\ m \in Resources /\ m.kind = r.kind /\ m.spec = r.spec /\ Held(m)
      /\ Held(r) => m.kept = r.kept /\ m.orig = r.orig
      /\ ~Held(r) => /\ m.kept = "kept"
                     /\ m.orig = [min |-> Deref(r.spec.min), max |-> Deref(r.spec.max), on |-> FALSE]
  BY Recording
<1>3. /\ b \in Resources /\ b.kind = r.kind /\ b.spec = r.spec /\ Held(b)
      /\ Held(r) => b.kept = r.kept /\ b.orig = r.orig
      /\ ~Held(r) => /\ b.kept = "kept"
                     /\ b.orig = [min |-> 0, max |-> 0, on |-> r.spec.switch = "on"]
  BY Recording
<1>4. /\ c \in Resources /\ c.kind = r.kind /\ c.kept = m.kept /\ c.orig = m.orig
      /\ c.spec.min = p.min /\ c.spec.max = p.max
  BY <1>1, <1>2 DEF SetMinMax, Resources, AnySettings
<1>5. ASSUME ~Held(r), Expressible(r.kind, r.spec), Counts(r.kind)
      PROVE  m.orig = Effective(r.kind, r.spec)
  <2>1. Deref(r.spec.max) = r.spec.max
    BY <1>5 DEF Expressible, Deref
  <2>2. ~(Switches(r.kind) /\ r.spec.switch = "on")
    BY <1>1, <1>5 DEF Expressible, Counts, Switches, Kinds
  <2> QED
    BY <1>2, <1>5, <2>1, <2>2 DEF Effective
<1>6. ASSUME ~Held(r), ~Counts(r.kind)
      PROVE  b.orig = Effective(r.kind, r.spec)
  <2>1. Switches(r.kind)
    BY <1>1, <1>6 DEF Counts, Switches, Kinds
  <2> QED
    BY <1>3, <1>6, <2>1 DEF Effective
<1>7. CASE r.kind = "github-ars"
  <2>1. x = c /\ Counts(r.kind)
    BY <1>7 DEF ApplyScaling, MinMaxReplicas, Counts
  <2>2. InEffect(c, p)
    BY <1>4, <1>7 DEF InEffect
  <2> QED
    BY <1>2, <1>4, <1>5, <2>1, <2>2 DEF Held
<1>8. CASE r.kind = "scaledobjects"
  <2>1. x = KedaPause(r, p) /\ Counts(r.kind)
    BY <1>8 DEF ApplyScaling, Counts
  <2>2. CASE p.type = "down" /\ p.min = 0
    <3>1. x = Switch(m, "on")
      BY <2>1, <2>2 DEF KedaPause
    <3>2. /\ x \in Resources /\ x.kind = r.kind /\ x.kept = m.kept /\ x.orig = m.orig
          /\ x.spec.switch = "on"
      BY <1>2, <3>1 DEF Switch, Resources, AnySettings
    <3>3. InEffect(x, p)
      BY <1>8, <2>2, <3>2 DEF InEffect
    <3> QED
      BY <1>2, <1>5, <2>1, <3>2, <3>3 DEF Held
  <2>3. CASE ~(p.type = "down" /\ p.min = 0)
    <3>1. x = Switch(c, "absent")
      BY <2>1, <2>3 DEF KedaPause, KedaScaling
    <3>2. /\ x \in Resources /\ x.kind = r.kind /\ x.kept = m.kept /\ x.orig = m.orig
          /\ x.spec.min = p.min /\ x.spec.max = p.max /\ x.spec.switch = "absent"
      BY <1>4, <3>1 DEF Switch, Resources, AnySettings
    <3>3. InEffect(x, p)
      BY <1>8, <2>3, <3>2 DEF InEffect
    <3> QED
      BY <1>2, <1>5, <2>1, <3>2, <3>3 DEF Held
  <2> QED
    BY <2>2, <2>3
<1>9. CASE r.kind = "cronjobs"
  <2>1. x = Switch(b, "on") /\ ~Counts(r.kind) /\ p.type = "down"
    BY <1>1, <1>9 DEF ApplyScaling, BoolSuspend, Counts, Refused
  <2>2. /\ x \in Resources /\ x.kind = r.kind /\ x.kept = b.kept /\ x.orig = b.orig
        /\ x.spec.switch = "on"
    BY <1>3, <2>1 DEF Switch, Resources, AnySettings
  <2>3. InEffect(x, p)
    BY <1>9, <2>1, <2>2 DEF InEffect
  <2> QED
    BY <1>3, <1>6, <2>1, <2>2, <2>3 DEF Held
<1>10. CASE r.kind = "cnpg-clusters"
  <2> DEFINE value == IF p.type = "down" THEN "on" ELSE "off"
  <2>1. x = Switch(b, value) /\ ~Counts(r.kind)
    BY <1>10 DEF ApplyScaling, CNPGHibernate, Counts
  <2>2. /\ x \in Resources /\ x.kind = r.kind /\ x.kept = b.kept /\ x.orig = b.orig
        /\ x.spec.switch = value
    BY <1>3, <2>1 DEF Switch, Resources, AnySettings
  <2>3. InEffect(x, p)
    BY <1>10, <2>2 DEF InEffect
  <2> QED
    BY <1>3, <1>6, <2>1, <2>2, <2>3 DEF Held
<1> QED
  BY <1>1, <1>7, <1>8, <1>9, <1>10 DEF Kinds

\* Restoring inverts holding: the resource is nobody's, and what was recorded
\* of settings that can be expressed is what its settings amount to again.
LEMMA Restoring ==
    ASSUME NEW r \in Resources, NEW p \in AnyPeriod, ~Scales(p)
    PROVE  LET x == ApplyScaling(r, p) IN
           /\ x \in Resources /\ x.kind = r.kind /\ InEffect(x, p) /\ ~Held(x)
           /\ \A s \in AnySettings : Expressible(r.kind, s) /\ r.orig = Effective(r.kind, s) =>
                Effective(x.kind, x.spec) = r.orig
<1> DEFINE x == ApplyScaling(r, p)
           a == RemoveAnnotations(r)
           c == SetMinMax(a, r.orig.min, r.orig.max)
<1>1. r.kind \in Kinds /\ r.orig \in [min : Nat, max : Nat, on : BOOLEAN]
  BY DEF Resources
<1>2. a \in Resources /\ a.kind = r.kind /\ ~Held(a)
  BY Removing
<1>3. /\ c \in Resources /\ c.kind = r.kind /\ c.kept = a.kept
      /\ c.spec.min = r.orig.min /\ c.spec.max = r.orig.max
  BY <1>1, <1>2 DEF SetMinMax, Resources, AnySettings
<1>4. InEffect(x, p) <=> ~Held(x)
  BY DEF InEffect, Scales
<1>5. \A n \in Nat : Deref(n) = n
  BY DEF Deref, Nil
<1>6. CASE r.kind = "github-ars"
  <2>1. x = c
    BY <1>6 DEF ApplyScaling, MinMaxReplicas
  <2>2. ~Held(x)
    BY <1>2, <1>3, <2>1 DEF Held
  <2>3. ASSUME NEW s \in AnySettings, r.orig = Effective(r.kind, s)
        PROVE  Effective(x.kind, x.spec) = r.orig
    BY <1>1, <1>3, <1>5, <1>6, <2>1, <2>3 DEF Effective, Counts, Switches
  <2> QED
    BY <1>3, <1>4, <2>1, <2>2, <2>3
<1>7. CASE r.kind = "scaledobjects"
  <2>1. x = Switch(c, "absent")
    BY <1>7 DEF ApplyScaling, KedaPause, Scales
  <2>2. /\ x \in Resources /\ x.kind = r.kind /\ x.kept = a.kept
        /\ x.spec.min = r.orig.min /\ x.spec.max = r.orig.max /\ x.spec.switch = "absent"
    BY <1>3, <2>1 DEF Switch, Resources, AnySettings
  <2>3. ~Held(x)
    BY <1>2, <2>2 DEF Held
  <2>4. ASSUME NEW s \in AnySettings, Expressible(r.kind, s), r.orig = Effective(r.kind, s)
        PROVE  Effective(x.kind, x.spec) = r.orig
    BY <1>1, <1>5, <1>7, <2>2, <2>4 DEF Effective, Expressible, Counts, Switches
  <2> QED
    BY <1>4, <2>2, <2>3, <2>4
<1>8. CASE r.kind \in {"cronjobs", "cnpg-clusters"}
  <2>1. PICK value \in {"absent", "on", "off"} :
          x = Switch(a, value) /\ (value = "on" <=> r.orig.on)
    BY <1>1, <1>8 DEF ApplyScaling, BoolSuspend, CNPGHibernate
  <2>2. /\ x \in Resources /\ x.kind = r.kind /\ x.kept = a.kept
        /\ x.spec.switch = value
    BY <1>2, <2>1 DEF Switch, Resources, AnySettings
  <2>3. ~Held(x)
    BY <1>2, <2>2 DEF Held
  <2>4. ASSUME NEW s \in AnySettings, r.orig = Effective(r.kind, s)
        PROVE  Effective(x.kind, x.spec) = r.orig
    <3>1. ~Counts(x.kind) /\ Switches(x.kind)
      BY <1>8, <2>2 DEF Counts, Switches
    <3>2. r.orig.min = 0 /\ r.orig.max = 0
      BY <2>2, <2>4, <3>1 DEF Effective
    <3>3. (Switches(x.kind) /\ x.spec.switch = "on") = r.orig.on
      <4>1. r.orig.on \in BOOLEAN
        BY <1>1
      <4>2. x.spec.switch = "on" <=> r.orig.on
        BY <2>1, <2>2
      <4> QED
        BY <3>1, <4>1, <4>2
    <3>4. r.orig = [min |-> r.orig.min, max |-> r.orig.max, on |-> r.orig.on]
      BY <1>1
    <3> QED
      BY <3>1, <3>2, <3>3, <3>4 DEF Effective
  <2> QED
    BY <1>4, <2>2, <2>3, <2>4
<1> QED
  BY <1>1, <1>6, <1>7, <1>8 DEF Kinds

----
(***************************************************************************)
(* Type correctness.                                                       *)
(***************************************************************************)
\* TypeOK holds in every state: a scaler records and writes numbers, never the
\* absence of one, whatever the owner left unset.
THEOREM TypeCorrect == Spec => []TypeOK
<1>1. Init => TypeOK
  <2> SUFFICES ASSUME Init PROVE TypeOK
    OBVIOUS
  <2>1. owner \in Settings /\ owner \in AnySettings /\ NoOrig \in [min : Nat, max : Nat, on : BOOLEAN]
    BY SettingsAssumption DEF Init, SettingsOf, NoOrig
  <2>2. resource \in Resources
    BY <2>1 DEF Init, Resources
  <2> QED
    BY <2>1, <2>2, BoundAssumption DEF Init, TypeOK, Results
<1>2. TypeOK /\ [Next]_vars => TypeOK'
  <2> SUFFICES ASSUME TypeOK, [Next]_vars PROVE TypeOK'
    OBVIOUS
  <2> USE BoundAssumption DEF TypeOK, Results
  <2>1. Fault => faults' \in 0 .. MaxFaults
    BY DEF Fault
  <2>2. Edited => edits' \in 0 .. MaxEdits
    BY DEF Edited
  <2>3. CASE Get
    BY <2>1, <2>3 DEF Get
  <2>4. CASE Update
    <3>1. read \in Resources /\ period \in AnyPeriod
      BY PeriodTypes
    <3>2. Scales(period) /\ ~Refused(read, period) => ApplyScaling(read, period) \in Resources
      BY <3>1, Holding
    <3>3. ~Scales(period) => ApplyScaling(read, period) \in Resources
      BY <3>1, Restoring
    <3>4. resource' \in Resources
      BY <2>4, <3>2, <3>3 DEF Update
    <3> QED
      BY <2>1, <2>4, <3>4 DEF Update
  <2>5. CASE OwnerEdits
    <3>1. resource' \in Resources /\ owner' \in Settings
      BY <2>5, SettingsAssumption DEF OwnerEdits, SettingsOf, Resources
    <3> QED
      BY <2>2, <2>5, <3>1 DEF OwnerEdits, Edited
  <2>6. CASE OwnerCorrupts
    <3>1. resource' \in Resources
      BY <2>6 DEF OwnerCorrupts, Resources
    <3> QED
      BY <2>2, <2>6, <3>1 DEF OwnerCorrupts, Edited
  <2>7. CASE UNCHANGED vars
    BY <2>7 DEF vars
  <2> QED
    BY <2>3, <2>4, <2>5, <2>6, <2>7 DEF Next
<1> QED
  BY <1>1, <1>2, PTL DEF Spec

----
(***************************************************************************)
(* The owner's settings survive, and what is reported is so.               *)
(***************************************************************************)
\* What ties the read of a running pass to the API server: it is what is there
\* when nobody wrote since; and only passes take hold of a resource or let go.
ReadCurrent ==
    result = "running" => /\ current => read = resource
                          /\ Held(read) <=> Held(resource)

Inv == OriginalKept /\ ReportHonest /\ ReadCurrent

LEMMA InvInit == Init => Inv
BY DEF Init, Inv, OriginalKept, ReportHonest, ReadCurrent, Original, Held

\* The step of Inv when the update is stored.
LEMMA StoreKeeps ==
    ASSUME TypeOK, Inv, result = "running", Accepted, owner' = owner, period' = period,
           ~Refused(read, period), ~AlreadyRestored(read, period),
           resource' = ApplyScaling(read, period)
    PROVE  /\ OriginalKept' /\ InEffect(resource', period)
           /\ resource.kept = "corrupt" => resource'.kept = "corrupt"
<1>1. /\ resource \in Resources /\ period \in AnyPeriod /\ owner \in AnySettings
      /\ read = resource
  BY PeriodTypes, SettingsAssumption DEF TypeOK, Inv, ReadCurrent, Accepted
<1>2. CASE Scales(period)
  <2>1. /\ resource'.kind = resource.kind /\ InEffect(resource', period) /\ Held(resource')
        /\ Held(resource) => resource'.kept = resource.kept /\ resource'.orig = resource.orig
        /\ ~Held(resource) /\ Expressible(resource.kind, resource.spec) =>
             resource'.kept = "kept" /\ resource'.orig = Effective(resource.kind, resource.spec)
    BY <1>1, <1>2, Holding
  <2>2. CASE Held(resource)
    BY <2>1, <2>2 DEF Inv, OriginalKept, Original
  <2>3. CASE ~Held(resource)
    <3>1. ASSUME Expressible(resource.kind, owner)
          PROVE  /\ Effective(resource.kind, resource.spec) = Effective(resource.kind, owner)
                 /\ Expressible(resource.kind, resource.spec)
      <4>1. Effective(resource.kind, resource.spec) = Effective(resource.kind, owner)
        BY <2>3, <3>1 DEF Inv, OriginalKept, Original, Held
      <4>2. /\ Counts(resource.kind) => resource.spec.max = owner.max
            /\ Switches(resource.kind) => (resource.spec.switch = "on" <=> owner.switch = "on")
        <5>1. Effective(resource.kind, resource.spec).max = Effective(resource.kind, owner).max
              /\ Effective(resource.kind, resource.spec).on = Effective(resource.kind, owner).on
          BY <4>1
        <5> QED
          BY <5>1 DEF Effective
      <4> QED
        BY <3>1, <4>1, <4>2 DEF Expressible, Counts, Switches
    <3>2. resource.kept # "corrupt"
      BY <2>3 DEF Held
    <3> QED
      BY <2>1, <2>3, <3>1, <3>2 DEF OriginalKept, Original, Held
  <2> QED
    BY <2>1, <2>2, <2>3 DEF Held
<1>3. CASE ~Scales(period)
  <2>1. /\ resource'.kind = resource.kind /\ InEffect(resource', period) /\ ~Held(resource')
        /\ \A s \in AnySettings :
             Expressible(resource.kind, s) /\ resource.orig = Effective(resource.kind, s) =>
               Effective(resource'.kind, resource'.spec) = resource.orig
    BY <1>1, <1>3, Restoring
  <2>2. resource.kept = "kept"
    BY <1>1, <1>3 DEF Refused, AlreadyRestored, Held, Resources
  <2>3. Expressible(resource.kind, owner) => resource.orig = Effective(resource.kind, owner)
    BY <2>2 DEF Inv, OriginalKept, Original, Held
  <2>4. OriginalKept'
    BY <1>1, <2>1, <2>3 DEF OriginalKept, Original
  <2> QED
    BY <2>1, <2>2, <2>4
<1> QED
  BY <1>2, <1>3

LEMMA InvNext == TypeOK /\ Inv /\ [Next]_vars => Inv'
<1> SUFFICES ASSUME TypeOK, Inv, [Next]_vars PROVE Inv'
  OBVIOUS
<1>1. CASE Get
  <2>1. UNCHANGED <<resource, owner>> /\ result' \in {"running", "failed"}
        /\ (result' = "running" => read' = resource)
    BY <1>1 DEF Get
  <2> QED
    BY <2>1 DEF Inv, OriginalKept, ReportHonest, ReadCurrent, Original, Held
<1>2. CASE Update
  <2>1. UNCHANGED <<owner, period, read, current>> /\ result = "running"
        /\ result' \in {"failed", "restored", "success"}
    BY <1>2 DEF Update
  <2>2. ReadCurrent'
    BY <2>1 DEF ReadCurrent
  <2>3. CASE UNCHANGED resource /\ result' = "failed"
    BY <2>1, <2>2, <2>3 DEF Inv, OriginalKept, ReportHonest
  <2>4. CASE AlreadyRestored(read, period) /\ UNCHANGED resource /\ result' = "restored"
    <3>1. ~Scales(period) /\ ~Held(resource)
      BY <2>1, <2>4 DEF AlreadyRestored, Inv, ReadCurrent
    <3>2. InEffect(resource, period)
      BY <3>1 DEF InEffect, Scales
    <3> QED
      BY <2>1, <2>2, <2>4, <3>2 DEF Inv, OriginalKept, ReportHonest
  <2>5. CASE /\ ~Refused(read, period) /\ ~AlreadyRestored(read, period) /\ Accepted
             /\ resource' = ApplyScaling(read, period)
    BY <2>1, <2>2, <2>5, StoreKeeps DEF Inv, ReportHonest
  <2> QED
    BY <1>2, <2>3, <2>4, <2>5 DEF Update
<1>3. CASE OwnerEdits
  <2>1. PICK settings \in SettingsOf(resource.kind) :
          /\ resource' = [resource EXCEPT !.spec = settings]
          /\ owner' = IF Held(resource) THEN owner ELSE settings
    BY <1>3 DEF OwnerEdits
  <2>2. /\ resource'.kind = resource.kind /\ resource'.kept = resource.kept
        /\ resource'.orig = resource.orig /\ resource'.spec = settings
    BY <2>1 DEF TypeOK, Resources
  <2>3. OriginalKept'
    BY <2>1, <2>2 DEF Inv, OriginalKept, Original, Held
  <2>4. ~current' /\ result' \notin {"success", "restored"} /\ read' = read
        /\ (result' = "running" => result = "running")
    BY <1>3 DEF OwnerEdits, Edited, Inv, ReportHonest
  <2> QED
    BY <2>2, <2>3, <2>4 DEF Inv, ReportHonest, ReadCurrent, Held
<1>4. CASE OwnerCorrupts
  <2>1. resource'.kept = "corrupt" /\ Held(resource)
    BY <1>4 DEF OwnerCorrupts, TypeOK, Resources
  <2>2. ~current' /\ result' \notin {"success", "restored"} /\ read' = read
        /\ (result' = "running" => result = "running")
    BY <1>4 DEF OwnerCorrupts, Edited
  <2> QED
    BY <2>1, <2>2 DEF Inv, OriginalKept, ReportHonest, ReadCurrent, Held
<1>5. CASE UNCHANGED vars
  BY <1>5 DEF vars, Inv, OriginalKept, ReportHonest, ReadCurrent
<1> QED
  BY <1>1, <1>2, <1>3, <1>4, <1>5 DEF Next

\* For every set of periods and settings, what the owner of a resource asked for
\* is in its settings or in its annotations, as far as these can express it.
THEOREM OriginalSafe == Spec => []OriginalKept
<1>1. Inv => OriginalKept
  BY DEF Inv
<1> QED
  BY TypeCorrect, InvInit, InvNext, <1>1, PTL DEF Spec

\* A resource that a pass does not report as failed is as its period asks.
THEOREM ReportSafe == Spec => []ReportHonest
<1>1. Inv => ReportHonest
  BY DEF Inv
<1> QED
  BY TypeCorrect, InvInit, InvNext, <1>1, PTL DEF Spec

\* No step drops an original value that cannot be parsed.
THEOREM CorruptedSafe == Spec => CorruptedKept
<1> DEFINE Kept == resource.kept = "corrupt" => resource'.kept = "corrupt"
<1>1. TypeOK /\ Inv /\ [Next]_vars => [Kept]_vars
  <2> SUFFICES ASSUME TypeOK, Inv, Next PROVE Kept
    OBVIOUS
  <2>1. CASE Get
    BY <2>1 DEF Get
  <2>2. CASE Update
    BY <2>2, StoreKeeps DEF Update
  <2>3. CASE OwnerEdits
    BY <2>3 DEF OwnerEdits, TypeOK, Resources
  <2>4. CASE OwnerCorrupts
    BY <2>4 DEF OwnerCorrupts, TypeOK, Resources
  <2> QED
    BY <2>1, <2>2, <2>3, <2>4 DEF Next
<1> QED
  BY TypeCorrect, InvInit, InvNext, <1>1, PTL DEF Spec, CorruptedKept

----
(***************************************************************************)
(* The strategies implement Borrowing.                                     *)
(***************************************************************************)
LEMMA WishType ==
    ASSUME NEW kind \in Kinds, NEW s \in AnySettings PROVE Wish(kind, s) \in AnyState
<1>1. Effective(kind, s).min \in Nat /\ Effective(kind, s).max \in Nat \cup {Nil}
  BY DEF Effective, AnySettings, Deref, Nil
<1>2. (Switches(kind) /\ s.switch = "on") \in BOOLEAN
  BY DEF Switches
<1>3. Effective(kind, s) \in [min : Nat, max : Nat \cup {Nil}, on : BOOLEAN]
  BY <1>1, <1>2 DEF Effective
<1> QED BY <1>3 DEF Wish, AnyState

\* What Borrowing calls recordable is what annotations can express.
LEMMA RecordableExpressible ==
    ASSUME NEW kind \in Kinds, NEW s \in AnySettings,
           Counts(kind) => Wish(kind, s).state.max # Nil,
           kind = "scaledobjects" => ~Wish(kind, s).state.on
    PROVE  Expressible(kind, s)
<1>1. Wish(kind, s).state = Effective(kind, s)
  BY DEF Wish
<1>2. Counts(kind) => s.max # Nil
  BY <1>1 DEF Effective
<1>3. ASSUME kind = "scaledobjects" PROVE s.switch # "on"
  <2>1. ~Effective(kind, s).on
    BY <1>1, <1>3
  <2>2. Effective(kind, s).on = (Switches(kind) /\ s.switch = "on")
    BY DEF Effective
  <2>3. Switches(kind)
    BY <1>3 DEF Switches
  <2> QED BY <2>1, <2>2, <2>3
<1> QED BY <1>2, <1>3 DEF Expressible

\* What its owner sees of a step that stores some settings in the resource.
LEMMA OneResource ==
    ASSUME resource' \in Resources, resource'.kind = resource.kind
    PROVE  /\ Lending!Set("it")
           /\ [r \in {"it"} |-> Wish(resource'.kind, resource'.spec)]["it"]
                = Wish(resource.kind, resource'.spec)
           /\ [r \in {"it"} |-> Held(resource')]
                = [[r \in {"it"} |-> Held(resource)] EXCEPT !["it"] = Held(resource')]
<1>1. resource'.kind \in Kinds /\ resource'.spec \in AnySettings
  BY DEF Resources
<1>2. Wish(resource'.kind, resource'.spec) \in AnyState
  BY <1>1, WishType
<1>3. [r \in {"it"} |-> Wish(resource'.kind, resource'.spec)]
        = [[r \in {"it"} |-> Wish(resource.kind, resource.spec)] EXCEPT
             !["it"] = Wish(resource'.kind, resource'.spec)]
  OBVIOUS
<1> QED BY <1>2, <1>3 DEF Lending!Set

\* A resource that goes unseen: its settings and its holder stay.
LEMMA Unseen ==
    ASSUME UNCHANGED owner, resource'.kind = resource.kind, resource'.spec = resource.spec,
           Held(resource') <=> Held(resource)
    PROVE  UNCHANGED Lending!vars
<1>1. Held(resource') = Held(resource)
  BY DEF Held
<1>2. [r \in {"it"} |-> Wish(resource'.kind, resource'.spec)]
        = [r \in {"it"} |-> Wish(resource.kind, resource.spec)]
  OBVIOUS
<1>3. [r \in {"it"} |-> Held(resource')] = [r \in {"it"} |-> Held(resource)]
  BY <1>1
<1>4. [r \in {"it"} |-> Wish(resource'.kind, owner')]
        = [r \in {"it"} |-> Wish(resource.kind, owner)]
  OBVIOUS
<1> QED BY <1>2, <1>3, <1>4 DEF Lending!vars

\* A stored update takes the resource or gives it back.
LEMMA StoreLends ==
    ASSUME TypeOK, Inv, result = "running", Accepted, owner' = owner, period' = period,
           ~Refused(read, period), ~AlreadyRestored(read, period),
           resource' = ApplyScaling(read, period)
    PROVE  Lending!Next
<1>1. /\ resource \in Resources /\ period \in AnyPeriod /\ owner \in AnySettings
      /\ read = resource
  BY PeriodTypes, SettingsAssumption DEF TypeOK, Inv, ReadCurrent, Accepted
<1>2. OriginalKept'
  BY StoreKeeps
<1>3. /\ resource' \in Resources /\ resource'.kind = resource.kind
      /\ Held(resource') <=> Scales(period)
  BY <1>1, Holding, Restoring
<1>4. /\ Lending!Set("it")
      /\ [r \in {"it"} |-> Held(resource')]
           = [[r \in {"it"} |-> Held(resource)] EXCEPT !["it"] = Held(resource')]
  BY <1>3, OneResource
<1>5. [r \in {"it"} |-> Wish(resource'.kind, owner')] = [r \in {"it"} |-> Wish(resource.kind, owner)]
  BY <1>3
<1>6. CASE Scales(period)
  <2>1. Held(resource') = TRUE
    BY <1>3, <1>6 DEF Held
  <2>2. Lending!Hold("it")
    BY <1>4, <1>5, <2>1 DEF Lending!Hold
  <2> QED BY <2>2 DEF Lending!Next
<1>7. CASE ~Scales(period)
  <2>1. Held(resource') = FALSE /\ Held(resource) = TRUE /\ resource'.kept = "none"
    BY <1>1, <1>3, <1>7 DEF AlreadyRestored, Held
  <2>2. ASSUME Counts(resource.kind) => Wish(resource.kind, owner).state.max # Nil,
               resource.kind = "scaledobjects" => ~Wish(resource.kind, owner).state.on
        PROVE  Wish(resource'.kind, resource'.spec) = Wish(resource.kind, owner)
    <3>1. Expressible(resource.kind, owner)
      BY <1>1, <2>2, RecordableExpressible DEF Resources
    <3>2. Effective(resource'.kind, resource'.spec) = Effective(resource.kind, owner)
      BY <1>2, <1>3, <2>1, <3>1 DEF OriginalKept, Original
    <3> QED BY <1>3, <3>2 DEF Wish
  <2>3. Wish(resource.kind, owner).kind = resource.kind
    BY DEF Wish
  <2>4. Lending!Release("it")
    BY <1>4, <1>5, <2>1, <2>2, <2>3 DEF Lending!Release
  <2> QED BY <2>4 DEF Lending!Next
<1> QED BY <1>6, <1>7

\* Whatever periods and failures a resource goes through, its owner lends it and
\* gets back what was asked for, as far as annotations can express it.
THEOREM Lends == Spec => LendsResource
<1>1. ASSUME Init PROVE Lending!Init
  <2>1. PICK kind \in Kinds :
          /\ owner \in SettingsOf(kind)
          /\ resource = [kind |-> kind, spec |-> owner, kept |-> "none", orig |-> NoOrig]
    BY <1>1 DEF Init
  <2>2. owner \in AnySettings
    BY <2>1, SettingsAssumption DEF SettingsOf
  <2>3. Wish(resource.kind, owner) \in AnyState
    BY <2>1, <2>2, WishType
  <2>4. Held(resource) = FALSE /\ resource.spec = owner
    BY <2>1 DEF Held
  <2> QED BY <2>3, <2>4 DEF Lending!Init
<1>2. ASSUME TypeOK, Inv, [Next]_vars PROVE [Lending!Next]_(Lending!vars)
  <2> USE <1>2
  <2>1. ASSUME UNCHANGED <<resource, owner>> PROVE UNCHANGED Lending!vars
    BY <2>1, Unseen
  <2>2. CASE Get \/ UNCHANGED vars
    BY <2>1, <2>2 DEF Get, vars
  <2>3. CASE Update
    <3>1. CASE UNCHANGED resource
      BY <2>1, <2>3, <3>1 DEF Update
    <3>2. CASE /\ ~Refused(read, period) /\ ~AlreadyRestored(read, period) /\ Accepted
               /\ resource' = ApplyScaling(read, period)
      BY <2>3, <3>2, StoreLends DEF Update
    <3> QED BY <2>3, <3>1, <3>2 DEF Update
  <2>4. CASE OwnerEdits
    <3>1. PICK settings \in SettingsOf(resource.kind) :
            /\ resource' = [resource EXCEPT !.spec = settings]
            /\ owner' = IF Held(resource) THEN owner ELSE settings
      BY <2>4 DEF OwnerEdits
    <3>2. settings \in AnySettings
      BY SettingsAssumption DEF SettingsOf
    <3>3. /\ resource' \in Resources /\ resource'.kind = resource.kind
          /\ resource'.spec = settings /\ resource'.kept = resource.kept
      BY <3>1, <3>2 DEF TypeOK, Resources
    <3>4. Held(resource') = Held(resource)
      BY <3>3 DEF Held
    <3>5. Lending!Set("it")
      BY <3>3, OneResource
    <3>6. [r \in {"it"} |-> Wish(resource'.kind, owner')]
            = IF Held(resource) THEN [r \in {"it"} |-> Wish(resource.kind, owner)]
              ELSE [[r \in {"it"} |-> Wish(resource.kind, owner)] EXCEPT
                      !["it"] = Wish(resource'.kind, resource'.spec)]
      BY <3>1, <3>3
    <3>7. Lending!OwnerSets("it")
      BY <3>4, <3>5, <3>6 DEF Lending!OwnerSets
    <3> QED BY <3>7 DEF Lending!Next
  <2>5. CASE OwnerCorrupts
    <3>1. /\ Held(resource) /\ owner' = owner
          /\ resource' = [resource EXCEPT !.kept = "corrupt"]
      BY <2>5 DEF OwnerCorrupts
    <3>2. /\ resource'.kind = resource.kind /\ resource'.spec = resource.spec
          /\ resource'.kept = "corrupt"
      BY <3>1 DEF TypeOK, Resources
    <3>3. Held(resource')
      BY <3>2 DEF Held
    <3> QED BY <3>1, <3>2, <3>3, Unseen
  <2> QED
    BY <2>2, <2>3, <2>4, <2>5 DEF Next
<1> QED
  BY <1>1, <1>2, TypeCorrect, InvInit, InvNext, PTL DEF Spec, LendsResource, Lending!Spec

\* What BorrowingProofs says of every lender, for the strategies.
Lent == INSTANCE BorrowingProofs WITH
    Resources <- {"it"}, States <- AnyState,
    Recordable <- {x \in AnyState : /\ Counts(x.kind) => x.state.max # Nil
                                    /\ x.kind = "scaledobjects" => ~x.state.on},
    wish <- [r \in {"it"} |-> Wish(resource.kind, owner)],
    shown <- [r \in {"it"} |-> Wish(resource.kind, resource.spec)],
    held <- [r \in {"it"} |-> Held(resource)]

\* RestoresOriginal holds of every wish that annotations can express: a resource
\* nobody holds amounts to what its owner asked for, whatever was edited, damaged,
\* repaired or failed meanwhile.
THEOREM RestoresExpressible ==
    Spec => [](Expressible(resource.kind, owner) => RestoresOriginal)
<1>1. Lending!Init => Lent!Init
  BY DEF Lending!Init, Lent!Init
<1>2. [Lending!Next]_(Lending!vars) => [Lent!Next]_(Lent!vars)
  BY DEF Lending!Next, Lending!vars, Lending!OwnerSets, Lending!Hold, Lending!Release, Lending!Set,
         Lent!Next, Lent!vars, Lent!OwnerSets, Lent!Hold, Lent!Release, Lent!Set
<1>3. Lending!Spec => Lent!Spec
  BY <1>1, <1>2, PTL DEF Lending!Spec, Lent!Spec
<1>4. TypeOK /\ Lent!GivenBack => (Expressible(resource.kind, owner) => RestoresOriginal)
  <2> SUFFICES ASSUME TypeOK, Lent!GivenBack, Expressible(resource.kind, owner), ~Held(resource)
               PROVE  Effective(resource.kind, resource.spec) = Effective(resource.kind, owner)
    BY DEF RestoresOriginal
  <2> DEFINE wished == Wish(resource.kind, owner)
  <2>1. resource.kind \in Kinds /\ owner \in AnySettings
    BY SettingsAssumption DEF TypeOK, Resources
  <2>2. wished \in AnyState /\ wished.kind = resource.kind
        /\ wished.state = Effective(resource.kind, owner)
    BY <2>1, WishType DEF Wish
  <2>3. Counts(wished.kind) => wished.state.max # Nil
    BY <2>2 DEF Expressible, Effective
  <2>4. ASSUME wished.kind = "scaledobjects" PROVE ~wished.state.on
    <3>1. wished.state.on = (Switches(resource.kind) /\ owner.switch = "on")
      BY <2>2 DEF Effective
    <3>2. owner.switch # "on"
      BY <2>2, <2>4 DEF Expressible
    <3> HIDE DEF wished
    <3> QED BY <3>1, <3>2
  <2>5. Wish(resource.kind, resource.spec) = wished
    <3> HIDE DEF wished
    <3>1. Wish(resource.kind, owner) = wished
      BY DEF wished
    <3> QED BY <2>2, <2>3, <2>4, <3>1 DEF Lent!GivenBack
  <2> QED BY <2>2, <2>5 DEF Wish
<1>5. Lent!Spec => []Lent!GivenBack
  BY Lent!AlwaysGivenBack
<1> QED
  BY <1>3, <1>4, <1>5, Lends, TypeCorrect, PTL DEF LendsResource
====
