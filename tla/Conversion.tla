---- MODULE Conversion ----
(***************************************************************************)
(* The conversion webhooks: what a client of v1alpha1 or v1alpha2 reads    *)
(* of a stored K8s or Gcp (ConvertFrom) and what is stored of what it      *)
(* sends (ConvertTo).  The hub, v1alpha3, is what is stored.               *)
(*                                                                         *)
(* A hub object is [spec, notes]: the conversion annotations in notes keep *)
(* what one version has and the other has not.  Only the fields whose way  *)
(* is not plain copying are named here; an EXCEPT copies all the others.   *)
(* spec.resources.names of a Gcp, which no pass reads, is left out.        *)
(***************************************************************************)
EXTENDS Integers

\* A string, a list or a note that is not there.
Unset == ""

NoNotes == [excludeResources |-> Unset, defaultPeriodType |-> Unset]

\* setConversionAnnotation: the empty value is not written over what is there.
SetNote(notes, key, value) ==
    IF value = Unset THEN notes ELSE [notes EXCEPT ![key] = value]

\* getConversionAnnotation reads and removes.
RemoveNote(notes, key) == [notes EXCEPT ![key] = Unset]

----
(***************************************************************************)
(* v1alpha1.  A view is [spec, legacy, notes]: legacy is a field of        *)
(* v1alpha1 only (excludeResources; deploymentTimeAnnotation of a Gcp goes *)
(* the same way), and the view's spec has no field of the hub only.        *)
(***************************************************************************)
\* K8s.ConvertFrom: spec.resources.names is not carried.
K8sFromHub(o) ==
    [spec   |-> [o.spec EXCEPT !.names = {}],
     legacy |-> o.notes["excludeResources"],
     notes  |-> RemoveNote(o.notes, "excludeResources")]

\* K8s.ConvertTo
K8sToHub(v) ==
    [spec  |-> [v.spec EXCEPT !.names = {}],
     notes |-> SetNote(v.notes, "excludeResources", v.legacy)]

\* Mutant: defaultPeriodType is not noted.
GcpFromHub_ForgetsDefault(o) ==
    [spec   |-> [o.spec EXCEPT !.defaultPeriodType = Unset],
     legacy |-> o.notes["excludeResources"],
     notes  |-> RemoveNote(o.notes, "excludeResources")]

\* Gcp.ConvertFrom: defaultPeriodType becomes a note.
GcpFromHub(o) ==
    [spec   |-> [o.spec EXCEPT !.defaultPeriodType = Unset],
     legacy |-> o.notes["excludeResources"],
     notes  |-> SetNote(RemoveNote(o.notes, "excludeResources"),
                        "defaultPeriodType", o.spec.defaultPeriodType)]

\* Mutant: the field the view has not stays empty.
GcpToHub_NoDefault(v) ==
    [spec  |-> v.spec,
     notes |-> SetNote(RemoveNote(v.notes, "defaultPeriodType"), "excludeResources", v.legacy)]

\* Gcp.ConvertTo: a note that is missing makes it "down".
GcpToHub(v) ==
    LET kept == v.notes["defaultPeriodType"] IN
    [spec  |-> [v.spec EXCEPT !.defaultPeriodType = IF kept = Unset THEN "down" ELSE kept],
     notes |-> SetNote(RemoveNote(v.notes, "defaultPeriodType"), "excludeResources", v.legacy)]

----
(***************************************************************************)
(* v1alpha2 has every field of the hub: specs are copied field by field,   *)
(* and the metadata with its notes as it is.                               *)
(***************************************************************************)
K8sFromHub2(o) == [spec |-> o.spec, notes |-> o.notes]
K8sToHub2(v)   == [spec |-> v.spec, notes |-> v.notes]
GcpFromHub2(o) == [spec |-> o.spec, notes |-> o.notes]
GcpToHub2(v)   == [spec |-> v.spec, notes |-> v.notes]
====
