---- MODULE ConversionProofs ----
(***************************************************************************)
(* What survives a client of another version that reads an object and      *)
(* writes it back unchanged, as every update through that version does.    *)
(***************************************************************************)
EXTENDS Conversion, TLAPS

CONSTANTS Specs,   \* everything in a spec but the two fields named below
          Names,   \* what spec.resources.names may hold
          Strings  \* strings, and lists in their encoding

Texts == Strings \cup {Unset}

Notes == [{"excludeResources", "defaultPeriodType"} -> Texts]

\* What the hub stores of a K8s and of a Gcp.
K8sHub == [spec : [rest : Specs, names : Names], notes : Notes]
GcpHub == [spec : [rest : Specs, defaultPeriodType : Texts], notes : Notes]

\* What a client of v1alpha1 sends: nothing in the fields it does not have,
\* and the note of its own field never in its hands.
K8sView == [spec   : [rest : Specs, names : {{}}],
            legacy : Texts,
            notes  : {n \in Notes : n["excludeResources"] = Unset}]
GcpView == [spec   : [rest : Specs, defaultPeriodType : {Unset}],
            legacy : Texts,
            notes  : {n \in Notes : n["excludeResources"] = Unset}]

----
\* setConversionAnnotation and getConversionAnnotation are inverses: a value
\* that is taken out of the notes and put back leaves them as they were.
LEMMA RemoveThenSet ==
    ASSUME NEW notes \in Notes, NEW key \in DOMAIN notes
    PROVE  SetNote(RemoveNote(notes, key), key, notes[key]) = notes
<1>1. CASE notes[key] = Unset
    BY <1>1 DEF SetNote, RemoveNote, Notes
<1>2. CASE notes[key] # Unset
    BY <1>2 DEF SetNote, RemoveNote, Notes
<1> QED BY <1>1, <1>2

----
\* A K8s that a v1alpha1 client reads and writes back (k8s_conversion.go) is as
\* it was, but for spec.resources.names, which is lost: the pass that follows
\* works on everything the selector matches.
THEOREM K8sRoundTrip ==
    ASSUME NEW o \in K8sHub
    PROVE  K8sToHub(K8sFromHub(o)) = [o EXCEPT !.spec.names = {}]
<1>1. SetNote(RemoveNote(o.notes, "excludeResources"), "excludeResources",
              o.notes["excludeResources"]) = o.notes
    BY RemoveThenSet DEF K8sHub, Notes
<1>2. K8sToHub(K8sFromHub(o))
        = [spec |-> [[o.spec EXCEPT !.names = {}] EXCEPT !.names = {}], notes |-> o.notes]
    BY <1>1 DEF K8sToHub, K8sFromHub
<1>3. [[o.spec EXCEPT !.names = {}] EXCEPT !.names = {}] = [o.spec EXCEPT !.names = {}]
    BY DEF K8sHub
<1> QED BY <1>2, <1>3 DEF K8sHub

\* What a v1alpha1 client sends of a K8s is what it reads afterwards, the
\* field that only its version has included.
THEOREM K8sViewRoundTrip ==
    ASSUME NEW v \in K8sView
    PROVE  K8sFromHub(K8sToHub(v)) = v
<1> DEFINE stored == SetNote(v.notes, "excludeResources", v.legacy)
<1>0. /\ v.notes \in Notes
      /\ v.notes["excludeResources"] = Unset
      /\ v.legacy \in Texts
      /\ v.spec \in [rest : Specs, names : {{}}]
      /\ v = [spec |-> v.spec, legacy |-> v.legacy, notes |-> v.notes]
    BY DEF K8sView
<1>1. stored["excludeResources"] = v.legacy
  <2>1. CASE v.legacy = Unset
    BY <1>0, <2>1 DEF SetNote
  <2>2. CASE v.legacy # Unset
    BY <1>0, <2>2 DEF SetNote, Notes
  <2> QED BY <2>1, <2>2
<1>2. RemoveNote(stored, "excludeResources") = v.notes
  <2>1. CASE v.legacy = Unset
    BY <1>0, <2>1 DEF SetNote, RemoveNote, Notes
  <2>2. CASE v.legacy # Unset
    BY <1>0, <2>2 DEF SetNote, RemoveNote, Notes
  <2> QED BY <2>1, <2>2
<1>3. [v.spec EXCEPT !.names = {}] = v.spec
    BY <1>0
<1> QED BY <1>0, <1>1, <1>2, <1>3 DEF K8sFromHub, K8sToHub

\* A Gcp that the hub defaulted (defaultPeriodType is never empty there, and
\* its note belongs to views) loses nothing that a pass reads to a v1alpha1
\* client that reads it and writes it back (gcp_conversion.go).
THEOREM GcpRoundTrip ==
    ASSUME NEW o \in GcpHub,
           o.spec.defaultPeriodType # Unset,
           o.notes["defaultPeriodType"] = Unset
    PROVE  GcpToHub(GcpFromHub(o)) = o
<1> DEFINE type == o.spec.defaultPeriodType
           bare == RemoveNote(o.notes, "excludeResources")
           sent == SetNote(bare, "defaultPeriodType", type)
<1>0. /\ o.notes \in Notes
      /\ type \in Texts
      /\ o = [spec |-> o.spec, notes |-> o.notes]
    BY DEF GcpHub
<1>1. bare \in Notes /\ bare["defaultPeriodType"] = Unset
    BY <1>0 DEF RemoveNote, Notes, Texts
<1>2. sent["defaultPeriodType"] = type
    BY <1>1 DEF SetNote, Notes
<1>3. RemoveNote(sent, "defaultPeriodType") = bare
    BY <1>1 DEF SetNote, RemoveNote, Notes
<1>4. SetNote(bare, "excludeResources", o.notes["excludeResources"]) = o.notes
    BY <1>0, RemoveThenSet DEF Notes
<1>5. [[o.spec EXCEPT !.defaultPeriodType = Unset] EXCEPT !.defaultPeriodType = type] = o.spec
    BY DEF GcpHub
<1>6. GcpToHub(GcpFromHub(o))
        = [spec  |-> [[o.spec EXCEPT !.defaultPeriodType = Unset] EXCEPT !.defaultPeriodType = type],
           notes |-> SetNote(bare, "excludeResources", o.notes["excludeResources"])]
    BY <1>2, <1>3 DEF GcpToHub, GcpFromHub
<1> QED BY <1>0, <1>4, <1>5, <1>6

\* What a v1alpha1 client sends of a Gcp is what it reads afterwards, its own field
\* included: ConvertTo removes the note it uses and ConvertFrom writes it again.  A
\* client that sent no note reads one from then on, with the type ConvertTo chose.
THEOREM GcpViewRoundTrip ==
    ASSUME NEW v \in GcpView
    PROVE  GcpFromHub(GcpToHub(v))
             = [v EXCEPT !.notes = [v.notes EXCEPT !["defaultPeriodType"] =
                                      IF @ = Unset THEN "down" ELSE @]]
<1> DEFINE kept == v.notes["defaultPeriodType"]
           type == IF kept = Unset THEN "down" ELSE kept
           bare == RemoveNote(v.notes, "defaultPeriodType")
           stored == SetNote(bare, "excludeResources", v.legacy)
<1>0. /\ v.notes \in Notes
      /\ v.notes["excludeResources"] = Unset
      /\ v.legacy \in Texts
      /\ v.spec \in [rest : Specs, defaultPeriodType : {Unset}]
      /\ v = [spec |-> v.spec, legacy |-> v.legacy, notes |-> v.notes]
    BY DEF GcpView
<1>1. /\ bare \in Notes /\ bare["excludeResources"] = Unset
      /\ bare = [v.notes EXCEPT !["defaultPeriodType"] = Unset]
    BY <1>0 DEF RemoveNote, Notes, Texts
<1>2. type # Unset
    BY DEF Unset
<1>3. stored["excludeResources"] = v.legacy /\ RemoveNote(stored, "excludeResources") = bare
  <2> HIDE DEF bare
  <2>1. CASE v.legacy = Unset
    BY <1>1, <2>1 DEF SetNote, RemoveNote, Notes
  <2>2. CASE v.legacy # Unset
    BY <1>1, <2>2 DEF SetNote, RemoveNote, Notes
  <2> QED BY <2>1, <2>2
<1>4. SetNote(bare, "defaultPeriodType", type) = [v.notes EXCEPT !["defaultPeriodType"] = type]
  <2>1. SetNote(bare, "defaultPeriodType", type) = [bare EXCEPT !["defaultPeriodType"] = type]
    BY <1>2 DEF SetNote
  <2> QED BY <1>0, <1>1, <2>1 DEF Notes
<1> DEFINE spec == [v.spec EXCEPT !.defaultPeriodType = type]
<1>5. GcpToHub(v) = [spec |-> spec, notes |-> stored]
    BY DEF GcpToHub
<1>6. spec.defaultPeriodType = type /\ [spec EXCEPT !.defaultPeriodType = Unset] = v.spec
    BY <1>0
<1> HIDE DEF stored, bare, type, spec
<1>7. GcpFromHub(GcpToHub(v))
        = [spec |-> v.spec, legacy |-> v.legacy,
           notes |-> SetNote(bare, "defaultPeriodType", type)]
  <2>1. GcpFromHub([spec |-> spec, notes |-> stored])
          = [spec   |-> [spec EXCEPT !.defaultPeriodType = Unset],
             legacy |-> stored["excludeResources"],
             notes  |-> SetNote(RemoveNote(stored, "excludeResources"), "defaultPeriodType",
                                spec.defaultPeriodType)]
    BY DEF GcpFromHub
  <2> QED BY <1>3, <1>5, <1>6, <2>1
<1> QED BY <1>0, <1>4, <1>7 DEF type
====
