---- MODULE SelectionProofs ----
(***************************************************************************)
(* For every cluster and every spec that names no excluded namespace: a    *)
(* pass works on what the spec targets, on nothing else, and on all of it  *)
(* but the types it could not list.                                        *)
(***************************************************************************)
EXTENDS Selection, TLAPS

\* As long as nothing is deleted from it, the shared array is what the spec says.
SliceKept == Clean(spec) => slice = spec.namespaces

\* Only types the spec asks for are ever to be processed.
TodoAsked == todo \subseteq spec.types

IInv == TypeOK /\ SliceKept /\ TodoAsked /\ CleanOnlyTargeted /\ CleanCovers

\* With a clean spec the list of one type holds the namespaces the spec targets,
\* and never the one that stands for all.
LEMMA CleanList ==
    ASSUME SelectionAssumption, TypeOK, Clean(spec), slice = spec.namespaces
    PROVE  /\ AnyNamespace \notin NsList(spec)
           /\ Shared(spec) = spec.namespaces
           /\ \A r \in Cluster, type \in spec.types :
                r \in Listed(spec, type) <=> Targeted(spec, r) /\ r.type = type
<1>1. spec.namespaces \subseteq Namespaces /\ spec.exclude \subseteq Namespaces
  BY DEF SelectionAssumption, TypeOK, AnySpec
<1>2. AnyNamespace \notin NsList(spec)
  BY <1>1 DEF NsList, SelectionAssumption
<1>3. Shared(spec) = spec.namespaces
  BY DEF Shared, Zeroed, Clean
<1>4. ASSUME NEW r \in Cluster, NEW type \in spec.types
      PROVE  r \in Listed(spec, type) <=> Targeted(spec, r) /\ r.type = type
  <2>1. r.namespace \in Namespaces
    BY DEF SelectionAssumption, AnyResource
  <2>2. r.namespace \in NsList(spec)
          <=> /\ IF spec.namespaces # {} THEN r.namespace \in spec.namespaces
                 ELSE r.namespace \notin spec.exclude
              /\ r.namespace \notin Excluded(spec)
    BY <2>1 DEF NsList
  <2> QED BY <1>2, <2>2 DEF Listed, Targeted
<1> QED BY <1>2, <1>3, <1>4

LEMMA InitInv == ASSUME SelectionAssumption, Init PROVE IInv
<1>1. PICK s \in Specs : spec = s /\ slice = s.namespaces /\ todo = s.types
  BY DEF Init
<1>2. s \in AnySpec
  BY DEF SelectionAssumption
<1>3. TypeOK
  BY <1>1, <1>2 DEF Init, TypeOK, AnySpec, SelectionAssumption
<1> QED BY <1>1, <1>3 DEF Init, IInv, SliceKept, TodoAsked, CleanOnlyTargeted, OnlyTargeted, CleanCovers, Targeted

\* The array only ever holds namespaces and empty strings.
LEMMA SharedType ==
    ASSUME TypeOK PROVE Shared(spec) \subseteq Namespaces \cup {AnyNamespace}
BY DEF Shared, Zeroed, TypeOK

LEMMA NextTypeInv ==
    ASSUME SelectionAssumption, IInv, NEW type \in Types, NextType(type) PROVE IInv'
<1>1. spec' = spec /\ type \in todo /\ todo' = todo \ {type}
  BY DEF NextType
<1>2. slice' = Shared(spec) \/ (spec.namespaces = {} /\ slice' = slice)
  BY DEF NextType
<1>3. \/ worked' = worked \cup Listed(spec, type) /\ missed' = missed
      \/ worked' = worked /\ missed' = missed \cup {type}
  BY DEF NextType
<1>4. TypeOK'
  <2>1. faults' \in 0 .. MaxFaults
    BY DEF IInv, TypeOK, NextType, Fault, SelectionAssumption
  <2>2. slice' \subseteq Namespaces \cup {AnyNamespace}
    BY <1>2, SharedType DEF IInv, TypeOK
  <2>3. worked' \subseteq Cluster
    BY <1>3 DEF IInv, TypeOK, Listed
  <2> QED BY <1>1, <1>3, <2>1, <2>2, <2>3 DEF IInv, TypeOK
<1>5. SliceKept'
  BY <1>1, <1>2, CleanList DEF IInv, SliceKept
<1>6. type \in spec.types /\ TodoAsked'
  BY <1>1 DEF IInv, TodoAsked
<1>7. \A r \in Cluster : Targeted(spec, r)' <=> Targeted(spec, r)
  BY <1>1 DEF Targeted, Selects, Excluded
<1>8. ASSUME Clean(spec) PROVE OnlyTargeted' /\ CleanCovers'
  <2>1. \A r \in Cluster : r \in Listed(spec, type) <=> Targeted(spec, r) /\ r.type = type
    BY <1>6, <1>8, CleanList DEF IInv, SliceKept
  <2>2. OnlyTargeted'
    <3>1. worked' \subseteq worked \cup Listed(spec, type) /\ worked' \subseteq Cluster
      BY <1>3, <1>4 DEF TypeOK
    <3>2. \A r \in worked' : Targeted(spec, r)
      BY <1>8, <2>1, <3>1 DEF IInv, CleanOnlyTargeted, OnlyTargeted
    <3> QED BY <1>7, <3>1, <3>2 DEF OnlyTargeted
  <2>3. CleanCovers'
    <3>1. SUFFICES ASSUME NEW r \in Cluster, Targeted(spec, r), r.type \notin todo' \cup missed'
                   PROVE  r \in worked'
      BY <1>7 DEF CleanCovers
    <3>2. CASE r.type = type
      BY <1>3, <2>1, <3>1, <3>2
    <3>3. CASE r.type # type
      BY <1>1, <1>3, <1>8, <3>1, <3>3 DEF IInv, CleanCovers
    <3> QED BY <3>2, <3>3
  <2> QED BY <2>2, <2>3
<1>9. Clean(spec)' <=> Clean(spec)
  BY <1>1 DEF Clean, Excluded
<1>10. CleanOnlyTargeted' /\ CleanCovers'
  BY <1>8, <1>9 DEF CleanOnlyTargeted, CleanCovers
<1> QED BY <1>4, <1>5, <1>6, <1>10 DEF IInv

LEMMA NextPassInv == ASSUME SelectionAssumption, IInv, NextPass PROVE IInv'
<1>1. PICK s \in Specs : StartPass(s)
  BY DEF NextPass
<1>2. spec' = s /\ slice' = s.namespaces /\ todo' = s.types /\ missed' = {} /\ worked' = {}
  BY <1>1 DEF StartPass
<1>3. TypeOK'
  BY <1>2 DEF IInv, TypeOK, NextPass, AnySpec, SelectionAssumption
<1>4. \A r \in Cluster : Targeted(spec, r)' => r.type \in todo'
  BY <1>2 DEF Targeted
<1> QED BY <1>2, <1>3, <1>4 DEF IInv, SliceKept, TodoAsked, CleanOnlyTargeted, OnlyTargeted, CleanCovers

\* Every state of every pass.
THEOREM Invariance == SelectionAssumption => (Spec => []IInv)
<1> SUFFICES ASSUME SelectionAssumption PROVE Spec => []IInv
  OBVIOUS
<1>1. Init => IInv
  BY InitInv
<1>2. IInv /\ [Next]_vars => IInv'
  <2>1. SUFFICES ASSUME IInv, [Next]_vars PROVE IInv'
    OBVIOUS
  <2>2. CASE UNCHANGED vars
    BY <2>1, <2>2 DEF vars, IInv, TypeOK, SliceKept, TodoAsked, CleanOnlyTargeted, OnlyTargeted,
       CleanCovers, Targeted, Selects, Excluded, Clean
  <2>3. CASE \E type \in Types : NextType(type)
    BY <2>1, <2>3, NextTypeInv
  <2>4. CASE NextPass
    BY <2>1, <2>4, NextPassInv
  <2> QED BY <2>1, <2>2, <2>3, <2>4 DEF Next
<1> QED BY <1>1, <1>2, PTL DEF Spec

\* A pass whose spec names no excluded namespace works on nothing the spec does not
\* target, whatever the order of the types and whichever listing fails.
THEOREM SelectionTargets == SelectionAssumption => (Spec => []CleanOnlyTargeted)
<1>1. IInv => CleanOnlyTargeted
  BY DEF IInv
<1> QED BY <1>1, Invariance, PTL

\* It works on all of it but the types it has still to come to or could not list.
THEOREM SelectionCovers == SelectionAssumption => (Spec => []CleanCovers)
<1>1. IInv => CleanCovers
  BY DEF IInv
<1> QED BY <1>1, Invariance, PTL
====
