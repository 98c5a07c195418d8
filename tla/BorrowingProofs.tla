---- MODULE BorrowingProofs ----
(***************************************************************************)
(* What every implementation of Borrowing gives the owners of resources.   *)
(***************************************************************************)
EXTENDS Borrowing, TLAPS

LEMMA SetOne ==
    ASSUME TypeOK, NEW r \in Resources, Set(r)
    PROVE  /\ shown' \in [Resources -> States]
           /\ \A q \in Resources : q # r => shown'[q] = shown[q]
BY DEF TypeOK, Set

LEMMA NextInv ==
    ASSUME TypeOK, GivenBack, NEW r \in Resources, OwnerSets(r) \/ Hold(r) \/ Release(r)
    PROVE  TypeOK' /\ GivenBack'
<1>1. shown' \in [Resources -> States] /\ \A q \in Resources : q # r => shown'[q] = shown[q]
  BY SetOne DEF OwnerSets, Hold, Release
<1>2. CASE OwnerSets(r)
  <2>1. wish' \in [Resources -> States] /\ held' = held
    BY <1>1, <1>2 DEF OwnerSets, TypeOK
  <2>2. ASSUME NEW q \in Resources, ~held[q] PROVE wish'[q] = IF q = r THEN shown'[q] ELSE wish[q]
    BY <1>2, <2>2 DEF OwnerSets, TypeOK
  <2> QED BY <1>1, <2>1, <2>2 DEF TypeOK, GivenBack
<1>3. CASE Hold(r)
  <2>1. held' \in [Resources -> BOOLEAN] /\ wish' = wish
    BY <1>3 DEF Hold, TypeOK
  <2>2. held'[r] /\ \A q \in Resources : q # r => held'[q] = held[q]
    BY <1>3 DEF Hold, TypeOK
  <2> QED BY <1>1, <2>1, <2>2 DEF TypeOK, GivenBack
<1>4. CASE Release(r)
  <2>1. held' \in [Resources -> BOOLEAN] /\ wish' = wish
    BY <1>4 DEF Release, TypeOK
  <2>2. \A q \in Resources : q # r => held'[q] = held[q]
    BY <1>4 DEF Release, TypeOK
  <2> QED BY <1>1, <1>4, <2>1, <2>2 DEF TypeOK, GivenBack, Release
<1> QED BY <1>2, <1>3, <1>4

\* A resource nobody holds is as its owner asked for it, if that can be recorded at
\* all: with the refinements, what restoring (RestoreIntAnnotations and the other
\* strategies) is for, in every state of the detailed models.
THEOREM AlwaysGivenBack == Spec => []GivenBack
<1>1. Init => TypeOK /\ GivenBack
  BY DEF Init, TypeOK, GivenBack
<1>2. TypeOK /\ GivenBack /\ [Next]_vars => (TypeOK /\ GivenBack)'
  <2> SUFFICES ASSUME TypeOK, GivenBack, [Next]_vars PROVE TypeOK' /\ GivenBack'
    OBVIOUS
  <2>1. CASE Next
    BY <2>1, NextInv DEF Next
  <2>2. CASE UNCHANGED vars
    BY <2>2 DEF vars, TypeOK, GivenBack
  <2> QED BY <2>1, <2>2
<1> QED BY <1>1, <1>2, PTL DEF Spec
====
