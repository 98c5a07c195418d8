---- MODULE Borrowing ----
(***************************************************************************)
(* What scaling promises the owners of resources, whatever the machinery:  *)
(* a scaler borrows a resource, does what it likes with it while it holds  *)
(* it, and gives it back as its owner last asked for it.                   *)
(*                                                                         *)
(* The original-value annotations are how the code keeps this promise: the *)
(* detailed modules have them, the work queue, the handlers, the failures  *)
(* and the conflicts; this one has a wish that nobody but the owner can    *)
(* change.                                                                 *)
(***************************************************************************)
CONSTANTS
    Resources,
    States,       \* what a resource can be set to
    Recordable    \* the wishes annotations can express; the others may be lost

VARIABLES
    wish,    \* what the owner of each resource asked for
    shown,   \* what each resource is set to
    held     \* some scaler has borrowed it

vars == <<wish, shown, held>>

TypeOK ==
    /\ wish \in [Resources -> States]
    /\ shown \in [Resources -> States]
    /\ held \in [Resources -> BOOLEAN]

Init ==
    /\ wish \in [Resources -> States]
    /\ shown = wish
    /\ held = [r \in Resources |-> FALSE]

\* Resource r, and no other, is set to something.
Set(r) == shown'[r] \in States /\ shown' = [shown EXCEPT ![r] = shown'[r]]

\* While a resource is borrowed, what is set does not count as a wish.
OwnerSets(r) ==
    /\ Set(r)
    /\ wish' = IF held[r] THEN wish ELSE [wish EXCEPT ![r] = shown'[r]]
    /\ UNCHANGED held

\* A scaler takes a resource, or changes one that is taken.
Hold(r) ==
    /\ Set(r)
    /\ held' = [held EXCEPT ![r] = TRUE]
    /\ UNCHANGED wish

\* It gives it back as it was asked for.
Release(r) ==
    /\ held[r] /\ held' = [held EXCEPT ![r] = FALSE]
    /\ Set(r)
    /\ wish[r] \in Recordable => shown'[r] = wish[r]
    /\ UNCHANGED wish

Next == \E r \in Resources : OwnerSets(r) \/ Hold(r) \/ Release(r)

Spec == Init /\ [][Next]_vars

\* A resource nobody holds is as its owner asked for it.
GivenBack == \A r \in Resources : ~held[r] /\ wish[r] \in Recordable => shown[r] = wish[r]
====
