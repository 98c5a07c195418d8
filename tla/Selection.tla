---- MODULE Selection ----
(***************************************************************************)
(* Which resources one pass of a K8s scaler works on.  The pass goes       *)
(* through the types of its spec one after the other; for each, the        *)
(* namespace manager makes a list of namespaces from the same Config, and  *)
(* the processor lists the resources of that type there.                   *)
(*                                                                         *)
(* Lists of namespaces are sets here: their order only decides the order   *)
(* of the work.  AnyNamespace is the empty string, by which the API server *)
(* means every namespace.                                                  *)
(***************************************************************************)
EXTENDS Naturals

CONSTANTS
    Namespaces,    \* the namespaces of the cluster
    System,        \* DefaultExcludeNamespaces
    Own,           \* POD_NAMESPACE
    AnyNamespace,
    Types,         \* the resource types the scaler knows
    Cluster,       \* the resources there are
    Specs,         \* what users write
    MaxFaults      \* bound: failed calls

\* labels are those of a resource, and those matchLabels asks for; "ignore" stands
\* for the label kubecloudscaler/ignore.
AnyResource == [type : Types, namespace : Namespaces, name : STRING, labels : SUBSET STRING]
AnySpec == [types : SUBSET Types, namespaces : SUBSET Namespaces, exclude : SUBSET Namespaces,
            forceSystem : BOOLEAN, labels : SUBSET STRING, names : SUBSET STRING]

\* What is assumed of the constants.
SelectionAssumption ==
    /\ System \subseteq Namespaces
    /\ AnyNamespace \notin Namespaces
    /\ Cluster \subseteq AnyResource
    /\ Specs \subseteq AnySpec /\ Specs # {}
    /\ MaxFaults \in Nat

VARIABLES
    spec,     \* the spec of the pass
    slice,    \* the elements of config.Namespaces, which every type is given
    todo,     \* the types still to be processed
    missed,   \* the types whose listing failed
    worked,   \* the resources the pass has processed
    faults

vars == <<spec, slice, todo, missed, worked, faults>>

TypeOK ==
    /\ spec \in Specs
    /\ slice \subseteq Namespaces \cup {AnyNamespace}
    /\ todo \subseteq Types /\ missed \subseteq Types
    /\ worked \subseteq Cluster
    /\ faults \in 0 .. MaxFaults

----
(***************************************************************************)
(* The namespace manager.                                                  *)
(***************************************************************************)
\* excludeSystemNamespaces and excludeOwnNamespace
Excluded(s) == (IF s.forceSystem THEN System ELSE {}) \cup ({Own} \ {AnyNamespace})

\* slices.DeleteFunc works in place: what is left is moved to the front of the
\* array, and the places that become free at its end are zeroed.
Zeroed(list, excluded) == IF list \cap excluded = {} THEN {} ELSE {AnyNamespace}

\* SetNamespaceList: the list one type works with.  The namespace manager is made
\* anew for each type, and its cache with it.
NsList(s) ==
    (IF s.namespaces # {} THEN slice ELSE Namespaces \ s.exclude) \ Excluded(s)

\* The array behind config.Namespaces afterwards.
Shared(s) ==
    IF s.namespaces # {} THEN (slice \ Excluded(s)) \cup Zeroed(slice, Excluded(s)) ELSE slice

\* PrepareSearch and mergeLabelSelectors: resources with the label "ignore" are left
\* out whatever the selector says; asking for that label selects nothing.
Selects(s, r) == "ignore" \notin r.labels /\ s.labels \subseteq r.labels /\ "ignore" \notin s.labels

\* listResources, with the filter on names.
Listed(s, type) ==
    {r \in Cluster :
        /\ r.type = type
        /\ r.namespace \in NsList(s) \/ AnyNamespace \in NsList(s)
        /\ Selects(s, r)
        /\ s.names # {} => r.name \in s.names}

----
(***************************************************************************)
(* The scaling handler's loop over the types.                              *)
(***************************************************************************)
StartPass(s) ==
    /\ spec' = s /\ slice' = s.namespaces /\ todo' = s.types
    /\ missed' = {} /\ worked' = {}

Init ==
    /\ \E s \in Specs : /\ spec = s /\ slice = s.namespaces /\ todo = s.types
    /\ missed = {} /\ worked = {}
    /\ faults = 0

Fault == faults < MaxFaults /\ faults' = faults + 1

\* NewResource and SetState of one type.  When the namespaces cannot be listed
\* nothing is changed; when the resources of one namespace cannot, none is worked on.
NextType(type) ==
    /\ type \in todo
    /\ todo' = todo \ {type}
    /\ \/ /\ worked' = worked \cup Listed(spec, type)
          /\ slice' = Shared(spec)
          /\ UNCHANGED <<missed, faults>>
       \/ /\ Fault /\ missed' = missed \cup {type}
          /\ \/ slice' = Shared(spec)
             \/ spec.namespaces = {} /\ UNCHANGED slice
          /\ UNCHANGED worked
    /\ UNCHANGED spec

\* The next pass fetches the spec afresh.
NextPass == todo = {} /\ (\E s \in Specs : StartPass(s)) /\ UNCHANGED faults

Next == (\E type \in Types : NextType(type)) \/ NextPass

Spec == Init /\ [][Next]_vars

----
(***************************************************************************)
(* Properties.                                                             *)
(***************************************************************************)
\* What the documentation of the fields says a spec is about: "specific namespaces
\* to include (when set, only these are targeted)", "excludeNamespaces ... ignored
\* if namespaces is set", "always exclude system namespaces".
Targeted(s, r) ==
    /\ r.type \in s.types
    /\ IF s.namespaces # {} THEN r.namespace \in s.namespaces ELSE r.namespace \notin s.exclude
    /\ r.namespace \notin Excluded(s)
    /\ Selects(s, r)
    /\ s.names # {} => r.name \in s.names

\* A pass works on nothing but what its spec targets (k8s.md:176): the types of one
\* spec do not influence each other.  It is not so: the second type of a spec that
\* names a system namespace, or the scaler's own, works in every namespace.
OnlyTargeted == \A r \in worked : Targeted(spec, r)

\* No spec names a namespace that is left out anyway.
Clean(s) == s.namespaces \cap Excluded(s) = {}

\* With such a spec nothing else is ever worked on.
CleanOnlyTargeted == Clean(spec) => OnlyTargeted

\* What is targeted is worked on by the end of the pass, whatever the order of the
\* types, unless listing its type failed.
CleanCovers ==
    Clean(spec) => \A r \in Cluster :
        Targeted(spec, r) /\ r.type \notin todo \cup missed => r \in worked
====
