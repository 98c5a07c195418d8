---- MODULE MCSelection ----
\* A small cluster for Selection.
EXTENDS Selection

Resource(type, namespace, labels) ==
    [type |-> type, namespace |-> namespace, name |-> "web", labels |-> labels]

MCCluster ==
    {Resource(type, namespace, {}) : type \in Types, namespace \in Namespaces}
        \cup {Resource("deployments", "app", {"ignore"})}

All == [types |-> Types, namespaces |-> {}, exclude |-> {"db"}, forceSystem |-> TRUE,
        labels |-> {}, names |-> {}]
MCSpecs == {All, [All EXCEPT !.namespaces = {"app"}],
            [All EXCEPT !.namespaces = {"app", "kube-system"}]}
====
