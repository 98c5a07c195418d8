SPECIFICATION Spec
CONSTANTS
  Namespaces = {"app", "db", "kube-system", "scaler"}
  System = {"kube-system"}
  Own = "scaler"
  AnyNamespace = ""
  Types = {"deployments", "statefulsets"}
  Cluster <- MCCluster
  Specs <- MCSpecs
  MaxFaults = 1
INVARIANTS
  OnlyTargeted
