SPECIFICATION Spec
CONSTANTS
  Scalers = {"s1"}
  Workloads = {"web"}
  KindOf <- OneKind
  Periods <- MCPeriods
  Times <- MCTimes
  Specs <- OnceSpecs
  Counts = {1, 2}
  MaxEdits = 4
  MaxFaults = 1
PROPERTIES
  RunOnceAppliedOnce
CHECK_DEADLOCK FALSE
