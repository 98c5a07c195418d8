SPECIFICATION FairSpec
CONSTANTS
  Scalers = {"s1"}
  Workloads = {"web"}
  KindOf <- OneKind
  Periods <- MCPeriods
  Times <- MCTimes
  Specs <- OnceSpecs
  Counts = {1, 2}
  MaxEdits = 3
  MaxFaults = 0
PROPERTIES
  FinalizerAlwaysRemoved
CHECK_DEADLOCK FALSE
