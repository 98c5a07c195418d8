SPECIFICATION FairSpec
CONSTANTS
  Scalers = {"s1"}
  Workloads = {"web"}
  KindOf <- OneKind
  Periods <- MCPeriods
  Times <- MCTimes
  Specs <- LiveSpecs
  Counts = {1, 2}
  MaxEdits = 3
  MaxFaults = 1
PROPERTIES
  Converges
  DeletionCompletes
CHECK_DEADLOCK FALSE
