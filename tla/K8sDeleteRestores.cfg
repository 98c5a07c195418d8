SPECIFICATION Spec
CONSTANTS
  Scalers = {"s1"}
  Workloads = {"web"}
  KindOf <- OneKind
  Periods <- MCPeriods
  Times <- MCTimes
  Specs <- NightSpecs
  Counts = {1, 2}
  MaxEdits = 4
  MaxFaults = 1
PROPERTIES
  RestoredWhenGone
CHECK_DEADLOCK FALSE
