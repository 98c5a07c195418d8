SPECIFICATION Spec
CONSTANTS
  Scalers = {"s1"}
  Workloads = {"web"}
  KindOf <- OneKind
  Periods <- MCPeriods
  Times <- MCTimes
  Specs <- NightSpecs
  Counts = {1, 2}
  MaxEdits = 2
  MaxFaults = 1
INVARIANTS
  SkipOnlyWhenRestored
CHECK_DEADLOCK FALSE
