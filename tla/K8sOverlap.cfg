SPECIFICATION Spec
CONSTANTS
  Scalers = {"s1", "s2"}
  Workloads = {"web"}
  KindOf <- OneKind
  Periods <- MCPeriods
  Times <- MCTimes
  Specs <- OverlapSpecs
  Counts = {1, 2}
  MaxEdits = 4
  MaxFaults = 1
INVARIANTS
  OriginalKept
  HonestStatus
  NeverForgotten
PROPERTIES
  LendsWorkloads
CHECK_DEADLOCK FALSE
