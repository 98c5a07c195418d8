SPECIFICATION Spec
CONSTANTS
  Scalers = {"s1"}
  Workloads = {"web", "db"}
  KindOf <- TwoKinds
  Periods <- MCPeriods
  Times <- MCTimes
  Specs <- SafetySpecs
  Counts = {1}
  MaxEdits = 4
  MaxFaults = 1
INVARIANTS
  TypeOK
  OriginalKept
  CleanFinalize
  HonestStatus
  HoldsUnderFinalizer
  NeverForgotten
PROPERTIES
  LendsWorkloads
CHECK_DEADLOCK FALSE
