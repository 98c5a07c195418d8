SPECIFICATION FairSpec
CONSTANTS
  Names = {"g1"}
  Vms = {"vm1"}
  Found = {"RUNNING"}
  Periods <- MCPeriods
  Times <- MCTimes
  Specs <- MCSpecs
  OldSpecs <- MCOldSpecs
  MaxEdits = 3
  MaxFaults = 1
INVARIANTS
  TypeOK
  ClientUsable
  ClientsBounded
  HoldsUnderFinalizer
  NeverForgotten
  CleanFinalize
  VersionsKept
PROPERTIES
  Converges
  DeletionCompletes
CHECK_DEADLOCK FALSE
