SPECIFICATION FairSpec
CONSTANTS
  DayLength = 6
  Names = {"f"}
  Specs <- MCSpecs
  Definition <- MCDefinition
  Manual <- MCManual
  MaxEdits = 3
  MaxFaults = 1
INVARIANTS
  TypeOK
  NeverForgotten
  RefusedForCause
  WindowsAsAsked
PROPERTIES
  OwnedAtBirth
  FlowConverges
CHECK_DEADLOCK FALSE
