SPECIFICATION Spec
CONSTANTS
  Periods <- MCPeriods
  Settings <- MCSettings
  MaxEdits = 3
  MaxFaults = 2
INVARIANTS
  TypeOK
  OriginalKept
  ReportHonest
PROPERTIES
  CorruptedKept
  LendsResource
