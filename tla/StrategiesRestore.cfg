SPECIFICATION Spec
CONSTANTS
  Periods <- MCPeriods
  Settings <- MCSettings
  MaxEdits = 1
  MaxFaults = 0
INVARIANTS
  RestoresOriginal
