CONSTANTS
  None = None
  Unknown = Unknown
  DayLen = 2
  YearDays = 2
  Modern <- MCModern
  Datable <- MCDatable
  MaxOffset = 2
  Near = 3
  Library <- MCPairs
  Zones = {1}
  Faults = {"stop", "read", "write"}
  MaxFaults = 1
  MaxRuns = 2
SPECIFICATION Spec
INVARIANTS PairsMutual ClockKept PhotosAgree
PROPERTIES PhotosSettle
CHECK_DEADLOCK FALSE
