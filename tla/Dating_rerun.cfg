CONSTANTS
  None = None
  Unknown = Unknown
  DayLen = 2
  YearDays = 2
  Modern <- MCModern
  Datable <- MCDatable
  MaxOffset = 2
  Near = 3
  Library <- MCLibrary
  Zones = {1}
  Faults = {}
  MaxFaults = 0
  MaxRuns = 2
SPECIFICATION Spec
PROPERTY SecondRunIsNoOp
CHECK_DEADLOCK FALSE
