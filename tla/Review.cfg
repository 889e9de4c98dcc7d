CONSTANTS
  None = None
  Nothing = Nothing
  Torn = Torn
  Alien = Alien
  Ranks = 10
  Commands <- MCCommands
  Faults = {"stop", "preflight", "copy", "place"}
  MaxFaults = 1
  MaxIndex = 3
  MaxRuns = 3
  MaxAliens = 1
SPECIFICATION Spec
INVARIANTS NothingLost ReportTrue Unpacked
PROPERTIES UnzipKeeps
CHECK_DEADLOCK FALSE
