CONSTANTS
  Caller = {c1, c2}
  Proc = {p1, p2, p3}
  None = None
  Size = 1
  Batch = 2
  MaxCrashRun = 1
  Window = 1
  WindowFailures = 1
  Kinds = {"batch"}
  Events = {"kill", "cancel"}
  MaxCalls = 2
SPECIFICATION FairSpec
PROPERTIES Accounted EveryCallReturns AllEnd
