CONSTANTS
  Caller = {c1, c2, c3}
  Proc = {p1, p2, p3, p4}
  None = None
  Size = 2
  Batch = 1
  MaxCrashRun = 2
  Window = 2
  WindowFailures = 2
  Kinds = {"run", "check"}
  Events = {"kill", "nostart"}
  MaxCalls = 3
SYMMETRY Alike
SPECIFICATION Spec
INVARIANTS Ownership NoneLost OneProbe
PROPERTIES StopsOnRecent SentTwice PoolService
