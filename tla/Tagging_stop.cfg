CONSTANTS
  Worker = {w1, w2}
  Count = 4
  Plan <- MCPlan
  Before <- MCBefore
  Retries = 1
  MaxFaults = 1
SPECIFICATION FairSpec
INVARIANTS TaggedIsWritten StopNotBlamed NoStaleCopy InFlightOnly FinishedIsComplete
PROPERTIES EndsWhenStopped
