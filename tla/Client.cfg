CONSTANTS
  MaxCalls = 2
  MaxLines = 2
  MaxStderr = 1
  Limits = {TRUE, FALSE}
SPECIFICATION FairSpec
INVARIANTS WholeReply OneOutcome
PROPERTIES CallsReturn StopsReturn
CHECK_DEADLOCK FALSE
