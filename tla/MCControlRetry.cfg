SPECIFICATION Spec
CONSTANTS
  Exec = {e1}
  Invocation = {i1}
  Reading = {r1, r2}
  MaxRetries = 3
  MaxLaunches = 3
  MaxAttempts = 3
  MaxFaults = 2
  None = None
INVARIANTS RetriesAreHarmless
PROPERTIES EventuallyEnds
CHECK_DEADLOCK FALSE
