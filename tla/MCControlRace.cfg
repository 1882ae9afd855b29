SPECIFICATION Spec
CONSTANTS
  Exec = {e1, e2}
  Invocation = {i1, i2}
  Reading = {r1, r2}
  MaxRetries = 3
  MaxLaunches = 3
  MaxAttempts = 3
  MaxFaults = 1
  None = None
SYMMETRY Symmetry
INVARIANTS CarriedIsDurable ActivatedIsProven LaunchBound
PROPERTIES WrittenOnce ImplementsManagedRun
CHECK_DEADLOCK FALSE
