SPECIFICATION Spec
CONSTANTS
    x1 = x1
    x2 = x2
    Executor <- MCExecutor
    LeaseTime = 2
    Window = 3
    Greens <- MCGreens
    Terms <- MCTerms
    Ages <- MCAges
    MaxTime = 5
    MaxRuns = 2
    MaxVerify = 1
INVARIANTS
    LeasesNeverOverlap
    OneLeaseInForce
    GrantedUnderTheLease
PROPERTIES
    TakeoverOnlyWhenIdle
SYMMETRY Symmetry
CHECK_DEADLOCK FALSE
