SPECIFICATION FairSpec
CONSTANTS
    NPROC = 2
    CPUs = {c1}
    Slice <- FallingSlice
    BoostLimit <- FallingLimit
    CounterMax = 2
    Policies = {0, 2}
    Calls = {"fork", "yield", "sleep", "exit", "setSchedPolicy"}
INVARIANTS Quota WaitBound
PROPERTIES ClimbsToTop
CHECK_DEADLOCK FALSE
