SPECIFICATION FairSpec
CONSTANTS
    NPROC = 3
    CPUs = {c1}
    Slice <- UnitSlice
    BoostLimit <- ShortLimit
    CounterMax = 1
    Policies = {0, 2}
    Calls = {"fork", "setSchedPolicy"}
PROPERTIES NoStarvation
CHECK_DEADLOCK FALSE
