CONSTANTS
    p1 = p1
    p2 = p2
    Procs = {p1, p2}
    NInodes = 3
    NINODE = 3
    Names = {"a", "b"}
    Paths <- OnePath
    OpsOf <- CreateOrUnlink
    MaxLink = 2
    Nobody = Nobody
SPECIFICATION Spec
INVARIANT NoCircularWait
CHECK_DEADLOCK FALSE
