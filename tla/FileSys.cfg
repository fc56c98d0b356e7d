CONSTANTS
    p1 = p1
    p2 = p2
    Procs = {p1, p2}
    NInodes = 3
    NINODE = 3
    Names = {"a", "b"}
    Paths <- MCPaths
    OpsOf <- MCOpsOf
    MaxLink = 2
    Nobody = Nobody
SPECIFICATION Spec
INVARIANTS InodesHonest TreeSound
CHECK_DEADLOCK FALSE
