SPECIFICATION FairSpec
CONSTANTS
    Procs = {p1, p2}
    Blocks = {b1, b2, b3}
    Vals = {v0, v1}
    NoVal = NoVal
    MAXOPBLOCKS = 2
    OpBlocks = 1
    LOGSIZE = 4
    NLog = 4
INVARIANTS HomeHonest NoPanic
PROPERTIES Atomic SleepersWake
