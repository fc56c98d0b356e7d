SPECIFICATION Spec
CONSTANTS
    Procs = {p1, p2}
    NBUF = 2
    k1 = k1
    k2 = k2
    k3 = k3
    Blocks <- BufBlocks
    Rank <- BufRank
    Vals = {x, y}
    NoBlock = NoBlock
    Nobody = Nobody
    MaxPinned = 1
    Faulty = {k2}
SYMMETRY BufSymmetry
INVARIANTS RefsExact NoPanic NoMissedWakeup
PROPERTIES OneCopy
