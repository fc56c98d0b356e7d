CONSTANTS
    Procs = {p1, p2}
    Plain = {"x"}
    INPUT_BUF = 2
    UintMax = 3
    MaxCount = 2
    MaxSleep = 2
    Nobody = Nobody
    Cpus = {"c1", "c2"}
    Locks = {"l1", "l2"}
    Order <- MCOrder
    NoCpu = "nocpu"
    NoLock = "nolock"
    SEND_DESC_NUM = 6
    NBuffers = 3
    NScan = 8
    NoFrame = NoFrame
    Hosts = {"h1", "h2", "h3"}
    Macs = {"m1", "m2"}
    my_ip = "me"
    Peer = "h1"
    NoHost = "none"
    NoMac = "nomac"
    ARP_TABLE_MAX = 2
    IdSpace = 3
    MaxDatagrams = 4
    MaxLost = 1
    MaxInFlight = 2
SPECIFICATION MCSpec
SYMMETRY ProcSymmetry
INVARIANTS NoMissedWakeup LocksExclude ArpTableRight AnsweredOnce
PROPERTIES IsLineQueue SleepsEnough FramesInOrder
