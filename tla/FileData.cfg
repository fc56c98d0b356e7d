CONSTANTS
    p1 = p1
    p2 = p2
    f1 = f1
    f2 = f2
    f3 = f3
    Procs = {p1, p2}
    Files = {f1, f2, f3}
    Inodes = {1, 2}
    InodeOf <- MCInodeOf
    FilesOf <- MCFilesOf
    CountsOf <- MCCountsOf
    MaxCount = 5
    NBLOCKS = 4
    BSIZE = 2
    NDIRECT = 1
    NINDIRECT = 2
    MAXOPBLOCKS = 6
    Nobody = Nobody
SPECIFICATION Spec
INVARIANTS BlocksExact OpFits
PROPERTIES IsFileStore
CHECK_DEADLOCK FALSE
