CONSTANTS
    NPROC = 3
    NPAGES = 15
    PGSIZE = 2
    NPTENTRIES = 2
    KTables = 1
    KERNBASE = 12
    Deltas <- MCDeltas
    Programs <- MCPrograms
    HEADER = 4
    CORE = 4
    HEAPMAX = 14
    Requests <- MCRequests
    BUFSIZE = 5
    Texts <- MCTexts
    Patterns <- MCPatterns
    WORD = 2
    BYTE = 4
    Sizes <- MCSizes
    Stacks <- MCStacks
    Lengths <- MCLengths
    MAXARG = 2
    FSSIZE = 17
    LOGSIZE = 1
    NINODES = 4
    BSIZE = 2
    IPB = 2
    NDIRECT = 1
    NINDIRECT = 2
    Argvs <- MCArgvs
    AREA = 5
    DIRSIZ = 2
    MaxName = 3
    INTBITS = 10
    COLUMNS = 2
    ROWS = 2
    Glyphs = {"a", "b"}
    MaxOutput = 7
SPECIFICATION MCSpec
INVARIANTS ImagesWhole HeapTiled FiltersRight ImageSound ArgsInside StringsRight ShowsOutput
CHECK_DEADLOCK FALSE
