\* One thread, no halt, few sectors.
CONSTANTS
    t1 = t1
    t2 = t2
    Thread = {t1}
    NumSectors = 8
    NumDirect = 1
    NumDirEntries = 5
    DirSectors = 1
    FileSizes = {0, 1}
    Name = {"f", "d", "g"}
    DirPath <- MCRoot
    MaxOps = 9
    MaxHalts = 0
SPECIFICATION FileSystemSpec
CONSTRAINT OldHeadersOnly
INVARIANTS
    SequentialIntact
CHECK_DEADLOCK FALSE
