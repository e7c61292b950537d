\* Two threads, a directory and two names, one halt.
CONSTANTS
    t1 = t1
    t2 = t2
    Thread = {t1, t2}
    NumSectors = 9
    NumDirect = 1
    NumDirEntries = 4
    DirSectors = 1
    FileSizes = {2}
    Name = {"f", "d"}
    DirPath <- MCDirPath
    MaxOps = 4
    MaxHalts = 1
CONSTRAINT AloneAfterHalt
SYMMETRY Symmetry
SPECIFICATION FileSystemSpec
INVARIANTS
    BystandersIntact
    NothingLeaks
CHECK_DEADLOCK FALSE
