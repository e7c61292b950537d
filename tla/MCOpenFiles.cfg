\* Two threads, three files of three sectors, the last of them half used, and a
\* table of two entries, so that it gets full.
CONSTANTS
    t1 = t1
    t2 = t2
    f1 = f1
    f2 = f2
    f3 = f3
    Thread = {t1, t2}
    File = {f1, f2, f3}
    NoFile = NoFile
    FileLength = 5
    SectorSize = 2
    NbFileTableEntries = 2
    Sizes = {0, 1, 3}
    Nobody = Nobody
    MaxOps = 5
SYMMETRY Symmetry
SPECIFICATION OpenFilesSpec
INVARIANTS
    OneEntryPerFile
    ReadsExact
    WritesExact
CHECK_DEADLOCK FALSE
