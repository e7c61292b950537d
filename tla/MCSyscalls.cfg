\* Two threads, two bytes of memory and two semaphores; a semaphore may start
\* at -1.
CONSTANTS
    t1 = t1
    t2 = t2
    Thread = {t1, t2}
    MemSize = 2
    MAX_STRING_SIZE = 2
    MAX_EXEC_NAME_LEN = 3
    NumSems = 2
    Values <- MCValues
    Sizes = {0, 1, 2, 3}
    MaxCalls = 4
SYMMETRY Symmetry
SPECIFICATION SyscallsSpec
INVARIANTS
    ResumesAtNext
    SemaphoresKept
PROPERTIES
    StringsExact
CHECK_DEADLOCK FALSE
