\* Three threads, of the kernel and of one address space, fair.  No symmetry.
CONSTANTS
    t1 = t1
    t2 = t2
    t3 = t3
    a = a
    mutex = mutex
    device = device
    NULL = NULL
    Thread = {t1, t2, t3}
    Main = t1
    Sem = {mutex, device}
    DeviceSem = {device}
    InitialValue <- MCInitialValue
    Space = {a}
    MaxValue = 2
SPECIFICATION FairSpec
INVARIANTS
    ListsMatchStatus
    NoLostWakeup
    HaltOnlyWhenStuck
    UserContextOK
PROPERTIES
    ReadyRuns
    SemaphoresImplemented
