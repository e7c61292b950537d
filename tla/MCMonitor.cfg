\* Four threads of two processes.  No symmetry, for the liveness properties.
CONSTANTS
    t1 = t1
    t2 = t2
    t3 = t3
    t4 = t4
    i1 = i1
    NULL = NULL
    Thread = {t1, t2, t3, t4}
    Tid <- MCTid
    Item = {i1}
    MaxItems = 2
SPECIFICATION MCSpec
INVARIANTS
    MutualExclusion
    SleepersCounted
    ItemsHaveTakers
PROPERTIES
    MutexImplemented
    PaidWaitersWake
    RemoveGetsItem
