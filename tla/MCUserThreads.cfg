\* Six slots, four tids.  Slot 0 breaks the condition of tid 4 when it is given
\* back, slot 1 gives back slot 0.
CONSTANTS
    PageSize = 128
    StackPages = 2
    CodePages = 6
    MaxTid = 4
    MainExits = FALSE
SPECIFICATION UserThreadsFairSpec
INVARIANTS
    ExitIsLast
PROPERTIES
    JoinReturns
    ExitReturns
CHECK_DEADLOCK FALSE
