\* The real sizes, a program of ten pages: slot 2 gives back slot 0.
CONSTANTS
    PageSize = 128
    StackPages = 16
    CodePages = 10
    MaxTid = 5
    MainExits = FALSE
SPECIFICATION UserThreadsSpec
INVARIANTS
    NoSharedStack
CHECK_DEADLOCK FALSE
