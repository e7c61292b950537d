\* Every instruction after every other, on words of eight bits.
CONSTANTS
    ByteBits = 2
    PageSize = 8
    NumPhysPages = 4
    InitPageTable <- MCPageTable
    Instructions <- MCInstructions
    Values = {0, 1, 5, 16, 127, 128, 255}
    MaxSteps = 2
SPECIFICATION MachineSpec
INVARIANTS
    ArithmeticExact
    LoadDelayHidden
    CleanFramesUnchanged
PROPERTIES
    FaultsPrecise
CHECK_DEADLOCK FALSE
