\* Two threads, two tracks of three sectors, three operations.
CONSTANTS
    t1 = t1
    t2 = t2
    Thread = {t1, t2}
    SystemTick = 1
    TimerTicks = 1
    ConsoleTime = 4
    RotationTime = 2
    SeekTime = 1
    SectorsPerTrack = 3
    NumTracks = 2
    Input <- MCInput
    Sizes = {1, 3}
    MaxOps = 3
    LastBegin = 5
    MaxTicks = 20
    MaxTimer = 2
    MaxAvail = 2
SPECIFICATION DevicesSpec
INVARIANTS
    InterruptsOnTime
    OneRequestAtATime
    LatencyExact
    InputKept
    HaltsOnlyWhenDone
PROPERTY RequestsAnswered
CHECK_DEADLOCK FALSE
