\* Four processes of one page, three frames to give: the third and the fourth
\* creation may run into each other or fail, and pids are used again.
CONSTANTS
    MaxProcesses = 4
    NumFrames = 4
    NumPages <- OnePage
    NumPids = 5
    FirstFrames = {1}
SPECIFICATION ProcessesFairSpec
INVARIANTS
    FramesDisjoint
    PidsMatch
    LastExitHalts
PROPERTIES
    FreedPidWakes
CHECK_DEADLOCK FALSE
