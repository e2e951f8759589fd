\* One watched build, every kind of failure once, all threads fair.
SPECIFICATION FairSpec
CONSTANTS
    Jobs = {j1}
    Workers = {w1}
    Paths = {p1}
    Watched = {j1}
    None = None
    MaxRestarts = 1
    MaxTimeouts = 1
    MaxFaults = 1
INVARIANTS PageIsHonest
PROPERTIES FinalIsFinal ProgressMovesOn JobsFinish
CHECK_DEADLOCK FALSE
