SPECIFICATION Spec
CONSTANTS
    t1 = t1
    t2 = t2
    Threads = {t1, t2}
    Sizes = {1, 2, 5}
    HeaderSize = 2
    MaxSize = 5
    MaxPackets = 3
    OtherLens = {2, 5}
    Modes = {FALSE}
    MaxJobs = 1
INVARIANTS WindowIsRest
CHECK_DEADLOCK FALSE
