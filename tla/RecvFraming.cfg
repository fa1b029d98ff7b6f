SPECIFICATION FairSpec
CONSTANTS
    t1 = t1
    t2 = t2
    Threads = {t1, t2}
    Sizes = {1, 2, 5}
    HeaderSize = 2
    MaxSize = 5
    MaxPackets = 3
    OtherLens = {2}
    Modes = {FALSE, TRUE}
    MaxJobs = 2
INVARIANTS Aligned InOrder NoneWithheld JobsInOrder
PROPERTIES Arrives
CHECK_DEADLOCK FALSE
