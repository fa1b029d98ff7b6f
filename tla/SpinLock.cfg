SPECIFICATION FairSpec
CONSTANTS
    t1 = t1
    t2 = t2
    t3 = t3
    None = None
    Threads <- MCThreads
    MaxDepth = 2
INVARIANTS Mutex OwnerKnown CountIsDepth
PROPERTIES ImplementsLock SomebodyGetsIt
