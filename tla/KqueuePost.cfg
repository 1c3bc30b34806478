SPECIFICATION FairSpec
CONSTANTS
    loop = loop
    t1 = t1
    t2 = t2
    Threads <- MCThreads
    LoopThread = loop
    PipeCap = 2
    MaxPosts = 1
    MaxStops = 1
    MaxRuns = 2
    MaxIo = 1
INVARIANTS
    NoLostWakeup
    PostOrder
PROPERTIES
    PostedIsRun
    StopEndsRun
CHECK_DEADLOCK FALSE
