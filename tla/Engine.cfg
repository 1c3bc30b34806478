SPECIFICATION FairSpec
CONSTANTS
    c1 = c1
    c2 = c2
    Clients <- MCClients
    MaxSubmits = 2
    MaxWorkers = 4
    Exclusive = TRUE
INVARIANTS
    QueueOrder
    Lifecycle
    NoLostNotify
    ShutdownDrains
PROPERTIES
    EverySubmitServed
    CallsReturn
CHECK_DEADLOCK FALSE
