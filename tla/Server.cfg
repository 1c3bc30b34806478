SPECIFICATION FairSpec
CONSTANTS
    MaxFds = 3
    MaxClients = 3
    MaxConnects = 2
INVARIANTS AcceptingOrResuming 
PROPERTIES AcceptGoesOn
CHECK_DEADLOCK FALSE
