SPECIFICATION FairSpec
CONSTANTS
    MaxRequests = 3
    MaxBody = 2
    RequestParts <- MCRequestParts
    ResponseParts <- MCResponseParts
    MaxPart = 2
    MaxInspect = 1
    PayloadInspector = TRUE
INVARIANTS AllOrNothing SocketHandover CtxAccounting InspectionIntact RequestIntact
PROPERTIES RequestForwarded
CHECK_DEADLOCK FALSE
