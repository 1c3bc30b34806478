SPECIFICATION Spec
CONSTANTS
    MaxRequests = 3
    MaxBody = 2
    RequestParts <- MCRequestParts
    ResponseParts <- MCResponseParts
    MaxPart = 2
    MaxInspect = 1
    PayloadInspector = TRUE
INVARIANT ResponseDelivered
CHECK_DEADLOCK FALSE
