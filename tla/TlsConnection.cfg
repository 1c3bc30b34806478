SPECIFICATION FairSpec
CONSTANTS
    MaxWritten = 3
    MaxChunk = 2
    MaxReceived = 1
    SendRoom = 1
    Renegotiates = TRUE
INVARIANTS NeedsWatched ToldOnce RetryIntact
PROPERTIES DataMoves StreamSpec
CHECK_DEADLOCK FALSE
