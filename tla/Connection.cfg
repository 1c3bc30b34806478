SPECIFICATION FairSpec
CONSTANTS
    MaxWritten = 4
    MaxChunk = 3
    MaxReceived = 2
    SendRoom = 2
    HalfClose = TRUE
INVARIANTS
    WatchMatchesInterest
    EndIsFinal
PROPERTIES
    QuietAfterClose
    DataMoves
    StreamSpec
CHECK_DEADLOCK FALSE
