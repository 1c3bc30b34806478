SPECIFICATION Spec
CONSTANTS
    Streams <- MCStreams
    LowerCase <- MCLowerCase
    Number <- MCNumber
INVARIANTS Reassembled FramingKept TargetRecovered
