SPECIFICATION ModelSpec
CONSTANTS
    kBegSize = 2
    kEndSize = 2
    kVocabSize = 4
    kEmbedDim = 2
    kReshapedSeq = 4
    kReshapedDim = 2
    kConvOut = 3
    kKernelSize = 3
    Labels <- MCLabels
    Whitespace = {0}
    MaxPayload = 5
INVARIANTS TokensAsTrained LoadedIsUsable
