CONSTANTS
    zero = zero
    a = a
    Byte <- MCByte
    ZeroByte = zero
    Capacity = 3
    MaxChunk = 5
    MaxEnd = 8
    Prefix <- MCPrefix
    Programs <- MCPrograms
    MaxInt = 10
SPECIFICATION BytesSpec
CHECK_DEADLOCK FALSE
INVARIANT BufferTypeOK
PROPERTY ImplementsStream
INVARIANT ScannerReadsLikeATerminal
INVARIANT ReadsCompose
INVARIANT NormalizedIsClean
INVARIANT FirstSentinelIsFound
INVARIANT AnswerStaysInTheOutput
