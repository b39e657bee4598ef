SPECIFICATION LSpec
CONSTANTS
    A = A
    B = B
    MDU = 2
    HeaderLen = 1
    SndCap = 2
    RcvCap = 6
    Probes = 1
    MaxCall = 1
    Environments <- OneWriter
PROPERTIES ImplementsStream EveryChunkArrives
