SPECIFICATION Spec
CONSTANTS
    HalfSpace = 5
    SendQueueSize = 10
    Integers8 <- TwoInt64
    Integers2 <- TwoInt16
    Integers1 <- OneInt8
    Addresses <- IPv4And6
    Texts <- EmptyOrNot
    Paddings <- PaddedTo
    DatagramSeqs <- EdgeSeqs
    FramesSent <- EveryFrame
INVARIANTS
    TypeOK
    Compressed
    AcknowledgesExactly
    PacketsReadBack
    NeverReadsPastTheEnd
    FramesReadBack
