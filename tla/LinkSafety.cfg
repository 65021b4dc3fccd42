SPECIFICATION Spec
CONSTANTS
    HalfSpace = 4
    WindowSize = 2
    SendQueueSize = 3
    ChannelSize = 1
    MaxSplits = 1
    CleanSeqs = 16
    Lossy = TRUE
    FragmentsExpire = FALSE
    Payload <- ThreePingGoodbye
INVARIANTS
    TypeOK
    InOrderDelivery
    TrackedUntilAccepted
PROPERTIES
    ImplementsStream
CHECK_DEADLOCK FALSE
