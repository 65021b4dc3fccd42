SPECIFICATION Spec
CONSTANTS
    HalfSpace = 4
    WindowSize = 4
    SendQueueSize = 1
    ChannelSize = 3
    MaxSplits = 1
    CleanSeqs = 4
    Lossy = FALSE
    FragmentsExpire = TRUE
    Payload <- PingInSplit
INVARIANTS
    WholeMessages
    DeliveredOnce
CHECK_DEADLOCK FALSE
