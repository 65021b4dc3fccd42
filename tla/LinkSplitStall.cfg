SPECIFICATION FairSpec
CONSTANTS
    HalfSpace = 3
    WindowSize = 3
    SendQueueSize = 3
    ChannelSize = 3
    MaxSplits = 1
    CleanSeqs = 16
    Lossy = FALSE
    FragmentsExpire = FALSE
    Payload <- SplitFirst
PROPERTIES
    AllDelivered
CHECK_DEADLOCK FALSE
