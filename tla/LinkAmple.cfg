SPECIFICATION FairSpec
CONSTANTS
    HalfSpace = 3
    WindowSize = 3
    SendQueueSize = 3
    ChannelSize = 3
    MaxSplits = 1
    CleanSeqs = 16
    Lossy = TRUE
    FragmentsExpire = FALSE
    Payload <- OneFrameEach3
INVARIANTS
    AcceptedIsHeld
PROPERTIES
    ImplementsFairStream
CHECK_DEADLOCK FALSE
