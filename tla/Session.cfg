SPECIFICATION FairSpec
CONSTANTS
    HalfSpace = 4
    ChannelSize = 3
    LastFrame = 4
    MaxSends = 2
    Closers = {closer1, closer2}
INVARIANTS
    TypeOK
    OneGoodbye
    GamePacketsInOrder
    OneLatePacket
    EarlyPacketsKept
    OfferedIsUsableOrClosed
PROPERTIES
    LegalTransitions
    TasksWindDown
CHECK_DEADLOCK FALSE
