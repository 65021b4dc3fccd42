SPECIFICATION Spec
CONSTANTS
    Tick = 100
    PingEvery = 10
    InitialRtt = 300
    RoundTrips = {200, 600}
    MaxLost = 1
    Chatty = TRUE
INVARIANTS
    TypeOK
    LivePeerKept
    DeadPeerDetected
    RttWithinSamples
CHECK_DEADLOCK FALSE
