SPECIFICATION FairSpec
CONSTANTS
    Paths = {1228, 604, 603}
    Versions = {TRUE, FALSE}
    MaxStale = 1
    MaxCopies = 1
    StartsCalm = FALSE
INVARIANTS
    TypeOK
    DatagramsFitPath
PROPERTIES
    FailsForAReason
    ConnectReturns
    RetriesGetThrough
CHECK_DEADLOCK FALSE
