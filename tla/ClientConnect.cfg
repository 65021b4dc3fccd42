SPECIFICATION FairSpec
CONSTANTS
    Paths = {2000}
    Versions = {TRUE}
    MaxStale = 0
    MaxCopies = 0
    StartsCalm = TRUE
PROPERTIES
    ConnectSucceeds
CHECK_DEADLOCK FALSE
