SPECIFICATION FairSpec
CONSTANTS
    Addresses = {alice, bob}
    Requests = {1, 2, 3}
INVARIANTS
    TypeOK
    OneSessionPerAddress
PROPERTIES
    LoginReachesAccept
    FailedLoginFreesAddress
CHECK_DEADLOCK FALSE
