SPECIFICATION Spec
CONSTANTS
    HalfSpace = 6
    WindowSize = 4
INVARIANTS
    TypeOK
    NeverFalseDuplicate
    RemembersUntilReset
    MissingAreTheGaps
PROPERTY
    BaseMovesForward
