SPECIFICATION Spec
CONSTANTS
    Arm = 6
    ShortMin = 6
    ShortMax = 25
    Long = 70
INVARIANTS
    TypeOK
    ExecutesWhatItShows
    ReleaseBeforeExecute
PROPERTIES
    OnlyShortPressMoves
    HoldingExecutes
CHECK_DEADLOCK FALSE
