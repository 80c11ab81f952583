SPECIFICATION Spec
CONSTANTS
    Settings <- MCSettings
    KeptFinalWindows = 1
    LetGoEvery = 1
INVARIANTS
    WindowsFollowTheCuts
    NoReadyWindowIsPassedBy
    BoundariesReachTheirWindows
    NothingLetGoIsRead
