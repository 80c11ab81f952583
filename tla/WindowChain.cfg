SPECIFICATION FairSpec
CONSTANTS
    Layouts <- ChainLayouts
    Boundaries = {p, q}
    NoBoundary = noBoundary
CHECK_DEADLOCK FALSE
INVARIANTS
    FrameMatchesChain
    WrongReadsAreKnown
    RedoPinsFinalFaces
    SegmentsLeaveOnceFinal
PROPERTIES
    ImplementsSerial
    EveryStreamDelivers
