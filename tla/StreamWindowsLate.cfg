SPECIFICATION Spec
CONSTANTS
    Settings <- LateWindows
    KeptFinalWindows = 1
    LetGoEvery = 1
INVARIANT
    ProvisionalReadsAreChecked
