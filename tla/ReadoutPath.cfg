SPECIFICATION FairSpec
CONSTANT Settings <- PathSettings
INVARIANTS BoundedStagesKeepTheirRoom RequestedInputIsStored
PROPERTIES StopsOnlyAtAKnot EveryWindowDecodes
CHECK_DEADLOCK FALSE
