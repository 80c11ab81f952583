SPECIFICATION FairSpec
CONSTANTS
    Settings <- PoolSettings
    classZero = classZero
    classOne = classOne
    outside = outside
    s1 = s1
    s2 = s2
    s3 = s3
    s4 = s4
    u1 = u1
    u2 = u2
INVARIANTS
    ComputeAccounted ComputeMoves BothInputsFit StoreHoldsUntilLanded MemoryFollowsResidents
PROPERTIES
    EveryRequestSettles
CHECK_DEADLOCK FALSE
