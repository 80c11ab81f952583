SPECIFICATION FairSpec
CONSTANTS
    PacketTotal = 4
    LastPsns = {1, 3}
    WindowPackets = 3
    AckEvery = 2
    ReceiveBufferFrames = 2
    RetryCount = 1
    UnspentRetryCount = 7
INVARIANTS
    AcknowledgedIsTaken ReachablePacketsKept NeverStranded
PROPERTIES
    ImplementsMessageChannel EveryMessageSettles
CHECK_DEADLOCK FALSE
