SPECIFICATION Spec
CONSTANT Settings <- LookAheadSettings
INVARIANT HeldLeavesOnceStored
CHECK_DEADLOCK FALSE
