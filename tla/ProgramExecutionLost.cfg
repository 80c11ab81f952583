SPECIFICATION Spec
CONSTANT Programs <- ScheduledRegion
INVARIANT OneRoundPerCycle
