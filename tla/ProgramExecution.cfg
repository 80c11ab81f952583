SPECIFICATION Spec
CONSTANT Programs <- PassingPrograms
INVARIANTS
    OneRoundPerCycle
    StreamsAreUncut
    PartsKeepTheirPromises
    IdleRoundsAreDecodedOnce
PROPERTY EveryProgramEnds
