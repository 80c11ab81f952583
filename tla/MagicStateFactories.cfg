SPECIFICATION Spec
CONSTANT Factories <- SmallFactories
INVARIANTS
    StatesAreMadeAsWanted
PROPERTIES
    ImplementsStateSupply
    EveryRequestIsServed
