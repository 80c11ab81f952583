-------------------------- MODULE MagicStateFactories --------------------------
(***************************************************************************)
(* The two factories that make magic states while the program runs         *)
(* (qpu/magic_state_factories.py):                                         *)
(*                                                                         *)
(*   DistillationFactory            one stage: an attempt that succeeds     *)
(*      frees its unit, its correction decodes run, and the state comes    *)
(*      back one return trip after the last of them                        *)
(*   MultiLevelDistillationFactory  a chain: level 0 prepares, a round of   *)
(*      each level above takes its inputs from the level below and holds   *)
(*      its unit until its correction decodes have run                     *)
(*                                                                         *)
(* Both make states on demand or, in continuous production, as many ahead  *)
(* as their buffer takes.  The levels of a factory are 0 .. Top; a stage   *)
(* is a chain of its level 0 alone, with rules of its own.                 *)
(*                                                                         *)
(* The factory is the record "factory"; a step is one event of the engine, *)
(* or one call, with all the calls it makes.  Ticks are left out: what is   *)
(* under way may end in any order.  A request is the name of the operation *)
(* that asks; what its callback starts asks for no state within the call.  *)
(***************************************************************************)
EXTENDS Integers, Sequences, FiniteSets, SequencesExt, FiniteSetsExt

CONSTANT
    Factories       \* the factories and programs considered; one is built

\* What the checks of the settings let through: at least one unit at each
\* level, states taken and yielded by a round, no negative count; a stage is
\* one level.
ASSUME FactoriesAssumption ==
    /\ IsFiniteSet(Factories)
    /\ \A c \in Factories :
        /\ c.kind \in {"stage", "chain"}
        /\ c.units \in Seq(Nat \ {0}) /\ c.units # <<>>
        /\ c.kind = "stage" => Len(c.units) = 1
        /\ {c.inputs, c.outputs} \subseteq Nat \ {0}
        /\ {c.corrections, c.buffer, c.initial} \subseteq Nat

VARIABLES
    config,         \* the card of the factory, and who asks it
    factory         \* the factory's state

vars == <<config, factory>>

-----------------------------------------------------------------------------
(* The card *)

IsStage == config.kind = "stage"
IsContinuous == config.buffer > 0       \* continuous production
Top == Len(config.units) - 1
Levels == 0 .. Top
Units(level) == config.units[level + 1]
Outputs(level) == IF level = 0 THEN 1 ELSE config.outputs

-----------------------------------------------------------------------------
(* The state *)

NoRounds == [l \in Levels |-> 0]

\* What a factory built with the card starts from: only a stage may have a
\* store to begin with.
Built ==
    [waiting |-> <<>>, served |-> <<>>,
     stored |-> [l \in Levels |-> IF IsStage THEN config.initial ELSE 0],
     working |-> NoRounds,                      \* attempts, physical rounds
     correcting |-> [l \in Levels |-> <<>>],    \* decodes left, by round
     returning |-> 0,                           \* states on their way back
     produced |-> NoRounds, failed |-> NoRounds,
     isStarted |-> ~ IsContinuous, isShutDown |-> FALSE]

Asked(f) == Range(f.waiting) \cup Range(f.served)

\* busy_unit_count: in a chain a round holds its unit until it is corrected.
Busy(f, l) == f.working[l] + IF IsStage THEN 0 ELSE Len(f.correcting[l])

\* in_flight_count: the states of a stage that are made and not yet stored.
InFlight(f) == Len(f.correcting[0]) + f.returning

\* A variant that lets a new request past those that wait.
DeliverNewest(f) ==
    LET n == Min({f.stored[Top], Len(f.waiting)})
        rest == Len(f.waiting) - n IN
    [f EXCEPT !.stored[Top] = @ - n,
              !.served = @ \o SubSeq(f.waiting, rest + 1, Len(f.waiting)),
              !.waiting = SubSeq(@, 1, rest)]

\* _deliver_to_waiting: the oldest requests are served while a state is left.
Deliver(f) ==
    LET n == Min({f.stored[Top], Len(f.waiting)}) IN
    [f EXCEPT !.stored[Top] = @ - n,
              !.served = @ \o SubSeq(f.waiting, 1, n),
              !.waiting = SubSeq(@, n + 1, Len(@))]

-----------------------------------------------------------------------------
(* The stage: when an attempt starts *)

\* A variant that counts the states on their way as demand still to be met.
ShortageOfTheStored(f) ==
    LET unmet == Len(f.waiting) - f.working[0]
        short == config.buffer + Len(f.waiting) - (f.stored[0] + f.working[0]) IN
    Max({0, unmet, IF IsContinuous THEN short ELSE 0})

\* The attempts that unmet demand or a short pipeline call for.
Shortage(f) ==
    LET committed == f.working[0] + InFlight(f)
        unmet == Len(f.waiting) - committed
        short == config.buffer + Len(f.waiting) - (f.stored[0] + committed) IN
    Max({0, unmet, IF IsContinuous THEN short ELSE 0})

\* The loop of _start_attempts: one attempt more while _can_start_attempt.
StartAttempts(f) ==
    IF f.isShutDown THEN f
    ELSE [f EXCEPT !.working[0] = @ + Min({Units(0) - @, Shortage(f)})]

-----------------------------------------------------------------------------
(* The chain: what each level has to supply, and the rounds it starts *)

\* _wanted_round_count: the rounds that cover a demand for a level's states.
WantedRounds(f, l, demand) ==
    LET deficit == demand - (f.stored[l] + Busy(f, l) * Outputs(l)) IN
    IF deficit <= 0 THEN 0 ELSE (deficit + Outputs(l) - 1) \div Outputs(l)

\* _demand_by_level: the requests and the buffer at the top, and below a
\* level the inputs of the rounds it wants.
DemandByLevel(f) ==
    LET demand[l \in Levels] ==
            IF l = Top THEN Len(f.waiting) + config.buffer
            ELSE config.inputs * WantedRounds(f, l + 1, demand[l + 1]) IN
    demand

\* The rounds each level can start: those it wants, on its idle units, as
\* far as its inputs are in store.
Startable(f) ==
    LET demand == DemandByLevel(f) IN
    [l \in Levels |->
        Min({WantedRounds(f, l, demand[l]), Units(l) - Busy(f, l)} \cup
            IF l = 0 THEN {} ELSE {f.stored[l - 1] \div config.inputs})]

\* A variant that takes a round's inputs as the round ends well.
StartRoundsOnCredit(f) ==
    LET begun == Startable(f) IN
    [f EXCEPT !.working = [l \in Levels |-> @[l] + begun[l]]]

\* One round of the loop of _start_work.  Each start lowers what its level
\* wants, and the demand below by what it takes from the store there, so a
\* second round of the loop has nothing to start (NoUnitWaitsForWork).
StartRounds(f) ==
    LET begun == Startable(f) IN
    [f EXCEPT
        !.working = [l \in Levels |-> @[l] + begun[l]],
        !.stored = [l \in Levels |->
                        @[l] - IF l = Top THEN 0 ELSE config.inputs * begun[l + 1]]]

\* _start_work, which a chain that is shut down leaves at once.
StartWork(f) == IF f.isShutDown THEN f ELSE StartRounds(Deliver(f))

-----------------------------------------------------------------------------
(* The calls *)

Init ==
    /\ config \in Factories
    /\ factory = Built

\* start: continuous production begins with an event of its own, at tick 0.
FactoryStarts ==
    /\ ~ factory.isStarted
    /\ LET f == [factory EXCEPT !.isStarted = TRUE] IN
       factory' = IF IsStage THEN StartAttempts(f) ELSE StartWork(f)
    /\ UNCHANGED config

Request(o) ==
    /\ o \notin Asked(factory)
    /\ LET f == [factory EXCEPT !.waiting = Append(@, o)] IN
       factory' = IF IsStage THEN StartAttempts(Deliver(f)) ELSE StartWork(f)
    /\ UNCHANGED config

\* The windows call it once every window of the program is final; those of an
\* operation that emits rounds are not before it has had its state.
ShutDown ==
    /\ ~ factory.isShutDown
    /\ config.emits \subseteq Range(factory.served)
    /\ factory' = [factory EXCEPT !.isShutDown = TRUE]
    /\ UNCHANGED config

-----------------------------------------------------------------------------
(* What is under way ends *)

\* The draws of the success probability that fail are bounded.
MayFail == SumFunction(factory.failed) < config.failures

\* _submit_corrections of a stage, and the return trip after the last one.
Corrected(f, l) ==
    IF config.corrections = 0 THEN [f EXCEPT !.returning = @ + 1]
    ELSE [f EXCEPT !.correcting[l] = Append(@, config.corrections)]

AttemptEnds(isSuccess) ==
    /\ IsStage
    /\ factory.working[0] > 0
    /\ isSuccess \/ MayFail
    /\ LET f == [factory EXCEPT !.working[0] = @ - 1] IN
       factory' = StartAttempts(IF isSuccess THEN Corrected(f, 0)
                                ELSE [f EXCEPT !.failed[0] = @ + 1])
    /\ UNCHANGED config

\* A corrected state reaches the store and serves the oldest request.
StateReturns ==
    /\ IsStage
    /\ factory.returning > 0
    /\ factory' = StartAttempts(Deliver([factory EXCEPT !.returning = @ - 1,
                                                        !.stored[0] = @ + 1,
                                                        !.produced[0] = @ + 1]))
    /\ UNCHANGED config

\* A round of a chain yields its states, or its inputs are lost.
FinishRound(f, l, isSuccess) ==
    LET states == IF isSuccess THEN Outputs(l) ELSE 0 IN
    StartWork([f EXCEPT !.stored[l] = @ + states,
                        !.produced[l] = @ + states,
                        !.failed[l] = @ + IF isSuccess THEN 0 ELSE 1])

\* A variant that forgets to look for work where a preparation failed.
PreparationEndsQuietly(isSuccess) ==
    /\ ~ IsStage
    /\ factory.working[0] > 0
    /\ isSuccess \/ MayFail
    /\ LET f == [factory EXCEPT !.working[0] = @ - 1] IN
       factory' = IF isSuccess THEN FinishRound(f, 0, TRUE)
                               ELSE [f EXCEPT !.failed[0] = @ + 1]
    /\ UNCHANGED config

PreparationEnds(isSuccess) ==
    /\ ~ IsStage
    /\ factory.working[0] > 0
    /\ isSuccess \/ MayFail
    /\ factory' = FinishRound([factory EXCEPT !.working[0] = @ - 1], 0, isSuccess)
    /\ UNCHANGED config

\* Its physical rounds are over: its measurements are decoded, if at all.
PhysicalRoundEnds(l, isSuccess) ==
    /\ l > 0
    /\ factory.working[l] > 0
    /\ isSuccess \/ (MayFail /\ config.corrections = 0)
    /\ LET f == [factory EXCEPT !.working[l] = @ - 1] IN
       factory' = IF config.corrections > 0
                  THEN [f EXCEPT !.correcting[l] = Append(@, config.corrections)]
                  ELSE FinishRound(f, l, isSuccess)
    /\ UNCHANGED config

\* A decode of the i-th round that is corrected ends; the last one of a stage
\* sends the state back, the last one of a chain ends the round.
CorrectionEnds(l, i, isSuccess) ==
    LET left == factory.correcting[l][i]
        fewer == [factory EXCEPT !.correcting[l][i] = @ - 1]
        ended == [factory EXCEPT !.correcting[l] = RemoveAt(@, i)] IN
    /\ isSuccess \/ (MayFail /\ ~ IsStage /\ left = 1)
    /\ factory' = IF left > 1 THEN fewer
                  ELSE IF IsStage THEN [ended EXCEPT !.returning = @ + 1]
                  ELSE FinishRound(ended, l, isSuccess)
    /\ UNCHANGED config

\* Nothing is under way, and nobody has still to ask.
Rests ==
    /\ Asked(factory) = config.requests
    /\ factory.returning = 0
    /\ \A l \in Levels : factory.working[l] = 0 /\ factory.correcting[l] = <<>>
    /\ UNCHANGED vars

Ends ==
    \/ FactoryStarts
    \/ StateReturns
    \/ \E isSuccess \in BOOLEAN :
        \/ AttemptEnds(isSuccess)
        \/ PreparationEnds(isSuccess)
        \/ \E l \in Levels :
            \/ PhysicalRoundEnds(l, isSuccess)
            \/ \E i \in DOMAIN factory.correcting[l] : CorrectionEnds(l, i, isSuccess)

Next ==
    \/ \E o \in config.requests : Request(o)
    \/ ShutDown
    \/ Ends
    \/ Rests

\* The engine runs every event it has; the pool ends every decode.
Spec == Init /\ [][Next]_vars /\ WF_vars(Ends)

-----------------------------------------------------------------------------
(* Properties *)

TypeOK ==
    /\ config \in Factories
    /\ Asked(factory) \subseteq config.requests
    /\ \A l \in Levels :
        /\ factory.stored[l] \in Nat /\ factory.working[l] \in Nat
        /\ factory.correcting[l] \in Seq(1 .. config.corrections)
        /\ Busy(factory, l) <= Units(l)
    /\ factory.returning \in Nat

\* Both factories are a supply: a request is served once, oldest first, and
\* none waits beside a state in store, whatever levels, failures and
\* correction decodes are behind the store and even as the factory shuts down.
Supply == INSTANCE StateSupply
    WITH Requests <- UNION {c.requests : c \in Factories},
         AtOnce <- Max({c.outputs : c \in Factories}),
         waiting <- factory.waiting,
         stock <- factory.stored[Top],
         served <- factory.served
ImplementsStateSupply == Supply!Spec

\* No state is lost or made of nothing: what a level made is in its store, was
\* handed over, or went into a round of the level above, which is under way,
\* succeeded or failed; every round took all of its inputs.
StatesAreConserved ==
    /\ TypeOK
    /\ factory.produced[Top] + Built.stored[Top]
            = factory.stored[Top] + Len(factory.served)
    /\ \A l \in 1 .. Top :
        LET rounds == Busy(factory, l) + factory.failed[l]
                        + factory.produced[l] \div Outputs(l) IN
        factory.produced[l - 1] = factory.stored[l - 1] + config.inputs * rounds

\* Demand pulls: what a level has made and is making covers what is wanted of
\* it with less than one round to spare, so no level runs ahead of the
\* requests and the buffer, though failures and services change both.
NeverAheadOfDemand ==
    IF IsStage
    THEN LET coming == factory.working[0] + InFlight(factory) IN
         coming > 0 =>
            factory.stored[0] + coming <= config.buffer + Len(factory.waiting)
    ELSE \A l \in Levels :
            Busy(factory, l) > 0 =>
                factory.stored[l] + Busy(factory, l) * Outputs(l)
                    < DemandByLevel(factory)[l] + Outputs(l)

\* Between events no unit idles that has a round to run: its demand unmet,
\* its inputs in store.
NoUnitWaitsForWork ==
    factory.isStarted /\ ~ factory.isShutDown =>
        IF IsStage THEN StartAttempts(factory) = factory
                   ELSE StartWork(factory) = factory

\* Production follows demand, from above and from below: no level makes more
\* than is wanted of it, and none idles while it could make what is.
ProductionFollowsDemand == NeverAheadOfDemand /\ NoUnitWaitsForWork

\* Each level makes what is wanted of it and accounts for every state, through
\* failed rounds, late corrections and a shut-down.
StatesAreMadeAsWanted == StatesAreConserved /\ ProductionFollowsDemand

\* Every request is served, through failed rounds at any level.
EveryRequestIsServed ==
    \A o \in UNION {c.requests : c \in Factories} :
        (o \in Range(factory.waiting)) ~> (o \in Range(factory.served))

=============================================================================
