---------------------- MODULE MagicStateFactoriesProofs ----------------------
(***************************************************************************)
(* The factories make each state as it is wanted, for every card: whatever  *)
(* the levels, units, yields, correction decodes and failures, no state is  *)
(* lost or made of nothing, no level runs ahead of its demand and none      *)
(* idles that could meet it; and both factories implement StateSupply.      *)
(*                                                                         *)
(* The properties are not inductive by themselves.  An end of an attempt   *)
(* leaves no unit waiting only if nobody waits beside a store (Delivered):  *)
(* else looking for work would hand states over and so raise the deficit.   *)
(* That handing over is what makes a chain shut down the exception.  And    *)
(* the demand by level is a recursion from the top; here it is any function *)
(* that solves its equations (IsDemand), of which there is one              *)
(* (DemandFacts), so a step compares two demands level by level.            *)
(*                                                                         *)
(* A lemma for each action says that it keeps the factory good, and that it *)
(* is a step of the supply.                                                *)
(***************************************************************************)
EXTENDS MagicStateFactories, DataLemmas

-----------------------------------------------------------------------------
(* The inductive invariant *)

\* The states of a factory, by the types of their fields.
Records ==
    [waiting : Seq(config.requests), served : Seq(config.requests),
     stored : [Levels -> Nat], working : [Levels -> Nat],
     correcting : [Levels -> Seq(1 .. config.corrections)],
     returning : Nat, produced : [Levels -> Nat], failed : [Levels -> Nat],
     isStarted : BOOLEAN, isShutDown : BOOLEAN]

\* The factory's fields have their types, and no level is over its units.
Typed(f) ==
    /\ f \in Records
    /\ \A l \in Levels : Busy(f, l) <= Units(l)

\* d is the demand by level: DemandByLevel without its recursion.
IsDemand(f, d) ==
    /\ d \in [Levels -> Nat]
    /\ d[Top] = Len(f.waiting) + config.buffer
    /\ \A l \in Levels \ {Top} :
        d[l] = config.inputs * WantedRounds(f, l + 1, d[l + 1])

\* The states a level has and will have made with its busy units.
Committed(f, l) == f.stored[l] + Busy(f, l) * Outputs(l)

\* Nobody waits beside a store.
Delivered(f) == f.waiting = <<>> \/ f.stored[Top] = 0

\* Nobody asks, or is served, twice.
NoneTwice(f) ==
    LET asked == f.served \o f.waiting IN
    \A i, j \in 1 .. Len(asked) : asked[i] = asked[j] => i = j

\* StatesAreConserved, for a factory at hand.
Conserved(f) ==
    /\ f.produced[Top] + (IF IsStage THEN config.initial ELSE 0)
            = f.stored[Top] + Len(f.served)
    /\ \A l \in 1 .. Top :
        f.produced[l - 1] = f.stored[l - 1] + config.inputs *
            (Busy(f, l) + f.failed[l] + f.produced[l] \div Outputs(l))

\* NeverAheadOfDemand, for a factory at hand.
NotAhead(f) ==
    /\ IsStage =>
        LET coming == f.working[0] + InFlight(f) IN
        coming > 0 => f.stored[0] + coming <= config.buffer + Len(f.waiting)
    /\ ~ IsStage =>
        \A d : IsDemand(f, d) =>
            \A l \in Levels :
                Busy(f, l) > 0 => Committed(f, l) < d[l] + Outputs(l)

\* A level wants nothing, has no unit idle, or lacks the inputs of a round.
HasNothingToStart(f, l, d) ==
    \/ WantedRounds(f, l, d[l]) = 0
    \/ Busy(f, l) = Units(l)
    \/ l > 0 /\ f.stored[l - 1] < config.inputs

\* NoUnitWaitsForWork, for a factory at hand.
Idle(f) ==
    f.isStarted /\ ~ f.isShutDown =>
        /\ IsStage => Shortage(f) = 0 \/ f.working[0] = Units(0)
        /\ ~ IsStage =>
            \A d : IsDemand(f, d) =>
                \A l \in Levels : HasNothingToStart(f, l, d)

\* What holds also within a step, before work is looked for.
Sound(f) == Typed(f) /\ NoneTwice(f) /\ Conserved(f) /\ NotAhead(f)

\* What holds between the steps.
Good(f) ==
    /\ Sound(f)
    /\ IsStage \/ ~ f.isShutDown => Delivered(f)
    /\ Idle(f)

IInv == config \in Factories /\ Good(factory)

-----------------------------------------------------------------------------
(* The card and the types *)

\* The numbers of a card, by what the settings' checks let through.
LEMMA CardFacts ==
    ASSUME config \in Factories
    PROVE  /\ Top \in Nat /\ Levels = 0 .. Top
           /\ IsStage => Top = 0
           /\ \A l \in Levels : Units(l) \in Nat \ {0}
           /\ \A l \in Levels : Outputs(l) \in Nat \ {0}
           /\ config.inputs \in Nat \ {0} /\ config.outputs \in Nat \ {0}
           /\ config.corrections \in Nat /\ config.buffer \in Nat
           /\ config.initial \in Nat
<1>1. /\ config.units \in Seq(Nat \ {0}) /\ config.units # <<>>
      /\ config.kind = "stage" => Len(config.units) = 1
      /\ config.inputs \in Nat \ {0} /\ config.outputs \in Nat \ {0}
      /\ config.corrections \in Nat /\ config.buffer \in Nat
      /\ config.initial \in Nat
    BY FactoriesAssumption
<1>2. Len(config.units) \in Nat \ {0}
    BY <1>1, EmptySeq
<1>3. Top \in Nat /\ Levels = 0 .. Top
    BY <1>2 DEF Top, Levels
<1>4. \A l \in Levels : l + 1 \in 1 .. Len(config.units)
    BY <1>2, <1>3 DEF Top
<1>5. \A l \in Levels : Units(l) \in Nat \ {0}
    BY <1>1, <1>4, ElementOfSeq DEF Units
<1>6. \A l \in Levels : Outputs(l) \in Nat \ {0}
    BY <1>1 DEF Outputs
<1> QED
    BY <1>1, <1>3, <1>5, <1>6 DEF IsStage, Top


-----------------------------------------------------------------------------
(* What is wanted of each level *)

\* The busy units of a level are a number.
LEMMA BusyTyped ==
    ASSUME config \in Factories, NEW f, Typed(f), NEW l \in Levels
    PROVE  Busy(f, l) \in Nat /\ f.working[l] \in Nat /\ f.stored[l] \in Nat
<1>1. f.working[l] \in Nat /\ f.stored[l] \in Nat
    BY DEF Typed, Records
<1>2. f.correcting[l] \in Seq(1 .. config.corrections)
    BY DEF Typed, Records
<1>3. Len(f.correcting[l]) \in Nat
    BY <1>2
<1> QED
    BY <1>1, <1>3 DEF Busy

\* The rounds a level wants cover the demand, with less than one to spare.
LEMMA WantedFacts ==
    ASSUME config \in Factories, NEW f, Typed(f), NEW l \in Levels, NEW d \in Nat
    PROVE  /\ WantedRounds(f, l, d) \in Nat
           /\ WantedRounds(f, l, d) > 0 =>
                f.stored[l] + (Busy(f, l) + WantedRounds(f, l, d)) * Outputs(l)
                    < d + Outputs(l)
           /\ f.stored[l] + (Busy(f, l) + WantedRounds(f, l, d)) * Outputs(l) >= d
<1> DEFINE n == Outputs(l)
           held == f.stored[l] + Busy(f, l) * n
<1>1. n \in Nat \ {0}
    BY CardFacts
<1>2. held \in Nat
    BY <1>1, BusyTyped
<1>3. WantedRounds(f, l, d) =
        IF d - held <= 0 THEN 0 ELSE (d - held + n - 1) \div n
    BY DEF WantedRounds
<1>4. f.stored[l] \in Nat /\ Busy(f, l) \in Nat
    BY BusyTyped
<1> HIDE DEF n
<1>5. CASE d - held <= 0
    BY <1>1, <1>2, <1>3, <1>4, <1>5 DEF n
<1>6. CASE ~ (d - held <= 0)
    <2> DEFINE q == (d - held + n - 1) \div n
    <2>1. q \in Nat /\ n * q <= d - held + n - 1 /\ d - held + n - 1 < n * q + n
        BY <1>1, <1>2, <1>6
    <2>2. WantedRounds(f, l, d) = q
        BY <1>3, <1>6
    <2> HIDE DEF q
    <2>3. f.stored[l] + (Busy(f, l) + q) * n = held + n * q
        BY <1>1, <1>4, <2>1
    <2> HIDE DEF held
    <2> QED
        BY <1>1, <1>2, <2>1, <2>2, <2>3 DEF n
<1> QED
    BY <1>5, <1>6

\* The recursive definition of the demand has one value.
LEMMA DemandFacts ==
    ASSUME config \in Factories, NEW f, Typed(f)
    PROVE  /\ IsDemand(f, DemandByLevel(f))
           /\ \A d : IsDemand(f, d) => d = DemandByLevel(f)
<1> DEFINE last == Len(f.waiting) + config.buffer
           rule == [l \in 0 .. Top |-> [x \in Nat |->
                      IF l = Top THEN 0
                      ELSE config.inputs * WantedRounds(f, l + 1, x)]]
           body(d) == [l \in Levels |->
                         IF l = Top THEN last
                         ELSE config.inputs * WantedRounds(f, l + 1, d[l + 1])]
<1>1. Top \in Nat /\ Levels = 0 .. Top
    BY CardFacts
<1>2. last \in Nat
    <2>1. f.waiting \in Seq(config.requests)
        BY DEF Typed, Records
    <2> QED
        BY <2>1, CardFacts
<1>3. \A l \in 0 .. Top - 1, x \in Nat :
        config.inputs * WantedRounds(f, l + 1, x) \in Nat
    <2> TAKE l \in 0 .. Top - 1, x \in Nat
    <2>1. l + 1 \in Levels
        BY <1>1
    <2>2. WantedRounds(f, l + 1, x) \in Nat
        BY <2>1, WantedFacts
    <2>3. config.inputs \in Nat
        BY CardFacts
    <2> QED
        BY <2>2, <2>3
<1>4. rule \in [0 .. Top -> [Nat -> Nat]]
    BY <1>1, <1>3
<1>5. ASSUME NEW d \in [0 .. Top -> Nat]
      PROVE  IsDemand(f, d) <=> RunsDown(d, Top, last, rule)
    <2>1. \A l \in 0 .. Top - 1 : l \in 0 .. Top /\ l # Top /\ d[l + 1] \in Nat
        BY <1>1
    <2>2. \A l \in 0 .. Top - 1 :
            rule[l][d[l + 1]] = config.inputs * WantedRounds(f, l + 1, d[l + 1])
        BY <2>1
    <2>3. Levels \ {Top} = 0 .. Top - 1
        BY <1>1
    <2> QED
        BY <1>1, <2>2, <2>3 DEF IsDemand, RunsDown
<1> HIDE DEF rule
<1>6. PICK d \in [0 .. Top -> Nat] : IsDemand(f, d)
    <2>1. \E d \in [0 .. Top -> Nat] : RunsDown(d, Top, last, rule)
        <3> HIDE DEF last
        <3> QED
            BY <1>1, <1>2, <1>4, DownwardRecursion
    <2> QED
        BY <1>5, <2>1
<1>7. \A e : IsDemand(f, e) => e = d
    <2> SUFFICES ASSUME NEW e, IsDemand(f, e)
                 PROVE  e = d
        OBVIOUS
    <2>1. e \in [0 .. Top -> Nat]
        BY <1>1 DEF IsDemand
    <2>2. RunsDown(e, Top, last, rule) /\ RunsDown(d, Top, last, rule)
        BY <1>5, <1>6, <2>1
    <2> HIDE DEF last
    <2> QED
        BY <1>1, <2>1, <2>2, DownwardRecursionUnique
<1>8. d = body(d)
    BY <1>1, <1>6 DEF IsDemand
<1>9. \A e : e = body(e) => IsDemand(f, e)
    <2> SUFFICES ASSUME NEW e, e = body(e)
                 PROVE  IsDemand(f, e)
        OBVIOUS
    <2>1. /\ e[Top] = last
          /\ \A l \in 0 .. Top - 1 :
                e[l] = config.inputs * WantedRounds(f, l + 1, e[l + 1])
        <3>1. Top \in Levels /\ \A l \in 0 .. Top - 1 : l \in Levels /\ l # Top
            BY <1>1
        <3>2. \A l \in Levels : e[l] = body(e)[l]
            OBVIOUS
        <3> QED
            BY <3>1, <3>2
    <2>2. \A l \in Levels : e[l] \in Nat
        <3> DEFINE Wrong == {n \in 0 .. Top : e[Top - n] \notin Nat}
        <3>1. \A n \in Wrong : n \in Nat
            OBVIOUS
        <3>2. ASSUME NEW n \in Wrong
              PROVE  \E k \in Wrong : k < n
            <4>1. n \in 0 .. Top /\ e[Top - n] \notin Nat
                BY <3>2
            <4>2. n # 0
                BY <1>1, <1>2, <2>1, <4>1
            <4>3. Top - n \in 0 .. Top - 1 /\ Top - n + 1 = Top - (n - 1)
                BY <1>1, <4>1, <4>2
            <4>4. e[Top - (n - 1)] \notin Nat
                BY <1>3, <2>1, <4>1, <4>3
            <4>5. n - 1 \in Wrong /\ n - 1 < n
                BY <1>1, <4>1, <4>2, <4>4
            <4> HIDE DEF Wrong
            <4> QED
                BY <4>5
        <3> HIDE DEF Wrong
        <3>3. Wrong = {}
            BY <3>1, <3>2, NoLeast
        <3> TAKE l \in Levels
        <3>4. Top - l \in 0 .. Top /\ Top - (Top - l) = l
            BY <1>1
        <3> QED
            BY <3>3, <3>4 DEF Wrong
    <2>3. e \in [Levels -> Nat]
        BY <2>2
    <2>4. Levels \ {Top} = 0 .. Top - 1
        BY <1>1
    <2> QED
        BY <2>1, <2>3, <2>4 DEF IsDemand
<1>10. DemandByLevel(f) = CHOOSE e : e = body(e)
    BY DEF DemandByLevel
<1> HIDE DEF body
<1> QED
    BY <1>6, <1>7, <1>8, <1>9, <1>10

-----------------------------------------------------------------------------
(* Handing over *)

\* The fields of a factory that has its types.
LEMMA TypedFields ==
    ASSUME config \in Factories, NEW f, Typed(f)
    PROVE  /\ f.waiting \in Seq(config.requests) /\ Len(f.waiting) \in Nat
           /\ f.served \in Seq(config.requests) /\ Len(f.served) \in Nat
           /\ f.stored \in [Levels -> Nat] /\ f.working \in [Levels -> Nat]
           /\ f.correcting \in [Levels -> Seq(1 .. config.corrections)]
           /\ f.returning \in Nat
           /\ f.produced \in [Levels -> Nat] /\ f.failed \in [Levels -> Nat]
           /\ f.isStarted \in BOOLEAN /\ f.isShutDown \in BOOLEAN
           /\ InFlight(f) \in Nat
           /\ f.stored[Top] \in Nat
<1>1. 0 \in Levels /\ Top \in Levels
    BY CardFacts
<1>2. /\ f.waiting \in Seq(config.requests)
      /\ f.served \in Seq(config.requests)
      /\ f.stored \in [Levels -> Nat] /\ f.working \in [Levels -> Nat]
      /\ f.correcting \in [Levels -> Seq(1 .. config.corrections)]
      /\ f.returning \in Nat
      /\ f.produced \in [Levels -> Nat] /\ f.failed \in [Levels -> Nat]
      /\ f.isStarted \in BOOLEAN /\ f.isShutDown \in BOOLEAN
    BY DEF Typed, Records
<1>3. Len(f.waiting) \in Nat /\ Len(f.served) \in Nat
    BY <1>2
<1>4. InFlight(f) \in Nat
    <2>1. f.correcting[0] \in Seq(1 .. config.corrections)
        BY <1>1, <1>2
    <2>2. Len(f.correcting[0]) \in Nat
        BY <2>1
    <2> QED
        BY <1>2, <2>2 DEF InFlight
<1> QED
    BY <1>1, <1>2, <1>3, <1>4

\* f and g differ at most in their requests and their stores.
SameWork(f, g) ==
    /\ g.working = f.working /\ g.correcting = f.correcting
    /\ g.returning = f.returning
    /\ g.produced = f.produced /\ g.failed = f.failed
    /\ g.isStarted = f.isStarted /\ g.isShutDown = f.isShutDown

\* f after n of the requests that wait were handed a state.
HandedOver(f, n) ==
    [f EXCEPT !.stored[Top] = @ - n,
              !.served = @ \o SubSeq(f.waiting, 1, n),
              !.waiting = SubSeq(@, n + 1, Len(@))]

\* _deliver_to_waiting hands over as many states as there are requests and
\* states for.
LEMMA DeliverFacts ==
    ASSUME config \in Factories, NEW f, Typed(f)
    PROVE  \E n \in Nat :
             /\ n <= f.stored[Top] /\ n <= Len(f.waiting)
             /\ n = f.stored[Top] \/ n = Len(f.waiting)
             /\ Deliver(f) = HandedOver(f, n)
<1> DEFINE a == f.stored[Top]
           b == Len(f.waiting)
           n == Min({a, b})
<1>1. a \in Nat /\ b \in Nat
    BY TypedFields
<1>2. n = IF a <= b THEN a ELSE b
    <2> HIDE DEF a, b
    <2> QED
        BY <1>1, OfTwo
<1>3. Deliver(f) = HandedOver(f, n)
    BY DEF Deliver, HandedOver
<1> HIDE DEF n
<1> QED
    BY <1>1, <1>2, <1>3

\* Handing over keeps the types, the work and the order of the requests.
LEMMA HandedOverFacts ==
    ASSUME config \in Factories, NEW f, Typed(f), NEW n \in Nat,
           n <= f.stored[Top], n <= Len(f.waiting)
    PROVE  LET g == HandedOver(f, n) IN
           /\ Typed(g)
           /\ SameWork(f, g)
           /\ \A l \in Levels : Busy(g, l) = Busy(f, l)
           /\ InFlight(g) = InFlight(f)
           /\ g.stored = [f.stored EXCEPT ![Top] = @ - n]
           /\ g.served \o g.waiting = f.served \o f.waiting
           /\ Len(g.served) = Len(f.served) + n
           /\ Len(g.waiting) = Len(f.waiting) - n
<1> DEFINE g == HandedOver(f, n)
           given == SubSeq(f.waiting, 1, n)
           left == SubSeq(f.waiting, n + 1, Len(f.waiting))
           store == [f.stored EXCEPT ![Top] = @ - n]
           R == config.requests
<1>1. /\ f.waiting \in Seq(R) /\ Len(f.waiting) \in Nat
      /\ f.served \in Seq(R) /\ Len(f.served) \in Nat
      /\ f.stored \in [Levels -> Nat] /\ f.stored[Top] \in Nat
    BY TypedFields
<1>2. /\ given \in Seq(R) /\ Len(given) = n
      /\ left \in Seq(R) /\ Len(left) = Len(f.waiting) - n
      /\ given \o left = f.waiting
    <2>1. n \in 0 .. Len(f.waiting)
        BY <1>1
    <2> HIDE DEF R
    <2> QED
        BY <1>1, <2>1, SplitFacts
<1>3. store \in [Levels -> Nat]
    <2>1. f.stored[Top] - n \in Nat
        BY <1>1
    <2> QED
        BY <1>1, <2>1
<1>4. /\ g.served = f.served \o given /\ g.waiting = left
      /\ g.stored = store
      /\ SameWork(f, g)
    BY DEF HandedOver, SameWork, Typed, Records
<1> HIDE DEF given, left, store
<1>5. f.served \o given \in Seq(R) /\ Len(f.served \o given) = Len(f.served) + n
    BY <1>1, <1>2, ConcatProperties
<1>6. (f.served \o given) \o left = f.served \o f.waiting
    <2>1. n \in 0 .. Len(f.waiting)
        BY <1>1
    <2> HIDE DEF R
    <2> QED
        BY <1>1, <2>1, ConcatSplit DEF given, left
<1>7. /\ \A l \in Levels : Busy(g, l) = Busy(f, l)
      /\ InFlight(g) = InFlight(f)
    BY <1>4 DEF Busy, InFlight, SameWork
<1>8. g = [f EXCEPT !.stored = store, !.served = f.served \o given,
                    !.waiting = left]
    BY DEF HandedOver, Typed, Records, given, left, store
<1> HIDE DEF g
<1>9. g \in Records
    BY <1>2, <1>3, <1>5, <1>8 DEF Typed, Records
<1>10. Typed(g)
    BY <1>7, <1>9 DEF Typed, Records
<1> QED
    BY <1>2, <1>4, <1>5, <1>6, <1>7, <1>10 DEF g, store

\* What a level has and will have made is a number.
LEMMA CommittedTyped ==
    ASSUME config \in Factories, NEW f, Typed(f), NEW l \in Levels
    PROVE  Committed(f, l) \in Nat /\ Busy(f, l) * Outputs(l) \in Nat
<1>1. Busy(f, l) \in Nat /\ f.stored[l] \in Nat /\ Outputs(l) \in Nat
    BY BusyTyped, CardFacts
<1>2. Busy(f, l) * Outputs(l) \in Nat
    BY <1>1
<1> QED
    BY <1>1, <1>2 DEF Committed

\* What is wanted depends on what lacks of the demand alone.
LEMMA SameDeficit ==
    ASSUME config \in Factories, NEW f, NEW g, Typed(f), Typed(g),
           NEW l \in Levels, NEW x \in Nat, NEW y \in Nat,
           x - Committed(f, l) = y - Committed(g, l)
    PROVE  WantedRounds(f, l, x) = WantedRounds(g, l, y)
    BY DEF WantedRounds, Committed

\* _deliver_to_waiting leaves nobody waiting beside a store, and where nobody
\* did it does nothing.
LEMMA DeliverKeeps ==
    ASSUME config \in Factories, NEW f, Sound(f)
    PROVE  /\ Sound(Deliver(f)) /\ Delivered(Deliver(f))
           /\ SameWork(f, Deliver(f))
           /\ Delivered(f) => Deliver(f) = f
<1>1. Typed(f) /\ NoneTwice(f) /\ Conserved(f) /\ NotAhead(f)
    BY DEF Sound
<1>2. PICK n \in Nat : /\ n <= f.stored[Top] /\ n <= Len(f.waiting)
                       /\ n = f.stored[Top] \/ n = Len(f.waiting)
                       /\ Deliver(f) = HandedOver(f, n)
    BY <1>1, DeliverFacts
<1> DEFINE g == HandedOver(f, n)
<1>3. /\ Typed(g) /\ SameWork(f, g)
      /\ \A l \in Levels : Busy(g, l) = Busy(f, l)
      /\ InFlight(g) = InFlight(f)
      /\ g.stored = [f.stored EXCEPT ![Top] = @ - n]
      /\ g.served \o g.waiting = f.served \o f.waiting
      /\ Len(g.served) = Len(f.served) + n
      /\ Len(g.waiting) = Len(f.waiting) - n
    BY <1>1, <1>2, HandedOverFacts
<1>4. Delivered(f) => g = f
    <2> SUFFICES ASSUME Delivered(f)
                 PROVE  g = f
        OBVIOUS
    <2>1. n = 0
        <3>1. f.waiting = <<>> => Len(f.waiting) = 0
            OBVIOUS
        <3> QED
            BY <1>2, <3>1 DEF Delivered
    <2>2. f.waiting \in Seq(config.requests) /\ f.served \in Seq(config.requests)
        BY <1>1, TypedFields
    <2>3. SubSeq(f.waiting, 1, 0) = <<>> /\ SubSeq(f.waiting, 0 + 1, Len(f.waiting)) = f.waiting
        BY <2>2, SubSeqEmpty, SubSeqFull
    <2>4. f.served \o <<>> = f.served
        BY <2>2
    <2>5. f.stored[Top] - 0 = f.stored[Top] /\ f.stored \in [Levels -> Nat]
        BY <1>1, TypedFields
    <2>6. [f.stored EXCEPT ![Top] = @ - 0] = f.stored
        BY <2>5
    <2>7. g = [f EXCEPT !.stored = [f.stored EXCEPT ![Top] = @ - 0],
                        !.served = f.served \o SubSeq(f.waiting, 1, 0),
                        !.waiting = SubSeq(f.waiting, 0 + 1, Len(f.waiting))]
        BY <1>1, <2>1 DEF HandedOver, Typed, Records
    <2>8. g = [f EXCEPT !.stored = f.stored, !.served = f.served,
                        !.waiting = f.waiting]
        BY <2>3, <2>4, <2>6, <2>7
    <2> HIDE DEF g
    <2> QED
        BY <1>1, <2>8 DEF Typed, Records
<1> HIDE DEF g
<1>5. /\ Top \in Levels /\ Levels = 0 .. Top /\ Top \in Nat
      /\ f.stored \in [Levels -> Nat] /\ f.produced \in [Levels -> Nat]
      /\ Len(f.served) \in Nat /\ Len(f.waiting) \in Nat
      /\ config.buffer \in Nat /\ f.stored[Top] \in Nat
    BY <1>1, CardFacts, TypedFields
<1>6. /\ g.stored[Top] = f.stored[Top] - n
      /\ \A l \in Levels \ {Top} : g.stored[l] = f.stored[l]
    BY <1>3, <1>5
<1>7. NoneTwice(g)
    BY <1>1, <1>3 DEF NoneTwice
<1>8. Delivered(g)
    <2>1. g.waiting \in Seq(config.requests)
        BY <1>3, TypedFields
    <2>2. Len(g.waiting) = 0 => g.waiting = <<>>
        BY <2>1
    <2>3. CASE n = f.stored[Top]
        BY <1>5, <1>6, <2>3 DEF Delivered
    <2>4. CASE n = Len(f.waiting)
        BY <1>3, <1>5, <2>2, <2>4 DEF Delivered
    <2> QED
        BY <1>2, <2>3, <2>4
<1>9. Conserved(g)
    <2>1. g.produced[Top] + (IF IsStage THEN config.initial ELSE 0)
            = g.stored[Top] + Len(g.served)
        <3>1. g.produced = f.produced
            BY <1>3 DEF SameWork
        <3>2. f.produced[Top] \in Nat /\ config.initial \in Nat
            BY <1>5, CardFacts
        <3>3. f.produced[Top] + (IF IsStage THEN config.initial ELSE 0)
                = f.stored[Top] + Len(f.served)
            BY <1>1 DEF Conserved
        <3> QED
            BY <1>3, <1>5, <1>6, <3>1, <3>2, <3>3
    <2>2. ASSUME NEW l \in 1 .. Top
          PROVE  g.produced[l - 1] = g.stored[l - 1] + config.inputs *
                    (Busy(g, l) + g.failed[l] + g.produced[l] \div Outputs(l))
        <3>1. l \in Levels /\ l - 1 \in Levels \ {Top}
            BY <1>5
        <3>2. g.produced = f.produced /\ g.failed = f.failed
            BY <1>3 DEF SameWork
        <3> QED
            BY <1>1, <1>3, <1>6, <3>1, <3>2 DEF Conserved
    <2> QED
        BY <2>1, <2>2 DEF Conserved
<1>10. NotAhead(g)
    <2>1. CASE IsStage
        <3>1. Top = 0
            BY <2>1, CardFacts
        <3>2. InFlight(f) \in Nat /\ f.working[0] \in Nat
            BY <1>1, <1>5, <3>1, TypedFields
        <3>3. g.working = f.working
            BY <1>3 DEF SameWork
        <3> DEFINE coming == f.working[0] + InFlight(f)
        <3>4. coming \in Nat /\ g.working[0] + InFlight(g) = coming
            BY <1>3, <3>2, <3>3
        <3> HIDE DEF coming
        <3>5. coming > 0 => f.stored[0] + coming <= config.buffer + Len(f.waiting)
            BY <1>1, <2>1 DEF NotAhead, coming
        <3>6. coming > 0 => g.stored[0] + coming <= config.buffer + Len(g.waiting)
            BY <1>2, <1>3, <1>5, <1>6, <3>1, <3>4, <3>5
        <3> QED
            BY <2>1, <3>4, <3>6 DEF NotAhead
    <2>2. CASE ~ IsStage
        <3> SUFFICES ASSUME NEW e, IsDemand(g, e), NEW l \in Levels,
                            Busy(g, l) > 0
                     PROVE  Committed(g, l) < e[l] + Outputs(l)
            BY <2>2 DEF NotAhead
        <3> DEFINE d == [e EXCEPT ![Top] = @ + n]
        <3>1. e \in [Levels -> Nat] /\ d \in [Levels -> Nat]
            <4>1. e \in [Levels -> Nat]
                BY DEF IsDemand
            <4>2. e[Top] + n \in Nat
                BY <1>5, <4>1
            <4> QED
                BY <4>1, <4>2
        <3>2. d[Top] = e[Top] + n /\ \A k \in Levels \ {Top} : d[k] = e[k]
            BY <1>5, <3>1
        <3> HIDE DEF d
        <3>3. ASSUME NEW k \in Levels
              PROVE  d[k] - Committed(f, k) = e[k] - Committed(g, k)
            <4>1. Busy(f, k) * Outputs(k) \in Nat /\ Busy(g, k) = Busy(f, k)
                BY <1>1, <1>3, CommittedTyped
            <4>2. f.stored[k] \in Nat /\ e[k] \in Nat
                BY <1>5, <3>1
            <4> DEFINE busy == Busy(f, k) * Outputs(k)
            <4>3. /\ Committed(f, k) = f.stored[k] + busy
                  /\ Committed(g, k) = g.stored[k] + busy /\ busy \in Nat
                BY <4>1 DEF Committed
            <4> HIDE DEF busy
            <4>4. CASE k = Top
                BY <1>6, <3>2, <4>2, <4>3, <4>4
            <4>5. CASE k # Top
                BY <1>6, <3>2, <4>2, <4>3, <4>5
            <4> QED
                BY <4>4, <4>5
        <3>4. \A k \in Levels :
                WantedRounds(f, k, d[k]) = WantedRounds(g, k, e[k])
            BY <1>1, <1>3, <3>1, <3>3, SameDeficit
        <3>5. IsDemand(f, d)
            <4>1. d[Top] = Len(f.waiting) + config.buffer
                <5>1. e[Top] = Len(g.waiting) + config.buffer
                    BY DEF IsDemand
                <5> QED
                    BY <1>3, <1>5, <3>2, <5>1
            <4>2. ASSUME NEW k \in Levels \ {Top}
                  PROVE  d[k] = config.inputs * WantedRounds(f, k + 1, d[k + 1])
                <5>1. k + 1 \in Levels
                    BY <1>5
                <5> QED
                    BY <3>2, <3>4, <5>1 DEF IsDemand
            <4> QED
                BY <3>1, <4>1, <4>2 DEF IsDemand
        <3>6. Committed(f, l) < d[l] + Outputs(l)
            BY <1>1, <1>3, <2>2, <3>5 DEF NotAhead
        <3>7. /\ Committed(f, l) \in Nat /\ Committed(g, l) \in Nat
              /\ Outputs(l) \in Nat /\ d[l] \in Nat /\ e[l] \in Nat
            BY <1>1, <1>3, <3>1, CommittedTyped, CardFacts
        <3> QED
            BY <3>3, <3>6, <3>7
    <2> QED
        BY <2>1, <2>2
<1> QED
    BY <1>2, <1>3, <1>4, <1>7, <1>8, <1>9, <1>10 DEF Sound, g

-----------------------------------------------------------------------------
(* What those who ask see of a step *)

\* The states at hand go to the oldest requests of a queue, as the supply says.
Hands(f, queue, states, g) ==
    LET given == IF states <= Len(queue) THEN states ELSE Len(queue) IN
    /\ g.served = f.served \o SubSeq(queue, 1, given)
    /\ g.waiting = SubSeq(queue, given + 1, Len(queue))
    /\ g.stored[Top] = states - given

\* Nothing is asked, made at the top or handed over.
SameSupply(f, g) ==
    /\ g.waiting = f.waiting /\ g.served = f.served
    /\ g.stored[Top] = f.stored[Top]

\* A step of the supply: a request, or the states of one round at the top.
Supplies(f, g) ==
    \/ SameSupply(f, g)
    \/ \E o \in config.requests \ Asked(f) :
            Hands(f, Append(f.waiting, o), f.stored[Top], g)
    \/ \E n \in {1, Outputs(Top)} : Hands(f, f.waiting, f.stored[Top] + n, g)

\* A factory that serves those who ask, or that nobody will ask.
Attends(f) ==
    \/ IsStage
    \/ ~ f.isShutDown
    \/ f.waiting = <<>> /\ config.requests \subseteq Range(f.served)

\* Handing over does what the supply says.
LEMMA DeliverHands ==
    ASSUME config \in Factories, NEW f, Typed(f)
    PROVE  Hands(f, f.waiting, f.stored[Top], Deliver(f))
<1> DEFINE a == f.stored[Top]
           b == Len(f.waiting)
           n == Min({a, b})
           given == IF a <= b THEN a ELSE b
           g == HandedOver(f, n)
<1>1. a \in Nat /\ b \in Nat
    BY TypedFields
<1>2. n = given
    <2> HIDE DEF a, b
    <2>1. a \in Int /\ b \in Int
        BY <1>1
    <2> QED
        BY <2>1, OfTwo
<1>3. Deliver(f) = g
    BY DEF Deliver, HandedOver
<1>4. /\ f.served \in Seq(config.requests) /\ f.stored \in [Levels -> Nat]
      /\ Top \in Levels
    BY TypedFields, CardFacts
<1> HIDE DEF n, given
<1>5. /\ g.served = f.served \o SubSeq(f.waiting, 1, n)
      /\ g.waiting = SubSeq(f.waiting, n + 1, Len(f.waiting))
      /\ g.stored = [f.stored EXCEPT ![Top] = @ - n]
    BY DEF HandedOver, Typed, Records
<1>6. g.stored[Top] = f.stored[Top] - n
    BY <1>4, <1>5
<1> HIDE DEF g
<1> QED
    BY <1>2, <1>3, <1>5, <1>6 DEF Hands, given

\* With no request or no state, nothing is handed over.
LEMMA NothingHanded ==
    ASSUME config \in Factories, NEW f, Typed(f), NEW g
    PROVE  /\ Delivered(f) /\ Hands(f, f.waiting, f.stored[Top], g) => SameSupply(f, g)
           /\ \A n \in Nat :
                f.waiting = <<>> /\ g.waiting = f.waiting /\ g.served = f.served
                    /\ g.stored[Top] = n => Hands(f, f.waiting, n, g)
<1>1. /\ f.waiting \in Seq(config.requests) /\ f.served \in Seq(config.requests)
      /\ Len(f.waiting) \in Nat /\ f.stored[Top] \in Nat
    BY TypedFields
<1>2. /\ SubSeq(f.waiting, 1, 0) = <<>> /\ SubSeq(f.waiting, 0 + 1, Len(f.waiting)) = f.waiting
      /\ f.served \o <<>> = f.served
    <2>1. SubSeq(f.waiting, 1, 0) = <<>> /\ SubSeq(f.waiting, 0 + 1, Len(f.waiting)) = f.waiting
        BY <1>1, SubSeqEmpty, SubSeqFull
    <2>2. f.served \o <<>> = f.served
        BY <1>1
    <2> QED
        BY <2>1, <2>2
<1>3. ASSUME Delivered(f), Hands(f, f.waiting, f.stored[Top], g)
      PROVE  SameSupply(f, g)
    <2> DEFINE a == f.stored[Top]
               given == IF a <= Len(f.waiting) THEN a ELSE Len(f.waiting)
    <2>1. given = 0
        <3>1. f.waiting = <<>> => Len(f.waiting) = 0
            OBVIOUS
        <3> QED
            BY <1>1, <1>3, <3>1 DEF Delivered
    <2>2. /\ g.served = f.served \o SubSeq(f.waiting, 1, given)
          /\ g.waiting = SubSeq(f.waiting, given + 1, Len(f.waiting))
          /\ g.stored[Top] = a - given
        BY <1>3 DEF Hands
    <2> HIDE DEF given
    <2>3. a - 0 = a
        BY <1>1
    <2> QED
        BY <1>2, <2>1, <2>2, <2>3 DEF SameSupply
<1>4. ASSUME NEW n \in Nat, f.waiting = <<>>, g.waiting = f.waiting,
             g.served = f.served, g.stored[Top] = n
      PROVE  Hands(f, f.waiting, n, g)
    <2> DEFINE given == IF n <= Len(f.waiting) THEN n ELSE Len(f.waiting)
    <2>1. given = 0
        <3>1. Len(f.waiting) = 0
            BY <1>4
        <3> QED
            BY <3>1
    <2> HIDE DEF given
    <2>2. /\ g.served = f.served \o SubSeq(f.waiting, 1, given)
          /\ g.waiting = SubSeq(f.waiting, given + 1, Len(f.waiting))
          /\ g.stored[Top] = n - given
        <3>1. n - 0 = n
            OBVIOUS
        <3> QED
            BY <1>2, <1>4, <2>1, <3>1
    <2> QED
        BY <2>2 DEF Hands, given
<1> QED
    BY <1>3, <1>4

-----------------------------------------------------------------------------
(* Starting attempts *)

\* A stage's shortage: it covers what waits, and the pipeline, and no more.
LEMMA ShortageFacts ==
    ASSUME config \in Factories, IsStage, NEW f, Typed(f),
           NEW coming, coming = f.working[0] + InFlight(f)
    PROVE  LET unmet == Len(f.waiting) - coming
               short == config.buffer + Len(f.waiting) - (f.stored[0] + coming) IN
           /\ Shortage(f) \in Nat
           /\ \/ Shortage(f) = 0
              \/ Shortage(f) = unmet
              \/ config.buffer > 0 /\ Shortage(f) = short
           /\ Shortage(f) >= unmet
           /\ config.buffer > 0 => Shortage(f) >= short
<1> DEFINE unmet == Len(f.waiting) - coming
           short == config.buffer + Len(f.waiting) - (f.stored[0] + coming)
           third == IF config.buffer > 0 THEN short ELSE 0
<1>1. /\ f.working[0] \in Nat /\ InFlight(f) \in Nat /\ f.stored[0] \in Nat
      /\ Len(f.waiting) \in Nat /\ config.buffer \in Nat
    BY TypedFields, CardFacts
<1>2. unmet \in Int /\ short \in Int
    <2>1. coming \in Nat
        BY <1>1
    <2>2. \A w, b, h, c \in Nat : w - c \in Int /\ b + w - (h + c) \in Int
        OBVIOUS
    <2> QED
        BY <1>1, <2>1, <2>2
<1>3. Shortage(f) = Max({0, unmet, third})
    BY DEF Shortage, IsContinuous
<1> HIDE DEF unmet, short
<1>4. third \in Int
    BY <1>2
<1> HIDE DEF third
<1>5. 0 \in Int
    OBVIOUS
<1>6. /\ Max({0, unmet, third}) \in {0, unmet, third}
      /\ Max({0, unmet, third}) >= 0 /\ Max({0, unmet, third}) >= unmet
      /\ Max({0, unmet, third}) >= third
    BY <1>2, <1>4, <1>5, OfThree
<1>7. /\ Shortage(f) \in Nat
      /\ \/ Shortage(f) = 0
         \/ Shortage(f) = unmet
         \/ config.buffer > 0 /\ Shortage(f) = short
      /\ Shortage(f) >= unmet
      /\ config.buffer > 0 => Shortage(f) >= short
    <2>1. Shortage(f) \in {0, unmet, third} /\ Shortage(f) >= 0
        BY <1>3, <1>6
    <2>2. Shortage(f) \in Nat
        BY <1>2, <1>4, <2>1
    <2> QED
        BY <1>3, <1>6, <2>1, <2>2 DEF third
<1> QED
    BY <1>7 DEF unmet, short

\* The stage f with m more attempts under way.
WithAttempts(f, m) == [f EXCEPT !.working[0] = @ + m]

\* _start_attempts leaves a stage that has nothing to start, and touches
\* neither requests nor store.
LEMMA StartAttemptsKeeps ==
    ASSUME config \in Factories, IsStage, NEW f, Sound(f), Delivered(f)
    PROVE  LET g == StartAttempts(f) IN
           /\ Sound(g) /\ Delivered(g) /\ Idle(g)
           /\ g.waiting = f.waiting /\ g.served = f.served
           /\ g.stored = f.stored /\ g.isShutDown = f.isShutDown
<1>1. Typed(f) /\ NoneTwice(f) /\ Conserved(f) /\ NotAhead(f)
    BY DEF Sound
<1>2. CASE f.isShutDown
    BY <1>2 DEF StartAttempts, Idle
<1>3. CASE ~ f.isShutDown
    <2> DEFINE idle == Units(0) - f.working[0]
               short == Shortage(f)
               m == Min({idle, short})
               g == WithAttempts(f, m)
    <2>1. /\ 0 \in Levels /\ Top = 0 /\ Levels = 0 .. 0
          /\ f.working \in [Levels -> Nat] /\ f.working[0] \in Nat
          /\ f.stored[0] \in Nat /\ InFlight(f) \in Nat
          /\ Len(f.waiting) \in Nat /\ config.buffer \in Nat
        BY <1>1, CardFacts, TypedFields
    <2>2. idle \in Nat /\ short \in Nat
        <3>1. Busy(f, 0) = f.working[0]
            BY <2>1 DEF Busy
        <3>2. Busy(f, 0) <= Units(0) /\ Units(0) \in Nat
            BY <1>1, <2>1, CardFacts DEF Typed, Records
        <3> QED
            BY <1>1, <2>1, <3>1, <3>2, ShortageFacts
    <2>3. m = IF idle <= short THEN idle ELSE short
        <3> HIDE DEF idle, short
        <3> QED
            BY <2>2, OfTwo
    <2>4. m \in Nat /\ m <= idle /\ m <= short
        BY <2>2, <2>3
    <2>5. StartAttempts(f) = g
        BY <1>3 DEF StartAttempts, WithAttempts
    <2> HIDE DEF idle, short, m
    <2> DEFINE work == [f.working EXCEPT ![0] = @ + m]
    <2>6. work \in [Levels -> Nat] /\ work[0] = f.working[0] + m
        BY <2>1, <2>4
    <2>7. g = [f EXCEPT !.working = work]
        BY <1>1 DEF WithAttempts, Typed, Records
    <2> HIDE DEF work, g
    <2>8. /\ g.working = work
          /\ g.waiting = f.waiting /\ g.served = f.served
          /\ g.stored = f.stored /\ g.correcting = f.correcting
          /\ g.returning = f.returning
          /\ g.produced = f.produced /\ g.failed = f.failed
          /\ g.isStarted = f.isStarted /\ g.isShutDown = f.isShutDown
        BY <1>1, <2>7 DEF Typed, Records
    <2>9. InFlight(g) = InFlight(f)
        BY <2>8 DEF InFlight
    <2>10. Typed(g)
        <3>1. g \in Records
            BY <1>1, <2>6, <2>7 DEF Typed, Records
        <3>2. \A l \in Levels : Busy(g, l) = work[0] + 0
            BY <2>1, <2>8 DEF Busy
        <3>3. Units(0) \in Nat
            BY <2>1, CardFacts
        <3>4. work[0] + 0 <= Units(0)
            BY <2>1, <2>4, <2>6, <3>3 DEF idle
        <3>5. \A l \in Levels : Busy(g, l) <= Units(l)
            BY <2>1, <3>2, <3>4
        <3> QED
            BY <3>1, <3>5 DEF Typed, Records
    <2>11. NoneTwice(g) /\ Delivered(g)
        BY <1>1, <2>8 DEF NoneTwice, Delivered
    <2>12. Conserved(g)
        <3>1. 1 .. Top = {}
            BY <2>1
        <3> QED
            BY <1>1, <2>8, <3>1 DEF Conserved
    <2> DEFINE coming == f.working[0] + InFlight(f)
               after == work[0] + InFlight(f)
    <2>13. coming \in Nat /\ after = coming + m
        BY <2>1, <2>4, <2>6
    <2>14. /\ \/ short = 0
              \/ short = Len(f.waiting) - coming
              \/ config.buffer > 0 /\ short =
                    config.buffer + Len(f.waiting) - (f.stored[0] + coming)
           /\ short >= Len(f.waiting) - coming
           /\ config.buffer > 0 =>
                short >= config.buffer + Len(f.waiting) - (f.stored[0] + coming)
        BY <1>1, ShortageFacts DEF short
    <2>15. /\ Shortage(g) \in Nat
           /\ \/ Shortage(g) = 0
              \/ Shortage(g) = Len(f.waiting) - after
              \/ config.buffer > 0 /\ Shortage(g) =
                    config.buffer + Len(f.waiting) - (f.stored[0] + after)
        <3>1. g.working[0] + InFlight(g) = after
            BY <2>8, <2>9
        <3> HIDE DEF after
        <3> QED
            BY <2>8, <2>10, <3>1, ShortageFacts
    <2> HIDE DEF coming, after
    <2>16. NotAhead(g)
        <3>1. after > 0 => f.stored[0] + after <= config.buffer + Len(f.waiting)
            <4> SUFFICES ASSUME after > 0
                         PROVE  f.stored[0] + after <= config.buffer + Len(f.waiting)
                OBVIOUS
            <4>1. CASE m = 0
                <5>1. coming > 0
                    BY <2>13, <4>1
                <5>2. f.stored[0] + coming <= config.buffer + Len(f.waiting)
                    BY <1>1, <5>1 DEF NotAhead, coming
                <5> QED
                    BY <2>1, <2>13, <4>1, <5>2
            <4>2. CASE m > 0
                <5>1. short > 0 /\ m <= short
                    BY <2>2, <2>4, <4>2
                <5>2. CASE short = Len(f.waiting) - coming
                    <6>1. Len(f.waiting) > 0
                        BY <2>1, <2>13, <5>1, <5>2
                    <6>2. f.waiting # <<>>
                        BY <6>1
                    <6>3. f.stored[0] = 0
                        BY <2>1, <6>2 DEF Delivered
                    <6> QED
                        BY <2>1, <2>4, <2>13, <5>1, <5>2, <6>3
                <5>3. CASE short = config.buffer + Len(f.waiting) - (f.stored[0] + coming)
                    BY <2>1, <2>4, <2>13, <5>1, <5>3, SMTT(90)
                <5> QED
                    BY <2>14, <5>1, <5>2, <5>3
            <4> QED
                BY <2>4, <4>1, <4>2
        <3>2. g.working[0] + InFlight(g) = after
            BY <2>8, <2>9 DEF after
        <3> QED
            BY <2>8, <3>1, <3>2 DEF NotAhead
    <2>17. Idle(g)
        <3>1. CASE m = idle
            <4>1. g.working[0] = Units(0)
                <5>1. Units(0) \in Nat
                    BY <2>1, CardFacts
                <5> QED
                    BY <2>1, <2>6, <2>8, <3>1, <5>1 DEF idle
            <4> QED
                BY <4>1 DEF Idle
        <3>2. CASE m = short
            <4>1. m >= Len(f.waiting) - coming
                BY <2>14, <3>2
            <4>2. config.buffer > 0 =>
                    m >= config.buffer + Len(f.waiting) - (f.stored[0] + coming)
                BY <2>14, <3>2
            <4>3. Shortage(g) = 0
                <5>1. CASE Shortage(g) = Len(f.waiting) - after
                    <6>1. Len(f.waiting) - after <= 0
                        BY <2>1, <2>4, <2>13, <4>1
                    <6> QED
                        BY <2>15, <5>1, <6>1
                <5>2. CASE config.buffer > 0 /\ Shortage(g) =
                            config.buffer + Len(f.waiting) - (f.stored[0] + after)
                    <6>1. config.buffer + Len(f.waiting) - (f.stored[0] + after) <= 0
                        BY <2>1, <2>4, <2>13, <4>2, <5>2, SMTT(90)
                    <6> QED
                        BY <2>15, <5>2, <6>1
                <5> QED
                    BY <2>15, <5>1, <5>2
            <4> QED
                BY <4>3 DEF Idle
        <3> QED
            BY <2>3, <3>1, <3>2
    <2> QED
        BY <2>5, <2>8, <2>10, <2>11, <2>12, <2>16, <2>17 DEF Sound
<1> QED
    BY <1>2, <1>3
-----------------------------------------------------------------------------
(* Starting rounds *)

\* The rounds of n states that cover a deficit of x states.
Ceiling(x, n) == IF x <= 0 THEN 0 ELSE (x + n - 1) \div n

\* Once b of the rounds that cover a deficit have begun, the others cover the
\* rest.
LEMMA CeilingFalls ==
    ASSUME NEW x \in Int, NEW n \in Nat \ {0}, NEW b \in Nat,
           b <= Ceiling(x, n), NEW y, y = x - b * n
    PROVE  Ceiling(y, n) = Ceiling(x, n) - b
<1> USE DEF Ceiling
<1> DEFINE w == Ceiling(x, n)
<1>0. b * n \in Nat /\ y \in Int
    OBVIOUS
<1>1. CASE x <= 0
    <2>1. w = 0 /\ b = 0
        BY <1>1
    <2>2. y = x
        BY <2>1
    <2> QED
        BY <1>1, <2>1, <2>2
<1>2. CASE x > 0
    <2>1. w = (x + n - 1) \div n
        BY <1>2
    <2>2. w \in Int /\ n * w <= x + n - 1 /\ x + n - 1 < n * w + n
        BY <1>2, <2>1
    <2> DEFINE r == w - b
    <2>3. r \in Nat /\ n * w = n * r + b * n
        BY <2>2
    <2>4. n * r <= y + n - 1 /\ y + n - 1 < n * r + n
        BY <1>0, <2>2, <2>3
    <2> HIDE DEF r
    <2>5. CASE r = 0
        <3>1. y <= 0
            BY <1>0, <2>4, <2>5
        <3> QED
            BY <2>5, <3>1 DEF r
    <2>6. CASE r > 0
        <3>1. n * r >= n
            BY <2>3, <2>6
        <3>2. y > 0
            <4>1. n * r \in Int /\ n \in Int
                BY <2>3
            <4> QED
                BY <1>0, <2>4, <3>1, <4>1
        <3>3. (y + n - 1) \div n = r
            <4> DEFINE z == y + n - 1
            <4>1. z \in Int /\ n * r <= z /\ z < n * r + n
                BY <1>0, <2>4
            <4> HIDE DEF z
            <4>2. n * (z \div n) <= z /\ z < n * (z \div n) + n /\ z \div n \in Int
                BY <4>1
            <4>3. ~ (z \div n < r)
                <5> SUFFICES ASSUME z \div n < r PROVE FALSE
                    OBVIOUS
                <5>1. n * (z \div n) + n <= n * r
                    BY <2>3, <4>2
                <5> QED
                    BY <2>3, <4>1, <4>2, <5>1
            <4>4. ~ (z \div n > r)
                <5> SUFFICES ASSUME z \div n > r PROVE FALSE
                    OBVIOUS
                <5>1. n * (z \div n) >= n * r + n
                    BY <2>3, <4>2
                <5> QED
                    BY <2>3, <4>1, <4>2, <5>1
            <4> QED
                BY <2>3, <4>2, <4>3, <4>4 DEF z
        <3> QED
            BY <3>2, <3>3 DEF r
    <2> QED
        BY <2>3, <2>5, <2>6
<1> QED
    BY <1>1, <1>2

\* The rounds a level can start are wanted, have units and have their inputs,
\* and one more would lack one of these.
LEMMA StartableFacts ==
    ASSUME config \in Factories, ~ IsStage, NEW f, Typed(f)
    PROVE  /\ Startable(f) \in [Levels -> Nat]
           /\ \A l \in Levels :
                LET b == Startable(f)[l]
                    w == WantedRounds(f, l, DemandByLevel(f)[l]) IN
                /\ b <= w /\ b <= Units(l) - Busy(f, l)
                /\ l > 0 => config.inputs * b <= f.stored[l - 1]
                /\ \/ b = w
                   \/ b = Units(l) - Busy(f, l)
                   \/ l > 0 /\ f.stored[l - 1] - config.inputs * b < config.inputs
<1> DEFINE w(l) == WantedRounds(f, l, DemandByLevel(f)[l])
           idle(l) == Units(l) - Busy(f, l)
           supplied(l) == f.stored[l - 1] \div config.inputs
           b(l) == Min({w(l), idle(l)} \cup IF l = 0 THEN {} ELSE {supplied(l)})
<1>1. Startable(f) = [l \in Levels |-> b(l)]
    BY DEF Startable
<1>2. ASSUME NEW l \in Levels
      PROVE  /\ b(l) \in Nat
             /\ b(l) <= w(l) /\ b(l) <= idle(l)
             /\ l > 0 => config.inputs * b(l) <= f.stored[l - 1]
             /\ \/ b(l) = w(l)
                \/ b(l) = idle(l)
                \/ l > 0 /\ f.stored[l - 1] - config.inputs * b(l) < config.inputs
    <2>1. w(l) \in Nat
        <3>1. DemandByLevel(f)[l] \in Nat
            BY DemandFacts DEF IsDemand
        <3> QED
            BY <3>1, WantedFacts
    <2>2. idle(l) \in Nat
        <3>1. Busy(f, l) \in Nat /\ Busy(f, l) <= Units(l) /\ Units(l) \in Nat
            BY BusyTyped, CardFacts DEF Typed, Records
        <3> QED
            BY <3>1
    <2>3. l \in Nat /\ config.inputs \in Nat \ {0}
        BY CardFacts
    <2>4. CASE l = 0
        <3>1. {w(l), idle(l)} \cup {} = {w(l), idle(l)}
            OBVIOUS
        <3>2. b(l) = Min({w(l), idle(l)})
            BY <2>4
        <3> HIDE DEF w, idle, b
        <3>3. b(l) = IF w(l) <= idle(l) THEN w(l) ELSE idle(l)
            BY <2>1, <2>2, <3>2, OfTwo
        <3> QED
            BY <2>1, <2>2, <2>4, <3>3
    <2>5. CASE l > 0
        <3> DEFINE in == f.stored[l - 1]
                   n == config.inputs
                   q == in \div n
        <3>1. in \in Nat /\ n \in Nat \ {0}
            <4>1. l - 1 \in Levels
                BY <2>3, <2>5, CardFacts
            <4> QED
                BY <2>3, <4>1, BusyTyped
        <3> HIDE DEF in, n
        <3>2. q \in Nat /\ n * q <= in /\ in < n * q + n
            BY <3>1
        <3> HIDE DEF q
        <3>3. b(l) = Min({w(l), idle(l), q})
            <4>1. supplied(l) = q
                BY DEF q, in, n
            <4>2. b(l) = Min({w(l), idle(l)} \cup {supplied(l)})
                <5>1. l # 0
                    BY <2>3, <2>5
                <5> HIDE DEF supplied, w, idle
                <5> QED
                    BY <5>1
            <4>3. {w(l), idle(l)} \cup {q} = {w(l), idle(l), q}
                OBVIOUS
            <4> HIDE DEF b, supplied, w, idle
            <4> QED
                BY <4>1, <4>2, <4>3
        <3> HIDE DEF w, idle, b
        <3>4. /\ b(l) \in {w(l), idle(l), q}
              /\ b(l) <= w(l) /\ b(l) <= idle(l) /\ b(l) <= q
            <4>1. w(l) \in Int /\ idle(l) \in Int /\ q \in Int
                BY <2>1, <2>2, <3>2
            <4>2. /\ Min({w(l), idle(l), q}) \in {w(l), idle(l), q}
                  /\ Min({w(l), idle(l), q}) <= w(l)
                  /\ Min({w(l), idle(l), q}) <= idle(l)
                  /\ Min({w(l), idle(l), q}) <= q
                BY <4>1, OfThree
            <4> QED
                BY <3>3, <4>2
        <3>5. b(l) \in Nat
            BY <2>1, <2>2, <3>2, <3>4
        <3>6. n * b(l) <= n * q
            BY <3>1, <3>2, <3>4, <3>5
        <3>7. n * b(l) <= in
            <4>1. n * b(l) \in Nat /\ n * q \in Nat
                BY <3>1, <3>2, <3>5
            <4> QED
                BY <3>1, <3>2, <3>6, <4>1
        <3>8. b(l) = q => in - n * b(l) < n
            <4>1. n * q \in Nat
                BY <3>1, <3>2
            <4> QED
                BY <3>1, <3>2, <4>1
        <3> QED
            BY <2>5, <3>4, <3>5, <3>7, <3>8 DEF in, n
    <2> QED
        BY <2>3, <2>4, <2>5
<1> HIDE DEF b, w, idle
<1>3. Startable(f) \in [Levels -> Nat] /\ \A l \in Levels : Startable(f)[l] = b(l)
    BY <1>1, <1>2
<1>4. \A l \in Levels :
        /\ Startable(f)[l] <= w(l) /\ Startable(f)[l] <= idle(l)
        /\ l > 0 => config.inputs * Startable(f)[l] <= f.stored[l - 1]
        /\ \/ Startable(f)[l] = w(l)
           \/ Startable(f)[l] = idle(l)
           \/ l > 0 /\ f.stored[l - 1] - config.inputs * Startable(f)[l] < config.inputs
    BY <1>2, <1>3
<1> QED
    BY <1>3, <1>4 DEF w, idle
\* Starting rounds keeps the invariant, and leaves nothing to start.
LEMMA StartRoundsKeeps ==
    ASSUME config \in Factories, ~ IsStage, NEW f, Sound(f), Delivered(f)
    PROVE  LET g == StartRounds(f) IN
           /\ Sound(g) /\ Delivered(g) /\ Idle(g)
           /\ g.waiting = f.waiting /\ g.served = f.served
           /\ g.stored[Top] = f.stored[Top] /\ g.isShutDown = f.isShutDown
<1> DEFINE D == DemandByLevel(f)
           b == Startable(f)
           in == config.inputs
           work == [l \in Levels |-> f.working[l] + b[l]]
           taken == [l \in Levels |-> IF l = Top THEN 0 ELSE in * b[l + 1]]
           store == [l \in Levels |-> f.stored[l] - taken[l]]
           g == StartRounds(f)
<1>1. Typed(f) /\ NoneTwice(f) /\ Conserved(f) /\ NotAhead(f)
    BY DEF Sound
<1>2. IsDemand(f, D)
    BY <1>1, DemandFacts
<1>3. /\ b \in [Levels -> Nat]
      /\ \A l \in Levels :
            LET w == WantedRounds(f, l, D[l]) IN
            /\ b[l] <= w /\ b[l] <= Units(l) - Busy(f, l)
            /\ l > 0 => in * b[l] <= f.stored[l - 1]
            /\ \/ b[l] = w
               \/ b[l] = Units(l) - Busy(f, l)
               \/ l > 0 /\ f.stored[l - 1] - in * b[l] < in
    BY <1>1, StartableFacts
<1>4. g = [f EXCEPT !.working = work, !.stored = store]
    BY <1>1 DEF StartRounds, Typed, Records
<1> HIDE DEF b, D, g
<1>5. /\ in \in Nat \ {0} /\ Top \in Nat /\ Levels = 0 .. Top
      /\ f.working \in [Levels -> Nat] /\ f.stored \in [Levels -> Nat]
      /\ f.produced \in [Levels -> Nat] /\ f.failed \in [Levels -> Nat]
    BY <1>1, CardFacts, TypedFields
<1> HIDE DEF in
<1>6. work \in [Levels -> Nat]
    <2>1. ASSUME NEW l \in Levels
          PROVE  f.working[l] + b[l] \in Nat
        <3>1. f.working[l] \in Nat /\ b[l] \in Nat
            BY <1>3, <1>5
        <3> QED
            BY <3>1
    <2> QED
        BY <2>1
<1>7. taken \in [Levels -> Nat] /\ \A l \in Levels : taken[l] <= f.stored[l]
    <2>1. ASSUME NEW l \in Levels, l # Top
          PROVE  in * b[l + 1] \in Nat /\ in * b[l + 1] <= f.stored[l]
        <3>1. l + 1 \in Levels /\ l + 1 > 0 /\ l + 1 - 1 = l
            BY <1>5, <2>1
        <3>2. b[l + 1] \in Nat
            BY <1>3, <3>1
        <3>3. in * b[l + 1] <= f.stored[l + 1 - 1]
            <4> HIDE DEF work, taken, store
            <4>1. \A k \in Levels : k > 0 => in * b[k] <= f.stored[k - 1]
                BY <1>3
            <4> DEFINE k == l + 1
            <4>2. k \in Levels /\ k > 0 /\ k - 1 = l
                BY <1>5, <3>1
            <4> HIDE DEF k
            <4>3. in * b[k] <= f.stored[l]
                BY <4>1, <4>2
            <4> QED
                BY <3>1, <4>3 DEF k
        <3>4. in * b[l + 1] \in Nat
            BY <1>5, <3>2
        <3> QED
            BY <3>1, <3>3, <3>4
    <2>2. ASSUME NEW l \in Levels
          PROVE  taken[l] \in Nat /\ taken[l] <= f.stored[l]
        <3>1. taken[l] = IF l = Top THEN 0 ELSE in * b[l + 1]
            OBVIOUS
        <3> HIDE DEF taken
        <3>2. CASE l = Top
            <4>1. f.stored[l] \in Nat /\ taken[l] = 0
                BY <1>5, <3>1, <3>2
            <4> QED
                BY <4>1
        <3>3. CASE l # Top
            BY <2>1, <3>1, <3>3
        <3> QED
            BY <3>2, <3>3
    <2> QED
        BY <2>2
<1>8. store \in [Levels -> Nat]
    <2>1. ASSUME NEW l \in Levels
          PROVE  f.stored[l] - taken[l] \in Nat
        <3> HIDE DEF taken
        <3>1. f.stored[l] \in Nat /\ taken[l] \in Nat /\ taken[l] <= f.stored[l]
            BY <1>5, <1>7
        <3> QED
            BY <3>1
    <2> QED
        BY <2>1
<1>9. /\ \A l \in Levels : work[l] = f.working[l] + b[l]
      /\ \A l \in Levels : store[l] = f.stored[l] - taken[l]
      /\ taken[Top] = 0
      /\ \A l \in Levels \ {Top} : taken[l] = in * b[l + 1]
    BY <1>5
<1> HIDE DEF work, store, taken
<1>10. /\ g.working = work /\ g.stored = store
       /\ g.waiting = f.waiting /\ g.served = f.served
       /\ g.correcting = f.correcting /\ g.returning = f.returning
       /\ g.produced = f.produced /\ g.failed = f.failed
       /\ g.isStarted = f.isStarted /\ g.isShutDown = f.isShutDown
    BY <1>1, <1>4 DEF Typed, Records
<1>11. \A l \in Levels : Busy(g, l) = Busy(f, l) + b[l]
    <2> TAKE l \in Levels
    <2>1. f.correcting[l] \in Seq(1 .. config.corrections)
        BY <1>1, TypedFields
    <2>4. f.working[l] \in Nat /\ b[l] \in Nat
        BY <1>3, <1>5
    <2>2. Len(f.correcting[l]) \in Nat /\ f.working[l] \in Nat /\ b[l] \in Nat
        BY <2>1, <2>4
    <2>3. /\ Busy(f, l) = f.working[l] + Len(f.correcting[l])
          /\ Busy(g, l) = (f.working[l] + b[l]) + Len(f.correcting[l])
        BY <1>9, <1>10 DEF Busy
    <2> QED
        BY <2>2, <2>3
<1>12. \A l \in Levels : /\ Busy(f, l) \in Nat /\ b[l] \in Nat
                         /\ Units(l) \in Nat /\ Outputs(l) \in Nat \ {0}
                         /\ Busy(f, l) <= Units(l)
    BY <1>1, <1>3, BusyTyped, CardFacts DEF Typed, Records
<1>13. Typed(g)
    <2>1. g \in Records
        BY <1>1, <1>4, <1>6, <1>8 DEF Typed, Records
    <2>2. \A l \in Levels : Busy(g, l) <= Units(l)
        <3> TAKE l \in Levels
        <3>1. b[l] <= Units(l) - Busy(f, l)
            BY <1>3
        <3> QED
            BY <1>11, <1>12, <3>1
    <2> QED
        BY <2>1, <2>2 DEF Typed, Records
<1>14. NoneTwice(g)
    BY <1>1, <1>10 DEF NoneTwice
<1>15. g.stored[Top] = f.stored[Top] /\ Delivered(g)
    <2>1. Top \in Levels /\ f.stored[Top] \in Nat
        BY <1>5
    <2>2. g.stored[Top] = f.stored[Top]
        BY <1>9, <1>10, <2>1
    <2> QED
        BY <1>10, <2>2 DEF Delivered
<1>16. Conserved(g)
    <2>1. g.produced[Top] + (IF IsStage THEN config.initial ELSE 0)
            = g.stored[Top] + Len(g.served)
        BY <1>1, <1>10, <1>15 DEF Conserved
    <2>2. ASSUME NEW l \in 1 .. Top
          PROVE  g.produced[l - 1] = g.stored[l - 1] + in *
                    (Busy(g, l) + g.failed[l] + g.produced[l] \div Outputs(l))
        <3>1. l \in Levels /\ l - 1 \in Levels \ {Top} /\ l - 1 + 1 = l
            BY <1>5
        <3> DEFINE made == f.produced[l] \div Outputs(l)
                   busy == Busy(f, l)
                   lost == f.failed[l]
                   kept == f.stored[l - 1]
                   begun == b[l]
        <3>2. /\ made \in Nat /\ busy \in Nat /\ lost \in Nat
              /\ kept \in Nat /\ begun \in Nat
            <4>1. /\ f.produced[l] \in Nat /\ Outputs(l) \in Nat \ {0}
                  /\ busy \in Nat /\ lost \in Nat /\ kept \in Nat /\ begun \in Nat
                BY <1>5, <1>12, <3>1
            <4> QED
                BY <4>1
        <3>3. f.produced[l - 1] = kept + in * (busy + lost + made)
            BY <1>1 DEF Conserved, in
        <3>4. g.stored[l - 1] = kept - in * begun
            BY <1>9, <1>10, <3>1
        <3>5. /\ Busy(g, l) = busy + begun /\ g.failed[l] = lost
              /\ g.produced[l] \div Outputs(l) = made
              /\ g.produced[l - 1] = f.produced[l - 1]
            BY <1>10, <1>11, <3>1
        <3> HIDE DEF made, busy, lost, kept, begun
        <3>6. kept + in * (busy + lost + made)
                = (kept - in * begun) + in * ((busy + begun) + lost + made)
            BY <1>5, <3>2
        <3> QED
            BY <3>3, <3>4, <3>5, <3>6
    <2> QED
        BY <2>1, <2>2 DEF Conserved, in
<1> DEFINE e == [l \in Levels |-> D[l] - taken[l]]
<1>17. /\ D \in [Levels -> Nat] /\ D[Top] = Len(f.waiting) + config.buffer
       /\ \A l \in Levels \ {Top} :
            D[l] = in * WantedRounds(f, l + 1, D[l + 1])
    BY <1>2 DEF IsDemand, in
<1>18. \A l \in Levels : WantedRounds(f, l, D[l]) \in Nat
    BY <1>1, <1>17, WantedFacts
<1>19. e \in [Levels -> Nat] /\ \A l \in Levels : e[l] = D[l] - taken[l]
    <2>1. ASSUME NEW l \in Levels
          PROVE  D[l] - taken[l] \in Nat
        <3>1. CASE l = Top
            BY <1>9, <1>17, <3>1
        <3>2. CASE l # Top
            <4>1. l + 1 \in Levels
                BY <1>5, <3>2
            <4> DEFINE w == WantedRounds(f, l + 1, D[l + 1])
            <4>2. w \in Nat /\ b[l + 1] \in Nat /\ b[l + 1] <= w
                BY <1>3, <1>18, <4>1
            <4>3. D[l] = in * w /\ taken[l] = in * b[l + 1]
                BY <1>9, <1>17, <3>2
            <4> HIDE DEF w
            <4>4. in * b[l + 1] <= in * w /\ in * b[l + 1] \in Nat /\ in * w \in Nat
                BY <1>5, <4>2
            <4> QED
                BY <4>3, <4>4
        <3> QED
            BY <3>1, <3>2
    <2> QED
        BY <2>1
<1> HIDE DEF e
<1>20. ASSUME NEW l \in Levels
       PROVE  /\ Committed(f, l) \in Nat
              /\ Committed(g, l) = Committed(f, l) - taken[l] + b[l] * Outputs(l)
    <2> DEFINE n == Outputs(l)
               busy == Busy(f, l)
               kept == f.stored[l]
               begun == b[l]
    <2>1. n \in Nat /\ busy \in Nat /\ kept \in Nat /\ begun \in Nat /\ taken[l] \in Nat
        BY <1>5, <1>7, <1>12
    <2>2. Committed(f, l) = kept + busy * n
        BY DEF Committed
    <2>3. Committed(g, l) = (kept - taken[l]) + (busy + begun) * n
        BY <1>9, <1>10, <1>11 DEF Committed
    <2> HIDE DEF n, busy, kept, begun
    <2>4. (busy + begun) * n = busy * n + begun * n /\ busy * n \in Nat /\ begun * n \in Nat
        BY <2>1
    <2>5. Committed(g, l) = Committed(f, l) - taken[l] + begun * n
        BY <2>1, <2>2, <2>3, <2>4
    <2> QED
        BY <2>1, <2>2, <2>4, <2>5 DEF n, begun
<1>21. \A l \in Levels :
        WantedRounds(g, l, e[l]) = WantedRounds(f, l, D[l]) - b[l]
    <2> TAKE l \in Levels
    <2> DEFINE x == D[l] - Committed(f, l)
               y == e[l] - Committed(g, l)
               n == Outputs(l)
    <2>1. b[l] \in Nat /\ b[l] <= WantedRounds(f, l, D[l]) /\ n \in Nat \ {0}
        BY <1>3, <1>12
    <2>2. x \in Int /\ y = x - b[l] * n
        <3>1. D[l] \in Nat /\ taken[l] \in Nat /\ b[l] * n \in Nat
            BY <1>7, <1>17, <2>1
        <3> QED
            BY <1>19, <1>20, <3>1
    <2>3. WantedRounds(f, l, D[l]) = Ceiling(x, n)
        BY DEF WantedRounds, Committed, Ceiling
    <2>4. WantedRounds(g, l, e[l]) = Ceiling(y, n)
        BY DEF WantedRounds, Committed, Ceiling
    <2> HIDE DEF x, y, n
    <2>5. b[l] <= Ceiling(x, n)
        BY <2>1, <2>3
    <2>6. Ceiling(y, n) = Ceiling(x, n) - b[l]
        BY <2>1, <2>2, <2>5, CeilingFalls
    <2> QED
        BY <2>3, <2>4, <2>6
<1>22. IsDemand(g, e)
    <2>1. e[Top] = Len(g.waiting) + config.buffer
        <3>1. Top \in Levels /\ D[Top] \in Nat
            BY <1>5, <1>17
        <3> QED
            BY <1>9, <1>10, <1>17, <1>19, <3>1
    <2>2. ASSUME NEW l \in Levels \ {Top}
          PROVE  e[l] = in * WantedRounds(g, l + 1, e[l + 1])
        <3>1. l + 1 \in Levels
            BY <1>5
        <3> DEFINE w == WantedRounds(f, l + 1, D[l + 1])
                   begun == b[l + 1]
        <3>2. w \in Nat /\ begun \in Nat
            BY <1>12, <1>18, <3>1
        <3>3. e[l] = in * w - in * begun
            BY <1>9, <1>17, <1>19
        <3>4. WantedRounds(g, l + 1, e[l + 1]) = w - begun
            BY <1>21, <3>1
        <3> HIDE DEF w, begun
        <3>5. in * (w - begun) = in * w - in * begun
            BY <1>5, <3>2
        <3> QED
            BY <3>3, <3>4, <3>5
    <2> QED
        BY <1>19, <2>1, <2>2 DEF IsDemand, in
<1>23. \A d : IsDemand(g, d) => d = e
    BY <1>13, <1>22, DemandFacts
<1>24. NotAhead(g)
    <2>1. ASSUME NEW l \in Levels, Busy(g, l) > 0
          PROVE  Committed(g, l) < e[l] + Outputs(l)
        <3> DEFINE n == Outputs(l)
                   begun == b[l]
                   w == WantedRounds(f, l, D[l])
                   have == Committed(f, l)
        <3>1. /\ n \in Nat \ {0} /\ begun \in Nat /\ w \in Nat /\ begun <= w
              /\ have \in Nat /\ D[l] \in Nat /\ taken[l] \in Nat
            BY <1>3, <1>7, <1>12, <1>17, <1>18, <1>20
        <3>2. begun * n \in Nat /\ begun * n <= w * n /\ w * n \in Nat
            BY <3>1
        <3>3. have + begun * n < D[l] + n
            <4>1. CASE begun = 0
                <5>1. Busy(f, l) > 0
                    BY <1>11, <1>12, <2>1, <4>1
                <5>2. have < D[l] + n
                    BY <1>1, <1>2, <5>1 DEF NotAhead
                <5> QED
                    BY <3>1, <4>1, <5>2
            <4>2. CASE begun > 0
                <5>1. w > 0
                    BY <3>1, <4>2
                <5>2. f.stored[l] + (Busy(f, l) + w) * n < D[l] + n
                    BY <1>1, <3>1, <5>1, WantedFacts
                <5>3. f.stored[l] + (Busy(f, l) + w) * n = have + w * n
                    <6> DEFINE busy == Busy(f, l)
                               kept == f.stored[l]
                    <6>1. busy \in Nat /\ kept \in Nat
                        BY <1>5, <1>12
                    <6>2. have = kept + busy * n
                        BY DEF Committed
                    <6> HIDE DEF busy, kept, n, w, have
                    <6>3. (busy + w) * n = busy * n + w * n /\ busy * n \in Nat
                        BY <3>1, <6>1
                    <6>4. kept + (busy + w) * n = have + w * n
                        BY <3>2, <6>1, <6>2, <6>3
                    <6> QED
                        BY <6>4 DEF busy, kept
                <5> HIDE DEF n, begun, w, have
                <5> QED
                    BY <3>1, <3>2, <5>2, <5>3
            <4> QED
                BY <3>1, <4>1, <4>2
        <3>4. Committed(g, l) = have - taken[l] + begun * n /\ e[l] = D[l] - taken[l]
            BY <1>19, <1>20
        <3> HIDE DEF n, begun, w, have
        <3>5. Committed(g, l) < e[l] + n
            BY <3>1, <3>2, <3>3, <3>4
        <3> QED
            BY <3>5 DEF n
    <2> QED
        BY <1>23, <2>1 DEF NotAhead
<1>25. Idle(g)
    <2>1. ASSUME NEW l \in Levels
          PROVE  HasNothingToStart(g, l, e)
        <3>1. CASE b[l] = WantedRounds(f, l, D[l])
            <4>1. WantedRounds(g, l, e[l]) = 0
                BY <1>12, <1>21, <3>1
            <4> QED
                BY <4>1 DEF HasNothingToStart
        <3>2. CASE b[l] = Units(l) - Busy(f, l)
            <4>1. Busy(g, l) = Units(l)
                BY <1>11, <1>12, <3>2
            <4> QED
                BY <4>1 DEF HasNothingToStart
        <3>3. CASE l > 0 /\ f.stored[l - 1] - in * b[l] < in
            <4>1. l - 1 \in Levels \ {Top} /\ l - 1 + 1 = l
                BY <1>5, <3>3
            <4>2. g.stored[l - 1] = f.stored[l - 1] - in * b[l]
                BY <1>9, <1>10, <4>1
            <4> QED
                BY <3>3, <4>2 DEF HasNothingToStart, in
        <3> QED
            BY <1>3, <3>1, <3>2, <3>3
    <2> QED
        BY <1>23, <2>1 DEF Idle
<1> QED
    BY <1>10, <1>13, <1>14, <1>15, <1>16, <1>24, <1>25 DEF Sound, g

\* Looking for work keeps the invariant; a chain that is shut down looks for
\* none.
LEMMA StartWorkKeeps ==
    ASSUME config \in Factories, ~ IsStage, NEW f, Sound(f)
    PROVE  /\ Good(StartWork(f))
           /\ ~ f.isShutDown \/ f.waiting = <<>> =>
                Hands(f, f.waiting, f.stored[Top], StartWork(f))
<1>0. Typed(f)
    BY DEF Sound
<1>1. CASE f.isShutDown
    <2>1. StartWork(f) = f /\ f.stored[Top] \in Nat
        BY <1>0, <1>1, TypedFields DEF StartWork
    <2>2. f.waiting = <<>> => Hands(f, f.waiting, f.stored[Top], StartWork(f))
        BY <1>0, <2>1, NothingHanded
    <2> QED
        BY <1>1, <2>1, <2>2 DEF Good, Idle
<1>2. CASE ~ f.isShutDown
    <2> DEFINE h == Deliver(f)
    <2>1. /\ Sound(h) /\ Delivered(h) /\ h.isShutDown = f.isShutDown
          /\ Hands(f, f.waiting, f.stored[Top], h)
        BY <1>0, DeliverKeeps, DeliverHands DEF SameWork
    <2>2. StartWork(f) = StartRounds(h)
        BY <1>2 DEF StartWork
    <2> HIDE DEF h
    <2>3. /\ Sound(StartRounds(h)) /\ Delivered(StartRounds(h))
          /\ Idle(StartRounds(h)) /\ SameSupply(h, StartRounds(h))
        BY <2>1, StartRoundsKeeps DEF SameSupply
    <2>4. Hands(f, f.waiting, f.stored[Top], StartRounds(h))
        BY <2>1, <2>3 DEF Hands, SameSupply
    <2> QED
        BY <2>1, <2>2, <2>3, <2>4 DEF Good
<1> QED
    BY <1>1, <1>2
-----------------------------------------------------------------------------
(* What a step changes before work is looked for *)

\* A larger deficit takes no fewer rounds.
LEMMA CeilingGrows ==
    ASSUME NEW x \in Int, NEW y \in Int, NEW n \in Nat \ {0}, x <= y
    PROVE  Ceiling(x, n) \in Nat /\ Ceiling(x, n) <= Ceiling(y, n)
<1> DEFINE p == (x + n - 1) \div n
           q == (y + n - 1) \div n
<1>1. CASE x <= 0
    <2>1. CASE y <= 0
        BY <1>1, <2>1 DEF Ceiling
    <2>2. CASE y > 0
        <3>1. q \in Nat
            BY <2>2
        <3> QED
            BY <1>1, <2>2, <3>1 DEF Ceiling
    <2> QED
        BY <2>1, <2>2
<1>2. CASE x > 0
    <2>1. /\ p \in Nat /\ n * p <= x + n - 1 /\ x + n - 1 < n * p + n
          /\ q \in Nat /\ n * q <= y + n - 1 /\ y + n - 1 < n * q + n
        BY <1>2
    <2>2. Ceiling(x, n) = p /\ Ceiling(y, n) = q
        BY <1>2 DEF Ceiling
    <2> HIDE DEF p, q
    <2>3. ~ (q < p)
        <3> SUFFICES ASSUME q < p PROVE FALSE
            OBVIOUS
        <3>1. n * q + n <= n * p /\ n * q \in Nat /\ n * p \in Nat
            BY <2>1
        <3> QED
            BY <2>1, <3>1
    <2> QED
        BY <2>1, <2>2, <2>3
<1> QED
    BY <1>1, <1>2

\* A chain that has more asked of it, or has less, is not ahead either.
LEMMA LooserKeeps ==
    ASSUME config \in Factories, ~ IsStage, NEW f, NEW g, Typed(f), Typed(g),
           NotAhead(f), Len(f.waiting) <= Len(g.waiting),
           \A l \in Levels : Busy(g, l) <= Busy(f, l),
           \A l \in Levels : Committed(g, l) <= Committed(f, l)
    PROVE  NotAhead(g)
<1> DEFINE d == DemandByLevel(f)
<1>1. IsDemand(f, d)
    BY DemandFacts
<1> HIDE DEF d
<1> SUFFICES ASSUME NEW e, IsDemand(g, e), NEW l \in Levels, Busy(g, l) > 0
             PROVE  Committed(g, l) < e[l] + Outputs(l)
    BY DEF NotAhead
<1>2. /\ Top \in Nat /\ Levels = 0 .. Top /\ config.inputs \in Nat
      /\ config.buffer \in Nat
    BY CardFacts
<1>3. /\ d \in [Levels -> Nat] /\ d[Top] = Len(f.waiting) + config.buffer
      /\ \A k \in Levels \ {Top} :
            d[k] = config.inputs * WantedRounds(f, k + 1, d[k + 1])
      /\ e \in [Levels -> Nat] /\ e[Top] = Len(g.waiting) + config.buffer
      /\ \A k \in Levels \ {Top} :
            e[k] = config.inputs * WantedRounds(g, k + 1, e[k + 1])
    BY <1>1 DEF IsDemand
<1>4. ASSUME NEW k \in Levels, d[k] <= e[k]
      PROVE  /\ WantedRounds(f, k, d[k]) \in Nat /\ WantedRounds(g, k, e[k]) \in Nat
             /\ WantedRounds(f, k, d[k]) <= WantedRounds(g, k, e[k])
    <2> DEFINE x == d[k] - Committed(f, k)
               y == e[k] - Committed(g, k)
               n == Outputs(k)
    <2>1. d[k] \in Nat /\ e[k] \in Nat
        BY <1>3
    <2>2. Committed(f, k) \in Nat /\ Committed(g, k) \in Nat /\ n \in Nat \ {0}
        BY CommittedTyped, CardFacts
    <2>3. x \in Int /\ y \in Int /\ x <= y
        BY <1>4, <2>1, <2>2
    <2>4. /\ WantedRounds(f, k, d[k]) = Ceiling(x, n)
          /\ WantedRounds(g, k, e[k]) = Ceiling(y, n)
        BY DEF WantedRounds, Committed, Ceiling
    <2> HIDE DEF x, y, n
    <2>5. Ceiling(x, n) \in Nat /\ Ceiling(x, n) <= Ceiling(y, n)
        BY <2>2, <2>3, CeilingGrows
    <2>6. Ceiling(y, n) \in Nat
        <3>1. y <= y
            BY <2>3
        <3> QED
            BY <2>2, <2>3, <3>1, CeilingGrows
    <2> QED
        BY <2>4, <2>5, <2>6
<1> DEFINE Wrong == {n \in 0 .. Top : ~ (d[Top - n] <= e[Top - n])}
<1>5. \A n \in Wrong : n \in Nat
    OBVIOUS
<1>6. ASSUME NEW n \in Wrong
      PROVE  \E k \in Wrong : k < n
    <2>1. n \in 0 .. Top /\ ~ (d[Top - n] <= e[Top - n])
        BY <1>6
    <2>2. n # 0
        <3>1. d[Top] <= e[Top]
            <4>1. Len(f.waiting) \in Nat /\ Len(g.waiting) \in Nat
                BY TypedFields
            <4>2. Len(f.waiting) + config.buffer <= Len(g.waiting) + config.buffer
                BY <1>2, <4>1
            <4> QED
                BY <1>3, <4>2
        <3>2. Top - 0 = Top
            BY <1>2
        <3> QED
            BY <2>1, <3>1, <3>2
    <2>3. Top - n \in Levels \ {Top} /\ Top - n + 1 = Top - (n - 1)
          /\ Top - (n - 1) \in Levels
        BY <1>2, <2>1, <2>2
    <2>4. ~ (d[Top - (n - 1)] <= e[Top - (n - 1)])
        <3> SUFFICES ASSUME d[Top - (n - 1)] <= e[Top - (n - 1)]
                     PROVE  FALSE
            OBVIOUS
        <3> DEFINE k == Top - (n - 1)
                   w == WantedRounds(f, k, d[k])
                   v == WantedRounds(g, k, e[k])
        <3>1. w \in Nat /\ v \in Nat /\ w <= v
            <4> HIDE DEF k
            <4>1. k \in Levels /\ d[k] <= e[k]
                BY <2>3 DEF k
            <4> QED
                BY <1>4, <4>1
        <3>2. d[Top - n] = config.inputs * w /\ e[Top - n] = config.inputs * v
            BY <1>3, <2>3
        <3> HIDE DEF w, v
        <3>3. config.inputs * w <= config.inputs * v
            BY <1>2, <3>1, SMTT(90)
        <3> QED
            BY <2>1, <3>2, <3>3
    <2>5. n - 1 \in Wrong
        BY <1>2, <2>1, <2>2, <2>4
    <2>6. n - 1 < n
        BY <2>1
    <2> HIDE DEF Wrong
    <2> QED
        BY <2>5, <2>6
<1> HIDE DEF Wrong
<1>7. Wrong = {}
    BY <1>5, <1>6, NoLeast
<1>8. d[l] <= e[l]
    <2>1. Top - l \in 0 .. Top /\ Top - (Top - l) = l
        BY <1>2
    <2> QED
        BY <1>7, <2>1 DEF Wrong
<1>9. Busy(f, l) > 0 /\ Committed(f, l) < d[l] + Outputs(l)
    <2>1. Busy(f, l) > 0
        <3>1. Busy(f, l) \in Nat /\ Busy(g, l) \in Nat
            BY BusyTyped
        <3> QED
            BY <3>1
    <2> QED
        BY <1>1, <2>1 DEF NotAhead
<1>10. /\ Committed(f, l) \in Nat /\ Committed(g, l) \in Nat
       /\ Outputs(l) \in Nat /\ d[l] \in Nat /\ e[l] \in Nat
       /\ Committed(g, l) <= Committed(f, l)
    BY <1>3, CommittedTyped, CardFacts
<1> QED
    BY <1>8, <1>9, <1>10

\* h is the factory f with one unit less that is busy at level l.
Freed(f, h, l) ==
    /\ \E W \in [Levels -> Nat], C \in [Levels -> Seq(1 .. config.corrections)] :
            h = [f EXCEPT !.working = W, !.correcting = C]
    /\ Busy(h, l) = Busy(f, l) - 1
    /\ \A k \in Levels \ {l} : Busy(h, k) = Busy(f, k)

\* A quotient, and that of one divisor more.
LEMMA QuotientFacts ==
    ASSUME NEW p \in Nat, NEW n \in Nat \ {0}
    PROVE  p \div n \in Nat /\ (p + n) \div n = p \div n + 1
<1> DEFINE q == p \div n
           z == p + n
           r == z \div n
<1>1. q \in Nat /\ n * q <= p /\ p < n * q + n
    OBVIOUS
<1>2. z \in Nat /\ r \in Nat /\ n * r <= z /\ z < n * r + n
    OBVIOUS
<1>3. z = p + n
    OBVIOUS
<1> HIDE DEF q, r, z
<1>4. n * q \in Nat /\ n * r \in Nat /\ n * (q + 1) = n * q + n
    BY <1>1, <1>2
<1>5. ~ (r < q + 1)
    <2> SUFFICES ASSUME r < q + 1 PROVE FALSE
        OBVIOUS
    <2>1. n * r + n <= n * (q + 1)
        BY <1>1, <1>2
    <2> QED
        BY <1>1, <1>2, <1>3, <1>4, <2>1
<1>6. ~ (r > q + 1)
    <2> SUFFICES ASSUME r > q + 1 PROVE FALSE
        OBVIOUS
    <2>1. n * r >= n * (q + 1) + n
        BY <1>1, <1>2
    <2> QED
        BY <1>1, <1>2, <1>3, <1>4, <2>1
<1>7. r = q + 1
    BY <1>1, <1>2, <1>5, <1>6
<1> QED
    BY <1>1, <1>7 DEF q, r, z

\* A round ends at level l of a chain: its unit is freed, its states are
\* stored or its inputs are lost, and work is looked for.
LEMMA FinishRoundKeeps ==
    ASSUME config \in Factories, ~ IsStage, NEW f, Sound(f),
           NEW h, NEW l \in Levels, Freed(f, h, l), NEW isSuccess \in BOOLEAN
    PROVE  /\ Good(FinishRound(h, l, isSuccess))
           /\ Attends(f) /\ (~ f.isShutDown => Delivered(f)) =>
                Supplies(f, FinishRound(h, l, isSuccess))
<1> DEFINE s == IF isSuccess THEN Outputs(l) ELSE 0
           x == IF isSuccess THEN 0 ELSE 1
           store == [f.stored EXCEPT ![l] = @ + s]
           made == [f.produced EXCEPT ![l] = @ + s]
           lost == [f.failed EXCEPT ![l] = @ + x]
           g == [h EXCEPT !.stored[l] = @ + s, !.produced[l] = @ + s,
                          !.failed[l] = @ + x]
<1>1. Typed(f) /\ NoneTwice(f) /\ Conserved(f) /\ NotAhead(f)
    BY DEF Sound
<1>2. FinishRound(h, l, isSuccess) = StartWork(g)
    BY DEF FinishRound
<1>3. /\ Top \in Levels /\ Top \in Nat /\ Levels = 0 .. Top
      /\ Outputs(l) \in Nat \ {0} /\ config.inputs \in Nat
      /\ f.stored \in [Levels -> Nat] /\ f.produced \in [Levels -> Nat]
      /\ f.failed \in [Levels -> Nat] /\ Len(f.served) \in Nat
    BY <1>1, CardFacts, TypedFields, SMTT(90)
<1>4. s \in Nat /\ x \in Nat /\ s \in {0, Outputs(l)}
    BY <1>3
<1>0. PICK W \in [Levels -> Nat], C \in [Levels -> Seq(1 .. config.corrections)] :
        h = [f EXCEPT !.working = W, !.correcting = C]
    BY DEF Freed
<1>5. g = [f EXCEPT !.working = W, !.correcting = C, !.stored = store,
                    !.produced = made, !.failed = lost]
    <2> HIDE DEF s, x
    <2> QED
        BY <1>0, <1>1 DEF Typed, Records
<1>6. (s = Outputs(l) /\ x = 0) \/ (s = 0 /\ x = 1)
    <2>1. CASE isSuccess
        BY <2>1
    <2>2. CASE ~ isSuccess
        BY <2>2
    <2> QED
        BY <2>1, <2>2
<1> HIDE DEF s, x
<1>7. /\ store \in [Levels -> Nat] /\ made \in [Levels -> Nat]
      /\ lost \in [Levels -> Nat]
      /\ store[l] = f.stored[l] + s /\ made[l] = f.produced[l] + s
      /\ lost[l] = f.failed[l] + x
      /\ \A k \in Levels \ {l} : /\ store[k] = f.stored[k]
                                 /\ made[k] = f.produced[k]
                                 /\ lost[k] = f.failed[k]
    <2>0. f.stored[l] \in Nat /\ f.produced[l] \in Nat /\ f.failed[l] \in Nat
        BY <1>3
    <2>1. /\ f.stored[l] + s \in Nat /\ f.produced[l] + s \in Nat
          /\ f.failed[l] + x \in Nat
        BY <1>4, <2>0, SMTT(90)
    <2> QED
        BY <1>3, <2>1
<1> HIDE DEF store, made, lost, g
<1>8. /\ g.working = W /\ g.correcting = C /\ g.stored = store
      /\ g.produced = made /\ g.failed = lost
      /\ g.waiting = f.waiting /\ g.served = f.served
      /\ g.returning = f.returning
      /\ g.isStarted = f.isStarted /\ g.isShutDown = f.isShutDown
    BY <1>1, <1>5 DEF Typed, Records
<1>9. Busy(g, l) = Busy(f, l) - 1 /\ \A k \in Levels \ {l} : Busy(g, k) = Busy(f, k)
    <2>1. h.working = W /\ h.correcting = C
        BY <1>0, <1>1 DEF Typed, Records
    <2>2. \A k \in Levels : Busy(g, k) = Busy(h, k)
        BY <1>8, <2>1 DEF Busy
    <2> QED
        BY <2>2 DEF Freed
<1>10. \A k \in Levels : /\ Busy(f, k) \in Nat /\ Units(k) \in Nat
                         /\ Busy(f, k) <= Units(k)
                         /\ Outputs(k) \in Nat \ {0}
    BY <1>1, BusyTyped, CardFacts DEF Typed, Records
<1>11. Typed(g)
    <2>1. g \in Records
        BY <1>1, <1>5, <1>7 DEF Typed, Records
    <2>2. ASSUME NEW k \in Levels
          PROVE  Busy(g, k) <= Units(k)
        <3>1. CASE k = l
            BY <1>9, <1>10, <3>1
        <3>2. CASE k # l
            BY <1>9, <1>10, <3>2
        <3> QED
            BY <3>1, <3>2
    <2> QED
        BY <2>1, <2>2 DEF Typed, Records
<1>12. NoneTwice(g)
    BY <1>1, <1>8 DEF NoneTwice
<1>13. Conserved(g)
    <2>1. g.produced[Top] + (IF IsStage THEN config.initial ELSE 0)
            = g.stored[Top] + Len(g.served)
        <3>1. f.produced[Top] + (IF IsStage THEN config.initial ELSE 0)
                = f.stored[Top] + Len(f.served)
            BY <1>1 DEF Conserved
        <3>2. f.produced[Top] \in Nat /\ f.stored[Top] \in Nat
            BY <1>3
        <3> DEFINE first == IF IsStage THEN config.initial ELSE 0
        <3>5. first \in Nat /\ Len(f.served) \in Nat
            BY <1>3, CardFacts
        <3>6. f.produced[Top] + first = f.stored[Top] + Len(f.served)
            BY <3>1
        <3> HIDE DEF first
        <3>7. g.produced[Top] + first = g.stored[Top] + Len(g.served)
            <4>1. CASE Top = l
                <5>1. /\ g.produced[Top] = f.produced[Top] + s
                      /\ g.stored[Top] = f.stored[Top] + s /\ g.served = f.served
                    BY <1>7, <1>8, <4>1
                <5>2. g.produced[Top] + first = (f.produced[Top] + first) + s
                    BY <1>4, <3>2, <3>5, <5>1
                <5>3. g.stored[Top] + Len(g.served) = (f.stored[Top] + Len(f.served)) + s
                    BY <1>4, <3>2, <3>5, <5>1
                <5> QED
                    BY <3>6, <5>2, <5>3
            <4>2. CASE Top # l
                BY <1>3, <1>7, <1>8, <3>6, <4>2
            <4> QED
                BY <4>1, <4>2
        <3> QED
            BY <3>7 DEF first
    <2>2. ASSUME NEW k \in 1 .. Top
          PROVE  g.produced[k - 1] = g.stored[k - 1] + config.inputs *
                    (Busy(g, k) + g.failed[k] + g.produced[k] \div Outputs(k))
        <3>1. k \in Levels /\ k - 1 \in Levels /\ k # k - 1
            <4>1. k \in 1 .. Top /\ Top \in Nat /\ Levels = 0 .. Top
                BY <1>3
            <4> QED
                BY <4>1
        <3>2. Busy(g, k) + g.failed[k] + g.produced[k] \div Outputs(k)
                = Busy(f, k) + f.failed[k] + f.produced[k] \div Outputs(k)
            <4>1. CASE k = l
                <5> DEFINE n == Outputs(l)
                           p == f.produced[l]
                           busy == Busy(f, l)
                           failed == f.failed[l]
                <5>1. /\ n \in Nat \ {0} /\ p \in Nat /\ busy \in Nat
                      /\ failed \in Nat
                    BY <1>3, <1>10
                <5>2. /\ Busy(g, l) = busy - 1 /\ g.failed[l] = failed + x
                      /\ g.produced[l] = p + s
                    BY <1>7, <1>8, <1>9
                <5>3. (s = n /\ x = 0) \/ (s = 0 /\ x = 1)
                    BY <1>6
                <5> HIDE DEF n, p, busy, failed
                <5>4. (p + n) \div n = p \div n + 1 /\ p \div n \in Nat
                    BY <5>1, QuotientFacts
                <5>5. (busy - 1) + (failed + x) + (p + s) \div n
                        = busy + failed + p \div n
                    <6>1. CASE s = n /\ x = 0
                        <7>1. (p + s) \div n = p \div n + 1
                            BY <5>4, <6>1
                        <7> DEFINE q == p \div n
                        <7>2. q \in Nat
                            BY <5>4
                        <7> HIDE DEF q
                        <7>3. (busy - 1) + (failed + 0) + (q + 1) = busy + failed + q
                            BY <5>1, <7>2
                        <7> QED
                            BY <6>1, <7>1, <7>3 DEF q
                    <6>2. CASE s = 0 /\ x = 1
                        BY <5>1, <5>4, <6>2
                    <6> QED
                        BY <5>3, <6>1, <6>2
                <5>6. Busy(g, l) + g.failed[l] + g.produced[l] \div n
                        = busy + failed + p \div n
                    BY <5>2, <5>5
                <5> QED
                    BY <4>1, <5>6 DEF n, p, busy, failed
            <4>2. CASE k # l
                BY <1>7, <1>8, <1>9, <3>1, <4>2
            <4> QED
                BY <4>1, <4>2
        <3> DEFINE taken == config.inputs *
                    (Busy(f, k) + f.failed[k] + f.produced[k] \div Outputs(k))
        <3>3. f.produced[k - 1] = f.stored[k - 1] + taken
            BY <1>1 DEF Conserved
        <3>4. taken \in Nat
            <4>1. f.produced[k] \div Outputs(k) \in Nat
                <5>1. f.produced[k] \in Nat /\ Outputs(k) \in Nat \ {0}
                    BY <1>3, <1>10, <3>1
                <5> QED
                    BY <5>1, QuotientFacts
            <4>2. Busy(f, k) \in Nat /\ f.failed[k] \in Nat
                BY <1>3, <1>10, <3>1
            <4>3. Busy(f, k) + f.failed[k] + f.produced[k] \div Outputs(k) \in Nat
                BY <4>1, <4>2
            <4> QED
                BY <1>3, <4>3
        <3> HIDE DEF taken
        <3>5. g.produced[k - 1] = g.stored[k - 1] + taken
            <4>1. f.stored[k - 1] \in Nat
                BY <1>3, <3>1
            <4>2. CASE k - 1 = l
                <5>1. /\ g.produced[k - 1] = f.produced[k - 1] + s
                      /\ g.stored[k - 1] = f.stored[k - 1] + s
                    BY <1>7, <1>8, <4>2
                <5> QED
                    BY <1>4, <3>3, <3>4, <4>1, <5>1
            <4>3. CASE k - 1 # l
                BY <1>7, <1>8, <3>1, <3>3, <4>3
            <4> QED
                BY <4>2, <4>3
        <3> QED
            BY <3>2, <3>5 DEF taken
    <2> QED
        BY <2>1, <2>2 DEF Conserved
<1>14. NotAhead(g)
    <2>1. ASSUME NEW k \in Levels
          PROVE  /\ Busy(g, k) <= Busy(f, k)
                 /\ Committed(g, k) <= Committed(f, k)
        <3>1. CASE k = l
            <4> DEFINE n == Outputs(l)
                       busy == Busy(f, l)
                       kept == f.stored[l]
            <4>1. n \in Nat /\ busy \in Nat /\ kept \in Nat
                BY <1>3, <1>10
            <4>2. Committed(f, l) = kept + busy * n
                BY DEF Committed
            <4>3. Committed(g, l) = (kept + s) + (busy - 1) * n /\ Busy(g, l) = busy - 1
                BY <1>7, <1>8, <1>9 DEF Committed
            <4>4. s <= n
                BY <1>4, <4>1
            <4> HIDE DEF n, busy, kept
            <4>5. (busy - 1) * n = busy * n - n /\ busy * n \in Nat
                BY <4>1
            <4>6. Committed(g, l) <= Committed(f, l)
                BY <1>4, <4>1, <4>2, <4>3, <4>4, <4>5
            <4>7. Busy(g, l) <= busy
                BY <4>1, <4>3
            <4> QED
                BY <3>1, <4>6, <4>7 DEF busy
        <3>2. CASE k # l
            <4>1. Busy(g, k) = Busy(f, k) /\ g.stored[k] = f.stored[k]
                BY <1>7, <1>8, <1>9, <3>2
            <4>2. Committed(g, k) = Committed(f, k)
                BY <4>1 DEF Committed
            <4>3. Committed(f, k) \in Nat /\ Busy(f, k) \in Nat
                BY <1>1, <1>10, CommittedTyped
            <4> QED
                BY <4>1, <4>2, <4>3
        <3> QED
            BY <3>1, <3>2
    <2>2. Len(f.waiting) <= Len(g.waiting)
        <3>1. Len(f.waiting) \in Nat
            BY <1>1, TypedFields
        <3> QED
            BY <1>8, <3>1
    <2> QED
        BY <1>1, <1>11, <2>1, <2>2, LooserKeeps
<1>15. Sound(g)
    BY <1>11, <1>12, <1>13, <1>14 DEF Sound
<1>16. ASSUME Attends(f), ~ f.isShutDown => Delivered(f)
       PROVE  Supplies(f, StartWork(g))
    <2>1. Hands(g, g.waiting, g.stored[Top], StartWork(g))
        BY <1>8, <1>15, <1>16, StartWorkKeeps DEF Attends
    <2>2. Hands(f, f.waiting, g.stored[Top], StartWork(g))
        BY <1>8, <2>1 DEF Hands
    <2>3. CASE l = Top /\ s = Outputs(l)
        <3>1. g.stored[Top] = f.stored[Top] + Outputs(Top)
            BY <1>7, <1>8, <2>3
        <3> QED
            BY <2>2, <3>1 DEF Supplies
    <2>4. CASE ~ (l = Top /\ s = Outputs(l))
        <3>1. f.stored[Top] \in Nat
            BY <1>3
        <3>2. g.stored[Top] = f.stored[Top]
            <4>1. CASE l # Top
                BY <1>3, <1>7, <1>8, <4>1
            <4>2. CASE s = 0 /\ l = Top
                BY <1>7, <1>8, <3>1, <4>2
            <4> QED
                BY <1>6, <2>4, <4>1, <4>2
        <3>3. Delivered(f)
            BY <1>16 DEF Attends, Delivered
        <3>4. Hands(f, f.waiting, f.stored[Top], StartWork(g))
            BY <2>2, <3>2
        <3>5. SameSupply(f, StartWork(g))
            BY <1>1, <3>3, <3>4, NothingHanded
        <3> QED
            BY <3>5 DEF Supplies
    <2> QED
        BY <2>3, <2>4
<1>17. Good(StartWork(g))
    BY <1>15, StartWorkKeeps
<1> QED
    BY <1>2, <1>16, <1>17
\* The states of a stage that are being made, or are made and not yet stored.
Coming(f) == f.working[0] + InFlight(f)

\* From f to g the pipeline of a stage does not grow, nor do its requests
\* become fewer, and what it has made is in store.
StageStep(f, g) ==
    /\ Len(g.served) = Len(f.served) /\ Len(f.waiting) <= Len(g.waiting)
    /\ g.produced[0] + f.stored[0] = f.produced[0] + g.stored[0]
    /\ Coming(g) > 0 => Coming(f) > 0
    /\ g.stored[0] + Coming(g) <= f.stored[0] + Coming(f)

\* A stage after such a step is as sound as before.
LEMMA StageStepKeeps ==
    ASSUME config \in Factories, IsStage, NEW f, NEW g, Sound(f), Typed(g),
           NoneTwice(g), StageStep(f, g)
    PROVE  Sound(g)
<1>1. Typed(f) /\ Conserved(f) /\ NotAhead(f)
    BY DEF Sound
<1>2. /\ Top = 0 /\ 0 \in Levels /\ config.buffer \in Nat /\ config.initial \in Nat
      /\ 1 .. Top = {}
    BY CardFacts
<1>3. /\ f.stored[0] \in Nat /\ f.produced[0] \in Nat /\ Len(f.served) \in Nat
      /\ g.stored[0] \in Nat /\ g.produced[0] \in Nat /\ Len(g.served) \in Nat
      /\ Len(f.waiting) \in Nat /\ Len(g.waiting) \in Nat
      /\ Coming(f) \in Nat /\ Coming(g) \in Nat
    <2>1. /\ f.stored[0] \in Nat /\ f.produced[0] \in Nat /\ Len(f.served) \in Nat
          /\ g.stored[0] \in Nat /\ g.produced[0] \in Nat /\ Len(g.served) \in Nat
          /\ Len(f.waiting) \in Nat /\ Len(g.waiting) \in Nat
          /\ f.working[0] \in Nat /\ InFlight(f) \in Nat
          /\ g.working[0] \in Nat /\ InFlight(g) \in Nat
        BY <1>1, <1>2, TypedFields
    <2> QED
        BY <2>1, SMTT(90) DEF Coming
<1> DEFINE p == f.produced[0]
           q == g.produced[0]
           s == f.stored[0]
           t == g.stored[0]
           n == Len(f.served)
           v == Len(f.waiting)
           w == Len(g.waiting)
           c == Coming(f)
           d == Coming(g)
           b == config.buffer
           i == config.initial
<1>4. /\ p \in Nat /\ q \in Nat /\ s \in Nat /\ t \in Nat /\ n \in Nat
      /\ v \in Nat /\ w \in Nat /\ c \in Nat /\ d \in Nat /\ b \in Nat /\ i \in Nat
    BY <1>2, <1>3
<1>5. /\ q + s = p + t /\ t + d <= s + c /\ v <= w
      /\ (d > 0 => c > 0) /\ Len(g.served) = n
    BY DEF StageStep
<1>6. p + i = s + n
    BY <1>1, <1>2 DEF Conserved
<1>7. c > 0 => s + c <= b + v
    BY <1>1 DEF NotAhead, Coming
<1> HIDE DEF p, q, s, t, n, v, w, c, d, b, i
<1>8. q + i = t + n
    BY <1>4, <1>5, <1>6
<1>9. d > 0 => t + d <= b + w
    BY <1>4, <1>5, <1>7
<1>10. Conserved(g)
    BY <1>2, <1>5, <1>8 DEF Conserved, q, i, t
<1>11. NotAhead(g)
    BY <1>9 DEF NotAhead, Coming, d, t, b, w
<1> QED
    BY <1>10, <1>11 DEF Sound

\* A change of neither stores, requests nor busy units; a shut-down may come
\* with it.
LEMMA SteadyKeeps ==
    ASSUME config \in Factories, NEW f, NEW g, Good(f), Typed(g),
           g.waiting = f.waiting, g.served = f.served, g.stored = f.stored,
           g.produced = f.produced, g.failed = f.failed,
           g.isStarted = f.isStarted, f.isShutDown => g.isShutDown,
           \A l \in Levels : Busy(g, l) = Busy(f, l),
           IsStage => g.working = f.working /\ InFlight(g) = InFlight(f)
    PROVE  Good(g)
<1>1. /\ Typed(f) /\ NoneTwice(f) /\ Conserved(f) /\ NotAhead(f) /\ Idle(f)
      /\ IsStage \/ ~ f.isShutDown => Delivered(f)
    BY DEF Good, Sound
<1>2. /\ Top \in Nat /\ Levels = 0 .. Top
      /\ \A l \in 1 .. Top : l \in Levels
      /\ \A l \in Levels \ {Top} : l + 1 \in Levels
    <2>1. Top \in Nat /\ Levels = 0 .. Top
        BY CardFacts
    <2> QED
        BY <2>1
<1>3. NoneTwice(g) /\ (IsStage \/ ~ g.isShutDown => Delivered(g))
    BY <1>1 DEF NoneTwice, Delivered
<1>4. Conserved(g)
    BY <1>1, <1>2 DEF Conserved
<1>5. \A l \in Levels : \A x : WantedRounds(g, l, x) = WantedRounds(f, l, x)
    BY DEF WantedRounds
<1>6. ASSUME NEW d, IsDemand(g, d)
      PROVE  IsDemand(f, d)
    BY <1>2, <1>5, <1>6 DEF IsDemand
<1>7. NotAhead(g)
    <2>1. CASE IsStage
        BY <1>1, <2>1 DEF NotAhead
    <2>2. CASE ~ IsStage
        <3>1. \A l \in Levels : Committed(g, l) = Committed(f, l)
            BY DEF Committed
        <3> SUFFICES ASSUME NEW d, IsDemand(g, d), NEW l \in Levels, Busy(g, l) > 0
                     PROVE  Committed(g, l) < d[l] + Outputs(l)
            BY <2>2 DEF NotAhead
        <3>2. IsDemand(f, d) /\ Busy(f, l) > 0
            BY <1>6
        <3> QED
            BY <1>1, <2>2, <3>1, <3>2 DEF NotAhead
    <2> QED
        BY <2>1, <2>2
<1>8. Idle(g)
    <2>1. CASE IsStage
        <3>1. Shortage(g) = Shortage(f)
            BY <2>1 DEF Shortage
        <3> QED
            BY <1>1, <2>1, <3>1 DEF Idle
    <2>2. CASE ~ IsStage
        <3> SUFFICES ASSUME g.isStarted, ~ g.isShutDown,
                            NEW d, IsDemand(g, d), NEW l \in Levels
                     PROVE  HasNothingToStart(g, l, d)
            BY <2>2 DEF Idle
        <3>1. HasNothingToStart(f, l, d)
            BY <1>1, <1>6, <2>2 DEF Idle
        <3> QED
            BY <1>5, <3>1 DEF HasNothingToStart
    <2> QED
        BY <2>1, <2>2
<1> QED
    BY <1>3, <1>4, <1>7, <1>8 DEF Good, Sound
-----------------------------------------------------------------------------
(* The steps *)

\* A stage looks for work, after it has handed over what it can.
LEMMA StageStarts ==
    ASSUME config \in Factories, IsStage, NEW f, Sound(f)
    PROVE  /\ Good(StartAttempts(Deliver(f)))
           /\ Hands(f, f.waiting, f.stored[Top], StartAttempts(Deliver(f)))
           /\ Delivered(f) =>
                Good(StartAttempts(f)) /\ SameSupply(f, StartAttempts(f))
<1>1. \A h : Sound(h) /\ Delivered(h) =>
                Good(StartAttempts(h)) /\ SameSupply(h, StartAttempts(h))
    BY StartAttemptsKeeps DEF Good, SameSupply
<1>2. /\ Sound(Deliver(f)) /\ Delivered(Deliver(f))
      /\ Hands(f, f.waiting, f.stored[Top], Deliver(f))
    BY DeliverKeeps, DeliverHands DEF Sound
<1>3. Hands(f, f.waiting, f.stored[Top], StartAttempts(Deliver(f)))
    <2> DEFINE h == Deliver(f)
    <2>1. SameSupply(h, StartAttempts(h)) /\ Hands(f, f.waiting, f.stored[Top], h)
        BY <1>1, <1>2
    <2> HIDE DEF h
    <2>2. Hands(f, f.waiting, f.stored[Top], StartAttempts(h))
        BY <2>1 DEF Hands, SameSupply
    <2> QED
        BY <2>2 DEF h
<1> QED
    BY <1>1, <1>2, <1>3

\* What a request adds to the sequence of those that have asked.
LEMMA AppendsToAsked ==
    ASSUME NEW R, NEW s \in Seq(R), NEW w \in Seq(R), NEW o \in R
    PROVE  s \o Append(w, o) = Append(s \o w, o)
<1>1. Append(w, o) = w \o <<o>> /\ Append(s \o w, o) = (s \o w) \o <<o>>
    <2>1. s \o w \in Seq(R)
        OBVIOUS
    <2> QED
        BY <2>1, AppendIsConcat
<1>2. <<o>> \in Seq(R)
    OBVIOUS
<1> QED
    BY <1>1, <1>2, ConcatMoves

\* Continuous production begins.
LEMMA FactoryStartsKeeps ==
    ASSUME IInv, FactoryStarts
    PROVE  Good(factory') /\ (Attends(factory) => Supplies(factory, factory'))
<1> DEFINE h == [factory EXCEPT !.isStarted = TRUE]
<1>1. config \in Factories /\ Good(factory) /\ Sound(factory) /\ Typed(factory)
    BY DEF IInv, Good, Sound
<1>2. factory' = IF IsStage THEN StartAttempts(h) ELSE StartWork(h)
    BY DEF FactoryStarts
<1>3. /\ h.waiting = factory.waiting /\ h.served = factory.served
      /\ h.stored = factory.stored /\ h.working = factory.working
      /\ h.correcting = factory.correcting /\ h.returning = factory.returning
      /\ h.produced = factory.produced /\ h.failed = factory.failed
      /\ h.isShutDown = factory.isShutDown
    BY <1>1 DEF Typed, Records
<1>4. Typed(h)
    <2>1. h \in Records
        BY <1>1 DEF Typed, Records
    <2> HIDE DEF h
    <2>2. \A l \in Levels : Busy(h, l) <= Units(l)
        BY <1>1, <1>3 DEF Typed, Records, Busy
    <2> QED
        BY <2>1, <2>2 DEF Typed, Records
<1> HIDE DEF h
<1>5. \A l \in Levels : Busy(h, l) = Busy(factory, l)
    BY <1>3 DEF Busy
<1>6. Sound(h)
    <2>1. NoneTwice(h)
        BY <1>1, <1>3 DEF Sound, NoneTwice
    <2>2. Conserved(h)
        <3>1. \A l \in 1 .. Top : l \in Levels
            BY <1>1, CardFacts
        <3> QED
            BY <1>1, <1>3, <1>5, <3>1 DEF Sound, Conserved
    <2>3. NotAhead(h)
        <3>1. CASE IsStage
            BY <1>1, <1>3, <3>1 DEF Sound, NotAhead, InFlight
        <3>2. CASE ~ IsStage
            <4>1. NotAhead(factory) /\ Len(factory.waiting) <= Len(h.waiting)
                <5>1. Len(factory.waiting) \in Nat
                    BY <1>1, TypedFields
                <5> QED
                    BY <1>1, <1>3, <5>1 DEF Sound
            <4>2. ASSUME NEW l \in Levels
                  PROVE  /\ Busy(h, l) <= Busy(factory, l)
                         /\ Committed(h, l) <= Committed(factory, l)
                <5>1. Busy(factory, l) \in Nat /\ Committed(factory, l) \in Nat
                    BY <1>1, BusyTyped, CommittedTyped
                <5>2. Committed(h, l) = Committed(factory, l)
                    BY <1>3, <1>5 DEF Committed
                <5> QED
                    BY <1>5, <5>1, <5>2
            <4> QED
                BY <1>1, <1>4, <3>2, <4>1, <4>2, LooserKeeps
        <3> QED
            BY <3>1, <3>2
    <2> QED
        BY <1>4, <2>1, <2>2, <2>3 DEF Sound
<1>7. IsStage => Delivered(h)
    BY <1>1, <1>3 DEF Good, Delivered
<1>8. CASE IsStage
    <2>1. Good(StartAttempts(h)) /\ SameSupply(h, StartAttempts(h))
        BY <1>1, <1>6, <1>7, <1>8, StageStarts
    <2>2. Supplies(factory, StartAttempts(h))
        BY <1>3, <2>1 DEF SameSupply, Supplies
    <2> QED
        BY <1>2, <1>8, <2>1, <2>2
<1>9. CASE ~ IsStage
    <2>1. Good(StartWork(h))
        BY <1>1, <1>6, <1>9, StartWorkKeeps
    <2>2. ASSUME Attends(factory)
          PROVE  Supplies(factory, StartWork(h))
        <3>1. Hands(h, h.waiting, h.stored[Top], StartWork(h))
            BY <1>1, <1>3, <1>6, <1>9, <2>2, StartWorkKeeps DEF Attends
        <3>2. Delivered(h)
            BY <1>1, <1>3, <1>9, <2>2 DEF Attends, Good, Delivered
        <3>3. SameSupply(h, StartWork(h))
            BY <1>1, <1>4, <3>1, <3>2, NothingHanded
        <3> QED
            BY <1>3, <3>3 DEF SameSupply, Supplies
    <2> QED
        BY <1>2, <1>9, <2>1, <2>2
<1> QED
    BY <1>8, <1>9

\* A request comes.
LEMMA RequestKeeps ==
    ASSUME IInv, NEW o \in config.requests, Request(o)
    PROVE  Good(factory') /\ (Attends(factory) => Supplies(factory, factory'))
<1> DEFINE longer == Append(factory.waiting, o)
           h == [factory EXCEPT !.waiting = longer]
           R == config.requests
<1>1. config \in Factories /\ Good(factory) /\ Sound(factory) /\ Typed(factory)
    BY DEF IInv, Good, Sound
<1>2. /\ factory' = IF IsStage THEN StartAttempts(Deliver(h)) ELSE StartWork(h)
      /\ o \notin Asked(factory)
    BY DEF Request
<1>3. /\ factory.waiting \in Seq(R) /\ factory.served \in Seq(R)
      /\ Len(factory.waiting) \in Nat
    BY <1>1, TypedFields
<1>0. o \in R
    OBVIOUS
<1>4. longer \in Seq(R) /\ Len(longer) = Len(factory.waiting) + 1
    <2> HIDE DEF R
    <2> QED
        BY <1>0, <1>3, AppendProperties
<1>5. h.waiting = longer
    BY <1>1 DEF Typed, Records
<1>6. factory.served \o longer = Append(factory.served \o factory.waiting, o)
    <2> HIDE DEF R
    <2>1. \A s, w \in Seq(R) : s \o Append(w, o) = Append(s \o w, o)
        BY <1>0, AppendsToAsked
    <2> QED
        BY <1>3, <2>1
<1> HIDE DEF longer
<1>7. /\ h.served = factory.served
      /\ h.stored = factory.stored /\ h.working = factory.working
      /\ h.correcting = factory.correcting /\ h.returning = factory.returning
      /\ h.produced = factory.produced /\ h.failed = factory.failed
      /\ h.isShutDown = factory.isShutDown
    BY <1>1 DEF Typed, Records
<1>8. h \in Records
    BY <1>1, <1>4 DEF Typed, Records
<1> HIDE DEF h
<1>9. \A l \in Levels : Busy(h, l) = Busy(factory, l)
    BY <1>7 DEF Busy
<1>10. Typed(h)
    BY <1>1, <1>8, <1>9 DEF Typed, Records
<1>11. NoneTwice(h)
    <2> DEFINE asked == factory.served \o factory.waiting
    <2>1. asked \in Seq(R) /\ Len(asked) \in Nat
        <3>1. asked \in Seq(R)
            <4> HIDE DEF R
            <4> QED
                BY <1>3, ConcatProperties
        <3> HIDE DEF asked
        <3> QED
            BY <3>1
    <2>2. \A i \in 1 .. Len(asked) : asked[i] # o
        <3> SUFFICES ASSUME NEW i \in 1 .. Len(asked)
                     PROVE  asked[i] \in Asked(factory)
            BY <1>2
        <3>1. /\ Len(factory.served) \in Nat
              /\ Len(asked) = Len(factory.served) + Len(factory.waiting)
              /\ \A k \in 1 .. Len(factory.served) + Len(factory.waiting) :
                    asked[k] = IF k <= Len(factory.served) THEN factory.served[k]
                               ELSE factory.waiting[k - Len(factory.served)]
            <4> HIDE DEF R
            <4>1. Len(factory.served) \in Nat
                BY <1>3
            <4> QED
                BY <1>3, <4>1, ConcatProperties
        <3>2. CASE i <= Len(factory.served)
            <4>1. i \in 1 .. Len(factory.served) /\ asked[i] = factory.served[i]
                BY <1>3, <3>1, <3>2
            <4> QED
                BY <1>3, <4>1 DEF Asked, Range
        <3>3. CASE i > Len(factory.served)
            <4> DEFINE j == i - Len(factory.served)
            <4>2. i \in 1 .. Len(factory.served) + Len(factory.waiting)
                BY <3>1
            <4>3. asked[i] = factory.waiting[j]
                <5>1. ~ (i <= Len(factory.served))
                    BY <3>1, <3>3, <4>2
                <5> HIDE DEF asked
                <5> QED
                    BY <3>1, <4>2, <5>1
            <4>4. j \in 1 .. Len(factory.waiting)
                <5> DEFINE m == Len(factory.served)
                           n == Len(factory.waiting)
                <5>1. m \in Nat /\ n \in Nat /\ i \in 1 .. m + n /\ i > m
                    BY <1>3, <3>1, <3>3, <4>2
                <5> HIDE DEF asked, m, n
                <5>2. i - m \in 1 .. n
                    BY <5>1
                <5> QED
                    BY <5>2 DEF m, n
            <4>1. j \in 1 .. Len(factory.waiting) /\ asked[i] = factory.waiting[j]
                BY <4>3, <4>4
            <4> HIDE DEF j
            <4> QED
                BY <1>3, <4>1 DEF Asked, Range
        <3> QED
            BY <3>1, <3>2, <3>3
    <2>3. \A i, j \in 1 .. Len(asked) : asked[i] = asked[j] => i = j
        BY <1>1 DEF Sound, NoneTwice
    <2>4. h.served \o h.waiting = Append(asked, o)
        BY <1>5, <1>6, <1>7
    <2> HIDE DEF asked
    <2> DEFINE more == Append(asked, o)
    <2>5. /\ Len(more) = Len(asked) + 1 /\ more[Len(asked) + 1] = o
          /\ \A i \in 1 .. Len(asked) : more[i] = asked[i]
        BY <2>1
    <2> HIDE DEF more
    <2>6. ASSUME NEW i \in 1 .. Len(more), NEW j \in 1 .. Len(more), more[i] = more[j]
          PROVE  i = j
        <3>1. i \in 1 .. Len(asked) \/ i = Len(asked) + 1
            BY <2>1, <2>5
        <3>2. j \in 1 .. Len(asked) \/ j = Len(asked) + 1
            BY <2>1, <2>5
        <3> QED
            BY <2>2, <2>3, <2>5, <2>6, <3>1, <3>2
    <2> QED
        BY <2>4, <2>6 DEF NoneTwice, more
<1>14. ASSUME NEW g, Hands(h, h.waiting, h.stored[Top], g)
       PROVE  Supplies(factory, g)
    <2>1. Hands(factory, longer, factory.stored[Top], g)
        BY <1>5, <1>7, <1>14 DEF Hands
    <2>2. Hands(factory, Append(factory.waiting, o), factory.stored[Top], g)
        BY <2>1 DEF longer
    <2> QED
        BY <1>2, <2>2 DEF Supplies
<1>12. CASE IsStage
    <2>1. StageStep(factory, h)
        <3>1. Coming(h) = Coming(factory)
            BY <1>7 DEF Coming, InFlight
        <3>2. /\ Top = 0 /\ 0 \in Levels
              /\ factory.stored[0] \in Nat /\ factory.produced[0] \in Nat
              /\ factory.working[0] \in Nat /\ InFlight(factory) \in Nat
            BY <1>1, <1>12, CardFacts, TypedFields
        <3>3. Coming(factory) \in Nat
            BY <3>2 DEF Coming
        <3> QED
            BY <1>3, <1>4, <1>5, <1>7, <3>1, <3>2, <3>3 DEF StageStep
    <2>2. Sound(h)
        BY <1>1, <1>10, <1>11, <1>12, <2>1, StageStepKeeps
    <2>3. /\ Good(StartAttempts(Deliver(h)))
          /\ Hands(h, h.waiting, h.stored[Top], StartAttempts(Deliver(h)))
        BY <1>1, <1>12, <2>2, StageStarts
    <2>4. Supplies(factory, StartAttempts(Deliver(h)))
        BY <1>14, <2>3
    <2> QED
        BY <1>2, <1>12, <2>3, <2>4
<1>13. CASE ~ IsStage
    <2>1. Conserved(h)
        <3>1. \A l \in 1 .. Top : l \in Levels
            BY <1>1, CardFacts
        <3> QED
            BY <1>1, <1>7, <1>9, <3>1 DEF Sound, Conserved
    <2>2. NotAhead(h)
        <3>1. NotAhead(factory) /\ Len(factory.waiting) <= Len(h.waiting)
            BY <1>1, <1>3, <1>4, <1>5 DEF Sound
        <3>2. ASSUME NEW l \in Levels
              PROVE  /\ Busy(h, l) <= Busy(factory, l)
                     /\ Committed(h, l) <= Committed(factory, l)
            <4>1. Busy(factory, l) \in Nat /\ Committed(factory, l) \in Nat
                BY <1>1, BusyTyped, CommittedTyped
            <4>2. Committed(h, l) = Committed(factory, l)
                BY <1>7, <1>9 DEF Committed
            <4> QED
                BY <1>9, <4>1, <4>2
        <3> QED
            BY <1>1, <1>10, <1>13, <3>1, <3>2, LooserKeeps
    <2>3. /\ Good(StartWork(h))
          /\ ~ h.isShutDown => Hands(h, h.waiting, h.stored[Top], StartWork(h))
        BY <1>1, <1>10, <1>11, <1>13, <2>1, <2>2, StartWorkKeeps DEF Sound
    <2>4. ASSUME Attends(factory)
          PROVE  Supplies(factory, StartWork(h))
        <3>1. ~ factory.isShutDown
            BY <1>2, <1>13, <2>4 DEF Attends, Asked
        <3> QED
            BY <1>7, <1>14, <2>3, <3>1
    <2> QED
        BY <1>2, <1>13, <2>3, <2>4
<1> QED
    BY <1>12, <1>13

\* The factory is shut down.
LEMMA ShutDownKeeps ==
    ASSUME IInv, ShutDown
    PROVE  Good(factory') /\ (Attends(factory) => Supplies(factory, factory'))
<1> DEFINE h == [factory EXCEPT !.isShutDown = TRUE]
<1>1. config \in Factories /\ Good(factory) /\ Typed(factory)
    BY DEF IInv, Good, Sound
<1>2. factory' = h
    BY DEF ShutDown
<1>3. /\ h.waiting = factory.waiting /\ h.served = factory.served
      /\ h.stored = factory.stored /\ h.working = factory.working
      /\ h.correcting = factory.correcting /\ h.returning = factory.returning
      /\ h.produced = factory.produced /\ h.failed = factory.failed
      /\ h.isStarted = factory.isStarted /\ h.isShutDown
    BY <1>1 DEF Typed, Records
<1>4. h \in Records
    BY <1>1 DEF Typed, Records
<1> HIDE DEF h
<1>5. \A l \in Levels : Busy(h, l) = Busy(factory, l)
    BY <1>3 DEF Busy
<1>6. Typed(h) /\ InFlight(h) = InFlight(factory)
    BY <1>1, <1>3, <1>4, <1>5 DEF Typed, Records, InFlight
<1>7. Good(h)
    BY <1>1, <1>3, <1>5, <1>6, SteadyKeeps
<1>8. Supplies(factory, h)
    BY <1>3 DEF Supplies, SameSupply
<1> QED
    BY <1>2, <1>7, <1>8
\* h is the stage once one of its attempts is over: the state may be on its
\* way, and nothing has been stored or handed over.
AttemptOver(h) ==
    \E W \in [Levels -> Nat], C \in [Levels -> Seq(1 .. config.corrections)],
       r \in Nat, F \in [Levels -> Nat] :
        /\ h = [factory EXCEPT !.working = W, !.correcting = C,
                               !.returning = r, !.failed = F]
        /\ W[0] <= factory.working[0]
        /\ Coming(h) <= Coming(factory)

\* Such a stage looks for work.
LEMMA AttemptOverKeeps ==
    ASSUME IInv, IsStage, NEW h, AttemptOver(h)
    PROVE  Good(StartAttempts(h)) /\ Supplies(factory, StartAttempts(h))
<1>1. config \in Factories /\ Good(factory) /\ Sound(factory) /\ Typed(factory)
    BY DEF IInv, Good, Sound
<1>2. PICK W \in [Levels -> Nat], C \in [Levels -> Seq(1 .. config.corrections)],
           r \in Nat, F \in [Levels -> Nat] :
        /\ h = [factory EXCEPT !.working = W, !.correcting = C,
                               !.returning = r, !.failed = F]
        /\ W[0] <= factory.working[0]
        /\ Coming(h) <= Coming(factory)
    BY DEF AttemptOver
<1>3. /\ h.waiting = factory.waiting /\ h.served = factory.served
      /\ h.stored = factory.stored /\ h.produced = factory.produced
      /\ h.working = W
    BY <1>1, <1>2 DEF Typed, Records
<1>4. h \in Records
    BY <1>1, <1>2 DEF Typed, Records
<1>5. /\ Levels = {0} /\ factory.working[0] \in Nat /\ W[0] \in Nat
      /\ Units(0) \in Nat
    <2>1. Levels = 0 .. 0 /\ 0 \in Levels
        BY <1>1, CardFacts
    <2> QED
        BY <1>1, <2>1, CardFacts, BusyTyped
<1>6. Typed(h)
    <2>1. factory.working[0] + 0 <= Units(0)
        BY <1>1, <1>5 DEF Typed, Records, Busy
    <2>2. W[0] + 0 <= Units(0)
        BY <1>2, <1>5, <2>1
    <2> QED
        BY <1>3, <1>4, <1>5, <2>2 DEF Typed, Records, Busy
<1>7. StageStep(factory, h)
    <2>1. /\ factory.stored[0] \in Nat /\ factory.produced[0] \in Nat
          /\ Len(factory.waiting) \in Nat
        BY <1>1, <1>5, TypedFields
    <2>2. Coming(factory) \in Nat /\ Coming(h) \in Nat
        <3>1. InFlight(factory) \in Nat /\ InFlight(h) \in Nat
            BY <1>1, <1>6, TypedFields
        <3> QED
            BY <1>3, <1>5, <3>1 DEF Coming
    <2>3. Coming(h) <= Coming(factory)
        BY <1>2
    <2> DEFINE c == Coming(factory)
               d == Coming(h)
               s == factory.stored[0]
    <2>4. c \in Nat /\ d \in Nat /\ d <= c /\ s \in Nat
        BY <2>1, <2>2, <2>3
    <2>5. Len(factory.waiting) <= Len(factory.waiting)
        BY <2>1
    <2> HIDE DEF c, d, s
    <2>6. (d > 0 => c > 0) /\ s + d <= s + c
        BY <2>4
    <2> QED
        BY <1>3, <2>5, <2>6 DEF StageStep, c, d, s
<1>8. NoneTwice(h) /\ Delivered(h)
    BY <1>1, <1>3 DEF Good, Sound, NoneTwice, Delivered
<1>9. Sound(h)
    BY <1>1, <1>6, <1>7, <1>8, StageStepKeeps
<1>10. Good(StartAttempts(h)) /\ SameSupply(h, StartAttempts(h))
    BY <1>1, <1>8, <1>9, StageStarts
<1> QED
    BY <1>3, <1>10 DEF SameSupply, Supplies

\* An attempt of a stage ends.
LEMMA AttemptEndsKeeps ==
    ASSUME IInv, NEW isSuccess \in BOOLEAN, AttemptEnds(isSuccess)
    PROVE  Good(factory') /\ (Attends(factory) => Supplies(factory, factory'))
<1> DEFINE f == [factory EXCEPT !.working[0] = @ - 1]
           h == IF isSuccess THEN Corrected(f, 0) ELSE [f EXCEPT !.failed[0] = @ + 1]
           n == config.corrections
           W == [factory.working EXCEPT ![0] = @ - 1]
           C == [factory.correcting EXCEPT ![0] = Append(@, n)]
           F == [factory.failed EXCEPT ![0] = @ + 1]
<1>1. config \in Factories /\ Typed(factory)
    BY DEF IInv, Good, Sound
<1>2. IsStage /\ factory.working[0] > 0 /\ factory' = StartAttempts(h)
    BY DEF AttemptEnds
<1>3. /\ 0 \in Levels /\ n \in Nat
      /\ factory.working \in [Levels -> Nat] /\ factory.failed \in [Levels -> Nat]
      /\ factory.correcting \in [Levels -> Seq(1 .. n)] /\ factory.returning \in Nat
    BY <1>1, CardFacts, TypedFields
<1>4. /\ W \in [Levels -> Nat] /\ W[0] = factory.working[0] - 1
      /\ W[0] <= factory.working[0]
    <2>1. factory.working[0] \in Nat
        BY <1>3
    <2>2. factory.working[0] - 1 \in Nat
        BY <1>2, <2>1
    <2> QED
        BY <1>3, <2>1, <2>2
<1>5. F \in [Levels -> Nat]
    <2>1. factory.failed[0] + 1 \in Nat
        BY <1>3
    <2> QED
        BY <1>3, <2>1
<1>6. /\ Len(factory.correcting[0]) \in Nat /\ factory.working[0] \in Nat
      /\ factory.correcting[0] \in Seq(1 .. n)
    <2>1. factory.correcting[0] \in Seq(1 .. n)
        BY <1>3
    <2> QED
        BY <1>3, <2>1
<1>7. n > 0 => /\ C \in [Levels -> Seq(1 .. n)]
               /\ Len(C[0]) = Len(factory.correcting[0]) + 1
    <2> SUFFICES ASSUME n > 0
                 PROVE  /\ C \in [Levels -> Seq(1 .. n)]
                        /\ Len(C[0]) = Len(factory.correcting[0]) + 1
        OBVIOUS
    <2> DEFINE longer == Append(factory.correcting[0], n)
    <2>1. n \in 1 .. n
        BY <1>3
    <2>2. longer \in Seq(1 .. n) /\ Len(longer) = Len(factory.correcting[0]) + 1
        BY <1>6, <2>1, AppendProperties
    <2> HIDE DEF longer
    <2>3. C = [factory.correcting EXCEPT ![0] = longer]
        BY DEF longer
    <2> QED
        BY <1>3, <2>2, <2>3
<1>8. f = [factory EXCEPT !.working = W]
    BY <1>1 DEF Typed, Records
<1> HIDE DEF n, W, C, F, f
<1>9. /\ f.failed = factory.failed /\ f.returning = factory.returning
      /\ f.correcting = factory.correcting
    BY <1>1, <1>8 DEF Typed, Records
<1>10. AttemptOver(h)
    <2>1. CASE ~ isSuccess
        <3> DEFINE g == [factory EXCEPT !.working = W,
                            !.correcting = factory.correcting,
                            !.returning = factory.returning, !.failed = F]
        <3>1. h = g
            <4>1. h = [f EXCEPT !.failed[0] = @ + 1]
                BY <2>1
            <4>2. [f EXCEPT !.failed[0] = @ + 1] = [f EXCEPT !.failed = F]
                BY <1>1, <1>8, <1>9 DEF F, Typed, Records
            <4> HIDE DEF h
            <4> QED
                BY <1>1, <1>8, <4>1, <4>2 DEF Typed, Records
        <3>2. /\ g.working = W /\ g.correcting = factory.correcting
              /\ g.returning = factory.returning
            BY <1>1 DEF Typed, Records
        <3>3. Coming(g) <= Coming(factory)
            BY <1>3, <1>4, <1>6, <3>2 DEF Coming, InFlight
        <3> HIDE DEF g
        <3>4. AttemptOver(g)
            BY <1>3, <1>4, <1>5, <3>3 DEF AttemptOver, g, n
        <3> QED
            BY <3>1, <3>4
    <2>2. CASE isSuccess /\ n = 0
        <3> DEFINE r == factory.returning + 1
                   g == [factory EXCEPT !.working = W,
                            !.correcting = factory.correcting,
                            !.returning = r, !.failed = factory.failed]
        <3>1. h = g
            <4>1. h = [f EXCEPT !.returning = @ + 1]
                BY <2>2 DEF Corrected, n
            <4> HIDE DEF h
            <4> QED
                BY <1>1, <1>8, <4>1 DEF Typed, Records
        <3>2. /\ g.working = W /\ g.correcting = factory.correcting
              /\ g.returning = factory.returning + 1
            BY <1>1 DEF Typed, Records
        <3>3. Coming(g) <= Coming(factory)
            BY <1>3, <1>4, <1>6, <3>2 DEF Coming, InFlight
        <3>5. r \in Nat
            BY <1>3
        <3> HIDE DEF r, g
        <3>4. AttemptOver(g)
            BY <1>3, <1>4, <3>3, <3>5 DEF AttemptOver, g, n
        <3> QED
            BY <3>1, <3>4
    <2>3. CASE isSuccess /\ n # 0
        <3> DEFINE g == [factory EXCEPT !.working = W, !.correcting = C,
                            !.returning = factory.returning,
                            !.failed = factory.failed]
        <3>0. n > 0
            BY <1>3, <2>3
        <3>1. h = g
            <4>1. h = [f EXCEPT !.correcting[0] = Append(@, n)]
                BY <2>3 DEF Corrected, n
            <4>2. [f EXCEPT !.correcting[0] = Append(@, n)] = [f EXCEPT !.correcting = C]
                BY <1>1, <1>8, <1>9 DEF C, Typed, Records
            <4> HIDE DEF h
            <4> QED
                BY <1>1, <1>8, <4>1, <4>2 DEF Typed, Records
        <3>2. /\ g.working = W /\ g.correcting = C
              /\ g.returning = factory.returning
            BY <1>1 DEF Typed, Records
        <3>3. Coming(g) <= Coming(factory)
            BY <1>3, <1>4, <1>6, <1>7, <3>0, <3>2, SMTT(90) DEF Coming, InFlight
        <3> HIDE DEF g
        <3>4. AttemptOver(g)
            BY <1>3, <1>4, <1>7, <3>0, <3>3 DEF AttemptOver, g, n
        <3> QED
            BY <3>1, <3>4
    <2> QED
        BY <2>1, <2>2, <2>3
<1> HIDE DEF h
<1>11. Good(StartAttempts(h)) /\ Supplies(factory, StartAttempts(h))
    BY <1>2, <1>10, AttemptOverKeeps
<1> QED
    BY <1>2, <1>11

\* A corrected state of a stage comes back.
LEMMA StateReturnsKeeps ==
    ASSUME IInv, StateReturns
    PROVE  Good(factory') /\ (Attends(factory) => Supplies(factory, factory'))
<1> DEFINE r == factory.returning - 1
           store == [factory.stored EXCEPT ![0] = @ + 1]
           made == [factory.produced EXCEPT ![0] = @ + 1]
           g == [factory EXCEPT !.returning = @ - 1, !.stored[0] = @ + 1,
                                !.produced[0] = @ + 1]
<1>1. config \in Factories /\ Good(factory) /\ Sound(factory) /\ Typed(factory)
    BY DEF IInv, Good, Sound
<1>2. /\ IsStage /\ factory.returning > 0
      /\ factory' = StartAttempts(Deliver(g))
    BY DEF StateReturns
<1>3. /\ 0 \in Levels /\ factory.returning \in Nat
      /\ factory.stored \in [Levels -> Nat] /\ factory.produced \in [Levels -> Nat]
      /\ factory.stored[0] \in Nat /\ factory.produced[0] \in Nat
      /\ Len(factory.waiting) \in Nat
    BY <1>1, CardFacts, TypedFields
<1>4. /\ r \in Nat
      /\ store \in [Levels -> Nat] /\ store[0] = factory.stored[0] + 1
      /\ made \in [Levels -> Nat] /\ made[0] = factory.produced[0] + 1
    <2>1. r \in Nat /\ factory.stored[0] + 1 \in Nat /\ factory.produced[0] + 1 \in Nat
        BY <1>2, <1>3
    <2> QED
        BY <1>3, <2>1
<1>5. g = [factory EXCEPT !.returning = r, !.stored = store, !.produced = made]
    BY <1>1 DEF Typed, Records
<1>6. r = factory.returning - 1
    OBVIOUS
<1> HIDE DEF g, r, store, made
<1>7. /\ g.waiting = factory.waiting /\ g.served = factory.served
      /\ g.stored = store /\ g.produced = made /\ g.returning = r
      /\ g.working = factory.working /\ g.correcting = factory.correcting
    BY <1>1, <1>5 DEF Typed, Records
<1>8. Typed(g)
    <2>1. g \in Records
        BY <1>1, <1>4, <1>5 DEF Typed, Records
    <2>2. \A l \in Levels : Busy(g, l) = Busy(factory, l)
        BY <1>7 DEF Busy
    <2> QED
        BY <1>1, <2>1, <2>2 DEF Typed, Records
<1>9. NoneTwice(g)
    BY <1>1, <1>7 DEF Sound, NoneTwice
<1>10. StageStep(factory, g)
    <2> DEFINE w == factory.working[0]
               k == Len(factory.correcting[0])
               s == factory.stored[0]
               p == factory.produced[0]
               t == factory.returning
               c == w + (k + t)
    <2>1. w \in Nat /\ k \in Nat /\ s \in Nat /\ p \in Nat
        <3>1. factory.correcting[0] \in Seq(1 .. config.corrections)
            BY <1>1, <1>3, TypedFields
        <3> QED
            BY <1>1, <1>3, <3>1, BusyTyped
    <2>2. /\ Coming(factory) = c
          /\ Coming(g) = w + (k + r)
          /\ g.stored[0] = s + 1 /\ g.produced[0] = p + 1
        BY <1>4, <1>7 DEF Coming, InFlight
    <2>5. t \in Nat /\ t > 0 /\ r = t - 1
        BY <1>2, <1>3, <1>6
    <2> HIDE DEF w, k, s, p, t
    <2>6. /\ c \in Nat /\ c > 0
          /\ w + (k + r) \in Nat /\ w + (k + r) = c - 1
        BY <2>1, <2>5
    <2> HIDE DEF c
    <2>7. Coming(g) = c - 1
        BY <2>2, <2>6
    <2>3. /\ Coming(g) > 0 => Coming(factory) > 0
          /\ g.stored[0] + Coming(g) <= s + Coming(factory)
          /\ g.produced[0] + s = p + g.stored[0]
        <3>1. /\ c - 1 > 0 => c > 0
              /\ (s + 1) + (c - 1) <= s + c
              /\ (p + 1) + s = p + (s + 1)
            BY <2>1, <2>6
        <3> QED
            BY <2>2, <2>7, <3>1
    <2>4. Len(factory.waiting) <= Len(g.waiting) /\ Len(g.served) = Len(factory.served)
        BY <1>3, <1>7
    <2> QED
        BY <2>3, <2>4 DEF StageStep, s, p
<1>11. Sound(g)
    BY <1>1, <1>2, <1>8, <1>9, <1>10, StageStepKeeps
<1>12. /\ Good(StartAttempts(Deliver(g)))
       /\ Hands(g, g.waiting, g.stored[Top], StartAttempts(Deliver(g)))
    BY <1>1, <1>2, <1>11, StageStarts
<1>13. Supplies(factory, StartAttempts(Deliver(g)))
    <2>1. Top = 0 /\ g.stored[Top] = factory.stored[Top] + 1
        BY <1>1, <1>2, <1>4, <1>7, CardFacts
    <2>2. Hands(factory, factory.waiting, factory.stored[Top] + 1,
                StartAttempts(Deliver(g)))
        BY <1>7, <1>12, <2>1 DEF Hands
    <2> QED
        BY <2>2 DEF Supplies
<1> QED
    BY <1>2, <1>12, <1>13
\* A unit that works at a level of a chain is free.
LEMMA WorkerFreed ==
    ASSUME config \in Factories, ~ IsStage, NEW f, Typed(f),
           NEW l \in Levels, f.working[l] > 0
    PROVE  Freed(f, [f EXCEPT !.working[l] = @ - 1], l)
<1> DEFINE h == [f EXCEPT !.working[l] = @ - 1]
           W == [f.working EXCEPT ![l] = @ - 1]
           C == f.correcting
<1>1. /\ f.working \in [Levels -> Nat]
      /\ C \in [Levels -> Seq(1 .. config.corrections)]
    BY TypedFields
<1>2. f.working[l] \in Nat /\ f.working[l] - 1 \in Nat
    BY <1>1
<1>3. /\ W \in [Levels -> Nat] /\ W[l] = f.working[l] - 1
      /\ \A k \in Levels \ {l} : W[k] = f.working[k]
    BY <1>1, <1>2
<1>4. h = [f EXCEPT !.working = W, !.correcting = C]
    BY DEF Typed, Records
<1> HIDE DEF h, W
<1>5. h.working = W /\ h.correcting = f.correcting
    BY <1>4 DEF Typed, Records
<1>6. Busy(h, l) = Busy(f, l) - 1
    <2>1. C[l] \in Seq(1 .. config.corrections)
        BY <1>1
    <2>2. Len(C[l]) \in Nat
        BY <2>1
    <2>3. Busy(f, l) = f.working[l] + Len(C[l]) /\ Busy(h, l) = W[l] + Len(C[l])
        BY <1>5 DEF Busy
    <2> QED
        BY <1>2, <1>3, <2>2, <2>3
<1>7. \A k \in Levels \ {l} : Busy(h, k) = Busy(f, k)
    BY <1>3, <1>5 DEF Busy
<1> QED
    BY <1>1, <1>3, <1>4, <1>6, <1>7 DEF Freed, h

\* A preparation ends.
LEMMA PreparationEndsKeeps ==
    ASSUME IInv, NEW isSuccess \in BOOLEAN, PreparationEnds(isSuccess)
    PROVE  Good(factory') /\ (Attends(factory) => Supplies(factory, factory'))
<1> DEFINE h == [factory EXCEPT !.working[0] = @ - 1]
<1>1. config \in Factories /\ Sound(factory) /\ Typed(factory)
    BY DEF IInv, Good, Sound
<1>2. /\ ~ IsStage /\ factory.working[0] > 0
      /\ factory' = FinishRound(h, 0, isSuccess)
    BY DEF PreparationEnds
<1>3. 0 \in Levels
    BY <1>1, CardFacts
<1>4. Freed(factory, h, 0)
    BY <1>1, <1>2, <1>3, WorkerFreed
<1> HIDE DEF h
<1>5. ~ factory.isShutDown => Delivered(factory)
    BY DEF IInv, Good
<1>6. /\ Good(FinishRound(h, 0, isSuccess))
      /\ Attends(factory) => Supplies(factory, FinishRound(h, 0, isSuccess))
    BY <1>1, <1>2, <1>3, <1>4, <1>5, FinishRoundKeeps
<1> QED
    BY <1>2, <1>6

\* The physical rounds of a round are over.
LEMMA PhysicalRoundEndsKeeps ==
    ASSUME IInv, NEW isSuccess \in BOOLEAN, NEW l \in Levels,
           PhysicalRoundEnds(l, isSuccess)
    PROVE  Good(factory') /\ (Attends(factory) => Supplies(factory, factory'))
<1> DEFINE h == [factory EXCEPT !.working[l] = @ - 1]
           n == config.corrections
<1>1. config \in Factories /\ Good(factory) /\ Sound(factory) /\ Typed(factory)
    BY DEF IInv, Good, Sound
<1>2. /\ l > 0 /\ factory.working[l] > 0
      /\ factory' = IF n > 0 THEN [h EXCEPT !.correcting[l] = Append(@, n)]
                    ELSE FinishRound(h, l, isSuccess)
    BY DEF PhysicalRoundEnds
<1>3. ~ IsStage
    <2> SUFFICES ASSUME IsStage
                 PROVE  FALSE
        OBVIOUS
    <2>1. l \in 0 .. 0
        BY <1>1, CardFacts
    <2> QED
        BY <1>2, <2>1
<1>4. CASE n > 0
    <2> DEFINE longer == Append(factory.correcting[l], n)
               W == [factory.working EXCEPT ![l] = @ - 1]
               C == [factory.correcting EXCEPT ![l] = longer]
               g == [factory EXCEPT !.working = W, !.correcting = C]
    <2>1. factory' = g
        <3>1. h = [factory EXCEPT !.working = W] /\ h.correcting = factory.correcting
            BY <1>1 DEF Typed, Records
        <3>2. factory' = [h EXCEPT !.correcting[l] = Append(@, n)]
            BY <1>2, <1>4
        <3> HIDE DEF W, h
        <3>3. factory' = [h EXCEPT !.correcting = C]
            BY <1>1, <3>1, <3>2 DEF Typed, Records
        <3> HIDE DEF C
        <3> QED
            BY <1>1, <3>1, <3>3 DEF Typed, Records
    <2>2. /\ factory.working \in [Levels -> Nat] /\ factory.working[l] \in Nat
          /\ factory.correcting \in [Levels -> Seq(1 .. n)]
          /\ factory.correcting[l] \in Seq(1 .. n) /\ n \in Nat
        BY <1>1, TypedFields, CardFacts
    <2>3. /\ W \in [Levels -> Nat] /\ W[l] = factory.working[l] - 1
          /\ \A k \in Levels \ {l} : W[k] = factory.working[k]
        <3>1. factory.working[l] - 1 \in Nat
            BY <1>2, <2>2
        <3> QED
            BY <2>2, <3>1
    <2>4. longer \in Seq(1 .. n) /\ Len(longer) = Len(factory.correcting[l]) + 1
        <3>1. n \in 1 .. n
            BY <1>4, <2>2
        <3> HIDE DEF n
        <3> QED
            BY <2>2, <3>1, AppendProperties
    <2> HIDE DEF longer, W
    <2>5. /\ C \in [Levels -> Seq(1 .. n)] /\ C[l] = longer
          /\ \A k \in Levels \ {l} : C[k] = factory.correcting[k]
        BY <2>2, <2>4
    <2> HIDE DEF C, g
    <2>6. /\ g.waiting = factory.waiting /\ g.served = factory.served
          /\ g.stored = factory.stored /\ g.produced = factory.produced
          /\ g.failed = factory.failed /\ g.isStarted = factory.isStarted
          /\ g.isShutDown = factory.isShutDown
          /\ g.working = W /\ g.correcting = C
        BY <1>1 DEF Typed, Records, g
    <2>7. \A k \in Levels : Busy(g, k) = Busy(factory, k)
        <3>1. Busy(g, l) = Busy(factory, l)
            <4>1. Len(factory.correcting[l]) \in Nat
                BY <2>2
            <4>2. /\ Busy(g, l) = W[l] + Len(longer)
                  /\ Busy(factory, l) = factory.working[l] + Len(factory.correcting[l])
                BY <1>3, <2>5, <2>6 DEF Busy
            <4> DEFINE w == factory.working[l]
                       k == Len(factory.correcting[l])
            <4>3. /\ w \in Nat /\ k \in Nat /\ W[l] = w - 1 /\ Len(longer) = k + 1
                  /\ Busy(factory, l) = w + k
                BY <2>2, <2>3, <2>4, <4>1, <4>2
            <4> HIDE DEF w, k
            <4>4. (w - 1) + (k + 1) = w + k
                BY <4>3
            <4> QED
                BY <4>2, <4>3, <4>4
        <3> TAKE k \in Levels
        <3>2. CASE k # l
            BY <2>3, <2>5, <2>6, <3>2 DEF Busy
        <3> QED
            BY <3>1, <3>2
    <2>8. Typed(g)
        <3>1. g \in Records
            BY <1>1, <2>3, <2>5 DEF Typed, Records, g
        <3> QED
            BY <1>1, <2>7, <3>1 DEF Typed, Records
    <2>9. Good(g)
        BY <1>1, <1>3, <2>6, <2>7, <2>8, SteadyKeeps
    <2>10. Supplies(factory, g)
        BY <2>6 DEF Supplies, SameSupply
    <2> QED
        BY <2>1, <2>9, <2>10
<1>5. CASE ~ (n > 0)
    <2>1. Freed(factory, h, l)
        BY <1>1, <1>2, <1>3, WorkerFreed
    <2> HIDE DEF h
    <2>3. ~ factory.isShutDown => Delivered(factory)
        BY <1>1 DEF Good
    <2>2. /\ Good(FinishRound(h, l, isSuccess))
          /\ Attends(factory) => Supplies(factory, FinishRound(h, l, isSuccess))
        BY <1>1, <1>3, <2>1, <2>3, FinishRoundKeeps
    <2> QED
        BY <1>2, <1>5, <2>2
<1> QED
    BY <1>4, <1>5

\* The correction decodes of a round become other ones of the same number, or
\* one round fewer has any.
LEMMA CorrectionEndsKeeps ==
    ASSUME IInv, NEW isSuccess \in BOOLEAN, NEW l \in Levels,
           NEW i \in DOMAIN factory.correcting[l],
           CorrectionEnds(l, i, isSuccess)
    PROVE  Good(factory') /\ (Attends(factory) => Supplies(factory, factory'))
<1> DEFINE s == factory.correcting[l]
           S == 1 .. config.corrections
           fewer == [factory EXCEPT !.correcting[l][i] = @ - 1]
           ended == [factory EXCEPT !.correcting[l] = RemoveAt(@, i)]
<1>1. config \in Factories /\ Good(factory) /\ Sound(factory) /\ Typed(factory)
    BY DEF IInv, Good, Sound
<1>2. factory' = IF s[i] > 1 THEN fewer
                 ELSE IF IsStage THEN [ended EXCEPT !.returning = @ + 1]
                 ELSE FinishRound(ended, l, isSuccess)
    BY DEF CorrectionEnds
<1>3. /\ factory.correcting \in [Levels -> Seq(S)] /\ s \in Seq(S)
      /\ i \in 1 .. Len(s) /\ s[i] \in S /\ Len(s) \in Nat
      /\ factory.working \in [Levels -> Nat] /\ factory.returning \in Nat
    <2>1. factory.correcting \in [Levels -> Seq(S)] /\ s \in Seq(S)
        BY <1>1, TypedFields
    <2>2. i \in 1 .. Len(s) /\ s[i] \in S /\ Len(s) \in Nat
        <3>1. i \in DOMAIN s
            OBVIOUS
        <3> HIDE DEF s, S
        <3> QED
            BY <2>1, <3>1
    <2> QED
        BY <1>1, <2>1, <2>2, TypedFields
<1>4. CASE s[i] > 1
    <2> DEFINE t == [s EXCEPT ![i] = @ - 1]
               C == [factory.correcting EXCEPT ![l] = t]
               g == [factory EXCEPT !.correcting = C]
    <2>1. fewer = g
        BY <1>1, <1>3 DEF Typed, Records
    <2>2. t \in Seq(S) /\ Len(t) = Len(s)
        <3>1. s[i] - 1 \in S
            <4>1. config.corrections \in Nat
                BY <1>1, CardFacts
            <4> QED
                BY <1>3, <1>4, <4>1
        <3> HIDE DEF s, S
        <3> QED
            BY <1>3, <3>1, ExceptSeq
    <2> HIDE DEF t
    <2>3. /\ C \in [Levels -> Seq(S)] /\ C[l] = t
          /\ \A k \in Levels \ {l} : C[k] = factory.correcting[k]
        BY <1>3, <2>2
    <2> HIDE DEF C, g
    <2>4. /\ g.waiting = factory.waiting /\ g.served = factory.served
          /\ g.stored = factory.stored /\ g.produced = factory.produced
          /\ g.failed = factory.failed /\ g.isStarted = factory.isStarted
          /\ g.isShutDown = factory.isShutDown
          /\ g.working = factory.working /\ g.correcting = C
          /\ g.returning = factory.returning
        BY <1>1 DEF Typed, Records, g
    <2>5. \A k \in Levels : Len(C[k]) = Len(factory.correcting[k])
        BY <2>2, <2>3
    <2>6. /\ \A k \in Levels : Busy(g, k) = Busy(factory, k)
          /\ InFlight(g) = InFlight(factory)
        <3>1. 0 \in Levels
            BY <1>1, CardFacts
        <3> QED
            BY <2>4, <2>5, <3>1 DEF Busy, InFlight
    <2>7. Typed(g)
        <3>1. g \in Records
            BY <1>1, <2>3 DEF Typed, Records, g
        <3> QED
            BY <1>1, <2>6, <3>1 DEF Typed, Records
    <2>8. Good(g)
        BY <1>1, <2>4, <2>6, <2>7, SteadyKeeps
    <2>9. Supplies(factory, g)
        BY <2>4 DEF Supplies, SameSupply
    <2> QED
        BY <1>2, <1>4, <2>1, <2>8, <2>9
<1>5. CASE ~ (s[i] > 1)
    <2> DEFINE t == RemoveAt(s, i)
               C == [factory.correcting EXCEPT ![l] = t]
    <2>1. t \in Seq(S) /\ Len(t) = Len(s) - 1
        <3> HIDE DEF s, S
        <3> QED
            BY <1>3, RemoveAtFacts
    <2>2. ended = [factory EXCEPT !.correcting = C]
        BY <1>1 DEF Typed, Records
    <2> HIDE DEF t
    <2>3. /\ C \in [Levels -> Seq(S)] /\ C[l] = t
          /\ \A k \in Levels \ {l} : C[k] = factory.correcting[k]
        BY <1>3, <2>1
    <2> HIDE DEF C, ended
    <2>4. CASE IsStage
        <3> DEFINE r == factory.returning + 1
                   g == [factory EXCEPT !.correcting = C, !.returning = r]
        <3>1. factory' = g
            BY <1>1, <1>2, <1>5, <2>2, <2>4 DEF Typed, Records
        <3>2. /\ g.waiting = factory.waiting /\ g.served = factory.served
              /\ g.stored = factory.stored /\ g.produced = factory.produced
              /\ g.failed = factory.failed /\ g.isStarted = factory.isStarted
              /\ g.isShutDown = factory.isShutDown
              /\ g.working = factory.working /\ g.correcting = C
              /\ g.returning = r
            BY <1>1 DEF Typed, Records
        <3>3. r \in Nat
            BY <1>3
        <3>4. g \in Records
            BY <1>1, <2>3, <3>3 DEF Typed, Records
        <3> HIDE DEF g
        <3>5. \A k \in Levels : Busy(g, k) = Busy(factory, k)
            BY <2>4, <3>2 DEF Busy
        <3>6. InFlight(g) = InFlight(factory)
            <4>1. l = 0
                <5>1. l \in 0 .. 0
                    BY <1>1, <2>4, CardFacts
                <5> QED
                    BY <5>1
            <4>2. InFlight(g) = Len(t) + r
                BY <2>3, <3>2, <4>1 DEF InFlight
            <4>3. InFlight(factory) = Len(s) + factory.returning
                BY <4>1 DEF InFlight
            <4> HIDE DEF s
            <4> QED
                BY <1>3, <2>1, <4>2, <4>3
        <3>7. Typed(g)
            BY <1>1, <3>4, <3>5 DEF Typed, Records
        <3>8. Good(g)
            BY <1>1, <3>2, <3>5, <3>6, <3>7, SteadyKeeps
        <3>9. Supplies(factory, g)
            BY <3>2 DEF Supplies, SameSupply
        <3> QED
            BY <3>1, <3>8, <3>9
    <2>5. CASE ~ IsStage
        <3>1. ended.working = factory.working /\ ended.correcting = C
            BY <1>1, <2>2 DEF Typed, Records
        <3>2. Busy(ended, l) = Busy(factory, l) - 1
            <4>1. factory.working[l] \in Nat
                BY <1>3
            <4>2. Busy(ended, l) = factory.working[l] + Len(t)
                BY <2>3, <2>5, <3>1 DEF Busy
            <4>3. Busy(factory, l) = factory.working[l] + Len(s)
                BY <2>5 DEF Busy
            <4> HIDE DEF s
            <4> QED
                BY <1>3, <2>1, <4>1, <4>2, <4>3
        <3>3. \A k \in Levels \ {l} : Busy(ended, k) = Busy(factory, k)
            BY <2>3, <3>1 DEF Busy
        <3>4. ended = [factory EXCEPT !.working = factory.working, !.correcting = C]
            BY <1>1, <2>2 DEF Typed, Records
        <3>5. Freed(factory, ended, l)
            BY <1>3, <2>3, <3>2, <3>3, <3>4 DEF Freed
        <3>7. ~ factory.isShutDown => Delivered(factory)
            BY <1>1 DEF Good
        <3>6. /\ Good(FinishRound(ended, l, isSuccess))
              /\ Attends(factory) => Supplies(factory, FinishRound(ended, l, isSuccess))
            BY <1>1, <2>5, <3>5, <3>7, FinishRoundKeeps
        <3> QED
            BY <1>2, <1>5, <2>5, <3>6
    <2> QED
        BY <2>4, <2>5
<1> QED
    BY <1>4, <1>5

-----------------------------------------------------------------------------
(* The invariant *)

\* What a factory is good for depends on the card, which no step changes.
LEMMA GoodAfterwards ==
    ASSUME config' = config, Good(factory')
    PROVE  Good(factory)'
<1> USE DEF Levels, Top, Units, Outputs, IsStage
<1>1. Typed(factory)'
    <2>1. Typed(factory')
        BY DEF Good, Sound
    <2> QED
        BY <2>1 DEF Typed, Records, Busy
<1>2. NoneTwice(factory)' /\ (IsStage \/ ~ factory.isShutDown => Delivered(factory))'
    BY DEF Good, Sound, NoneTwice, Delivered
<1>3. Conserved(factory)'
    <2>1. Conserved(factory')
        BY DEF Good, Sound
    <2> QED
        BY <2>1 DEF Conserved, Busy
<1>4. NotAhead(factory)'
    <2>1. NotAhead(factory')
        BY DEF Good, Sound
    <2> QED
        BY <2>1 DEF NotAhead, InFlight, IsDemand, WantedRounds, Committed, Busy
<1>5. Idle(factory)'
    <2>1. Idle(factory')
        BY DEF Good
    <2> QED
        BY <2>1, SMTT(90) DEF Idle, Shortage, IsContinuous, InFlight, HasNothingToStart,
                    IsDemand, WantedRounds, Busy
<1> QED
    BY <1>1, <1>2, <1>3, <1>4, <1>5 DEF Good, Sound

\* A factory as it is built.
LEMMA BuiltIsGood ==
    ASSUME Init
    PROVE  IInv
<1>1. config \in Factories /\ factory = Built
    BY DEF Init
<1>2. /\ factory.waiting = <<>> /\ factory.served = <<>>
      /\ factory.stored = [l \in Levels |-> IF IsStage THEN config.initial ELSE 0]
      /\ factory.working = [l \in Levels |-> 0]
      /\ factory.correcting = [l \in Levels |-> <<>>]
      /\ factory.returning = 0
      /\ factory.produced = [l \in Levels |-> 0]
      /\ factory.failed = [l \in Levels |-> 0]
      /\ factory.isStarted = ~ IsContinuous /\ factory.isShutDown = FALSE
    BY <1>1 DEF Built, NoRounds
<1>3. /\ Top \in Nat /\ Levels = 0 .. Top /\ (IsStage => Top = 0)
      /\ config.initial \in Nat /\ config.buffer \in Nat /\ config.inputs \in Nat
      /\ \A l \in Levels : Units(l) \in Nat \ {0} /\ Outputs(l) \in Nat \ {0}
    BY <1>1, CardFacts
<1>4. \A l \in Levels : Busy(factory, l) = 0
    <2>1. Len(<<>>) = 0
        OBVIOUS
    <2> QED
        BY <1>2, <2>1 DEF Busy
<1>5. Typed(factory)
    <2>1. <<>> \in Seq(config.requests) /\ <<>> \in Seq(1 .. config.corrections)
        OBVIOUS
    <2>2. factory \in Records
        BY <1>1, <1>3, <2>1 DEF Built, NoRounds, Records
    <2>3. \A l \in Levels : Busy(factory, l) <= Units(l)
        BY <1>3, <1>4
    <2> QED
        BY <2>2, <2>3 DEF Typed, Records
<1>6. NoneTwice(factory)
    <2>1. Len(<<>> \o <<>>) = 0
        OBVIOUS
    <2> QED
        BY <1>2, <2>1 DEF NoneTwice
<1>7. Conserved(factory)
    <2>1. 0 \div 0 = 0 \div 0 /\ Len(<<>>) = 0
        OBVIOUS
    <2>2. Top \in Levels /\ \A l \in 1 .. Top : l \in Levels /\ l - 1 \in Levels
                                              /\ l - 1 # Top
        BY <1>3
    <2>3. \A l \in 1 .. Top : 0 \div Outputs(l) = 0
        <3> TAKE l \in 1 .. Top
        <3>1. Outputs(l) \in Nat \ {0}
            BY <1>3, <2>2
        <3> QED
            BY <3>1
    <2>4. \A l \in 1 .. Top : ~ IsStage
        BY <1>3
    <2> QED
        BY <1>2, <1>3, <1>4, <2>1, <2>2, <2>3, <2>4 DEF Conserved
<1>8. NotAhead(factory)
    <2>1. IsStage => factory.working[0] + InFlight(factory) = 0
        <3>1. 0 \in Levels /\ Len(<<>>) = 0
            BY <1>3
        <3> QED
            BY <1>2, <3>1 DEF InFlight
    <2> QED
        BY <1>4, <2>1 DEF NotAhead
<1>9. Delivered(factory)
    BY <1>2 DEF Delivered
<1>10. Idle(factory)
    <2> SUFFICES ASSUME ~ IsContinuous
                 PROVE  Idle(factory)
        BY <1>2 DEF Idle
    <2>1. config.buffer = 0
        BY <1>3 DEF IsContinuous
    <2>2. CASE IsStage
        <3>1. Shortage(factory) = 0
            <4>1. 0 \in Levels /\ Len(<<>>) = 0
                BY <1>3
            <4>2. factory.working[0] + InFlight(factory) = 0 /\ Len(factory.waiting) = 0
                BY <1>2, <4>1 DEF InFlight
            <4>3. Shortage(factory) = Max({0, 0 - 0, 0})
                BY <4>2 DEF Shortage
            <4>4. Max({0, 0 - 0, 0}) = 0
                BY OfThree
            <4> QED
                BY <4>3, <4>4
        <3> QED
            BY <2>2, <3>1 DEF Idle
    <2>3. CASE ~ IsStage
        <3> SUFFICES ASSUME NEW d, IsDemand(factory, d), NEW l \in Levels
                     PROVE  HasNothingToStart(factory, l, d)
            BY <2>3 DEF Idle
        <3>1. d[Top] = 0 /\ d \in [Levels -> Nat]
            <4>1. Len(<<>>) = 0
                OBVIOUS
            <4> QED
                BY <1>2, <2>1, <4>1 DEF IsDemand
        <3>2. \A k \in Levels : WantedRounds(factory, k, 0) = 0
            <4> TAKE k \in Levels
            <4>1. factory.stored[k] = 0 /\ Busy(factory, k) = 0 /\ Outputs(k) \in Nat
                BY <1>2, <1>3, <1>4, <2>3
            <4>2. 0 - (0 + 0 * Outputs(k)) <= 0
                BY <4>1
            <4> QED
                BY <4>1, <4>2 DEF WantedRounds
        <3> DEFINE Wrong == {n \in 0 .. Top : d[Top - n] # 0}
        <3>3. \A n \in Wrong : n \in Nat
            OBVIOUS
        <3>4. ASSUME NEW n \in Wrong
              PROVE  \E k \in Wrong : k < n
            <4>1. n \in 0 .. Top /\ d[Top - n] # 0
                BY <3>4
            <4>2. n # 0
                BY <1>3, <3>1, <4>1
            <4>3. /\ Top - n \in Levels \ {Top} /\ Top - n + 1 = Top - (n - 1)
                  /\ Top - (n - 1) \in Levels
                BY <1>3, <4>1, <4>2
            <4>4. d[Top - n] = config.inputs *
                        WantedRounds(factory, Top - (n - 1), d[Top - (n - 1)])
                BY <4>3 DEF IsDemand
            <4>5. d[Top - (n - 1)] # 0
                <5> SUFFICES ASSUME d[Top - (n - 1)] = 0
                             PROVE  FALSE
                    OBVIOUS
                <5>1. WantedRounds(factory, Top - (n - 1), d[Top - (n - 1)]) = 0
                    BY <3>2, <4>3
                <5>2. config.inputs * 0 = 0
                    BY <1>3
                <5> QED
                    BY <4>1, <4>4, <5>1, <5>2
            <4>6. n - 1 \in Wrong
                BY <1>3, <4>1, <4>2, <4>5
            <4>7. n - 1 < n
                BY <4>1
            <4> HIDE DEF Wrong
            <4> QED
                BY <4>6, <4>7
        <3> HIDE DEF Wrong
        <3>5. Wrong = {}
            BY <3>3, <3>4, NoLeast
        <3>6. d[l] = 0
            <4>1. Top - l \in 0 .. Top /\ Top - (Top - l) = l
                BY <1>3
            <4> QED
                BY <3>5, <4>1 DEF Wrong
        <3> QED
            BY <3>2, <3>6 DEF HasNothingToStart
    <2> QED
        BY <2>2, <2>3
<1> QED
    BY <1>1, <1>5, <1>6, <1>7, <1>8, <1>9, <1>10 DEF IInv, Good, Sound
\* IInv holds in every reachable state.
THEOREM InvariantHolds == Spec => []IInv
<1>1. Init => IInv
    BY BuiltIsGood
<1>2. IInv /\ [Next]_vars => IInv'
    <2> SUFFICES ASSUME IInv, [Next]_vars
                 PROVE  IInv'
        OBVIOUS
    <2>1. config' = config
        BY DEF Next, Ends, Request, ShutDown, FactoryStarts, StateReturns,
               AttemptEnds, PreparationEnds, PhysicalRoundEnds, CorrectionEnds,
               Rests, vars
    <2>2. Good(factory')
        <3>1. ASSUME NEW o \in config.requests, Request(o)
              PROVE  Good(factory')
            BY <3>1, RequestKeeps
        <3>2. CASE ShutDown
            BY <3>2, ShutDownKeeps
        <3>3. CASE FactoryStarts
            BY <3>3, FactoryStartsKeeps
        <3>4. CASE StateReturns
            BY <3>4, StateReturnsKeeps
        <3>5. ASSUME NEW isSuccess \in BOOLEAN, AttemptEnds(isSuccess)
              PROVE  Good(factory')
            BY <3>5, AttemptEndsKeeps
        <3>6. ASSUME NEW isSuccess \in BOOLEAN, PreparationEnds(isSuccess)
              PROVE  Good(factory')
            BY <3>6, PreparationEndsKeeps
        <3>7. ASSUME NEW isSuccess \in BOOLEAN, NEW l \in Levels,
                     PhysicalRoundEnds(l, isSuccess)
              PROVE  Good(factory')
            BY <3>7, PhysicalRoundEndsKeeps
        <3>8. ASSUME NEW isSuccess \in BOOLEAN, NEW l \in Levels,
                     NEW i \in DOMAIN factory.correcting[l],
                     CorrectionEnds(l, i, isSuccess)
              PROVE  Good(factory')
            BY <3>8, CorrectionEndsKeeps
        <3>9. CASE Rests \/ UNCHANGED vars
            <4>1. factory' = factory
                BY <3>9 DEF Rests, vars
            <4> QED
                BY <4>1 DEF IInv
        <3> QED
            BY <3>1, <3>2, <3>3, <3>4, <3>5, <3>6, <3>7, <3>8, <3>9
               DEF Next, Ends
    <2>3. Good(factory)'
        BY <2>1, <2>2, GoodAfterwards
    <2> QED
        BY <2>1, <2>3 DEF IInv
<1> QED
    BY <1>1, <1>2, PTL DEF Spec

-----------------------------------------------------------------------------
(* What the invariant says of the properties *)

\* A factory of the right types is one of the right types.
LEMMA TypesFromInvariant ==
    ASSUME IInv
    PROVE  TypeOK
<1>1. config \in Factories /\ Typed(factory)
    BY DEF IInv, Good, Sound
<1>2. Asked(factory) \subseteq config.requests
    <2> DEFINE R == config.requests
    <2>1. factory.waiting \in Seq(R) /\ factory.served \in Seq(R)
        BY <1>1, TypedFields
    <2> HIDE DEF R
    <2>2. Range(factory.waiting) \subseteq R /\ Range(factory.served) \subseteq R
        BY <2>1 DEF Range
    <2> QED
        BY <2>2 DEF Asked, R
<1>3. \A l \in Levels :
        /\ factory.stored[l] \in Nat /\ factory.working[l] \in Nat
        /\ factory.correcting[l] \in Seq(1 .. config.corrections)
        /\ Busy(factory, l) <= Units(l)
    BY <1>1 DEF Typed, Records
<1>4. factory.returning \in Nat
    BY <1>1 DEF Typed, Records
<1> QED
    BY <1>1, <1>2, <1>3, <1>4 DEF TypeOK

\* States are conserved.
LEMMA ConservedFromInvariant ==
    ASSUME IInv
    PROVE  StatesAreConserved
<1>1. config \in Factories /\ Conserved(factory)
    BY DEF IInv, Good, Sound
<1>2. Built.stored[Top] = IF IsStage THEN config.initial ELSE 0
    <2>1. Top \in Levels
        BY <1>1, CardFacts
    <2> QED
        BY <2>1 DEF Built
<1>3. factory.produced[Top] + Built.stored[Top]
            = factory.stored[Top] + Len(factory.served)
    BY <1>1, <1>2 DEF Conserved
<1>4. \A l \in 1 .. Top :
        factory.produced[l - 1] = factory.stored[l - 1] + config.inputs *
            (Busy(factory, l) + factory.failed[l] + factory.produced[l] \div Outputs(l))
    BY <1>1 DEF Conserved
<1> QED
    BY <1>3, <1>4, TypesFromInvariant DEF StatesAreConserved

\* No level is ahead of its demand.
LEMMA NotAheadFromInvariant ==
    ASSUME IInv
    PROVE  NeverAheadOfDemand
<1>1. config \in Factories /\ Typed(factory) /\ NotAhead(factory)
    BY DEF IInv, Good, Sound
<1>2. CASE IsStage
    BY <1>1, <1>2 DEF NotAhead, NeverAheadOfDemand
<1>3. CASE ~ IsStage
    <2>1. IsDemand(factory, DemandByLevel(factory))
        BY <1>1, DemandFacts
    <2>2. \A l \in Levels :
            Busy(factory, l) > 0 =>
                Committed(factory, l) < DemandByLevel(factory)[l] + Outputs(l)
        BY <1>1, <1>3, <2>1 DEF NotAhead
    <2> QED
        BY <1>3, <2>2 DEF NeverAheadOfDemand, Committed
<1> QED
    BY <1>2, <1>3

\* No unit waits for work: looking for work changes nothing.
LEMMA IdleFromInvariant ==
    ASSUME IInv
    PROVE  NoUnitWaitsForWork
<1>1. config \in Factories /\ Typed(factory) /\ Sound(factory) /\ Idle(factory)
    BY DEF IInv, Good, Sound
<1> SUFFICES ASSUME factory.isStarted, ~ factory.isShutDown
             PROVE  IF IsStage THEN StartAttempts(factory) = factory
                    ELSE StartWork(factory) = factory
    BY DEF NoUnitWaitsForWork
<1>2. ASSUME IsStage
      PROVE  StartAttempts(factory) = factory
    <2> DEFINE w == factory.working[0]
               idle == Units(0) - w
               short == Shortage(factory)
    <2>1. /\ 0 \in Levels /\ w \in Nat /\ Units(0) \in Nat /\ short \in Nat
          /\ factory.working \in [Levels -> Nat]
        BY <1>1, <1>2, CardFacts, TypedFields, ShortageFacts
    <2>2. w <= Units(0)
        <3>1. Busy(factory, 0) = w + 0
            BY <1>2 DEF Busy
        <3>2. Busy(factory, 0) <= Units(0)
            BY <1>1, <2>1 DEF Typed, Records
        <3> QED
            BY <2>1, <3>1, <3>2
    <2>3. short = 0 \/ idle = 0
        BY <1>1, <1>2, <2>1 DEF Idle
    <2>4. idle \in Nat
        BY <2>1, <2>2
    <2>5. Min({idle, short}) = 0
        <3> HIDE DEF idle, short
        <3>2. idle \in Int /\ short \in Int
            BY <2>1, <2>4
        <3>1. Min({idle, short}) = IF idle <= short THEN idle ELSE short
            BY <3>2, OfTwo
        <3> QED
            BY <2>1, <2>3, <2>4, <3>1
    <2>6. StartAttempts(factory) = [factory EXCEPT !.working[0] = @ + Min({idle, short})]
        BY DEF StartAttempts
    <2> HIDE DEF idle, short
    <2>7. StartAttempts(factory) = [factory EXCEPT !.working[0] = @ + 0]
        BY <2>5, <2>6
    <2>8. [factory.working EXCEPT ![0] = @ + 0] = factory.working
        BY <2>1
    <2>9. [factory EXCEPT !.working[0] = @ + 0]
            = [factory EXCEPT !.working = [factory.working EXCEPT ![0] = @ + 0]]
        BY <1>1 DEF Typed, Records
    <2> QED
        BY <1>1, <2>7, <2>8, <2>9 DEF Typed, Records
<1>3. ASSUME ~ IsStage
      PROVE  StartWork(factory) = factory
    <2> DEFINE b == Startable(factory)
               d == DemandByLevel(factory)
               in == config.inputs
               work == [l \in Levels |-> factory.working[l] + b[l]]
               taken(l) == IF l = Top THEN 0 ELSE in * b[l + 1]
               store == [l \in Levels |-> factory.stored[l] - taken(l)]
    <2>1. Delivered(factory)
        BY <1>3 DEF IInv, Good
    <2>2. StartWork(factory) = StartRounds(factory)
        BY <1>1, <2>1, DeliverKeeps DEF StartWork
    <2>3. IsDemand(factory, d)
        BY <1>1, DemandFacts
    <2>4. /\ b \in [Levels -> Nat]
          /\ \A l \in Levels :
                /\ b[l] <= WantedRounds(factory, l, d[l])
                /\ b[l] <= Units(l) - Busy(factory, l)
                /\ l > 0 => in * b[l] <= factory.stored[l - 1]
        BY <1>1, <1>3, StartableFacts
    <2>5. \A l \in Levels : HasNothingToStart(factory, l, d)
        BY <1>1, <1>3, <2>3 DEF Idle
    <2> HIDE DEF b, d
    <2>6. /\ factory.working \in [Levels -> Nat] /\ factory.stored \in [Levels -> Nat]
          /\ in \in Nat \ {0} /\ Top \in Nat /\ Levels = 0 .. Top
        BY <1>1, CardFacts, TypedFields
    <2>7. ASSUME NEW l \in Levels
          PROVE  b[l] = 0
        <3>1. b[l] \in Nat
            BY <2>4
        <3>2. CASE WantedRounds(factory, l, d[l]) = 0
            <4>1. b[l] <= 0
                BY <2>4, <3>2
            <4> QED
                BY <3>1, <4>1
        <3>3. CASE Busy(factory, l) = Units(l)
            <4>1. b[l] <= Units(l) - Units(l) /\ Units(l) \in Nat
                BY <1>1, <2>4, <3>3, CardFacts
            <4> QED
                BY <3>1, <4>1
        <3>4. CASE l > 0 /\ factory.stored[l - 1] < in
            <4>1. in * b[l] <= factory.stored[l - 1]
                BY <2>4, <3>4
            <4>2. factory.stored[l - 1] \in Nat
                <5>1. l - 1 \in Levels
                    BY <2>6, <3>4
                <5> QED
                    BY <2>6, <5>1
            <4>3. b[l] > 0 => in * b[l] >= in
                <5> DEFINE x == b[l]
                <5>1. x \in Nat /\ in \in Nat
                    BY <2>6, <3>1
                <5> HIDE DEF x, in
                <5>2. x > 0 => in * x >= in
                    BY <5>1
                <5> QED
                    BY <5>2 DEF x
            <4>4. in * b[l] \in Nat
                BY <2>6, <3>1
            <4> HIDE DEF in
            <4> QED
                BY <2>6, <3>1, <3>4, <4>1, <4>2, <4>3, <4>4
        <3> QED
            BY <2>5, <3>2, <3>3, <3>4 DEF HasNothingToStart
    <2>8. \A l \in Levels : factory.working[l] + b[l] = factory.working[l]
        <3> TAKE l \in Levels
        <3>1. factory.working[l] \in Nat /\ b[l] = 0
            BY <2>6, <2>7
        <3> QED
            BY <3>1
    <2>9. \A l \in Levels : factory.stored[l] - taken(l) = factory.stored[l]
        <3> TAKE l \in Levels
        <3>1. taken(l) = 0
            <4>1. CASE l = Top
                BY <4>1
            <4>2. CASE l # Top
                <5>1. l + 1 \in Levels
                    BY <2>6, <4>2
                <5>2. b[l + 1] = 0 /\ in * 0 = 0
                    BY <2>6, <2>7, <5>1
                <5> QED
                    BY <4>2, <5>2
            <4> QED
                BY <4>1, <4>2
        <3>2. factory.stored[l] \in Nat
            BY <2>6
        <3> HIDE DEF taken
        <3> QED
            BY <3>1, <3>2
    <2>10. work = factory.working
        BY <2>6, <2>8
    <2>11. store = factory.stored
        <3> HIDE DEF taken
        <3> QED
            BY <2>6, <2>9
    <2>12. StartRounds(factory) = [factory EXCEPT !.working = work, !.stored = store]
        BY <1>1 DEF StartRounds, Typed, Records, b
    <2> HIDE DEF work, store
    <2> QED
        BY <1>1, <2>2, <2>10, <2>11, <2>12 DEF Typed, Records
<1> QED
    BY <1>2, <1>3

\* In every factory that can be built, of however many levels and units, each
\* level makes what is wanted of it and accounts for every state.
THEOREM StatesAreAlwaysMadeAsWanted == Spec => []StatesAreMadeAsWanted
<1>1. IInv => StatesAreMadeAsWanted
    BY ConservedFromInvariant, NotAheadFromInvariant, IdleFromInvariant
       DEF StatesAreMadeAsWanted, ProductionFollowsDemand
<1> QED
    BY <1>1, InvariantHolds, PTL

-----------------------------------------------------------------------------
(* The supply *)

\* Whoever asks a chain emits rounds, so that the program cannot be over, and
\* the chain shut down, before each of them has had its state.
RequestersEmit ==
    \A c \in Factories : c.kind = "chain" => c.requests \subseteq c.emits

\* A chain that is shut down has served all who may ask.
AllServed ==
    ~ IsStage /\ factory.isShutDown => config.requests \subseteq Range(factory.served)

\* Only ShutDown shuts a factory down.
StaysOpen(f, g) ==
    /\ "isShutDown" \in DOMAIN g
    /\ g.isShutDown = f.isShutDown

\* The operators the steps are built from shut nothing down.
LEMMA OperatorsStayOpen ==
    ASSUME NEW f, "isShutDown" \in DOMAIN f
    PROVE  /\ StaysOpen(f, Deliver(f)) /\ StaysOpen(f, StartAttempts(f))
           /\ StaysOpen(f, StartWork(f))
           /\ \A l : StaysOpen(f, Corrected(f, l))
           /\ \A l, isSuccess : StaysOpen(f, FinishRound(f, l, isSuccess))
<1>1. ASSUME NEW g, "isShutDown" \in DOMAIN g
      PROVE  StaysOpen(g, Deliver(g)) /\ StaysOpen(g, StartAttempts(g))
    BY <1>1 DEF StaysOpen, Deliver, StartAttempts
<1>2. ASSUME NEW g, "isShutDown" \in DOMAIN g
      PROVE  StaysOpen(g, StartRounds(g))
    BY <1>2 DEF StaysOpen, StartRounds
<1>3. ASSUME NEW g, "isShutDown" \in DOMAIN g
      PROVE  StaysOpen(g, StartWork(g))
    BY <1>1, <1>2, <1>3 DEF StaysOpen, StartWork
<1>4. \A l : StaysOpen(f, Corrected(f, l))
    BY DEF StaysOpen, Corrected
<1>5. ASSUME NEW l, NEW isSuccess
      PROVE  StaysOpen(f, FinishRound(f, l, isSuccess))
    <2> DEFINE states == IF isSuccess THEN Outputs(l) ELSE 0
               h == [f EXCEPT !.stored[l] = @ + states,
                              !.produced[l] = @ + states,
                              !.failed[l] = @ + IF isSuccess THEN 0 ELSE 1]
    <2>1. FinishRound(f, l, isSuccess) = StartWork(h)
        BY DEF FinishRound
    <2>2. StaysOpen(f, h)
        BY DEF StaysOpen
    <2> HIDE DEF h
    <2> QED
        BY <1>3, <2>1, <2>2 DEF StaysOpen
<1> QED
    BY <1>1, <1>3, <1>4, <1>5

\* Those who are served stay served.
LEMMA ServedStaysServed ==
    ASSUME IInv, Supplies(factory, factory')
    PROVE  Range(factory.served) \subseteq Range(factory'.served)
<1> DEFINE R == config.requests
           s == factory.served
<1>1. config \in Factories /\ Typed(factory)
    BY DEF IInv, Good, Sound
<1>2. /\ factory.waiting \in Seq(R) /\ s \in Seq(R)
      /\ factory.stored[Top] \in Nat /\ Outputs(Top) \in Nat
    BY <1>1, TypedFields, CardFacts
<1>3. ASSUME NEW queue \in Seq(R), NEW states \in Nat,
             Hands(factory, queue, states, factory')
      PROVE  Range(s) \subseteq Range(factory'.served)
    <2> DEFINE given == IF states <= Len(queue) THEN states ELSE Len(queue)
               t == SubSeq(queue, 1, given)
    <2>1. factory'.served = s \o t
        BY <1>3 DEF Hands
    <2>2. t \in Seq(R)
        <3>1. given \in 0 .. Len(queue)
            OBVIOUS
        <3> HIDE DEF given, R
        <3> QED
            BY <3>1, SplitFacts
    <2> HIDE DEF t, s, R
    <2>3. \A i \in 1 .. Len(s) : i \in 1 .. Len(s \o t) /\ (s \o t)[i] = s[i]
        BY <1>2, <2>2
    <2>4. DOMAIN s = 1 .. Len(s) /\ DOMAIN (s \o t) = 1 .. Len(s \o t)
        BY <1>2, <2>2
    <2> QED
        BY <2>1, <2>3, <2>4 DEF Range
<1>4. CASE SameSupply(factory, factory')
    BY <1>4 DEF SameSupply
<1>5. ASSUME NEW o \in R, Hands(factory, Append(factory.waiting, o),
                                factory.stored[Top], factory')
      PROVE  Range(s) \subseteq Range(factory'.served)
    <2>1. Append(factory.waiting, o) \in Seq(R)
        <3> HIDE DEF R
        <3> QED
            BY <1>2, AppendProperties
    <2> HIDE DEF R, s
    <2> QED
        BY <1>2, <1>3, <1>5, <2>1
<1>6. ASSUME NEW n \in {1, Outputs(Top)},
             Hands(factory, factory.waiting, factory.stored[Top] + n, factory')
      PROVE  Range(s) \subseteq Range(factory'.served)
    <2>1. factory.stored[Top] + n \in Nat
        BY <1>2
    <2> HIDE DEF R, s
    <2> QED
        BY <1>2, <1>3, <1>6, <2>1
<1> QED
    BY <1>4, <1>5, <1>6 DEF Supplies

\* While a chain works it serves who asks; once it is shut down nobody will.
LEMMA FactoriesAttend ==
    ASSUME IInv, AllServed
    PROVE  Attends(factory)
<1> SUFFICES ASSUME ~ IsStage, factory.isShutDown, factory.waiting # <<>>
             PROVE  FALSE
    BY DEF Attends, AllServed
<1> DEFINE R == config.requests
           s == factory.served
           w == factory.waiting
           asked == s \o w
<1>1. s \in Seq(R) /\ w \in Seq(R) /\ w # <<>>
    <2>1. config \in Factories /\ Typed(factory)
        BY DEF IInv, Good, Sound
    <2> QED
        BY <2>1, TypedFields
<1>2. R \subseteq Range(s)
    BY DEF AllServed
<1>3. \A i, j \in 1 .. Len(asked) : asked[i] = asked[j] => i = j
    BY DEF IInv, Good, Sound, NoneTwice
<1> HIDE DEF R, s, w
<1>4. Len(w) \in Nat \ {0} /\ Len(s) \in Nat /\ w[1] \in R
    BY <1>1
<1>5. PICK i \in 1 .. Len(s) : s[i] = w[1]
    <2>1. w[1] \in Range(s)
        BY <1>2, <1>4
    <2>2. DOMAIN s = 1 .. Len(s)
        BY <1>1
    <2> QED
        BY <2>1, <2>2 DEF Range
<1>6. /\ Len(asked) = Len(s) + Len(w)
      /\ asked[i] = s[i] /\ asked[Len(s) + 1] = w[1]
    BY <1>1, <1>4
<1>7. i \in 1 .. Len(asked) /\ Len(s) + 1 \in 1 .. Len(asked)
    BY <1>4, <1>6
<1>8. i = Len(s) + 1
    BY <1>3, <1>5, <1>6, <1>7
<1> QED
    BY <1>4, <1>8

\* Each step is a step of the supply, for a factory that attends.
LEMMA StepsSupply ==
    ASSUME IInv, [Next]_vars, Attends(factory)
    PROVE  Supplies(factory, factory')
<1>1. ASSUME NEW o \in config.requests, Request(o)
      PROVE  Supplies(factory, factory')
    BY <1>1, RequestKeeps
<1>2. CASE ShutDown
    BY <1>2, ShutDownKeeps
<1>3. CASE FactoryStarts
    BY <1>3, FactoryStartsKeeps
<1>4. CASE StateReturns
    BY <1>4, StateReturnsKeeps
<1>5. ASSUME NEW isSuccess \in BOOLEAN, AttemptEnds(isSuccess)
      PROVE  Supplies(factory, factory')
    BY <1>5, AttemptEndsKeeps
<1>6. ASSUME NEW isSuccess \in BOOLEAN, PreparationEnds(isSuccess)
      PROVE  Supplies(factory, factory')
    BY <1>6, PreparationEndsKeeps
<1>7. ASSUME NEW isSuccess \in BOOLEAN, NEW l \in Levels,
             PhysicalRoundEnds(l, isSuccess)
      PROVE  Supplies(factory, factory')
    BY <1>7, PhysicalRoundEndsKeeps
<1>8. ASSUME NEW isSuccess \in BOOLEAN, NEW l \in Levels,
             NEW i \in DOMAIN factory.correcting[l],
             CorrectionEnds(l, i, isSuccess)
      PROVE  Supplies(factory, factory')
    BY <1>8, CorrectionEndsKeeps
<1>9. CASE Rests \/ UNCHANGED vars
    <2>1. factory' = factory
        BY <1>9 DEF Rests, vars
    <2> QED
        BY <2>1 DEF Supplies, SameSupply
<1> QED
    BY <1>1, <1>2, <1>3, <1>4, <1>5, <1>6, <1>7, <1>8, <1>9 DEF Next, Ends

\* A step other than ShutDown leaves the factory as open as it was.
LEMMA StepsStayOpen ==
    ASSUME IInv, [Next]_vars
    PROVE  ShutDown \/ factory'.isShutDown = factory.isShutDown
<1>0. "isShutDown" \in DOMAIN factory
    <2>1. factory \in Records
        BY DEF IInv, Good, Sound, Typed
    <2> QED
        BY <2>1 DEF Records
<1>1. ASSUME NEW o \in config.requests, Request(o)
      PROVE  factory'.isShutDown = factory.isShutDown
    <2> DEFINE h == [factory EXCEPT !.waiting = Append(@, o)]
    <2>1. StaysOpen(factory, h)
        BY <1>0 DEF StaysOpen
    <2>2. factory' = IF IsStage THEN StartAttempts(Deliver(h)) ELSE StartWork(h)
        BY <1>1 DEF Request
    <2> HIDE DEF h
    <2> QED
        BY <2>1, <2>2, OperatorsStayOpen DEF StaysOpen
<1>3. CASE FactoryStarts
    <2> DEFINE h == [factory EXCEPT !.isStarted = TRUE]
    <2>1. StaysOpen(factory, h)
        BY <1>0 DEF StaysOpen
    <2>2. factory' = IF IsStage THEN StartAttempts(h) ELSE StartWork(h)
        BY <1>3 DEF FactoryStarts
    <2> HIDE DEF h
    <2> QED
        BY <2>1, <2>2, OperatorsStayOpen DEF StaysOpen
<1>4. CASE StateReturns
    <2> DEFINE h == [factory EXCEPT !.returning = @ - 1, !.stored[0] = @ + 1,
                                    !.produced[0] = @ + 1]
    <2>1. StaysOpen(factory, h)
        BY <1>0 DEF StaysOpen
    <2>2. factory' = StartAttempts(Deliver(h))
        BY <1>4 DEF StateReturns
    <2> HIDE DEF h
    <2> QED
        BY <2>1, <2>2, OperatorsStayOpen DEF StaysOpen
<1>5. ASSUME NEW isSuccess \in BOOLEAN, AttemptEnds(isSuccess)
      PROVE  factory'.isShutDown = factory.isShutDown
    <2> DEFINE h == [factory EXCEPT !.working[0] = @ - 1]
               k == [h EXCEPT !.failed[0] = @ + 1]
    <2>1. StaysOpen(factory, h) /\ StaysOpen(h, k)
        BY <1>0 DEF StaysOpen
    <2>2. \/ factory' = StartAttempts(Corrected(h, 0))
          \/ factory' = StartAttempts(k)
        BY <1>5 DEF AttemptEnds
    <2>3. StaysOpen(h, Corrected(h, 0))
        BY <2>1, OperatorsStayOpen DEF StaysOpen
    <2> HIDE DEF h, k
    <2>4. /\ StaysOpen(Corrected(h, 0), StartAttempts(Corrected(h, 0)))
          /\ StaysOpen(k, StartAttempts(k))
        BY <2>1, <2>3, OperatorsStayOpen DEF StaysOpen
    <2> QED
        BY <2>1, <2>2, <2>3, <2>4 DEF StaysOpen
<1>6. ASSUME NEW isSuccess \in BOOLEAN, PreparationEnds(isSuccess)
      PROVE  factory'.isShutDown = factory.isShutDown
    <2> DEFINE h == [factory EXCEPT !.working[0] = @ - 1]
    <2>1. StaysOpen(factory, h)
        BY <1>0 DEF StaysOpen
    <2>2. factory' = FinishRound(h, 0, isSuccess)
        BY <1>6 DEF PreparationEnds
    <2> HIDE DEF h
    <2> QED
        BY <2>1, <2>2, OperatorsStayOpen DEF StaysOpen
<1>7. ASSUME NEW isSuccess \in BOOLEAN, NEW l \in Levels,
             PhysicalRoundEnds(l, isSuccess)
      PROVE  factory'.isShutDown = factory.isShutDown
    <2> DEFINE h == [factory EXCEPT !.working[l] = @ - 1]
               k == [h EXCEPT !.correcting[l] = Append(@, config.corrections)]
    <2>1. StaysOpen(factory, h) /\ StaysOpen(h, k)
        BY <1>0 DEF StaysOpen
    <2>2. factory' = k \/ factory' = FinishRound(h, l, isSuccess)
        BY <1>7 DEF PhysicalRoundEnds
    <2> HIDE DEF h, k
    <2> QED
        BY <2>1, <2>2, OperatorsStayOpen DEF StaysOpen
<1>8. ASSUME NEW isSuccess \in BOOLEAN, NEW l \in Levels,
             NEW i \in DOMAIN factory.correcting[l],
             CorrectionEnds(l, i, isSuccess)
      PROVE  factory'.isShutDown = factory.isShutDown
    <2> DEFINE fewer == [factory EXCEPT !.correcting[l][i] = @ - 1]
               ended == [factory EXCEPT !.correcting[l] = RemoveAt(@, i)]
               back == [ended EXCEPT !.returning = @ + 1]
    <2>1. StaysOpen(factory, fewer) /\ StaysOpen(factory, ended) /\ StaysOpen(ended, back)
        BY <1>0 DEF StaysOpen
    <2>2. \/ factory' = fewer \/ factory' = back
          \/ factory' = FinishRound(ended, l, isSuccess)
        BY <1>8 DEF CorrectionEnds
    <2> HIDE DEF fewer, ended, back
    <2> QED
        BY <2>1, <2>2, OperatorsStayOpen DEF StaysOpen
<1>9. CASE Rests \/ UNCHANGED vars
    BY <1>9 DEF Rests, vars
<1> QED
    BY <1>1, <1>3, <1>4, <1>5, <1>6, <1>7, <1>8, <1>9 DEF Next, Ends

\* The card stays as it is.
LEMMA CardStays ==
    ASSUME [Next]_vars
    PROVE  config' = config
    BY DEF Next, Ends, Request, ShutDown, FactoryStarts, StateReturns,
           AttemptEnds, PreparationEnds, PhysicalRoundEnds, CorrectionEnds,
           Rests, vars

\* A step of the factory is a step of the supply, or leaves it alone.
LEMMA SuppliesImplements ==
    ASSUME IInv, Supplies(factory, factory'), config' = config
    PROVE  [Supply!Next]_(Supply!supplyVars)
<1> DEFINE outputs == {c.outputs : c \in Factories}
           R == UNION {c.requests : c \in Factories}
<1>1. config \in Factories /\ Typed(factory)
    BY DEF IInv, Good, Sound
<1>2. (factory.stored[Top])' = factory'.stored[Top]
    BY DEF Top
<1>3. CASE SameSupply(factory, factory')
    BY <1>2, <1>3 DEF SameSupply, Supply!supplyVars
<1>4. ASSUME NEW o \in config.requests \ Asked(factory),
             Hands(factory, Append(factory.waiting, o), factory.stored[Top], factory')
      PROVE  Supply!Next
    <2>1. o \in R
        BY <1>1
    <2>2. ~ Supply!Contains(factory.waiting, o) /\ ~ Supply!Contains(factory.served, o)
        <3>1. /\ factory.waiting \in Seq(config.requests)
              /\ factory.served \in Seq(config.requests)
            BY <1>1, TypedFields
        <3>2. /\ DOMAIN factory.waiting = 1 .. Len(factory.waiting)
              /\ DOMAIN factory.served = 1 .. Len(factory.served)
            BY <3>1
        <3> QED
            BY <3>2 DEF Asked, Range, Supply!Contains
    <2>3. Supply!HandOver(Append(factory.waiting, o), factory.stored[Top])
        BY <1>2, <1>4 DEF Hands, Supply!HandOver
    <2> QED
        BY <2>1, <2>2, <2>3 DEF Supply!Next, Supply!Ask
<1>5. ASSUME NEW n \in {1, Outputs(Top)},
             Hands(factory, factory.waiting, factory.stored[Top] + n, factory')
      PROVE  Supply!Next
    <2>1. n \in 1 .. Max(outputs)
        <3>1. /\ IsFiniteSet(outputs) /\ config.outputs \in outputs
              /\ \A x \in outputs : x \in Int
            <4> DEFINE yield == [c \in Factories |-> c.outputs]
            <4>1. IsFiniteSet(Factories) /\ \A c \in Factories : c.outputs \in Nat
                BY FactoriesAssumption
            <4>2. yield \in Surjection(Factories, outputs)
                BY DEF Surjection
            <4>3. IsFiniteSet(outputs)
                <5> HIDE DEF yield, outputs
                <5> QED
                    BY <4>1, <4>2, FS_Surjection
            <4> QED
                BY <1>1, <4>1, <4>3
        <3>2. config.outputs \in Nat \ {0}
            BY <1>1, CardFacts
        <3> HIDE DEF outputs
        <3>3. Max(outputs) \in Int /\ config.outputs <= Max(outputs)
            BY <3>1, MaxFacts
        <3> QED
            BY <3>2, <3>3 DEF Outputs
    <2>2. Supply!Arrive(n)
        BY <1>2, <1>5 DEF Hands, Supply!HandOver, Supply!Arrive
    <2> QED
        BY <2>1, <2>2 DEF Supply!Next
<1> QED
    BY <1>3, <1>4, <1>5 DEF Supplies

\* Both factories are a supply, whatever their levels, units and yields: each
\* request is served once, oldest first, and never waits beside a stock.
THEOREM FactoriesImplementStateSupply ==
    ASSUME RequestersEmit
    PROVE  Spec => ImplementsStateSupply
<1>1. Init => IInv /\ AllServed /\ Supply!Init
    <2> SUFFICES ASSUME Init
                 PROVE  IInv /\ AllServed /\ Supply!Init
        OBVIOUS
    <2>1. IInv
        BY BuiltIsGood
    <2>2. /\ factory.waiting = <<>> /\ factory.served = <<>>
          /\ factory.isShutDown = FALSE
        BY DEF Init, Built
    <2>3. factory.stored[Top] \in Nat
        <3>1. config \in Factories /\ Typed(factory)
            BY <2>1 DEF IInv, Good, Sound
        <3> QED
            BY <3>1, TypedFields, CardFacts
    <2> QED
        BY <2>1, <2>2, <2>3 DEF AllServed, Supply!Init
<1>2. IInv /\ AllServed /\ [Next]_vars => AllServed' /\ [Supply!Next]_(Supply!supplyVars)
    <2> SUFFICES ASSUME IInv, AllServed, [Next]_vars
                 PROVE  AllServed' /\ [Supply!Next]_(Supply!supplyVars)
        OBVIOUS
    <2>1. config' = config
        BY CardStays
    <2>2. Supplies(factory, factory')
        BY FactoriesAttend, StepsSupply
    <2>3. Range(factory.served) \subseteq Range(factory'.served)
        BY <2>2, ServedStaysServed
    <2>4. AllServed'
        <3>1. CASE ShutDown
            <4>1. ~ IsStage => config.requests \subseteq config.emits
                BY FactoriesAssumption, RequestersEmit DEF IsStage, IInv, RequestersEmit
            <4>2. config.emits \subseteq Range(factory.served)
                BY <3>1 DEF ShutDown
            <4> QED
                BY <2>1, <2>3, <4>1, <4>2 DEF AllServed, IsStage
        <3>2. CASE factory'.isShutDown = factory.isShutDown
            BY <2>1, <2>3, <3>2 DEF AllServed, IsStage
        <3> QED
            BY <3>1, <3>2, StepsStayOpen
    <2> QED
        BY <2>1, <2>2, <2>4, SuppliesImplements
<1> QED
    BY <1>1, <1>2, InvariantHolds, PTL DEF Spec, Supply!Spec, ImplementsStateSupply

=============================================================================
