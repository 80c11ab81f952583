-------------------------- MODULE DecoderPoolProofs --------------------------
(***************************************************************************)
(* The decoder pool, for every pool: whichever requests, units, slots and   *)
(* memory it has, its compute is given out and taken back once, and the     *)
(* compute a decode holds is never held for nothing.                        *)
(*                                                                         *)
(* The accounting is not inductive by itself.  A decode that leaves frees   *)
(* the right unit only if it sits on one unit, once (OneSeat); offering the *)
(* unit on is safe only if the residents left behind are not past their     *)
(* start (UnitInv), and a slot given back goes to a decode that holds its   *)
(* unit's compute with its input landed (SlotInv).  That a name comes up    *)
(* once needs the decodes to be apart: no request is in two of them, and    *)
(* none of a decode is still in the queue (Apart).  What may be missing,    *)
(* asked for or withdrawn before a decode starts, and what must have        *)
(* happened after, closes the circle (BeforeStart, AfterStart).             *)
(*                                                                         *)
(* An action is several calls of the code: an input released, a slot given  *)
(* back, a unit offered on.  The lemmas follow them: what each part keeps   *)
(* for any decode, then what each action keeps, then the theorems.          *)
(*                                                                         *)
(* A second invariant follows from the first and keeps the inputs: what a   *)
(* unit's memory holds is read by decodes that sit on it (MemoryInv), and   *)
(* what has not landed is still in the store (StoreInv).                    *)
(*                                                                         *)
(* A third keeps the room (RoomInv).  A job waits only while no compute is  *)
(* free and some unit has no room for it, and what lands in between must    *)
(* not make room: it moves bits from what arrives to what is stored, and a  *)
(* job whose own rounds land beside it had room all along (NoNewRoom).      *)
(***************************************************************************)
EXTENDS DecoderPool, DataLemmas

-----------------------------------------------------------------------------
(* The inductive invariant *)

\* The types of the request side.
QueueTypes ==
    /\ config \in Settings
    /\ submitted \subseteq Requests /\ waiting \subseteq submitted
    /\ blocked \subseteq Requests /\ live \subseteq submitted
    /\ taking \subseteq submitted /\ taking \cap live = {}
StagingTypes ==
    /\ missing \subseteq submitted /\ inFlight \subseteq missing
    /\ awaited \subseteq Units \X Inputs
    /\ memory \in [Units -> [Inputs -> SUBSET submitted]]
    /\ held \subseteq submitted
EndTypes ==
    /\ asking \subseteq Decodes
    /\ ended \subseteq started /\ completed \subseteq ended
    /\ withdrawn \subseteq Decodes /\ withdrawn \cap completed = {}
    /\ walking \subseteq completed
    /\ dispatching \in BOOLEAN
    /\ delivering \in completed \cup {NoDecode}

\* The types of the compute side.
ComputeTypes ==
    /\ residents \in [Units -> Seq(Decodes)]
    /\ \A u \in Units : Len(residents[u]) <= InputSlotCount
    /\ holder \in [Units -> Decodes \cup {NoDecode}]
    /\ free \in Seq(Units)
    /\ device_queue \in Seq(Decodes)
    /\ started \subseteq Decodes

\* A decode holds one slot of one unit.
OneSeat ==
    /\ \A u \in Units : IsInjective(residents[u])
    /\ \A u, v \in Units : \A d \in Holding(u) : d \in Holding(v) => u = v

\* Every decode the pool has or had, and no other, took its requests from the
\* queue.
Seated == {d \in Decodes : IsResident(d)}
Known == Seated \cup asking \cup started \cup withdrawn
Apart ==
    /\ \A d \in Known : d \subseteq submitted /\ d \cap waiting = {}
    /\ \A d, e \in Known : d \cap e # {} => d = e

\* From its dispatch to its start a decode is on its unit unless it is taken
\* back, and what of its input is missing is on its way there.
BeforeStart ==
    /\ Seated \cap withdrawn = {}
    /\ \A d \in asking : d \notin started /\ d \in Seated \cup withdrawn
    /\ \A r \in missing : \E d \in Seated : r \in d /\ d \notin asking \cup started

\* A started decode is on its unit until it ends, and after its end while it
\* is walked on, delivered or holds its unit for the reader.
AfterStart ==
    /\ \A d \in started \ ended : d \in Seated \cup withdrawn
    /\ \A d \in ended : d \in completed \cup withdrawn
    /\ \A d \in completed : d \cap (live \cup taking) = {}
    /\ walking # {} => ~ config.blocksUnit
    /\ \A d \in walking : d \in Seated /\ d # delivering
    /\ \A d \in completed : d = delivering =>
        IF KindOf(d) = "window" THEN d \in Seated \/ config.blocksUnit ELSE d \notin Seated
    /\ \A d \in completed : d \in Seated =>
        d \in walking \/ d = delivering \/ config.blocksUnit

\* A unit's compute is held as long as it has a resident, by the one that
\* started if one has; the free list has the other units.
Holders == {holder[u] : u \in Units} \ {NoDecode}
UnitInv ==
    /\ IsInjective(free)
    /\ \A u \in Units :
        /\ u \in Range(free) <=> holder[u] = NoDecode
        /\ holder[u] # NoDecode => holder[u] \in Holding(u)
        /\ Holding(u) # {} => holder[u] # NoDecode
        /\ \A d \in Holding(u) : d \in started => holder[u] = d

\* The decodes that run are the started ones on a unit; those that hold a
\* compute, have landed and have not started wait for a slot, while all run.
SlotsFit(run, slots, begun, seated, holders, landed) ==
    /\ IsFiniteSet(run) /\ run = begun \cap seated
    /\ Cardinality(run) <= config.slotCount
    /\ slots # <<>> => Cardinality(run) = config.slotCount
    /\ IsInjective(slots) /\ Range(slots) = (holders \cap landed) \ begun
LandedDecodes == {d \in Decodes : InputLanded(d)}
SlotInv == SlotsFit(running, device_queue, started, Seated, Holders, LandedDecodes)

ComputeInv == ComputeTypes /\ OneSeat /\ UnitInv /\ SlotInv
IInv ==
    /\ QueueTypes /\ StagingTypes /\ EndTypes /\ ComputeInv
    /\ Apart /\ BeforeStart /\ AfterStart

-----------------------------------------------------------------------------
(* The device's slots *)

\* The settings of the pool in use.
LEMMA PoolFacts ==
    ASSUME config \in Settings
    PROVE  /\ config.slotCount \in Nat /\ config.slotCount # 0
           /\ IsFiniteSet(Units) /\ Units # {}
           /\ config.blocksUnit \in BOOLEAN
           /\ \A r \in Requests : InputOf[r] \in Inputs
    BY PoolAssumption, RequestsAssumption DEF Units, Requests, InputOf, Inputs

\* One more decode runs.
LEMMA OneMoreRuns ==
    ASSUME NEW run, IsFiniteSet(run), NEW d, d \notin run
    PROVE  /\ IsFiniteSet(run \cup {d})
           /\ Cardinality(run) \in Nat
           /\ Cardinality(run \cup {d}) = Cardinality(run) + 1
    BY FS_AddElement, FS_CardinalityType

\* One decode less runs.
LEMMA OneLessRuns ==
    ASSUME NEW run, IsFiniteSet(run), NEW d \in run
    PROVE  /\ IsFiniteSet(run \ {d})
           /\ Cardinality(run \ {d}) \in Nat /\ Cardinality(run) \in Nat
           /\ Cardinality(run \ {d}) = Cardinality(run) - 1
    BY FS_RemoveElement, FS_CardinalityType

\* begin for one decode, and for none.
LEMMA BeginOne ==
    ASSUME NEW e, NEW run, NEW slots, NEW begun, BeginFrom({e}, run, slots, begun)
    PROVE  IF Cardinality(run) < config.slotCount
           THEN running' = run \cup {e} /\ started' = begun \cup {e} /\ device_queue' = slots
           ELSE running' = run /\ started' = begun /\ device_queue' = Append(slots, e)
<1>1. CASE Cardinality(run) < config.slotCount
  <2>1. {d \in {e} : Cardinality(run) < config.slotCount} = {e}
    BY <1>1
  <2> QED
    BY <1>1, <2>1 DEF BeginFrom
<1>2. CASE ~ (Cardinality(run) < config.slotCount)
  <2>1. {d \in {e} : Cardinality(run) < config.slotCount} = {} /\ {e} # {}
        /\ (CHOOSE d \in {e} : TRUE) = e
    BY <1>2
  <2> QED
    BY <1>2, <2>1 DEF BeginFrom
<1> QED
  BY <1>1, <1>2

\* Nothing starts when no decode is offered a slot.
LEMMA BeginNone ==
    ASSUME NEW run, NEW slots, NEW begun, BeginFrom({}, run, slots, begun)
    PROVE  running' = run /\ started' = begun /\ device_queue' = slots
<1>1. {d \in {} : Cardinality(run) < config.slotCount} = {}
  OBVIOUS
<1> QED
  BY <1>1 DEF BeginFrom

\* A landed decode that takes its unit's compute runs or waits for a slot.
Begins(e, begun, seated, holders, landed) ==
    /\ SlotsFit(running', device_queue', started', seated, holders \cup {e}, landed)
    /\ begun \subseteq started' /\ started' \subseteq begun \cup {e}
    /\ device_queue' \in Seq(Decodes)

\* A landed decode that is given its unit's compute takes a slot or waits for
\* one, and the slots still fit.
LEMMA SlotsBegin ==
    ASSUME config \in Settings, NEW run, NEW slots \in Seq(Decodes), NEW begun,
           NEW seated, NEW holders, NEW landed,
           SlotsFit(run, slots, begun, seated, holders, landed),
           NEW e \in Decodes, e \in seated, e \in landed, e \notin begun, e \notin holders,
           BeginFrom({e}, run, slots, begun)
    PROVE  Begins(e, begun, seated, holders, landed)
<1>1. e \notin run /\ e \notin Range(slots) /\ IsFiniteSet(run)
  BY DEF SlotsFit
<1>2. Cardinality(run) \in Nat /\ config.slotCount \in Nat
  BY <1>1, PoolFacts, FS_CardinalityType
<1>3. CASE Cardinality(run) < config.slotCount
  <2>1. running' = run \cup {e} /\ started' = begun \cup {e} /\ device_queue' = slots
    BY <1>3, BeginOne
  <2>2. slots = <<>>
    BY <1>2, <1>3 DEF SlotsFit
  <2>3. IsFiniteSet(running') /\ Cardinality(running') <= config.slotCount
    BY <1>1, <1>2, <1>3, <2>1, OneMoreRuns
  <2>4. running' = started' \cap seated
    BY <2>1 DEF SlotsFit
  <2>5. Range(slots) = ((holders \cup {e}) \cap landed) \ started'
    BY <2>1 DEF SlotsFit
  <2>6. IsInjective(slots)
    BY DEF SlotsFit
  <2> QED
    BY <2>1, <2>2, <2>3, <2>4, <2>5, <2>6 DEF SlotsFit, Begins
<1>4. CASE ~ (Cardinality(run) < config.slotCount)
  <2>1. running' = run /\ started' = begun /\ device_queue' = Append(slots, e)
    BY <1>4, BeginOne
  <2>2. Cardinality(run) = config.slotCount
    BY <1>2, <1>4 DEF SlotsFit
  <2>3. /\ Append(slots, e) \in Seq(Decodes) /\ IsInjective(Append(slots, e))
        /\ Range(Append(slots, e)) = Range(slots) \cup {e}
    BY <1>1, AppendFacts DEF SlotsFit
  <2>4. Range(device_queue') = ((holders \cup {e}) \cap landed) \ started'
    BY <2>1, <2>3 DEF SlotsFit
  <2> QED
    BY <2>1, <2>2, <2>3, <2>4 DEF SlotsFit, Begins
<1> QED
  BY <1>3, <1>4

\* A decode gives its slot back, and the oldest that waits takes it.
GivesBack(d, kept, woken, slots, begun, seated, holders, landed) ==
    /\ SlotsFit(kept \cup woken, slots, begun, seated \ {d}, holders \ {d}, landed)
    /\ woken \subseteq ((holders \ {d}) \cap landed) \ started
    /\ slots \in Seq(Decodes)

\* A running decode gives its slot back, the oldest waiting one takes it, and
\* the slots still fit.
LEMMA SlotsGiveBack ==
    ASSUME config \in Settings, NEW seated, NEW holders, NEW landed,
           SlotsFit(running, device_queue, started, seated, holders, landed),
           device_queue \in Seq(Decodes), holders \subseteq seated,
           NEW d \in running, NEW kept, kept = running \ {d},
           NEW woken, NEW slots, NEW begun, begun = started \cup woken,
           IF device_queue # <<>> /\ Cardinality(kept) < config.slotCount
           THEN woken = {Head(device_queue)} /\ slots = Tail(device_queue)
           ELSE woken = {} /\ slots = device_queue
    PROVE  GivesBack(d, kept, woken, slots, begun, seated, holders, landed)
<1>1. d \in started /\ d \in seated /\ d \notin Range(device_queue)
  BY DEF SlotsFit
<1>2. /\ IsFiniteSet(kept) /\ Cardinality(kept) \in Nat /\ Cardinality(running) \in Nat
      /\ Cardinality(kept) = Cardinality(running) - 1
  BY OneLessRuns DEF SlotsFit
<1>3. config.slotCount \in Nat /\ Cardinality(running) <= config.slotCount
  BY PoolFacts DEF SlotsFit
<1>4. Cardinality(kept) < config.slotCount
  BY <1>2, <1>3
<1>5. CASE device_queue # <<>>
  <2> DEFINE h == Head(device_queue)
  <2>1. woken = {h} /\ slots = Tail(device_queue)
    BY <1>4, <1>5
  <2>2. /\ h \in Range(device_queue) /\ slots \in Seq(Decodes) /\ IsInjective(slots)
        /\ Range(slots) = Range(device_queue) \ {h}
    BY <2>1, <1>5, TailFacts DEF SlotsFit
  <2> HIDE DEF h
  <2>3. h \in holders /\ h \in landed /\ h \notin started /\ h # d /\ h \in seated
    BY <2>2, <1>1 DEF SlotsFit
  <2>4. h \notin kept
    BY <2>3 DEF SlotsFit
  <2>5. /\ IsFiniteSet(kept \cup woken)
        /\ Cardinality(kept \cup woken) = Cardinality(running)
    <3>1. /\ IsFiniteSet(kept \cup {h})
          /\ Cardinality(kept \cup {h}) = Cardinality(kept) + 1
      BY <1>2, <2>4, OneMoreRuns
    <3> QED
      BY <3>1, <1>2, <2>1
  <2>6. Cardinality(running) = config.slotCount
    BY <1>5 DEF SlotsFit
  <2>7. kept \cup woken = (started \cup woken) \cap (seated \ {d})
    BY <2>1, <2>3 DEF SlotsFit
  <2>8. Range(slots) = ((holders \ {d}) \cap landed) \ (started \cup woken)
    BY <2>1, <2>2, <1>1 DEF SlotsFit
  <2> QED
    BY <2>1, <2>2, <2>3, <2>5, <2>6, <2>7, <2>8, <1>3 DEF SlotsFit, GivesBack
<1>6. CASE device_queue = <<>>
  <2>1. woken = {} /\ slots = device_queue
    BY <1>6
  <2>2. kept = started \cap (seated \ {d})
    BY DEF SlotsFit
  <2>3. Range(slots) = ((holders \ {d}) \cap landed) \ started
    BY <2>1, <1>1 DEF SlotsFit
  <2>4. Cardinality(kept) <= config.slotCount
    BY <1>2, <1>3, <1>4
  <2> QED
    BY <2>1, <2>2, <2>3, <2>4, <1>2, <1>6 DEF SlotsFit, GivesBack
<1> QED
  BY <1>5, <1>6

\* A decode that has not started leaves its unit and its wait.
LEMMA SlotsWithdraw ==
    ASSUME NEW seated, NEW holders, NEW landed,
           SlotsFit(running, device_queue, started, seated, holders, landed),
           device_queue \in Seq(Decodes), NEW d, d \notin started
    PROVE  /\ SlotsFit(running, RemoveFirst(device_queue, d), started,
                       seated \ {d}, holders \ {d}, landed)
           /\ RemoveFirst(device_queue, d) \in Seq(Decodes)
<1> DEFINE slots == RemoveFirst(device_queue, d)
<1>1. /\ slots \in Seq(Decodes) /\ IsInjective(slots)
      /\ Range(slots) = Range(device_queue) \ {d}
  BY RemoveFirstFacts DEF SlotsFit
<1> HIDE DEF slots
<1>2. Range(slots) = ((holders \ {d}) \cap landed) \ started
  BY <1>1 DEF SlotsFit
<1>3. running = started \cap (seated \ {d})
  BY DEF SlotsFit
<1>4. slots # <<>> => device_queue # <<>>
  <2> SUFFICES ASSUME device_queue = <<>>
               PROVE  slots = <<>>
    OBVIOUS
  <2>1. Range(slots) = {}
    BY <1>1, EmptySeq DEF Range
  <2>2. DOMAIN slots = {}
    BY <2>1 DEF Range
  <2> QED
    BY <1>1, <2>2
<1> QED
  BY <1>1, <1>2, <1>3, <1>4 DEF SlotsFit, slots
-----------------------------------------------------------------------------
(* The seats of the units *)

\* No decode is no decode of the pool.
LEMMA NoDecodeFacts == NoDecode \notin Decodes
    BY DEF NoDecode, Decodes

\* A pool keeps its settings, and with them what is read off them.
LEMMA SamePool ==
    ASSUME config' = config
    PROVE  /\ Requests' = Requests /\ Units' = Units /\ Decodes' = Decodes
           /\ Inputs' = Inputs /\ InputOf' = InputOf /\ Kind' = Kind
    BY DEF Requests, Units, Decodes, Inputs, InputOf, Kind

\* The unit of a decode is the only one it holds a slot of.
LEMMA UnitOfFacts ==
    ASSUME OneSeat, NEW d, IsResident(d)
    PROVE  /\ UnitOf(d) \in Units /\ d \in Holding(UnitOf(d))
           /\ \A v \in Units : d \in Holding(v) => v = UnitOf(d)
    BY DEF OneSeat, IsResident, UnitOf

\* A decode leaves its slot.
LEMMA SeatLeft ==
    ASSUME config' = config, residents \in [Units -> Seq(Decodes)], OneSeat,
           \A v \in Units : Len(residents[v]) <= InputSlotCount,
           NEW u \in Units, NEW d \in Holding(u),
           residents' = [residents EXCEPT ![u] = Others(u, d)]
    PROVE  /\ residents' \in [Units -> Seq(Decodes)] /\ OneSeat'
           /\ \A v \in Units : Len(residents'[v]) <= InputSlotCount
           /\ \A v \in Units : Holding(v)' = Holding(v) \ {d}
           /\ Seated' = Seated \ {d}
           /\ Others(u, d) \in Seq(Decodes) /\ Range(Others(u, d)) = Holding(u) \ {d}
<1> DEFINE o == Others(u, d)
<1>1. /\ o \in Seq(Decodes) /\ IsInjective(o) /\ Range(o) = Holding(u) \ {d}
      /\ Len(o) <= Len(residents[u])
  <2>1. residents[u] \in Seq(Decodes) /\ IsInjective(residents[u])
    BY DEF OneSeat
  <2> QED
    BY <2>1, RemoveFirstFacts DEF Others, Holding
<1> HIDE DEF o
<1>2. Len(o) \in Nat /\ Len(residents[u]) \in Nat /\ Len(residents[u]) <= InputSlotCount
  BY <1>1, LenProperties
<1>3. Units' = Units /\ Decodes' = Decodes
  BY SamePool
<1>4. residents' = [residents EXCEPT ![u] = o]
  BY DEF o
<1>5. residents' \in [Units -> Seq(Decodes)]
  BY <1>1, <1>4
<1>6. ASSUME NEW v \in Units
      PROVE  /\ Len(residents'[v]) <= InputSlotCount /\ IsInjective(residents'[v])
             /\ Range(residents'[v]) = Holding(v) \ {d}
  <2>1. CASE v = u
    BY <1>1, <1>2, <1>4, <2>1 DEF InputSlotCount
  <2>2. CASE v # u
    <3>1. residents'[v] = residents[v]
      BY <1>4, <2>2
    <3>2. d \notin Holding(v)
      BY <2>2 DEF OneSeat
    <3> QED
      BY <3>1, <3>2 DEF OneSeat, Holding
  <2> QED
    BY <2>1, <2>2
<1>7. \A v \in Units : Holding(v)' = Holding(v) \ {d}
  BY <1>6 DEF Holding
<1>8. OneSeat'
  BY <1>3, <1>6, <1>7 DEF OneSeat
<1>9. Seated' = Seated \ {d}
  BY <1>3, <1>7 DEF Seated, IsResident
<1> QED
  BY <1>1, <1>5, <1>6, <1>7, <1>8, <1>9 DEF o

\* A decode takes a slot.
LEMMA SeatTaken ==
    ASSUME config' = config, residents \in [Units -> Seq(Decodes)], OneSeat,
           \A v \in Units : Len(residents[v]) <= InputSlotCount,
           NEW u \in Units, NEW d \in Decodes, ~ IsResident(d),
           Len(residents[u]) < InputSlotCount,
           residents' = [residents EXCEPT ![u] = Append(residents[u], d)]
    PROVE  /\ residents' \in [Units -> Seq(Decodes)] /\ OneSeat'
           /\ \A v \in Units : Len(residents'[v]) <= InputSlotCount
           /\ \A v \in Units : Holding(v)' = IF v = u THEN Holding(v) \cup {d} ELSE Holding(v)
           /\ Seated' = Seated \cup {d}
<1> DEFINE a == Append(residents[u], d)
<1>1. /\ a \in Seq(Decodes) /\ IsInjective(a) /\ Range(a) = Holding(u) \cup {d}
      /\ Len(a) = Len(residents[u]) + 1
  <2>1. residents[u] \in Seq(Decodes) /\ IsInjective(residents[u])
    BY DEF OneSeat
  <2>2. d \notin Range(residents[u])
    BY DEF IsResident, Holding
  <2> QED
    BY <2>1, <2>2, AppendFacts DEF Holding
<1> HIDE DEF a
<1>2. Len(a) \in Nat /\ Len(residents[u]) \in Nat
  BY <1>1, LenProperties
<1>3. Units' = Units /\ Decodes' = Decodes
  BY SamePool
<1>4. residents' = [residents EXCEPT ![u] = a]
  BY DEF a
<1>5. residents' \in [Units -> Seq(Decodes)]
  BY <1>1, <1>4
<1>6. ASSUME NEW v \in Units
      PROVE  /\ Len(residents'[v]) <= InputSlotCount /\ IsInjective(residents'[v])
             /\ Range(residents'[v]) = IF v = u THEN Holding(v) \cup {d} ELSE Holding(v)
  <2>1. CASE v = u
    <3>1. residents'[v] = a
      BY <1>4, <2>1
    <3>2. Len(a) <= InputSlotCount
      BY <1>1, <1>2 DEF InputSlotCount
    <3> QED
      BY <1>1, <2>1, <3>1, <3>2
  <2>2. CASE v # u
    <3>1. residents'[v] = residents[v]
      BY <1>4, <2>2
    <3> QED
      BY <2>2, <3>1 DEF OneSeat, Holding
  <2> QED
    BY <2>1, <2>2
<1>7. \A v \in Units : Holding(v)' = IF v = u THEN Holding(v) \cup {d} ELSE Holding(v)
  BY <1>6 DEF Holding
<1>8. OneSeat'
  <2>1. \A v \in Units : d \notin Holding(v)
    BY DEF IsResident
  <2>2. ASSUME NEW v \in Units, NEW w \in Units, NEW e,
               e \in Holding(v)', e \in Holding(w)'
        PROVE  v = w
    <3>1. e \in Holding(v) \/ (v = u /\ e = d)
      BY <1>7, <2>2
    <3>2. e \in Holding(w) \/ (w = u /\ e = d)
      BY <1>7, <2>2
    <3> QED
      BY <2>1, <3>1, <3>2 DEF OneSeat
  <2>3. \A v \in Units : IsInjective(residents'[v])
    BY <1>6
  <2> QED
    BY <1>3, <2>2, <2>3 DEF OneSeat
<1>9. Seated' = Seated \cup {d}
  BY <1>3, <1>7 DEF Seated, IsResident
<1> QED
  BY <1>5, <1>6, <1>7, <1>8, <1>9

\* The seats stay as they are.
LEMMA SeatsKept ==
    ASSUME config' = config, residents' = residents
    PROVE  /\ Seated' = Seated /\ (OneSeat => OneSeat')
           /\ \A v : Holding(v)' = Holding(v)
           /\ \A d : IsResident(d)' <=> IsResident(d)
    BY SamePool DEF Seated, OneSeat, IsResident, Holding

-----------------------------------------------------------------------------
(* The compute of a unit is passed on *)

\* What an offer of a unit's compute to the rest of its residents does, when
\* none of them is past its start.
Passed(u, rest, run, slots, begun) ==
    \/ \E e \in Range(rest) :
        /\ InputLanded(e) /\ holder' = [holder EXCEPT ![u] = e] /\ free' = free
        /\ BeginFrom({e}, run, slots, begun)
    \/ \E e \in Range(rest) :
        /\ ~ InputLanded(e) /\ holder' = [holder EXCEPT ![u] = e] /\ free' = free
        /\ BeginFrom({}, run, slots, begun)
    \/ /\ Range(rest) = {}
       /\ holder' = [holder EXCEPT ![u] = NoDecode] /\ free' = Append(free, u)
       /\ BeginFrom({}, run, slots, begun)

\* What _offer_compute does with a unit's compute, without its choices: a
\* landed resident, one still landing, or the pool's free list.
LEMMA PassFacts ==
    ASSUME NEW u \in Units, NEW rest \in Seq(Decodes), NEW run, NEW slots, NEW begun,
           \A e \in Range(rest) : ~ IsPastStart(e, begun),
           PassCompute(u, rest, run, slots, begun)
    PROVE  Passed(u, rest, run, slots, begun)
<1> DEFINE R == Ready(rest, begun)
           N == Unstarted(rest, begun)
<1>1. N = DOMAIN rest
  BY DEF Unstarted, Range
<1>2. R \subseteq N /\ \A i \in N : i \in R <=> InputLanded(rest[i])
  BY DEF Ready
<1>3. CASE R # {}
  <2>1. Min(R) \in R /\ rest[Min(R)] \in Range(rest)
    BY <1>1, <1>2, <1>3, FirstPlace
  <2>2. InputLanded(rest[Min(R)])
    BY <1>2, <2>1
  <2>3. /\ holder' = [holder EXCEPT ![u] = rest[Min(R)]] /\ free' = free
        /\ BeginFrom({rest[Min(R)]}, run, slots, begun)
    BY <1>3 DEF PassCompute, Oldest
  <2> QED
    BY <2>1, <2>2, <2>3 DEF Passed
<1>4. CASE R = {} /\ N # {}
  <2>1. Min(N) \in N /\ rest[Min(N)] \in Range(rest)
    BY <1>1, <1>4, FirstPlace
  <2>2. ~ InputLanded(rest[Min(N)])
    BY <1>2, <1>4, <2>1
  <2>3. /\ holder' = [holder EXCEPT ![u] = rest[Min(N)]] /\ free' = free
        /\ BeginFrom({}, run, slots, begun)
    BY <1>4 DEF PassCompute, Oldest
  <2> QED
    BY <2>1, <2>2, <2>3 DEF Passed
<1>5. CASE R = {} /\ N = {}
  <2>1. Range(rest) = {}
    BY <1>1, <1>5 DEF Range
  <2>2. /\ holder' = [holder EXCEPT ![u] = NoDecode] /\ free' = Append(free, u)
        /\ BeginFrom({}, run, slots, begun)
    BY <1>5 DEF PassCompute
  <2> QED
    BY <2>1, <2>2 DEF Passed
<1> QED
  BY <1>3, <1>4, <1>5

\* After it the free list and the holders agree, and the slots fit.
PassedWell(u, rest, begun, seated) ==
    /\ holder' \in [Units -> Decodes \cup {NoDecode}]
    /\ free' \in Seq(Units) /\ IsInjective(free')
    /\ \A v \in Units : v \in Range(free') <=> holder'[v] = NoDecode
    /\ \A v \in Units : v # u => holder'[v] = holder[v]
    /\ IF Range(rest) = {} THEN holder'[u] = NoDecode ELSE holder'[u] \in Range(rest)
    /\ SlotsFit(running', device_queue', started', seated, Holders', LandedDecodes)
    /\ device_queue' \in Seq(Decodes)
    /\ begun \subseteq started'
    /\ \A e \in started' : e \in begun \/ (e = holder'[u] /\ e \in LandedDecodes)

\* A unit whose compute is offered on is in order again, and so are the
\* device's slots.
LEMMA PassKeeps ==
    ASSUME config \in Settings, config' = config, NEW u \in Units,
           NEW rest \in Seq(Decodes), NEW run, NEW slots \in Seq(Decodes), NEW begun,
           NEW seated, NEW others,
           holder \in [Units -> Decodes \cup {NoDecode}], holder[u] # NoDecode,
           free \in Seq(Units), IsInjective(free),
           \A v \in Units : v \in Range(free) <=> holder[v] = NoDecode,
           others = {holder[v] : v \in Units \ {u}} \ {NoDecode},
           SlotsFit(run, slots, begun, seated, others, LandedDecodes),
           Range(rest) \subseteq seated, Range(rest) \cap (others \cup begun) = {},
           Range(rest) \subseteq Decodes,
           Passed(u, rest, run, slots, begun)
    PROVE  PassedWell(u, rest, begun, seated)
<1>1. Units' = Units
  BY SamePool
<1>2. NoDecode \notin Decodes
  BY NoDecodeFacts
<1>3. ASSUME NEW e \in Range(rest), holder' = [holder EXCEPT ![u] = e]
      PROVE  Holders' = others \cup {e}
  <2>1. e # NoDecode
    BY <1>2
  <2>2. Holders' = {holder'[v] : v \in Units} \ {NoDecode}
    BY <1>1 DEF Holders
  <2>3. holder'[u] = e /\ \A v \in Units \ {u} : holder'[v] = holder[v]
    BY <1>3
  <2>4. ASSUME NEW x \in Holders'
        PROVE  x \in others \cup {e}
    BY <2>2, <2>3
  <2>5. ASSUME NEW x \in others
        PROVE  x \in Holders'
    BY <2>2, <2>3
  <2>6. e \in Holders'
    BY <2>1, <2>2, <2>3
  <2> QED
    BY <2>4, <2>5, <2>6
<1>4. ASSUME NEW e \in Range(rest), InputLanded(e), holder' = [holder EXCEPT ![u] = e],
             free' = free, BeginFrom({e}, run, slots, begun)
      PROVE  PassedWell(u, rest, begun, seated)
  <2>1. /\ e \in Decodes /\ e \in seated /\ e \notin begun /\ e \notin others
        /\ e \in LandedDecodes
    BY <1>4 DEF LandedDecodes
  <2>2. /\ SlotsFit(running', device_queue', started', seated, others \cup {e}, LandedDecodes)
        /\ begun \subseteq started' /\ started' \subseteq begun \cup {e}
        /\ device_queue' \in Seq(Decodes)
    <3>1. Begins(e, begun, seated, others, LandedDecodes)
      BY <1>4, <2>1, SlotsBegin
    <3> QED
      BY <3>1 DEF Begins
  <2>3. /\ holder' \in [Units -> Decodes \cup {NoDecode}] /\ holder'[u] = e
        /\ \A v \in Units : v # u => holder'[v] = holder[v]
    BY <1>4, <2>1
  <2>4. \A v \in Units : v \in Range(free') <=> holder'[v] = NoDecode
    BY <1>2, <1>4, <2>1, <2>3
  <2>5. Holders' = others \cup {e}
    BY <1>3, <1>4
  <2>6. SlotsFit(running', device_queue', started', seated, Holders', LandedDecodes)
    BY <2>2, <2>5
  <2> QED
    BY <1>4, <2>1, <2>2, <2>3, <2>4, <2>6 DEF PassedWell
<1>5. ASSUME NEW e \in Range(rest), ~ InputLanded(e), holder' = [holder EXCEPT ![u] = e],
             free' = free, BeginFrom({}, run, slots, begun)
      PROVE  PassedWell(u, rest, begun, seated)
  <2>1. e \in Decodes /\ e \notin LandedDecodes
    BY <1>5 DEF LandedDecodes
  <2>2. running' = run /\ device_queue' = slots /\ started' = begun
    BY <1>5, BeginNone
  <2>3. /\ holder' \in [Units -> Decodes \cup {NoDecode}] /\ holder'[u] = e
        /\ \A v \in Units : v # u => holder'[v] = holder[v]
    BY <1>5, <2>1
  <2>4. \A v \in Units : v \in Range(free') <=> holder'[v] = NoDecode
    BY <1>2, <1>5, <2>1, <2>3
  <2>5. Holders' \cap LandedDecodes = others \cap LandedDecodes
    <3>1. Holders' = others \cup {e}
      BY <1>3, <1>5
    <3> QED
      BY <2>1, <3>1
  <2>6. SlotsFit(running', device_queue', started', seated, Holders', LandedDecodes)
    <3>1. SlotsFit(run, slots, begun, seated, others, LandedDecodes)
      OBVIOUS
    <3>2. SlotsFit(run, slots, begun, seated, Holders', LandedDecodes)
      BY <2>5, <3>1, Zenon DEF SlotsFit
    <3> QED
      BY <2>2, <3>2, Zenon
  <2> QED
    BY <1>5, <2>2, <2>3, <2>4, <2>6 DEF PassedWell
<1>6. ASSUME Range(rest) = {}, holder' = [holder EXCEPT ![u] = NoDecode],
             free' = Append(free, u), BeginFrom({}, run, slots, begun)
      PROVE  PassedWell(u, rest, begun, seated)
  <2>1. running' = run /\ device_queue' = slots /\ started' = begun
    BY <1>6, BeginNone
  <2>2. /\ holder' \in [Units -> Decodes \cup {NoDecode}] /\ holder'[u] = NoDecode
        /\ \A v \in Units : v # u => holder'[v] = holder[v]
    BY <1>6
  <2>3. u \notin Range(free)
    OBVIOUS
  <2>4. /\ free' \in Seq(Units) /\ IsInjective(free')
        /\ Range(free') = Range(free) \cup {u}
    BY <1>6, <2>3, AppendFacts
  <2>5. \A v \in Units : v \in Range(free') <=> holder'[v] = NoDecode
    BY <2>2, <2>4
  <2>6. Holders' = others
    BY <1>1, <1>6 DEF Holders
  <2>7. SlotsFit(running', device_queue', started', seated, Holders', LandedDecodes)
    BY <2>1, <2>6
  <2> QED
    BY <1>6, <2>1, <2>2, <2>4, <2>5, <2>7 DEF PassedWell
<1> QED
  BY <1>4, <1>5, <1>6 DEF Passed
-----------------------------------------------------------------------------
(* A unit is given back *)

\* The holders of the other units.
LEMMA OtherHolders ==
    ASSUME ComputeInv, NEW u \in Units
    PROVE  /\ Holders \subseteq Seated
           /\ {holder[v] : v \in Units \ {u}} \ {NoDecode} = Holders \ {holder[u]}
           /\ \A v \in Units : holder[v] \in Holders => holder[v] \in Holding(v)
<1>1. \A v \in Units : holder[v] # NoDecode => holder[v] \in Holding(v) /\ holder[v] \in Decodes
  BY DEF ComputeInv, ComputeTypes, UnitInv
<1>2. \A v, w \in Units : holder[v] # NoDecode /\ holder[v] = holder[w] => v = w
  BY <1>1 DEF ComputeInv, OneSeat
<1>3. Holders \subseteq Seated
  BY <1>1 DEF Holders, Seated, IsResident
<1>4. {holder[v] : v \in Units \ {u}} \ {NoDecode} = Holders \ {holder[u]}
  BY <1>2 DEF Holders
<1> QED
  BY <1>1, <1>3, <1>4 DEF Holders

\* After the offer of a unit that d leaves, the compute side is in order.
LeftWell(d, begun) ==
    /\ ComputeInv' /\ Seated' = Seated \ {d}
    /\ \A e \in started' : e \in begun \/ (e \in Seated \ {d} /\ InputLanded(e))

\* A decode that held its unit's compute leaves the unit, and the compute side
\* stays in order.
LEMMA LeftInOrder ==
    ASSUME config \in Settings, config' = config, ComputeInv,
           NEW u \in Units, NEW d \in Holding(u), holder[u] = d,
           residents' = [residents EXCEPT ![u] = Others(u, d)],
           NEW begun, started \subseteq begun, begun \subseteq Decodes,
           \A e \in begun : e \in started \/ e \in Holders \ {d},
           PassedWell(u, Others(u, d), begun, Seated \ {d}),
           \A e \in Seated \ {d} : InputLanded(e)' <=> InputLanded(e)
    PROVE  LeftWell(d, begun)
<1> DEFINE rest == Others(u, d)
<1>1. /\ residents' \in [Units -> Seq(Decodes)] /\ OneSeat'
      /\ \A v \in Units : Len(residents'[v]) <= InputSlotCount
      /\ \A v \in Units : Holding(v)' = Holding(v) \ {d}
      /\ Seated' = Seated \ {d}
      /\ rest \in Seq(Decodes) /\ Range(rest) = Holding(u) \ {d}
  BY SeatLeft DEF ComputeInv, ComputeTypes
<1>2. PassedWell(u, rest, begun, Seated \ {d})
  OBVIOUS
<1> HIDE DEF rest
<1>3. Units' = Units /\ Decodes' = Decodes /\ NoDecode' = NoDecode
  BY SamePool DEF NoDecode
<1>4. Range(rest) \subseteq Decodes
  <2>1. \A i \in DOMAIN rest : rest[i] \in Decodes
    BY <1>1
  <2> QED
    BY <2>1 DEF Range
<1>5. NoDecode \notin Decodes
  BY NoDecodeFacts
<1>6. \A v \in Units \ {u} : holder[v] # d
  BY <1>4, <1>5 DEF ComputeInv, UnitInv, OneSeat
<1>7. /\ holder' \in [Units -> Decodes \cup {NoDecode}] /\ free' \in Seq(Units) /\ IsInjective(free')
      /\ device_queue' \in Seq(Decodes)
      /\ \A v \in Units : v \in Range(free') <=> holder'[v] = NoDecode
      /\ \A v \in Units : v # u => holder'[v] = holder[v]
      /\ IF Range(rest) = {} THEN holder'[u] = NoDecode ELSE holder'[u] \in Range(rest)
  BY <1>2 DEF PassedWell
<1>8. \A e \in started' : e \in begun \/ (e = holder'[u] /\ e \in LandedDecodes)
  BY <1>2 DEF PassedWell
<1>9. started' \subseteq Decodes
  BY <1>8 DEF LandedDecodes
<1>10. ComputeTypes'
  BY <1>1, <1>3, <1>7, <1>9 DEF ComputeTypes
<1>11. ASSUME NEW v \in Units
       PROVE  /\ v \in Range(free') <=> holder'[v] = NoDecode
              /\ holder'[v] # NoDecode => holder'[v] \in Holding(v)'
              /\ Holding(v)' # {} => holder'[v] # NoDecode
              /\ \A e \in Holding(v)' : e \in started' => holder'[v] = e
  <2>1. CASE v = u
    <3>1. Holding(v)' = Range(rest)
      BY <1>1, <2>1
    <3>2. \A e \in Range(rest) : e \notin begun
      <4> SUFFICES ASSUME NEW e \in Range(rest), e \in begun
                   PROVE  FALSE
        OBVIOUS
      <4>1. e \in Holding(u) /\ e # d
        BY <1>1
      <4>2. e \notin started
        BY <4>1 DEF ComputeInv, UnitInv
      <4>3. e \in Holders
        BY <4>2
      <4>4. PICK w \in Units : e = holder[w] /\ holder[w] # NoDecode
        BY <4>3 DEF Holders
      <4>5. e \in Holding(w)
        BY <4>4 DEF ComputeInv, UnitInv
      <4>6. w = u
        BY <4>1, <4>5 DEF ComputeInv, OneSeat
      <4> QED
        BY <4>1, <4>4, <4>6
    <3>3. holder'[v] # NoDecode => holder'[v] \in Range(rest)
      BY <1>7, <2>1
    <3>4. Range(rest) # {} => holder'[v] # NoDecode
      BY <1>4, <1>5, <1>7, <2>1
    <3>5. \A e \in Range(rest) : e \in started' => holder'[v] = e
      BY <1>8, <2>1, <3>2
    <3>6. v \in Range(free') <=> holder'[v] = NoDecode
      BY <1>7
    <3> QED
      BY <3>1, <3>3, <3>4, <3>5, <3>6
  <2>2. CASE v # u
    <3>1. d \notin Holding(v)
      BY <2>2 DEF ComputeInv, OneSeat
    <3>2. Holding(v)' = Holding(v) /\ holder'[v] = holder[v]
      <4>1. Holding(v)' = Holding(v) \ {d}
        BY <1>1
      <4>2. Holding(v) \ {d} = Holding(v)
        BY <3>1
      <4>3. Holding(v)' = Holding(v)
        BY <4>1, <4>2, Zenon
      <4>4. holder'[v] = holder[v]
        BY <1>7, <2>2
      <4> QED
        BY <4>3, <4>4
    <3>3. ASSUME NEW e \in Holding(v), e \in started'
          PROVE  holder[v] = e
      <4>1. e \in begun \/ e = holder'[u]
        BY <1>8, <3>3
      <4>2. e \notin Holding(u)
        BY <2>2, <3>3 DEF ComputeInv, OneSeat
      <4>3. e \in Decodes
        <5>1. \A i \in DOMAIN residents[v] : residents[v][i] \in Decodes
          BY DEF ComputeInv, ComputeTypes
        <5> QED
          BY <5>1 DEF Holding, Range
      <4>4. e # holder'[u]
        BY <1>1, <1>5, <1>7, <4>2, <4>3
      <4>5. CASE e \in started
        BY <3>3, <4>5 DEF ComputeInv, UnitInv
      <4>6. CASE e \in Holders
        <5>1. PICK w \in Units : e = holder[w] /\ holder[w] # NoDecode
          BY <4>6 DEF Holders
        <5>2. e \in Holding(w)
          BY <5>1 DEF ComputeInv, UnitInv
        <5> QED
          BY <3>3, <5>1, <5>2 DEF ComputeInv, OneSeat
      <4> QED
        BY <4>1, <4>4, <4>5, <4>6
    <3>4. /\ holder[v] # NoDecode => holder[v] \in Holding(v)
          /\ Holding(v) # {} => holder[v] # NoDecode
      BY DEF ComputeInv, UnitInv
    <3>5. v \in Range(free') <=> holder'[v] = NoDecode
      BY <1>7
    <3> QED
      BY <3>2, <3>3, <3>4, <3>5
  <2> QED
    BY <2>1, <2>2
<1>12. UnitInv'
  BY <1>3, <1>7, <1>11 DEF UnitInv
<1>13. Holders' \subseteq Seated \ {d}
  <2> SUFFICES ASSUME NEW e \in Holders'
               PROVE  e \in Seated \ {d}
    OBVIOUS
  <2>1. PICK v \in Units : e = holder'[v] /\ e # NoDecode
    BY <1>3 DEF Holders
  <2>2. e \in Holding(v) \ {d} /\ e \in Decodes
    BY <1>1, <1>7, <1>11, <2>1
  <2> QED
    BY <2>2 DEF Seated, IsResident
<1>14. Holders' \cap LandedDecodes' = Holders' \cap LandedDecodes
  BY <1>3, <1>13 DEF LandedDecodes, Seated
<1>15. SlotsFit(running', device_queue', started', Seated \ {d}, Holders', LandedDecodes)
  BY <1>2 DEF PassedWell
<1>16. SlotInv'
  BY <1>1, <1>14, <1>15 DEF SlotInv, SlotsFit
<1>17. \A e \in started' : e \in begun \/ (e \in Seated \ {d} /\ InputLanded(e))
  <2> SUFFICES ASSUME NEW e \in started', e \notin begun
               PROVE  e \in Seated \ {d} /\ InputLanded(e)
    OBVIOUS
  <2>1. e = holder'[u] /\ e \in LandedDecodes
    BY <1>8
  <2>2. e # NoDecode /\ InputLanded(e)
    BY <2>1, <1>5 DEF LandedDecodes
  <2>3. e \in Holders'
    BY <1>3, <2>1, <2>2 DEF Holders
  <2> QED
    BY <1>13, <2>2, <2>3
<1> QED
  BY <1>1, <1>10, <1>12, <1>16, <1>17 DEF ComputeInv, LeftWell

\* What a decode that gives its unit back leaves behind.
Leaves(d) ==
    /\ ComputeInv' /\ Seated' = Seated \ {d} /\ started \subseteq started'
    /\ \A e \in started' : e \in started \/ (e \in Seated \ {d} /\ InputLanded(e))

\* free, for a decode that started.
LEMMA FreeKeeps ==
    ASSUME config \in Settings, config' = config, ComputeInv,
           \A e \in Seated : e \in withdrawn \cup completed => e \in started,
           NEW d \in Decodes, IsResident(d), d \in started, Free(d),
           \A e \in Seated \ {d} : InputLanded(e)' <=> InputLanded(e)
    PROVE  Leaves(d)
<1> DEFINE u     == UnitOf(d)
           rest  == Others(u, d)
           kept  == running \ {d}
           wakes == device_queue # <<>> /\ Cardinality(kept) < config.slotCount
           woken == IF wakes THEN {Head(device_queue)} ELSE {}
           slots == IF wakes THEN Tail(device_queue) ELSE device_queue
           begun == started \cup woken
<1>1. u \in Units /\ d \in Holding(u)
  BY UnitOfFacts DEF ComputeInv
<1>2. holder[u] = d
  BY <1>1 DEF ComputeInv, UnitInv
<1>3. /\ residents' = [residents EXCEPT ![u] = rest]
      /\ PassCompute(u, rest, kept \cup woken, slots, begun)
  BY <1>2, Zenon DEF Free
<1>4. IF device_queue # <<>> /\ Cardinality(kept) < config.slotCount
      THEN woken = {Head(device_queue)} /\ slots = Tail(device_queue)
      ELSE woken = {} /\ slots = device_queue
  OBVIOUS
<1>5. kept = running \ {d} /\ begun = started \cup woken
  OBVIOUS
<1> HIDE DEF u, kept, wakes, woken, slots, begun
<1>6. d \in running
  BY DEF ComputeInv, SlotInv, SlotsFit, Seated
<1>7. Holders \subseteq Seated
  BY <1>1, OtherHolders
<1>8. GivesBack(d, kept, woken, slots, begun, Seated, Holders, LandedDecodes)
  <2>1. SlotsFit(running, device_queue, started, Seated, Holders, LandedDecodes)
        /\ device_queue \in Seq(Decodes)
    BY DEF ComputeInv, SlotInv, ComputeTypes
  <2> QED
    BY <1>4, <1>5, <1>6, <1>7, <2>1, SlotsGiveBack
<1>9. /\ SlotsFit(kept \cup woken, slots, begun, Seated \ {d}, Holders \ {d}, LandedDecodes)
      /\ woken \subseteq ((Holders \ {d}) \cap LandedDecodes) \ started
      /\ slots \in Seq(Decodes)
  BY <1>8 DEF GivesBack
<1>10. /\ rest \in Seq(Decodes) /\ Range(rest) = Holding(u) \ {d}
  BY <1>1, <1>3, SeatLeft DEF ComputeInv, ComputeTypes
<1>11. Range(rest) \subseteq Decodes
  <2>1. \A i \in DOMAIN rest : rest[i] \in Decodes
    BY <1>10
  <2> QED
    BY <2>1 DEF Range
<1> HIDE DEF rest
<1>12. ASSUME NEW e \in Range(rest)
       PROVE  e \in Seated \ {d} /\ e \notin Holders /\ e \notin started
  <2>1. e \in Holding(u) /\ e # d /\ e \in Decodes
    BY <1>10, <1>11
  <2>2. e \in Seated \ {d}
    BY <1>1, <2>1 DEF Seated, IsResident
  <2>3. e \notin started
    BY <1>1, <1>2, <2>1 DEF ComputeInv, UnitInv
  <2>4. e \notin Holders
    <3> SUFFICES ASSUME e \in Holders
                 PROVE  FALSE
      OBVIOUS
    <3>1. PICK w \in Units : e = holder[w] /\ holder[w] # NoDecode
      BY DEF Holders
    <3>2. e \in Holding(w)
      BY <3>1 DEF ComputeInv, UnitInv
    <3>3. w = u
      BY <1>1, <2>1, <3>2 DEF ComputeInv, OneSeat
    <3> QED
      BY <1>2, <2>1, <3>1, <3>3
  <2> QED
    BY <2>2, <2>3, <2>4
<1>13. \A e \in Range(rest) : ~ IsPastStart(e, begun)
  <2>1. \A e \in Range(rest) : e \notin begun
    BY <1>5, <1>9, <1>12
  <2> QED
    BY <1>12, <2>1 DEF IsPastStart
<1>14. Passed(u, rest, kept \cup woken, slots, begun)
  BY <1>1, <1>3, <1>10, <1>13, PassFacts
<1>15. PassedWell(u, rest, begun, Seated \ {d})
  <2> DEFINE others == {holder[v] : v \in Units \ {u}} \ {NoDecode}
  <2>1. others = Holders \ {d}
    BY <1>1, <1>2, OtherHolders
  <2>2. SlotsFit(kept \cup woken, slots, begun, Seated \ {d}, others, LandedDecodes)
    BY <1>9, <2>1
  <2> HIDE DEF others
  <2>3. Range(rest) \subseteq Seated \ {d} /\ Range(rest) \cap (others \cup begun) = {}
    BY <1>5, <1>9, <1>12, <2>1
  <2>4. /\ holder \in [Units -> Decodes \cup {NoDecode}] /\ free \in Seq(Units)
        /\ IsInjective(free)
        /\ \A v \in Units : v \in Range(free) <=> holder[v] = NoDecode
    BY DEF ComputeInv, ComputeTypes, UnitInv
  <2>5. holder[u] # NoDecode
    BY <1>2, NoDecodeFacts
  <2> QED
    BY <1>1, <1>9, <1>10, <1>11, <1>14, <2>2, <2>3, <2>4, <2>5, PassKeeps DEF others
<1>16. \A e \in begun : e \in started \/ (e \in Holders \ {d} /\ InputLanded(e))
  BY <1>5, <1>9 DEF LandedDecodes
<1>17. begun \subseteq Decodes /\ started \subseteq begun
  BY <1>5, <1>7, <1>9 DEF ComputeInv, ComputeTypes, Seated
<1>18. /\ ComputeInv' /\ Seated' = Seated \ {d}
       /\ \A e \in started' : e \in begun \/ (e \in Seated \ {d} /\ InputLanded(e))
  <2>1. LeftWell(d, begun)
    BY <1>1, <1>2, <1>3, <1>15, <1>16, <1>17, LeftInOrder DEF rest
  <2> QED
    BY <2>1 DEF LeftWell
<1>19. started \subseteq started'
  BY <1>15, <1>17 DEF PassedWell
<1> QED
  BY <1>7, <1>16, <1>18, <1>19 DEF Leaves

\* evict, for a decode that has not started.
LEMMA EvictKeeps ==
    ASSUME config \in Settings, config' = config, ComputeInv,
           \A e \in Seated : e \in withdrawn \cup completed => e \in started,
           NEW d \in Decodes, IsResident(d), d \notin started, Evict(d, UnitOf(d)),
           \A e \in Seated \ {d} : InputLanded(e)' <=> InputLanded(e)
    PROVE  Leaves(d)
<1> DEFINE u     == UnitOf(d)
           rest  == Others(u, d)
           slots == RemoveFirst(device_queue, d)
<1>1. u \in Units /\ d \in Holding(u)
  BY UnitOfFacts DEF ComputeInv
<1>2. /\ residents' = [residents EXCEPT ![u] = rest]
      /\ IF holder[u] = d
         THEN PassCompute(u, rest, running, slots, started)
         ELSE device_queue' = slots /\ UNCHANGED <<holder, free, running, started>>
  BY Zenon DEF Evict
<1> HIDE DEF u
<1>3. Holders \subseteq Seated /\ \A v \in Units : holder[v] \in Holders => holder[v] \in Holding(v)
  BY <1>1, OtherHolders
<1>4. /\ SlotsFit(running, slots, started, Seated \ {d}, Holders \ {d}, LandedDecodes)
      /\ slots \in Seq(Decodes)
  <2>1. SlotsFit(running, device_queue, started, Seated, Holders, LandedDecodes)
        /\ device_queue \in Seq(Decodes)
    BY DEF ComputeInv, SlotInv, ComputeTypes
  <2> QED
    BY <2>1, SlotsWithdraw
<1>5. /\ residents' \in [Units -> Seq(Decodes)] /\ OneSeat'
      /\ \A v \in Units : Len(residents'[v]) <= InputSlotCount
      /\ \A v \in Units : Holding(v)' = Holding(v) \ {d}
      /\ Seated' = Seated \ {d}
      /\ rest \in Seq(Decodes) /\ Range(rest) = Holding(u) \ {d}
  BY <1>1, <1>2, SeatLeft DEF ComputeInv, ComputeTypes
<1>6. Range(rest) \subseteq Decodes
  <2>1. \A i \in DOMAIN rest : rest[i] \in Decodes
    BY <1>5
  <2> QED
    BY <2>1 DEF Range
<1> HIDE DEF rest, slots
<1>7. CASE holder[u] = d
  <2>1. ASSUME NEW e \in Range(rest)
        PROVE  e \in Seated \ {d} /\ e \notin Holders /\ e \notin started
    <3>1. e \in Holding(u) /\ e # d /\ e \in Decodes
      BY <1>5, <1>6
    <3>2. e \in Seated \ {d}
      BY <1>1, <3>1 DEF Seated, IsResident
    <3>3. e \notin started
      BY <1>1, <1>7, <3>1 DEF ComputeInv, UnitInv
    <3>4. e \notin Holders
      <4> SUFFICES ASSUME e \in Holders
                   PROVE  FALSE
        OBVIOUS
      <4>1. PICK w \in Units : e = holder[w] /\ holder[w] # NoDecode
        BY DEF Holders
      <4>2. e \in Holding(w)
        BY <4>1 DEF ComputeInv, UnitInv
      <4>3. w = u
        BY <1>1, <3>1, <4>2 DEF ComputeInv, OneSeat
      <4> QED
        BY <1>7, <3>1, <4>1, <4>3
    <3> QED
      BY <3>2, <3>3, <3>4
  <2>2. \A e \in Range(rest) : ~ IsPastStart(e, started)
    BY <2>1 DEF IsPastStart
  <2>3. Passed(u, rest, running, slots, started)
    BY <1>1, <1>2, <1>5, <1>7, <2>2, PassFacts
  <2>4. PassedWell(u, rest, started, Seated \ {d})
    <3> DEFINE others == {holder[v] : v \in Units \ {u}} \ {NoDecode}
    <3>1. others = Holders \ {d}
      BY <1>1, <1>7, OtherHolders
    <3>2. SlotsFit(running, slots, started, Seated \ {d}, others, LandedDecodes)
      BY <1>4, <3>1
    <3> HIDE DEF others
    <3>3. Range(rest) \subseteq Seated \ {d} /\ Range(rest) \cap (others \cup started) = {}
      BY <2>1, <3>1
    <3>4. /\ holder \in [Units -> Decodes \cup {NoDecode}] /\ free \in Seq(Units)
          /\ IsInjective(free)
          /\ \A v \in Units : v \in Range(free) <=> holder[v] = NoDecode
      BY DEF ComputeInv, ComputeTypes, UnitInv
    <3>5. holder[u] # NoDecode
      BY <1>7, NoDecodeFacts
    <3> QED
      BY <1>1, <1>4, <1>5, <1>6, <2>3, <3>2, <3>3, <3>4, <3>5, PassKeeps DEF others
  <2>5. started \subseteq Decodes
    BY DEF ComputeInv, ComputeTypes
  <2>6. LeftWell(d, started)
    BY <1>1, <1>2, <1>7, <2>4, <2>5, LeftInOrder DEF rest
  <2>7. started \subseteq started'
    BY <2>4 DEF PassedWell
  <2> QED
    BY <2>6, <2>7 DEF LeftWell, Leaves
<1>8. CASE holder[u] # d
  <2>1. device_queue' = slots /\ holder' = holder /\ free' = free
        /\ running' = running /\ started' = started
    BY <1>2, <1>8
  <2>2. Units' = Units /\ Decodes' = Decodes /\ NoDecode' = NoDecode
    BY SamePool DEF NoDecode
  <2>3. \A v \in Units : holder[v] # d
    BY <1>1, <1>8, NoDecodeFacts DEF ComputeInv, UnitInv, OneSeat
  <2>4. d \notin Holders
    BY <2>3 DEF Holders
  <2>5. Holders' = Holders
    BY <2>1, <2>2 DEF Holders
  <2>6. ComputeTypes'
    BY <1>4, <1>5, <2>1, <2>2 DEF ComputeInv, ComputeTypes
  <2>7. ASSUME NEW v \in Units
        PROVE  /\ v \in Range(free) <=> holder[v] = NoDecode
               /\ holder[v] # NoDecode => holder[v] \in Holding(v)'
               /\ Holding(v)' # {} => holder[v] # NoDecode
               /\ \A e \in Holding(v)' : e \in started => holder[v] = e
    <3>1. /\ v \in Range(free) <=> holder[v] = NoDecode
          /\ holder[v] # NoDecode => holder[v] \in Holding(v)
          /\ Holding(v) # {} => holder[v] # NoDecode
          /\ \A e \in Holding(v) : e \in started => holder[v] = e
      BY DEF ComputeInv, UnitInv
    <3> QED
      BY <1>5, <2>3, <3>1
  <2>8. UnitInv'
    BY <2>1, <2>2, <2>7 DEF UnitInv, ComputeInv
  <2>9. Holders \cap LandedDecodes' = Holders \cap LandedDecodes
    BY <1>3, <2>2, <2>4 DEF LandedDecodes, Seated
  <2>10. SlotInv'
    BY <1>4, <1>5, <2>1, <2>4, <2>5, <2>9 DEF SlotInv, SlotsFit
  <2> QED
    BY <1>5, <2>1, <2>6, <2>8, <2>10 DEF ComputeInv, Leaves
<1> QED
  BY <1>7, <1>8

-----------------------------------------------------------------------------
(* A unit is taken *)

\* A decode that joins a unit asks for its input first.
Joins(d) ==
    /\ ComputeInv' /\ Seated' = Seated \cup {d} /\ started' = started

\* claim and stage: the decode has a slot, and the compute if it was free.
LEMMA AdmitKeeps ==
    ASSUME config \in Settings, config' = config, ComputeInv,
           NEW d \in Decodes, d \notin Seated, d \notin started,
           NEW u \in Units, HasRoom(u, d),
           residents' = [residents EXCEPT ![u] = Append(@, d)],
           running' = running, device_queue' = device_queue, started' = started,
           asking' = asking \cup {d}, missing' = missing,
           \/ /\ u \in Range(free)
              /\ free' = RemoveFirst(free, u) /\ holder' = [holder EXCEPT ![u] = d]
           \/ u \notin Range(free) /\ free' = free /\ holder' = holder
    PROVE  Joins(d)
<1>1. Units' = Units /\ Decodes' = Decodes /\ NoDecode' = NoDecode
  BY SamePool DEF NoDecode
<1>2. ~ IsResident(d) /\ \A v \in Units : d \notin Holding(v)
  BY DEF Seated, IsResident
<1>3. Len(residents[u]) < InputSlotCount
  BY DEF HasRoom
<1>4. /\ residents' \in [Units -> Seq(Decodes)] /\ OneSeat'
      /\ \A v \in Units : Len(residents'[v]) <= InputSlotCount
      /\ \A v \in Units : Holding(v)' = IF v = u THEN Holding(v) \cup {d} ELSE Holding(v)
      /\ Seated' = Seated \cup {d}
  BY <1>2, <1>3, SeatTaken DEF ComputeInv, ComputeTypes
<1>5. d \notin Holders
  BY OtherHolders
<1>6. Holders \subseteq Seated
  BY OtherHolders
<1>7. \A e \in Decodes : e \in LandedDecodes' <=> e \in LandedDecodes /\ e # d
  BY <1>1 DEF LandedDecodes, InputLanded
<1>8. LandedDecodes' \subseteq Decodes /\ Holders \subseteq Decodes
  BY <1>1, <1>6 DEF LandedDecodes, Seated
<1>9. running = started \cap (Seated \cup {d})
  BY DEF ComputeInv, SlotInv, SlotsFit
<1>10. SlotsFit(running, device_queue, started, Seated \cup {d}, Holders, LandedDecodes)
  BY <1>9 DEF ComputeInv, SlotInv, SlotsFit
<1>11. CASE u \in Range(free) /\ free' = RemoveFirst(free, u)
            /\ holder' = [holder EXCEPT ![u] = d]
  <2>1. holder[u] = NoDecode /\ Holding(u) = {}
    BY <1>11 DEF ComputeInv, UnitInv
  <2>2. /\ free' \in Seq(Units) /\ IsInjective(free') /\ Range(free') = Range(free) \ {u}
    BY <1>11, RemoveFirstFacts DEF ComputeInv, ComputeTypes, UnitInv
  <2>3. /\ holder' \in [Units -> Decodes \cup {NoDecode}] /\ holder'[u] = d
        /\ \A v \in Units : v # u => holder'[v] = holder[v]
    BY <1>11 DEF ComputeInv, ComputeTypes
  <2>4. Holders' = Holders \cup {d}
    BY <1>1, <2>1, <2>3, NoDecodeFacts DEF Holders
  <2>5. ComputeTypes'
    BY <1>1, <1>4, <2>2, <2>3 DEF ComputeInv, ComputeTypes
  <2>6. ASSUME NEW v \in Units
        PROVE  /\ v \in Range(free') <=> holder'[v] = NoDecode
               /\ holder'[v] # NoDecode => holder'[v] \in Holding(v)'
               /\ Holding(v)' # {} => holder'[v] # NoDecode
               /\ \A e \in Holding(v)' : e \in started => holder'[v] = e
    <3>1. /\ v \in Range(free) <=> holder[v] = NoDecode
          /\ holder[v] # NoDecode => holder[v] \in Holding(v)
          /\ Holding(v) # {} => holder[v] # NoDecode
          /\ \A e \in Holding(v) : e \in started => holder[v] = e
      BY DEF ComputeInv, UnitInv
    <3>2. CASE v = u
      <4>1. Holding(v)' = {d} /\ holder'[v] = d /\ d # NoDecode
        BY <1>4, <2>1, <2>3, <3>2, NoDecodeFacts
      <4> QED
        BY <2>2, <3>2, <4>1
    <3>3. CASE v # u
      <4>1. Holding(v)' = Holding(v) /\ holder'[v] = holder[v]
        BY <1>4, <2>3, <3>3
      <4> QED
        BY <2>2, <3>1, <3>3, <4>1
    <3> QED
      BY <3>2, <3>3
  <2>7. UnitInv'
    BY <1>1, <2>2, <2>6 DEF UnitInv
  <2>8. Holders' \cap LandedDecodes' = Holders \cap LandedDecodes
    BY <1>5, <1>7, <1>8, <2>4
  <2>9. SlotInv'
    BY <1>4, <1>10, <2>8 DEF SlotInv, SlotsFit
  <2> QED
    BY <1>4, <2>5, <2>7, <2>9 DEF ComputeInv, Joins
<1>12. CASE u \notin Range(free) /\ free' = free /\ holder' = holder
  <2>1. holder[u] # NoDecode
    BY <1>12 DEF ComputeInv, UnitInv
  <2>2. Holders' = Holders
    BY <1>1, <1>12 DEF Holders
  <2>3. ComputeTypes'
    BY <1>1, <1>4, <1>12 DEF ComputeInv, ComputeTypes
  <2>4. ASSUME NEW v \in Units
        PROVE  /\ v \in Range(free) <=> holder[v] = NoDecode
               /\ holder[v] # NoDecode => holder[v] \in Holding(v)'
               /\ Holding(v)' # {} => holder[v] # NoDecode
               /\ \A e \in Holding(v)' : e \in started => holder[v] = e
    <3>1. /\ v \in Range(free) <=> holder[v] = NoDecode
          /\ holder[v] # NoDecode => holder[v] \in Holding(v)
          /\ Holding(v) # {} => holder[v] # NoDecode
          /\ \A e \in Holding(v) : e \in started => holder[v] = e
      BY DEF ComputeInv, UnitInv
    <3>2. CASE v = u
      <4>1. Holding(v)' = Holding(v) \cup {d}
        BY <1>4, <3>2
      <4> QED
        BY <2>1, <3>1, <3>2, <4>1
    <3>3. CASE v # u
      <4>1. Holding(v)' = Holding(v)
        BY <1>4, <3>3
      <4> QED
        BY <3>1, <4>1
    <3> QED
      BY <3>2, <3>3
  <2>5. UnitInv'
    BY <1>1, <1>12, <2>4 DEF UnitInv, ComputeInv
  <2>6. Holders \cap LandedDecodes' = Holders \cap LandedDecodes
    BY <1>5, <1>7, <1>8
  <2>7. SlotInv'
    BY <1>4, <1>10, <2>2, <2>6 DEF SlotInv, SlotsFit
  <2> QED
    BY <1>4, <2>3, <2>5, <2>7 DEF ComputeInv, Joins
<1> QED
  BY <1>11, <1>12

-----------------------------------------------------------------------------
(* An input lands *)

\* The holder may start if its input was what landed.
Lands(D) ==
    /\ ComputeInv' /\ Seated' = Seated /\ started \subseteq started'
    /\ \A e \in started' : e \in started \/ e \in D

\* Decodes whose input landed start when they hold their unit's compute, and
\* the compute side stays in order.
LEMMA LandKeeps ==
    ASSUME config \in Settings, ComputeInv, NEW u \in Units, NEW D,
           LandOn(u, D),
           \A e \in D : e \in Holding(u) /\ e \notin started /\ ~ InputLanded(e),
           \A e \in Seated : InputLanded(e)' <=> InputLanded(e) \/ e \in D
    PROVE  Lands(D)
<1> DEFINE e == holder[u]
           landed == LandedDecodes \cup (D \cap {e})
<1>1. /\ BeginFrom(D \cap {e}, running, device_queue, started)
      /\ config' = config /\ residents' = residents /\ holder' = holder /\ free' = free
  BY DEF LandOn
<1>2. Units' = Units /\ Decodes' = Decodes /\ NoDecode' = NoDecode
  BY <1>1, SamePool DEF NoDecode
<1>3. Seated' = Seated /\ OneSeat' /\ \A v : Holding(v)' = Holding(v)
  BY <1>1, SeatsKept DEF ComputeInv
<1>4. Holders' = Holders
  BY <1>1, <1>2 DEF Holders
<1>5. Holders \subseteq Seated /\ \A v \in Units : holder[v] \in Holders => holder[v] \in Holding(v)
  BY OtherHolders
<1>6. \A x \in Holders : x \in Holding(u) => x = e
  <2> SUFFICES ASSUME NEW x \in Holders, x \in Holding(u)
               PROVE  x = e
    OBVIOUS
  <2>1. PICK w \in Units : x = holder[w] /\ holder[w] # NoDecode
    BY DEF Holders
  <2>2. x \in Holding(w)
    BY <1>5, <2>1
  <2> QED
    BY <2>1, <2>2 DEF ComputeInv, OneSeat
<1>7. Holders \cap LandedDecodes' = Holders \cap landed
  <2>1. ASSUME NEW x \in Holders
        PROVE  x \in LandedDecodes' <=> x \in landed
    <3>1. x \in Seated /\ x \in Decodes
      BY <1>5 DEF Seated
    <3>2. InputLanded(x)' <=> InputLanded(x) \/ x \in D
      BY <3>1
    <3>3. x \in D => x = e
      BY <1>6
    <3> QED
      BY <1>2, <3>1, <3>2, <3>3 DEF LandedDecodes
  <2> QED
    BY <2>1
<1>8. SlotsFit(running', device_queue', started', Seated, Holders, landed)
      /\ started \subseteq started' /\ started' \subseteq started \cup (D \cap {e})
      /\ device_queue' \in Seq(Decodes)
  <2>1. CASE e \in D
    <3>1. D \cap {e} = {e}
      BY <2>1
    <3>2. e \in Holding(u) /\ e \notin started /\ e \notin LandedDecodes
      BY <2>1 DEF LandedDecodes
    <3>3. e \in Decodes
      <4>1. \A i \in DOMAIN residents[u] : residents[u][i] \in Decodes
        BY DEF ComputeInv, ComputeTypes
      <4> QED
        BY <3>2, <4>1 DEF Holding, Range
    <3>4. e \in Seated /\ e \in Holders
      BY <3>2, <3>3, NoDecodeFacts DEF Seated, IsResident, Holders
    <3>5. /\ landed = LandedDecodes \cup {e} /\ e \in landed
          /\ Holders = (Holders \ {e}) \cup {e} /\ e \notin Holders \ {e}
      BY <3>1, <3>4
    <3> DEFINE others == Holders \ {e}
    <3>6. others \cap landed = Holders \cap LandedDecodes
      BY <3>1, <3>2
    <3>7. SlotsFit(running, device_queue, started, Seated, others, landed)
          /\ device_queue \in Seq(Decodes)
      BY <3>6 DEF ComputeInv, SlotInv, SlotsFit, ComputeTypes
    <3>8. BeginFrom({e}, running, device_queue, started)
      BY <1>1, <3>1
    <3> HIDE DEF e, landed, others
    <3>9. e \notin others /\ e \in landed /\ others \cup {e} = Holders
      BY <3>5 DEF others
    <3>10. Begins(e, started, Seated, others, landed)
      BY <3>2, <3>3, <3>4, <3>7, <3>8, <3>9, SlotsBegin
    <3> QED
      BY <3>1, <3>9, <3>10 DEF Begins
  <2>2. CASE e \notin D
    <3>1. D \cap {e} = {}
      BY <2>2
    <3>2. BeginFrom({}, running, device_queue, started)
      BY <1>1, <3>1
    <3>3. running' = running /\ started' = started /\ device_queue' = device_queue
      BY <3>2, BeginNone
    <3>4. landed = LandedDecodes
      BY <3>1
    <3> QED
      BY <3>3, <3>4 DEF ComputeInv, SlotInv, ComputeTypes
  <2> QED
    BY <2>1, <2>2
<1> HIDE DEF landed
<1>9. started' \subseteq Decodes
  <2>1. D \cap {e} \subseteq Decodes
    <3>1. \A x \in D \cap {e} : x \in Holding(u)
      OBVIOUS
    <3>2. \A i \in DOMAIN residents[u] : residents[u][i] \in Decodes
      BY DEF ComputeInv, ComputeTypes
    <3> QED
      BY <3>1, <3>2 DEF Holding, Range
  <2> QED
    BY <1>8, <2>1 DEF ComputeInv, ComputeTypes
<1>10. ComputeTypes'
  BY <1>1, <1>2, <1>8, <1>9 DEF ComputeInv, ComputeTypes
<1>11. ASSUME NEW v \in Units, NEW x \in Holding(v), x \in started'
       PROVE  holder[v] = x
  <2>1. CASE x \in started
    BY <1>11, <2>1 DEF ComputeInv, UnitInv
  <2>2. CASE x \in D /\ x = e
    <3>1. v = u
      BY <1>11, <2>2 DEF ComputeInv, OneSeat
    <3> QED
      BY <2>2, <3>1
  <2> QED
    BY <1>8, <1>11, <2>1, <2>2
<1>12. UnitInv'
  <2> HIDE DEF e
  <2>1. ASSUME NEW v \in Units
        PROVE  /\ v \in Range(free) <=> holder[v] = NoDecode
               /\ holder[v] # NoDecode => holder[v] \in Holding(v)
               /\ Holding(v) # {} => holder[v] # NoDecode
               /\ \A x \in Holding(v) : x \in started' => holder[v] = x
    BY <1>11 DEF ComputeInv, UnitInv
  <2> QED
    BY <1>1, <1>2, <1>3, <2>1 DEF UnitInv, ComputeInv
<1>13. SlotInv'
  BY <1>1, <1>3, <1>4, <1>7, <1>8 DEF SlotInv, SlotsFit
<1> QED
  BY <1>3, <1>8, <1>10, <1>12, <1>13 DEF ComputeInv, Lands

\* Nothing of the compute changes, and no holder's input lands.
Stands == ComputeInv' /\ Seated' = Seated /\ started' = started

\* A step that changes neither the compute nor what has landed keeps its order.
LEMMA ComputeKept ==
    ASSUME config' = config, ComputeInv, UNCHANGED compute,
           \A e \in Seated : InputLanded(e)' <=> InputLanded(e)
    PROVE  Stands
<1>1. /\ residents' = residents /\ holder' = holder /\ free' = free /\ running' = running
      /\ device_queue' = device_queue /\ started' = started
  BY DEF compute
<1>2. Units' = Units /\ Decodes' = Decodes /\ NoDecode' = NoDecode
  BY SamePool DEF NoDecode
<1>3. Seated' = Seated /\ OneSeat' /\ \A v : Holding(v)' = Holding(v)
  BY <1>1, SeatsKept DEF ComputeInv
<1>4. Holders' = Holders
  BY <1>1, <1>2 DEF Holders
<1>5. Holders \subseteq Seated
  <2> SUFFICES ASSUME NEW x \in Holders
               PROVE  x \in Seated
    OBVIOUS
  <2>1. PICK v \in Units : x = holder[v] /\ holder[v] # NoDecode
    BY DEF Holders
  <2> QED
    BY <2>1, OtherHolders
<1>6. Holders \cap LandedDecodes' = Holders \cap LandedDecodes
  BY <1>2, <1>5 DEF LandedDecodes, Seated
<1>7. ComputeTypes' /\ UnitInv'
  BY <1>1, <1>2, <1>3 DEF ComputeInv, ComputeTypes, UnitInv
<1>8. SlotInv'
  BY <1>1, <1>3, <1>4, <1>6 DEF ComputeInv, SlotInv, SlotsFit
<1> QED
  BY <1>1, <1>3, <1>7, <1>8 DEF ComputeInv, Stands

-----------------------------------------------------------------------------
(* What the steps keep of the other parts *)

\* The kind of a decode is the pool's.
LEMMA SameKind ==
    ASSUME config' = config
    PROVE  \A d : KindOf(d)' = KindOf(d)
    BY SamePool DEF KindOf

\* A seated decode holds a slot of its unit.
LEMMA SeatedFacts ==
    ASSUME ComputeInv, NEW d
    PROVE  /\ d \in Seated => d \in Decodes /\ IsResident(d) /\ UnitOf(d) \in Units
                                /\ d \in Holding(UnitOf(d))
           /\ \A u \in Units : d \in Holding(u) => d \in Seated /\ d \in Decodes
<1>1. d \in Seated => d \in Decodes /\ IsResident(d) /\ UnitOf(d) \in Units
                        /\ d \in Holding(UnitOf(d))
  BY UnitOfFacts DEF Seated, ComputeInv
<1>2. ASSUME NEW u \in Units, d \in Holding(u)
      PROVE  d \in Seated /\ d \in Decodes
  <2>1. \A i \in DOMAIN residents[u] : residents[u][i] \in Decodes
    BY DEF ComputeInv, ComputeTypes
  <2>2. d \in Decodes
    BY <1>2, <2>1 DEF Holding, Range
  <2> QED
    BY <1>2, <2>2 DEF Seated, IsResident
<1> QED
  BY <1>1, <1>2

\* No new decode but what the queue gives away, no request queued twice.
LEMMA ApartKeeps ==
    ASSUME Apart, Known' \subseteq Known, submitted \subseteq submitted',
           \A r \in waiting' : r \in waiting \/ r \notin submitted
    PROVE  Apart'
<1>1. ASSUME NEW d \in Known'
      PROVE  d \subseteq submitted' /\ d \cap waiting' = {}
  BY <1>1 DEF Apart
<1>2. ASSUME NEW d \in Known', NEW e \in Known', d \cap e # {}
      PROVE  d = e
  BY <1>2 DEF Apart
<1> QED
  BY <1>1, <1>2 DEF Apart

\* What goes with one decode is no input of another.
LEMMA OthersStayLanded ==
    ASSUME IInv, NEW d \in Known, asking' = asking,
           missing' = missing \/ missing' = missing \ d
    PROVE  \A e \in Seated \ {d} : InputLanded(e)' <=> InputLanded(e)
<1> SUFFICES ASSUME NEW e \in Seated, e # d
             PROVE  InputLanded(e)' <=> InputLanded(e)
  OBVIOUS
<1>1. e \cap d = {}
  BY DEF IInv, Apart, Known
<1> QED
  BY <1>1 DEF InputLanded

\* A decode in its place before its start has not landed all its input.
LEMMA StartedHasLanded ==
    ASSUME IInv, NEW d \in started
    PROVE  InputLanded(d)
<1>1. d \notin asking
  BY DEF IInv, BeforeStart
<1>2. ASSUME NEW r \in d \cap missing
      PROVE  FALSE
  <2>1. PICK e \in Seated : r \in e /\ e \notin asking \cup started
    BY DEF IInv, BeforeStart
  <2>2. e = d
    BY <2>1 DEF IInv, Apart, Known
  <2> QED
    BY <2>1, <2>2
<1> QED
  BY <1>1, <1>2 DEF InputLanded

\* What is past its start and holds a slot has started.
LEMMA SeatedPastStart ==
    ASSUME IInv
    PROVE  \A e \in Seated : e \in withdrawn \cup completed => e \in started
    BY DEF IInv, BeforeStart, EndTypes

\* A decode leaves its unit: what is before its start.
LEMMA BeforeStartLeaves ==
    ASSUME IInv, NEW d \in Seated, Leaves(d), asking' = asking,
           withdrawn' = withdrawn \cup {d} \/ (withdrawn' = withdrawn /\ d \in started),
           missing' = missing \ d \/ (missing' = missing /\ d \in started)
    PROVE  BeforeStart'
<1>1. Seated' = Seated \ {d} /\ started \subseteq started'
      /\ \A e \in started' : e \in started \/ (e \in Seated \ {d} /\ InputLanded(e))
  BY DEF Leaves
<1>2. Seated' \cap withdrawn' = {}
  BY <1>1 DEF IInv, BeforeStart
<1>3. ASSUME NEW e \in asking'
      PROVE  e \notin started' /\ e \in Seated' \cup withdrawn'
  <2>1. e \notin started /\ e \in Seated \cup withdrawn
    BY DEF IInv, BeforeStart
  <2>2. ~ InputLanded(e)
    BY DEF InputLanded
  <2>3. e = d => e \in withdrawn'
    BY <2>1
  <2> QED
    BY <1>1, <2>1, <2>2, <2>3
<1>4. ASSUME NEW r \in missing'
      PROVE  \E e \in Seated' : r \in e /\ e \notin asking' \cup started'
  <2>1. PICK e \in Seated : r \in e /\ e \notin asking \cup started
    BY DEF IInv, BeforeStart
  <2>2. e # d
    BY <2>1
  <2>3. ~ InputLanded(e)
    BY <2>1 DEF InputLanded
  <2> QED
    BY <1>1, <2>1, <2>2, <2>3
<1> QED
  BY <1>2, <1>3, <1>4 DEF BeforeStart

\* A decode leaves its unit: no decode is new.
LEMMA KnownLeaves ==
    ASSUME NEW d \in Seated, Leaves(d), asking' = asking,
           withdrawn' \subseteq withdrawn \cup {d}
    PROVE  Known' \subseteq Known
    BY DEF Leaves, Known

-----------------------------------------------------------------------------
(* The calls *)

\* A request that is put in the queue.
LEMMA EnqueueKeeps ==
    ASSUME IInv, NEW r \in Requests, Enqueue(r)
    PROVE  IInv'
<1> USE DEF IInv
<1>1. /\ r \notin submitted /\ submitted' = submitted \cup {r} /\ waiting' = waiting \cup {r}
      /\ live' = live \cup {r} /\ (held' = held \/ held' = held \cup {r})
      /\ dispatching' = TRUE /\ UNCHANGED compute
      /\ config' = config /\ blocked' = blocked /\ taking' = taking /\ taking = {}
      /\ asking' = asking /\ missing' = missing /\ inFlight' = inFlight
      /\ awaited' = awaited /\ memory' = memory /\ ended' = ended
      /\ completed' = completed /\ withdrawn' = withdrawn /\ walking' = walking
      /\ delivering' = delivering
  BY DEF Enqueue, Returned, ends
<1>2. Requests' = Requests /\ Units' = Units /\ Decodes' = Decodes /\ Inputs' = Inputs
      /\ NoDecode' = NoDecode
  BY <1>1, SamePool DEF NoDecode
<1>3. Stands
  <2>1. \A e \in Seated : InputLanded(e)' <=> InputLanded(e)
    BY <1>1 DEF InputLanded
  <2> QED
    BY <1>1, <2>1, ComputeKept
<1>4. QueueTypes'
  BY <1>1, <1>2 DEF QueueTypes
<1>5. StagingTypes'
  <2>1. memory \in [Units -> [Inputs -> SUBSET submitted']]
    BY <1>1 DEF StagingTypes
  <2> QED
    BY <1>1, <1>2, <2>1 DEF StagingTypes
<1>6. EndTypes'
  BY <1>1, <1>2, <1>3 DEF EndTypes, Stands
<1>7. Apart'
  <2>1. Known' \subseteq Known
    BY <1>1, <1>3 DEF Stands, Known
  <2> QED
    BY <1>1, <2>1, ApartKeeps
<1>8. BeforeStart'
  BY <1>1, <1>3 DEF BeforeStart, Stands
<1>9. AfterStart'
  <2>1. \A d \in completed : d \subseteq submitted
    BY DEF EndTypes, Apart, Known
  <2>2. \A d \in completed : d \cap (live' \cup taking') = {}
    BY <1>1, <2>1 DEF AfterStart
  <2>3. \A d : KindOf(d)' = KindOf(d)
    BY <1>1, SameKind
  <2> QED
    BY <1>1, <1>3, <2>2, <2>3 DEF AfterStart, Stands
<1> QED
  BY <1>3, <1>4, <1>5, <1>6, <1>7, <1>8, <1>9 DEF Stands

\* A call or a step that only moves requests between the live and the taken,
\* or starts or ends the loop.
LEMMA LedgerKeeps ==
    ASSUME IInv, config' = config, submitted' = submitted, waiting' = waiting,
           blocked' \subseteq blocked, live' \cup taking' \subseteq live \cup taking,
           live' \cap taking' = {}, dispatching' \in BOOLEAN,
           UNCHANGED <<compute, asking, staging, ends, delivering>>
    PROVE  IInv'
<1> USE DEF IInv
<1>1. /\ UNCHANGED compute /\ asking' = asking /\ missing' = missing /\ inFlight' = inFlight
      /\ awaited' = awaited /\ memory' = memory /\ held' = held /\ ended' = ended
      /\ completed' = completed /\ withdrawn' = withdrawn /\ walking' = walking
      /\ delivering' = delivering
  BY DEF ends, staging
<1>2. Requests' = Requests /\ Units' = Units /\ Decodes' = Decodes /\ Inputs' = Inputs
      /\ NoDecode' = NoDecode
  BY <1>1, SamePool DEF NoDecode
<1>3. Stands
  <2>1. \A e \in Seated : InputLanded(e)' <=> InputLanded(e)
    BY <1>1 DEF InputLanded
  <2> QED
    BY <1>1, <2>1, ComputeKept
<1>4. QueueTypes'
  BY <1>1, <1>2 DEF QueueTypes
<1>5. StagingTypes'
  BY <1>1, <1>2 DEF StagingTypes
<1>6. EndTypes'
  BY <1>1, <1>2, <1>3 DEF EndTypes, Stands
<1>7. Apart'
  <2>1. Known' \subseteq Known
    BY <1>1, <1>3 DEF Stands, Known
  <2> QED
    BY <1>1, <2>1, ApartKeeps
<1>8. BeforeStart'
  BY <1>1, <1>3 DEF BeforeStart, Stands
<1>9. AfterStart'
  <2>1. \A d \in completed : d \cap (live' \cup taking') = {}
    BY DEF AfterStart
  <2>2. \A d : KindOf(d)' = KindOf(d)
    BY <1>1, SameKind
  <2> QED
    BY <1>1, <1>3, <2>1, <2>2 DEF AfterStart, Stands
<1> QED
  BY <1>3, <1>4, <1>5, <1>6, <1>7, <1>8, <1>9 DEF Stands

\* The arrival of a window's last boundary keeps the pool in order.
LEMMA ReleaseWindowKeeps ==
    ASSUME IInv, NEW i, ReleaseWindow(i)
    PROVE  IInv'
<1>1. /\ config' = config /\ submitted' = submitted /\ waiting' = waiting
      /\ blocked' \subseteq blocked /\ live' = live /\ taking' = taking
      /\ dispatching' \in BOOLEAN
      /\ UNCHANGED <<compute, asking, staging, ends, delivering>>
  BY DEF ReleaseWindow
<1>2. live' \cap taking' = {}
  BY <1>1 DEF IInv, QueueTypes
<1> QED
  BY <1>1, <1>2, LedgerKeeps

\* A call that begins to take requests back keeps the pool in order.
LEMMA WithdrawKeeps ==
    ASSUME IInv, NEW i, Withdraw(i) \/ CancelStrong(i)
    PROVE  IInv'
<1>1. /\ config' = config /\ submitted' = submitted /\ waiting' = waiting
      /\ blocked' = blocked /\ live' = live \ taking' /\ taking' \subseteq live
      /\ dispatching' = dispatching
      /\ UNCHANGED <<compute, asking, staging, ends, delivering>>
  BY DEF Withdraw, CancelStrong, LiveOn
<1>2. dispatching \in BOOLEAN
  BY DEF IInv, EndTypes
<1> QED
  BY <1>1, <1>2, LedgerKeeps

\* The end of the dispatch loop keeps the pool in order.
LEMMA DispatchEndsKeeps ==
    ASSUME IInv, DispatchEnds
    PROVE  IInv'
<1>1. /\ config' = config /\ submitted' = submitted /\ waiting' = waiting
      /\ blocked' = blocked /\ live' = live /\ taking' = taking /\ dispatching' = FALSE
      /\ UNCHANGED <<compute, asking, staging, ends, delivering>>
  BY DEF DispatchEnds, queue
<1>2. live' \cap taking' = {}
  BY <1>1 DEF IInv, QueueTypes
<1> QED
  BY <1>1, <1>2, LedgerKeeps

\* The window side reads the result its unit was blocked on.
LEMMA ReadKeeps ==
    ASSUME IInv, NEW d, Read(d)
    PROVE  IInv'
<1> USE DEF IInv
<1>1. /\ config.blocksUnit /\ d \in completed /\ KindOf(d) = "window" /\ IsResident(d)
      /\ Free(d) /\ dispatching' = TRUE
      /\ config' = config /\ submitted' = submitted /\ waiting' = waiting
      /\ blocked' = blocked /\ live' = live /\ taking' = taking
      /\ asking' = asking /\ missing' = missing /\ inFlight' = inFlight
      /\ awaited' = awaited /\ memory' = memory /\ held' = held /\ ended' = ended
      /\ completed' = completed /\ withdrawn' = withdrawn /\ walking' = walking
      /\ delivering' = delivering
  BY DEF Read, ends, staging, queue
<1>2. Requests' = Requests /\ Units' = Units /\ Decodes' = Decodes /\ Inputs' = Inputs
      /\ NoDecode' = NoDecode
  BY <1>1, SamePool DEF NoDecode
<1>3. d \in started /\ d \in Decodes /\ d \in Seated
  BY <1>1 DEF EndTypes, ComputeInv, ComputeTypes, Seated
<1>4. Leaves(d)
  <2>1. \A e \in Seated \ {d} : InputLanded(e)' <=> InputLanded(e)
    BY <1>1, <1>3, OthersStayLanded DEF Known
  <2> QED
    BY <1>1, <1>3, <2>1, SeatedPastStart, FreeKeeps DEF QueueTypes
<1>5. QueueTypes'
  BY <1>1, <1>2 DEF QueueTypes
<1>6. StagingTypes'
  BY <1>1, <1>2 DEF StagingTypes
<1>7. EndTypes'
  BY <1>1, <1>2, <1>4 DEF EndTypes, Leaves
<1>8. Apart'
  BY <1>1, <1>3, <1>4, KnownLeaves, ApartKeeps
<1>9. BeforeStart'
  BY <1>1, <1>3, <1>4, BeforeStartLeaves
<1>10. AfterStart'
  <2>1. /\ Seated' = Seated \ {d}
        /\ \A e \in started' : e \in started \/ e \in Seated \ {d}
    BY <1>4 DEF Leaves
  <2>2. walking = {}
    BY <1>1 DEF AfterStart
  <2>3. \A e : KindOf(e)' = KindOf(e)
    BY <1>1, SameKind
  <2>4. d \in ended
    BY <1>1 DEF EndTypes
  <2> QED
    BY <1>1, <2>1, <2>2, <2>3, <2>4 DEF AfterStart
<1> QED
  BY <1>4, <1>5, <1>6, <1>7, <1>8, <1>9, <1>10 DEF Leaves

-----------------------------------------------------------------------------
(* Requests are taken back *)

\* Neither a release nor a cancel adds a reader.
LEMMA ReleaseTypes ==
    ASSUME config' = config, StagingTypes, submitted' = submitted, NEW R, Release(R)
    PROVE  /\ memory' \in [Units -> [Inputs -> SUBSET submitted]] /\ held' \subseteq submitted
           /\ \A u \in Units, i \in Inputs : memory'[u][i] = memory[u][i] \ R
<1>1. memory' = [u \in Units |-> [i \in Inputs |-> memory[u][i] \ R]] /\ held' = held \ R
  BY DEF Release, WithoutReaders
<1>2. \A u \in Units : \A i \in Inputs : memory[u][i] \subseteq submitted
  BY DEF StagingTypes
<1>3. held' \subseteq submitted
  BY <1>1 DEF StagingTypes
<1>4. memory' \in [Units -> [Inputs -> SUBSET submitted]]
  BY <1>1, <1>2
<1>5. \A u \in Units, i \in Inputs : memory'[u][i] = memory[u][i] \ R
  BY <1>1
<1> QED
  BY <1>3, <1>4, <1>5

\* A call that leaves every decode where it is.
LEMMA TakeBackInPlaceKeeps ==
    ASSUME IInv, NEW r \in taking, taking' = taking \ {r},
           waiting' \subseteq waiting, dispatching' = (taking' = {}),
           Release({r}) \/ (memory' = memory /\ held' = held),
           UNCHANGED <<config, submitted, blocked, live, compute, asking, missing, inFlight,
                       awaited, withdrawn, ended, completed, walking, delivering>>
    PROVE  IInv'
<1> USE DEF IInv
<1>1. Requests' = Requests /\ Units' = Units /\ Decodes' = Decodes /\ Inputs' = Inputs
      /\ NoDecode' = NoDecode
  BY SamePool DEF NoDecode
<1>2. Stands
  <2>1. \A e \in Seated : InputLanded(e)' <=> InputLanded(e)
    BY DEF InputLanded
  <2> QED
    BY <2>1, ComputeKept
<1>3. QueueTypes'
  BY <1>1 DEF QueueTypes
<1>4. StagingTypes'
  <2>1. memory' \in [Units -> [Inputs -> SUBSET submitted]] /\ held' \subseteq submitted
    BY ReleaseTypes DEF StagingTypes
  <2> QED
    BY <1>1, <2>1 DEF StagingTypes
<1>5. EndTypes'
  <2>1. dispatching' \in BOOLEAN
    OBVIOUS
  <2> QED
    BY <1>1, <1>2, <2>1 DEF EndTypes, Stands
<1>6. Apart'
  <2>1. Known' \subseteq Known
    BY <1>2 DEF Stands, Known
  <2> QED
    BY <2>1, ApartKeeps
<1>7. BeforeStart'
  BY <1>2 DEF BeforeStart, Stands
<1>8. AfterStart'
  <2>1. \A d \in completed : d \cap (live' \cup taking') = {}
    BY DEF AfterStart
  <2>2. \A d : KindOf(d)' = KindOf(d)
    BY SameKind
  <2> QED
    BY <1>1, <1>2, <2>1, <2>2 DEF AfterStart, Stands
<1> QED
  BY <1>2, <1>3, <1>4, <1>5, <1>6, <1>7, <1>8 DEF Stands

\* A decode taken back leaves its unit, whether it has started or not.
LEMMA TakeBackDecodeKeeps ==
    ASSUME IInv, NEW r \in taking, taking' = taking \ {r}, NEW d \in Seated, r \in d,
           withdrawn' = withdrawn \cup {d}, CancelInputs(d, UnitOf(d)),
           (d \in started /\ Free(d)) \/ (d \notin started /\ Evict(d, UnitOf(d))),
           dispatching' \in BOOLEAN, config' = config,
           UNCHANGED <<submitted, waiting, blocked, live, asking, ended, completed, walking,
                       delivering>>
    PROVE  IInv'
<1> USE DEF IInv
<1>1. Requests' = Requests /\ Units' = Units /\ Decodes' = Decodes /\ Inputs' = Inputs
      /\ NoDecode' = NoDecode
  BY SamePool DEF NoDecode
<1>2. d \in Decodes /\ IsResident(d)
  BY DEF Seated
<1>3. d \notin completed /\ d \notin ended
  <2>1. d \notin completed
    BY DEF AfterStart
  <2> QED
    BY <2>1 DEF AfterStart, BeforeStart
<1>4. Release(d) /\ missing' = missing \ d /\ inFlight' = inFlight \ d /\ awaited' \subseteq awaited
  BY DEF CancelInputs
<1>5. Leaves(d)
  <2>1. \A e \in Seated \ {d} : InputLanded(e)' <=> InputLanded(e)
    BY <1>4, OthersStayLanded DEF Known
  <2>2. config \in Settings
    BY DEF QueueTypes
  <2>3. CASE d \in started /\ Free(d)
    BY <1>2, <2>1, <2>2, <2>3, SeatedPastStart, FreeKeeps
  <2>4. CASE d \notin started /\ Evict(d, UnitOf(d))
    BY <1>2, <2>1, <2>2, <2>4, SeatedPastStart, EvictKeeps
  <2> QED
    BY <2>3, <2>4
<1>6. QueueTypes'
  BY <1>1 DEF QueueTypes
<1>7. StagingTypes'
  <2>1. memory' \in [Units -> [Inputs -> SUBSET submitted]] /\ held' \subseteq submitted
    BY <1>4, ReleaseTypes
  <2> QED
    BY <1>1, <1>4, <2>1 DEF StagingTypes
<1>8. EndTypes'
  BY <1>1, <1>2, <1>3, <1>5 DEF EndTypes, Leaves
<1>9. Apart'
  <2>1. Known' \subseteq Known
    BY <1>5, KnownLeaves
  <2> QED
    BY <2>1, ApartKeeps
<1>10. BeforeStart'
  BY <1>4, <1>5, BeforeStartLeaves
<1>11. AfterStart'
  <2>1. /\ Seated' = Seated \ {d}
        /\ \A e \in started' : e \in started \/ e \in Seated \ {d}
    BY <1>5 DEF Leaves
  <2>2. d \notin walking
    BY <1>3 DEF EndTypes
  <2>3. \A e : KindOf(e)' = KindOf(e)
    BY SameKind
  <2> QED
    BY <1>3, <2>1, <2>2, <2>3 DEF AfterStart
<1> QED
  BY <1>5, <1>6, <1>7, <1>8, <1>9, <1>10, <1>11 DEF Leaves

\* A request is taken back from the queue, from a unit's slot or from its run.
LEMMA TakeBackKeeps ==
    ASSUME IInv, NEW r, TakeBack(r)
    PROVE  IInv'
<1>1. /\ r \in taking /\ taking' = taking \ {r}
      /\ config' = config /\ submitted' = submitted /\ blocked' = blocked /\ live' = live
      /\ asking' = asking /\ ended' = ended /\ completed' = completed /\ walking' = walking
      /\ delivering' = delivering
  BY DEF TakeBack
<1>2. CASE TakeBackQueued(r)
  <2>1. /\ waiting' \subseteq waiting /\ Release({r}) /\ dispatching' = (taking' = {})
        /\ UNCHANGED <<compute, missing, inFlight, awaited, withdrawn>>
    BY <1>2 DEF TakeBackQueued
  <2> QED
    BY <1>1, <2>1, TakeBackInPlaceKeeps
<1>3. ASSUME NEW u \in Units, NEW d \in Holding(u), r \in d,
             \/ TakeBackStagedMember(d) \/ TakeBackStaged(d)
             \/ TakeBackRunningMember(r, d) \/ TakeBackRunning(d)
      PROVE  IInv'
  <2>1. d \in Seated
    BY SeatedFacts DEF IInv
  <2>2. CASE TakeBackStagedMember(d)
    <3>1. /\ waiting' \subseteq waiting /\ memory' = memory /\ held' = held
          /\ dispatching' = (taking' = {})
          /\ UNCHANGED <<compute, missing, inFlight, awaited, withdrawn>>
      BY <2>2 DEF TakeBackStagedMember, staging
    <3> QED
      BY <1>1, <3>1, TakeBackInPlaceKeeps
  <2>3. CASE TakeBackRunningMember(r, d)
    <3>1. /\ waiting' \subseteq waiting /\ Release({r}) /\ dispatching' = (taking' = {})
          /\ UNCHANGED <<compute, missing, inFlight, awaited, withdrawn>>
      BY <2>3 DEF TakeBackRunningMember
    <3> QED
      BY <1>1, <3>1, TakeBackInPlaceKeeps
  <2>4. CASE TakeBackStaged(d)
    <3>1. /\ d \notin started /\ Evict(d, UnitOf(d)) /\ CancelInputs(d, UnitOf(d))
          /\ withdrawn' = withdrawn \cup {d} /\ waiting' = waiting
      BY <2>4 DEF TakeBackStaged
    <3>2. dispatching' \in BOOLEAN
      BY <2>4 DEF TakeBackStaged
    <3> QED
      BY <1>1, <1>3, <2>1, <3>1, <3>2, TakeBackDecodeKeeps
  <2>5. CASE TakeBackRunning(d)
    <3>1. /\ d \in started /\ Free(d) /\ CancelInputs(d, UnitOf(d))
          /\ withdrawn' = withdrawn \cup {d} /\ waiting' = waiting /\ dispatching' \in BOOLEAN
      BY <2>5 DEF TakeBackRunning
    <3> QED
      BY <1>1, <1>3, <2>1, <3>1, TakeBackDecodeKeeps
  <2> QED
    BY <1>3, <2>2, <2>3, <2>4, <2>5
<1> QED
  BY <1>2, <1>3 DEF TakeBack

-----------------------------------------------------------------------------
(* Requests are dispatched *)

\* A candidate is a decode that is not known yet.
LEMMA CandidateFacts ==
    ASSUME IInv, NEW d \in Candidates
    PROVE  d \in Decodes /\ d \subseteq waiting /\ d \notin Known
<1>1. d # {} /\ d \subseteq Startable
  BY DEF Candidates, NoDecode
<1>2. d \subseteq waiting
  BY <1>1 DEF Startable
<1>3. d \in Decodes
  BY <1>1, <1>2 DEF Decodes, IInv, QueueTypes
<1>4. d \notin Known
  BY <1>1, <1>2 DEF IInv, Apart
<1> QED
  BY <1>2, <1>3, <1>4

\* The unit a decode is dispatched to: the free one, or one that stages it.
DispatchedTo(d, u) ==
    /\ HasRoom(u, d) /\ Admit(d, u) /\ config' = config
    /\ \/ /\ u \in Range(free)
          /\ free' = RemoveFirst(free, u) /\ holder' = [holder EXCEPT ![u] = d]
       \/ u \notin Range(free) /\ free' = free /\ holder' = holder

\* A decode is dispatched to one unit, and no unit but a free one changes hands.
LEMMA DispatchPlace ==
    ASSUME IInv, NEW d \in Candidates,
           DispatchToCompute(d) \/ \E u \in Units : DispatchToStage(d, u)
    PROVE  \E u \in Units : DispatchedTo(d, u)
<1> USE DEF IInv, DispatchedTo
<1>1. CASE DispatchToCompute(d)
  <2> DEFINE places == FreeWithRoom(d)
             near   == {i \in places : InputIsOn(free[i], d)}
             u      == FreeUnitFor(d)
  <2>1. places # {} /\ places \subseteq DOMAIN free /\ \A i \in places : HasRoom(free[i], d)
    BY <1>1 DEF DispatchToCompute, FreeWithRoom
  <2>2. free \in Seq(Units)
    BY DEF ComputeInv, ComputeTypes
  <2>3. \E i \in places : u = free[i]
    <3>1. CASE near # {}
      <4>1. near \subseteq DOMAIN free /\ near \subseteq places
        BY <2>1
      <4>2. Min(near) \in near
        BY <2>2, <3>1, <4>1, FirstPlace
      <4>3. u = free[Min(near)]
        BY <3>1 DEF FreeUnitFor
      <4> QED
        BY <4>1, <4>2, <4>3
    <3>2. CASE near = {}
      <4>1. Min(places) \in places
        BY <2>1, <2>2, FirstPlace
      <4>2. u = free[Min(places)]
        BY <3>2 DEF FreeUnitFor
      <4> QED
        BY <4>1, <4>2
    <3> QED
      BY <3>1, <3>2
  <2>4. HasRoom(u, d) /\ u \in Range(free) /\ u \in Units
    BY <2>1, <2>2, <2>3 DEF Range
  <2>5. /\ free' = RemoveFirst(free, u) /\ holder' = [holder EXCEPT ![u] = d]
        /\ Admit(d, u)
    BY <1>1 DEF DispatchToCompute
  <2> QED
    BY <2>4, <2>5 DEF Admit
<1>2. CASE \E u \in Units : DispatchToStage(d, u)
  <2>1. PICK u \in Units : DispatchToStage(d, u)
    BY <1>2
  <2>2. FreeWithRoom(d) = {} /\ HasRoom(u, d) /\ Admit(d, u)
        /\ free' = free /\ holder' = holder /\ config' = config
    BY <2>1 DEF DispatchToStage
  <2>3. u \notin Range(free)
    BY <2>2 DEF FreeWithRoom, Range
  <2> QED
    BY <2>2, <2>3
<1> QED
  BY <1>1, <1>2

\* A decode is dispatched to free compute or staged behind a holder.
LEMMA DispatchKeeps ==
    ASSUME IInv, NEW d \in Candidates,
           DispatchToCompute(d) \/ \E u \in Units : DispatchToStage(d, u)
    PROVE  IInv'
<1> USE DEF IInv
<1>1. d \in Decodes /\ d \subseteq waiting /\ d \notin Known
  BY CandidateFacts
<1>2. d \notin Seated /\ d \notin started /\ d \notin withdrawn /\ d \notin asking
      /\ d \notin completed /\ d \notin ended /\ d \notin walking /\ d # delivering
  BY <1>1, NoDecodeFacts DEF Known, EndTypes
<1>3. PICK u \in Units : DispatchedTo(d, u)
  BY DispatchPlace
<1> USE DEF DispatchedTo
<1>4. /\ residents' = [residents EXCEPT ![u] = Append(@, d)]
      /\ waiting' = waiting \ d /\ asking' = asking \cup {d}
      /\ submitted' = submitted /\ blocked' = blocked /\ live' = live /\ taking' = taking
      /\ running' = running /\ device_queue' = device_queue /\ started' = started
      /\ missing' = missing /\ inFlight' = inFlight /\ awaited' = awaited
      /\ memory' = memory /\ held' = held /\ ended' = ended /\ completed' = completed
      /\ withdrawn' = withdrawn /\ walking' = walking /\ dispatching' = dispatching
      /\ delivering' = delivering
  BY <1>3 DEF Admit, staging, ends
<1>5. Requests' = Requests /\ Units' = Units /\ Decodes' = Decodes /\ Inputs' = Inputs
      /\ NoDecode' = NoDecode
  BY <1>3, SamePool DEF NoDecode
<1>6. Joins(d)
  <2>1. config \in Settings
    BY DEF QueueTypes
  <2> QED
    BY <1>1, <1>2, <1>3, <1>4, <2>1, AdmitKeeps
<1>7. Seated' = Seated \cup {d} /\ Known' = Known \cup {d}
  BY <1>4, <1>6 DEF Joins, Known
<1>8. QueueTypes'
  BY <1>3, <1>4, <1>5 DEF QueueTypes
<1>9. StagingTypes'
  BY <1>4, <1>5 DEF StagingTypes
<1>10. EndTypes'
  BY <1>1, <1>4, <1>5 DEF EndTypes
<1>11. Apart'
  <2>1. d \subseteq submitted
    BY <1>1 DEF QueueTypes
  <2>2. \A e \in Known : e \cap d = {}
    BY <1>1 DEF Apart
  <2>3. \A e \in Known' : e \subseteq submitted' /\ e \cap waiting' = {}
    BY <1>4, <1>7, <2>1 DEF Apart
  <2>4. \A e, f \in Known' : e \cap f # {} => e = f
    <3> SUFFICES ASSUME NEW e \in Known', NEW f \in Known', e \cap f # {}
                 PROVE  e = f
      OBVIOUS
    <3> QED
      BY <1>7, <2>2 DEF Apart
  <2> QED
    BY <2>3, <2>4 DEF Apart
<1>12. BeforeStart'
  <2>1. Seated' \cap withdrawn' = {}
    BY <1>2, <1>4, <1>7 DEF BeforeStart
  <2>2. \A e \in asking' : e \notin started' /\ e \in Seated' \cup withdrawn'
    BY <1>2, <1>4, <1>7 DEF BeforeStart
  <2>3. ASSUME NEW r \in missing'
        PROVE  \E e \in Seated' : r \in e /\ e \notin asking' \cup started'
    <3>1. PICK e \in Seated : r \in e /\ e \notin asking \cup started
      BY <1>4, <2>3 DEF BeforeStart
    <3> QED
      BY <1>2, <1>4, <1>7, <3>1
  <2> QED
    BY <2>1, <2>2, <2>3 DEF BeforeStart
<1>13. AfterStart'
  <2>1. \A e : KindOf(e)' = KindOf(e)
    BY <1>3, SameKind
  <2> QED
    BY <1>2, <1>3, <1>4, <1>7, <2>1 DEF AfterStart
<1> QED
  BY <1>6, <1>8, <1>9, <1>10, <1>11, <1>12, <1>13 DEF Joins

-----------------------------------------------------------------------------
(* Inputs are asked for and land *)

\* The requests of a decode that asks are not on their way yet.
LEMMA AskingHasNothingMissing ==
    ASSUME IInv, NEW d \in asking
    PROVE  d \cap missing = {} /\ d \notin started
<1>1. ASSUME NEW r \in d \cap missing
      PROVE  FALSE
  <2>1. PICK e \in Seated : r \in e /\ e \notin asking \cup started
    BY DEF IInv, BeforeStart
  <2>2. e = d
    BY <2>1 DEF IInv, Apart, Known
  <2> QED
    BY <2>1, <2>2
<1> QED
  BY <1>1 DEF IInv, BeforeStart

\* A landing or an asking: what it keeps beside its own variables.
LEMMA LandsKeeps ==
    ASSUME IInv, NEW D, Lands(D), config' = config,
           \A e \in D : e \in Seated /\ InputLanded(e)',
           asking' \subseteq asking,
           \A r \in missing' : \/ r \in missing
                               \/ \E e \in Seated : r \in e /\ e \notin started /\ e \notin asking',
           UNCHANGED <<queue, taking, ends, dispatching, delivering>>
    PROVE  QueueTypes' /\ EndTypes' /\ Apart' /\ BeforeStart' /\ AfterStart'
<1> USE DEF IInv
<1>1. /\ submitted' = submitted /\ waiting' = waiting /\ blocked' = blocked /\ live' = live
      /\ taking' = taking /\ ended' = ended /\ completed' = completed
      /\ withdrawn' = withdrawn /\ walking' = walking /\ dispatching' = dispatching
      /\ delivering' = delivering
  BY DEF queue, ends
<1>2. Requests' = Requests /\ Units' = Units /\ Decodes' = Decodes /\ NoDecode' = NoDecode
  BY SamePool DEF NoDecode
<1>3. /\ Seated' = Seated /\ started \subseteq started'
      /\ \A e \in started' : e \in started \/ e \in D
  BY DEF Lands
<1>4. QueueTypes'
  BY <1>1, <1>2 DEF QueueTypes
<1>5. EndTypes'
  BY <1>1, <1>2, <1>3 DEF EndTypes
<1>6. Apart'
  <2>1. Known' \subseteq Known
    BY <1>1, <1>3 DEF Known
  <2> QED
    BY <1>1, <2>1, ApartKeeps
<1>7. BeforeStart'
  <2>1. \A e \in D : e \notin asking' /\ e \cap missing' = {}
    BY DEF InputLanded
  <2>2. \A e \in asking' : e \notin started' /\ e \in Seated' \cup withdrawn'
    BY <1>1, <1>3, <2>1 DEF BeforeStart
  <2>3. ASSUME NEW r \in missing'
        PROVE  \E e \in Seated' : r \in e /\ e \notin asking' \cup started'
    <3>1. PICK e \in Seated : r \in e /\ e \notin asking' \cup started
      BY DEF BeforeStart
    <3>2. e \notin D
      BY <2>1, <3>1
    <3> QED
      BY <1>3, <3>1, <3>2
  <2>4. Seated' \cap withdrawn' = {}
    BY <1>1, <1>3 DEF BeforeStart
  <2> QED
    BY <2>2, <2>3, <2>4 DEF BeforeStart
<1>8. AfterStart'
  <2>1. \A e : KindOf(e)' = KindOf(e)
    BY SameKind
  <2> QED
    BY <1>1, <1>3, <2>1 DEF AfterStart
<1> QED
  BY <1>4, <1>5, <1>6, <1>7, <1>8

\* Unit u's memory gains the readers R, each of its own input, and no other
\* unit's memory changes.
MemoryGains(u, R) ==
    \A v \in Units, i \in Inputs :
        memory'[v][i] = IF v = u THEN memory[v][i] \cup {r \in R : InputOf[r] = i}
                        ELSE memory[v][i]

\* New readers of the memory are requests of the pool.
LEMMA ReadersTypes ==
    ASSUME IInv, NEW u \in Units, NEW R, R \subseteq submitted,
           memory' = ReadersAdded(u, R)
    PROVE  /\ memory' \in [Units -> [Inputs -> SUBSET submitted]]
           /\ MemoryGains(u, R)
<1> DEFINE added == [i \in Inputs |-> memory[u][i] \cup {r \in R : InputOf[r] = i}]
<1>1. memory' = [memory EXCEPT ![u] = added]
  BY DEF ReadersAdded
<1>2. memory \in [Units -> [Inputs -> SUBSET submitted]]
  BY DEF IInv, StagingTypes
<1>3. added \in [Inputs -> SUBSET submitted]
  <2>1. ASSUME NEW i \in Inputs
        PROVE  memory[u][i] \cup {r \in R : InputOf[r] = i} \in SUBSET submitted
    BY <1>2
  <2> QED
    BY <2>1
<1>4. \A i \in Inputs : added[i] = memory[u][i] \cup {r \in R : InputOf[r] = i}
  OBVIOUS
<1> HIDE DEF added
<1>5. memory' \in [Units -> [Inputs -> SUBSET submitted]]
  BY <1>1, <1>2, <1>3
<1>6. \A v \in Units : memory'[v] = IF v = u THEN added ELSE memory[v]
  BY <1>1, <1>2
<1>7. MemoryGains(u, R)
  BY <1>4, <1>6 DEF MemoryGains
<1> QED
  BY <1>5, <1>7

\* A dispatched decode asks for its input, or is found withdrawn.
LEMMA AskKeeps ==
    ASSUME IInv, NEW d, Ask(d)
    PROVE  IInv'
<1> USE DEF IInv
<1>1. /\ d \in asking /\ asking' = asking \ {d}
      /\ UNCHANGED <<config, queue, taking, ends, dispatching, delivering>>
  BY DEF Ask
<1>2. d \in Decodes /\ d \in Known /\ d \notin started /\ d \cap missing = {}
  BY <1>1, AskingHasNothingMissing DEF EndTypes, Known
<1>3. Requests' = Requests /\ Units' = Units /\ Decodes' = Decodes /\ Inputs' = Inputs
      /\ submitted' = submitted
  BY <1>1, SamePool DEF queue
<1>4. CASE AskWithdrawn(d)
  <2>1. /\ d \in withdrawn /\ UNCHANGED compute /\ missing' = missing /\ inFlight' = inFlight
        /\ awaited' = awaited /\ memory' = memory /\ held' = held
    BY <1>4 DEF AskWithdrawn, staging
  <2>2. d \notin Seated
    BY <2>1 DEF BeforeStart
  <2>3. Stands
    <3>1. \A e \in Seated : InputLanded(e)' <=> InputLanded(e)
      BY <1>1, <2>1, <2>2 DEF InputLanded
    <3> QED
      BY <1>1, <2>1, <3>1, ComputeKept
  <2>4. Lands({})
    BY <2>3 DEF Stands, Lands
  <2>5. StagingTypes'
    BY <1>3, <2>1 DEF StagingTypes
  <2>6. QueueTypes' /\ EndTypes' /\ Apart' /\ BeforeStart' /\ AfterStart'
    BY <1>1, <2>1, <2>4, LandsKeeps
  <2> QED
    BY <2>4, <2>5, <2>6 DEF Lands
<1>5. CASE AskForInput(d)
  <2> DEFINE u       == UnitOf(d)
             asked   == IF IsBatch(d) THEN d \cap live ELSE d
             reads   == {r \in asked : memory[u][InputOf[r]] # {}}
             joins   == {r \in asked : <<u, InputOf[r]>> \in awaited}
             atOnce  == reads \cup {r \in asked : Kind[r] = "external"}
             sends   == asked \ (atOnce \cup joins)
             D       == IF asked = atOnce THEN {d} ELSE {}
  <2>1. /\ d \notin withdrawn
        /\ memory' = ReadersAdded(u, atOnce)
        /\ held' = held \ atOnce
        /\ missing' = missing \cup (asked \ atOnce)
        /\ inFlight' = inFlight \cup sends
        /\ awaited' = awaited \cup ({u} \X InputsOf(sends))
        /\ LandOn(u, D)
    BY <1>5, Zenon DEF AskForInput
  <2>2. asked \subseteq d /\ atOnce \subseteq asked /\ sends \subseteq asked \ atOnce
    OBVIOUS
  <2>3. D = IF asked = atOnce THEN {d} ELSE {}
    OBVIOUS
  <2> HIDE DEF u, asked, reads, joins, atOnce, sends, D
  <2>4. d \in Seated
    BY <1>1, <2>1 DEF BeforeStart
  <2>5. u \in Units /\ d \in Holding(u)
    BY <2>4, SeatedFacts DEF u
  <2>6. d \subseteq submitted /\ d \subseteq Requests
    BY <1>2 DEF Apart, QueueTypes
  <2>7. ~ InputLanded(d) /\ (InputLanded(d)' <=> d \in D)
    BY <1>1, <1>2, <2>1, <2>2, <2>3 DEF InputLanded
  <2>8. ASSUME NEW e \in Seated, e # d
        PROVE  (InputLanded(e)' <=> InputLanded(e)) /\ e \notin D
    <3>1. e \cap d = {}
      BY <1>2, <2>8 DEF Apart, Known
    <3>2. e \cap missing' = e \cap missing
      BY <2>1, <2>2, <3>1
    <3> QED
      BY <1>1, <2>3, <2>8, <3>2 DEF InputLanded
  <2>9. Lands(D)
    <3>1. \A e \in Seated : InputLanded(e)' <=> InputLanded(e) \/ e \in D
      BY <2>7, <2>8
    <3>2. \A e \in D : e \in Holding(u) /\ e \notin started /\ ~ InputLanded(e)
      BY <1>2, <2>3, <2>5, <2>7
    <3>3. config \in Settings
      BY DEF QueueTypes
    <3> QED
      BY <2>1, <2>5, <3>1, <3>2, <3>3, LandKeeps
  <2>10. StagingTypes'
    <3>1. memory' \in [Units -> [Inputs -> SUBSET submitted]]
      BY <2>1, <2>2, <2>5, <2>6, ReadersTypes
    <3>2. InputsOf(sends) \subseteq Inputs
      <4>1. \A r \in sends : InputOf[r] \in Inputs
        BY <2>2, <2>6, PoolFacts DEF QueueTypes
      <4> QED
        BY <4>1 DEF InputsOf
    <3>3. awaited' \subseteq Units \X Inputs
      BY <2>1, <2>5, <3>2 DEF StagingTypes
    <3>4. missing' \subseteq submitted /\ inFlight' \subseteq missing'
      BY <2>1, <2>2, <2>6 DEF StagingTypes
    <3>5. held' \subseteq submitted
      BY <2>1 DEF StagingTypes
    <3> QED
      BY <1>3, <3>1, <3>3, <3>4, <3>5 DEF StagingTypes
  <2>11. QueueTypes' /\ EndTypes' /\ Apart' /\ BeforeStart' /\ AfterStart'
    <3>1. \A e \in D : e \in Seated /\ InputLanded(e)'
      BY <2>3, <2>4, <2>7
    <3>2. \A r \in missing' : \/ r \in missing
                              \/ \E e \in Seated : r \in e /\ e \notin started /\ e \notin asking'
      BY <1>1, <1>2, <2>1, <2>2, <2>4
    <3>3. asking' \subseteq asking /\ config' = config
      BY <1>1
    <3> QED
      BY <1>1, <2>9, <3>1, <3>2, <3>3, LandsKeeps
  <2> QED
    BY <2>9, <2>10, <2>11 DEF Lands
<1> QED
  BY <1>4, <1>5 DEF Ask

\* What lands on u with the transfer of r, and for which decodes.
LandsOn(r, u, lands) ==
    /\ r \in inFlight /\ r \in lands /\ lands \subseteq missing
    /\ inFlight' = inFlight \ {r} /\ inFlight' \subseteq missing'
    /\ missing' = missing \ lands /\ awaited' = awaited \ {<<u, InputOf[r]>>}
    /\ memory' = ReadersAdded(u, lands) /\ held' = held \ lands
    /\ LandOn(u, {e \in Holding(u) : e \cap lands # {} /\ e \cap missing \subseteq lands})
    /\ UNCHANGED <<queue, taking, asking, ends, dispatching, delivering>>
    /\ \A e \in Seated : e \cap lands # {} =>
         e \in Holding(u) /\ e \notin asking /\ e \notin started

\* A transfer that arrives lands on one unit, for decodes that sit on it, have
\* not started and ask for nothing.
LEMMA LandingFacts ==
    ASSUME IInv, NEW r, Land(r)
    PROVE  \E u \in Units, lands \in SUBSET missing : LandsOn(r, u, lands)
<1> USE DEF IInv
<1> DEFINE d      == CHOOSE e \in UNION {Holding(u) : u \in Units} : r \in e
           u      == UnitOf(d)
           joined == {s \in missing \ inFlight :
                        InputOf[s] = InputOf[r] /\ {s} \in Holding(u)}
           lands  == joined \cup {r}
           whole  == {e \in Holding(u) : e \cap lands # {} /\ e \cap missing \subseteq lands}
<1>1. /\ r \in inFlight
      /\ inFlight' = inFlight \ {r}
      /\ missing' = missing \ lands
      /\ awaited' = awaited \ {<<u, InputOf[r]>>}
      /\ memory' = ReadersAdded(u, lands)
      /\ held' = held \ lands
      /\ LandOn(u, whole)
      /\ UNCHANGED <<queue, taking, asking, ends, dispatching, delivering>>
  BY Zenon DEF Land
<1>2. PICK x \in Seated : r \in x /\ x \notin asking \cup started
  BY <1>1 DEF StagingTypes, BeforeStart
<1>3. d \in UNION {Holding(v) : v \in Units} /\ r \in d
  <2>1. \E v \in Units : x \in Holding(v)
    BY SeatedFacts
  <2> QED
    BY <1>2, <2>1
<1> HIDE DEF d
<1>4. d \in Seated
  BY <1>3, SeatedFacts
<1>5. d = x
  BY <1>2, <1>3, <1>4 DEF Apart, Known
<1>6. u \in Units /\ d \in Holding(u)
  BY <1>4, SeatedFacts
<1>7. lands \subseteq missing /\ r \in lands
  BY <1>1 DEF StagingTypes
<1>8. \A s \in lands : s = r \/ {s} \in Holding(u)
  OBVIOUS
<1>9. inFlight' \subseteq missing'
  <2>1. inFlight \cap lands = {r}
    BY <1>1
  <2> QED
    BY <1>1, <2>1 DEF StagingTypes
<1>10. whole = {e \in Holding(u) : e \cap lands # {} /\ e \cap missing \subseteq lands}
  OBVIOUS
<1> HIDE DEF u, joined, lands, whole
<1>11. ASSUME NEW e \in Seated, e \cap lands # {}
       PROVE  e \in Holding(u) /\ e \notin asking /\ e \notin started
  <2>1. PICK s \in e : s \in lands
    BY <1>11
  <2>2. CASE s = r
    <3>1. e = d
      BY <1>3, <1>4, <2>1, <2>2 DEF Apart, Known
    <3> QED
      BY <1>2, <1>5, <1>6, <3>1
  <2>3. CASE {s} \in Holding(u)
    <3>1. {s} \in Seated
      BY <1>6, <2>3, SeatedFacts
    <3>2. e = {s}
      BY <2>1, <3>1 DEF Apart, Known
    <3>3. PICK y \in Seated : s \in y /\ y \notin asking \cup started
      BY <1>7, <2>1 DEF BeforeStart
    <3>4. y = e
      BY <2>1, <3>3 DEF Apart, Known
    <3> QED
      BY <2>3, <3>2, <3>3, <3>4
  <2> QED
    BY <1>8, <2>1, <2>2, <2>3
<1>12. LandOn(u, {e \in Holding(u) : e \cap lands # {} /\ e \cap missing \subseteq lands})
  BY <1>1, <1>10
<1>13. LandsOn(r, u, lands)
  BY <1>1, <1>7, <1>9, <1>11, <1>12 DEF LandsOn
<1> QED
  BY <1>6, <1>7, <1>13

\* A transfer lands, for its request and for those that joined it.
LEMMA LandingKeeps ==
    ASSUME IInv, NEW r, Land(r)
    PROVE  IInv'
<1> USE DEF IInv
<1>1. PICK u \in Units, lands \in SUBSET missing : LandsOn(r, u, lands)
  BY LandingFacts
<1> DEFINE whole == {e \in Holding(u) : e \cap lands # {} /\ e \cap missing \subseteq lands}
<1>2. /\ r \in inFlight /\ r \in lands
      /\ inFlight' = inFlight \ {r} /\ inFlight' \subseteq missing'
      /\ missing' = missing \ lands /\ awaited' = awaited \ {<<u, InputOf[r]>>}
      /\ memory' = ReadersAdded(u, lands) /\ held' = held \ lands
      /\ LandOn(u, whole)
      /\ UNCHANGED <<queue, taking, asking, ends, dispatching, delivering>>
  BY <1>1 DEF LandsOn
<1>3. \A e \in Seated : e \cap lands # {} =>
        e \in Holding(u) /\ e \notin asking /\ e \notin started
  BY <1>1 DEF LandsOn
<1>4. whole = {e \in Holding(u) : e \cap lands # {} /\ e \cap missing \subseteq lands}
  OBVIOUS
<1> HIDE DEF whole
<1>5. ASSUME NEW e \in Seated
       PROVE  /\ InputLanded(e)' <=> InputLanded(e) \/ e \in whole
              /\ e \in whole => e \notin started /\ ~ InputLanded(e)
  <2>1. e \cap missing' = (e \cap missing) \ lands /\ asking' = asking
    BY <1>2
  <2>2. CASE e \cap lands = {}
    <3>1. e \cap missing' = e \cap missing
      BY <2>1, <2>2
    <3> QED
      BY <1>4, <2>1, <2>2, <3>1 DEF InputLanded
  <2>3. CASE e \cap lands # {}
    <3>1. e \in Holding(u) /\ e \notin asking /\ e \notin started
      BY <1>3, <2>3
    <3>2. e \cap missing # {}
      BY <2>3
    <3> QED
      BY <1>4, <2>1, <2>3, <3>1, <3>2 DEF InputLanded
  <2> QED
    BY <2>2, <2>3
<1>6. \A e \in whole : e \in Holding(u) /\ e \in Seated
  BY <1>4, SeatedFacts
<1>7. Lands(whole)
  <2>1. \A e \in Seated : InputLanded(e)' <=> InputLanded(e) \/ e \in whole
    BY <1>5
  <2>2. \A e \in whole : e \in Holding(u) /\ e \notin started /\ ~ InputLanded(e)
    BY <1>5, <1>6
  <2>3. config \in Settings
    BY DEF QueueTypes
  <2> QED
    BY <1>2, <2>1, <2>2, <2>3, LandKeeps
<1>8. config' = config /\ submitted' = submitted
  BY <1>2 DEF LandOn, queue
<1>9. StagingTypes'
  <2>1. lands \subseteq submitted
    BY DEF StagingTypes
  <2>2. memory' \in [Units -> [Inputs -> SUBSET submitted]]
    BY <1>2, <2>1, ReadersTypes
  <2>3. awaited' \subseteq Units \X Inputs /\ missing' \subseteq submitted /\ held' \subseteq submitted
    BY <1>2 DEF StagingTypes
  <2>4. Units' = Units /\ Inputs' = Inputs
    BY <1>8, SamePool
  <2> QED
    BY <1>2, <1>8, <2>2, <2>3, <2>4 DEF StagingTypes
<1>10. QueueTypes' /\ EndTypes' /\ Apart' /\ BeforeStart' /\ AfterStart'
  <2>1. \A e \in whole : e \in Seated /\ InputLanded(e)'
    BY <1>5, <1>6
  <2>2. asking' \subseteq asking /\ \A s \in missing' : s \in missing
    BY <1>2
  <2> QED
    BY <1>2, <1>7, <1>8, <2>1, <2>2, LandsKeeps
<1> QED
  BY <1>7, <1>9, <1>10 DEF Lands

-----------------------------------------------------------------------------
(* Decodes end *)

\* A decode under way, not taken back, is on its unit, and none of its requests
\* is being taken back.
LEMMA EndingFacts ==
    ASSUME IInv, AtRest, NEW d \in started \ ended
    PROVE  /\ d \in Decodes /\ d \in Known /\ d \notin completed /\ d \notin walking
           /\ d # NoDecode /\ taking = {} /\ delivering = NoDecode
           /\ d \notin withdrawn => d \in Seated
    BY NoDecodeFacts DEF IInv, EndTypes, ComputeInv, ComputeTypes, Known, AfterStart, AtRest,
       Callable, Returned

\* A decode ends: withdrawn, a window's, or one that gives everything back.
LEMMA DecodeEndsKeeps ==
    ASSUME IInv, NEW d, DecodeEnds(d)
    PROVE  IInv'
<1> USE DEF IInv
<1>1. /\ AtRest /\ d \in started \ ended /\ ended' = ended \cup {d}
      /\ config' = config /\ submitted' = submitted /\ waiting' = waiting
      /\ blocked' = blocked /\ taking' = taking /\ asking' = asking /\ missing' = missing
      /\ inFlight' = inFlight /\ awaited' = awaited /\ withdrawn' = withdrawn
      /\ walking' = walking
  BY DEF DecodeEnds
<1>2. /\ d \in Decodes /\ d \in Known /\ d \notin completed /\ d \notin walking
      /\ d # NoDecode /\ taking = {} /\ delivering = NoDecode
      /\ d \notin withdrawn => d \in Seated
  BY <1>1, EndingFacts
<1>3. Requests' = Requests /\ Units' = Units /\ Decodes' = Decodes /\ Inputs' = Inputs
      /\ NoDecode' = NoDecode
  BY <1>1, SamePool DEF NoDecode
<1>4. \A e \in Seated \ {d} : InputLanded(e)' <=> InputLanded(e)
  BY <1>1 DEF InputLanded
<1>5. \A e \in Seated : InputLanded(e)' <=> InputLanded(e)
  BY <1>1 DEF InputLanded
<1>6. \A e : KindOf(e)' = KindOf(e)
  BY <1>1, SameKind
<1>7. \A e \in completed : e # NoDecode
  BY NoDecodeFacts DEF EndTypes, ComputeInv, ComputeTypes
<1>8. CASE AbortedEnds(d)
  <2>1. /\ d \in withdrawn /\ dispatching' = TRUE /\ UNCHANGED compute
        /\ live' = live /\ memory' = memory /\ held' = held /\ completed' = completed
        /\ delivering' = delivering
    BY <1>8 DEF AbortedEnds
  <2>2. Stands
    BY <1>1, <1>5, <2>1, ComputeKept
  <2>3. QueueTypes' /\ StagingTypes' /\ EndTypes'
    BY <1>1, <1>3, <2>1, <2>2 DEF QueueTypes, StagingTypes, EndTypes, Stands
  <2>4. Apart'
    <3>1. Known' \subseteq Known
      BY <1>1, <2>2 DEF Stands, Known
    <3> QED
      BY <1>1, <3>1, ApartKeeps
  <2>5. BeforeStart'
    BY <1>1, <2>2 DEF BeforeStart, Stands
  <2>6. AfterStart'
    BY <1>1, <1>6, <2>1, <2>2 DEF AfterStart, Stands
  <2> QED
    BY <2>2, <2>3, <2>4, <2>5, <2>6 DEF Stands
<1>9. CASE WindowDecodeEnds(d)
  <2>1. /\ d \notin withdrawn /\ KindOf(d) = "window"
        /\ completed' = completed \cup {d} /\ live' = live \ d /\ delivering' = d
        /\ UNCHANGED compute /\ memory' = memory /\ held' = held
        /\ dispatching' = dispatching
    BY <1>9 DEF WindowDecodeEnds
  <2>2. Stands
    BY <1>1, <1>5, <2>1, ComputeKept
  <2>3. QueueTypes' /\ StagingTypes' /\ EndTypes'
    <3>1. QueueTypes'
      BY <1>1, <1>3, <2>1 DEF QueueTypes
    <3>2. StagingTypes'
      BY <1>1, <1>3, <2>1 DEF StagingTypes
    <3>3. EndTypes'
      BY <1>1, <1>3, <2>1, <2>2 DEF EndTypes, Stands
    <3> QED
      BY <3>1, <3>2, <3>3
  <2>4. Apart'
    <3>1. Known' \subseteq Known
      BY <1>1, <2>2 DEF Stands, Known
    <3> QED
      BY <1>1, <3>1, ApartKeeps
  <2>5. BeforeStart'
    BY <1>1, <2>2 DEF BeforeStart, Stands
  <2>6. AfterStart'
    <3>1. \A e \in completed' : e \cap (live' \cup taking') = {}
      BY <1>1, <1>2, <2>1 DEF AfterStart
    <3>2. \A e \in walking' : e \in Seated' /\ e # delivering'
      BY <1>1, <1>2, <2>1, <2>2 DEF AfterStart, Stands
    <3>3. \A e \in completed' : e \in Seated' =>
            e \in walking' \/ e = delivering' \/ config'.blocksUnit
      BY <1>1, <1>2, <1>7, <2>1, <2>2 DEF AfterStart, Stands
    <3>4. \A e \in completed' : e = delivering' =>
            IF KindOf(e)' = "window" THEN e \in Seated' \/ config'.blocksUnit
                                     ELSE e \notin Seated'
      BY <1>1, <1>2, <1>6, <2>1, <2>2 DEF Stands
    <3>5. /\ \A e \in started' \ ended' : e \in Seated' \cup withdrawn'
          /\ \A e \in ended' : e \in completed' \cup withdrawn'
          /\ walking' # {} => ~ config'.blocksUnit
      BY <1>1, <2>1, <2>2 DEF AfterStart, Stands
    <3> QED
      BY <3>1, <3>2, <3>3, <3>4, <3>5 DEF AfterStart
  <2> QED
    BY <2>2, <2>3, <2>4, <2>5, <2>6 DEF Stands
<1>10. CASE OtherDecodeEnds(d)
  <2>1. /\ d \notin withdrawn /\ KindOf(d) # "window"
        /\ completed' = completed \cup {d} /\ live' = live \ d /\ delivering' = d
        /\ Release(d) /\ Free(d) /\ dispatching' = dispatching
    BY <1>10 DEF OtherDecodeEnds
  <2>2. d \in Seated /\ IsResident(d)
    BY <1>2, <2>1 DEF Seated
  <2>3. Leaves(d)
    BY <1>1, <1>2, <1>4, <2>1, <2>2, SeatedPastStart, FreeKeeps DEF QueueTypes
  <2>4. /\ Seated' = Seated \ {d} /\ started \subseteq started'
        /\ \A e \in started' : e \in started \/ e \in Seated \ {d}
    BY <2>3 DEF Leaves
  <2>5. QueueTypes' /\ StagingTypes' /\ EndTypes'
    <3>1. QueueTypes'
      BY <1>1, <1>3, <2>1 DEF QueueTypes
    <3>2. StagingTypes'
      <4>1. memory' \in [Units -> [Inputs -> SUBSET submitted]] /\ held' \subseteq submitted
        BY <1>1, <2>1, ReleaseTypes
      <4> QED
        BY <1>1, <1>3, <4>1 DEF StagingTypes
    <3>3. EndTypes'
      BY <1>1, <1>3, <2>1, <2>4 DEF EndTypes
    <3> QED
      BY <3>1, <3>2, <3>3
  <2>6. Apart'
    <3>1. Known' \subseteq Known
      BY <1>1, <2>2, <2>3, KnownLeaves
    <3> QED
      BY <1>1, <3>1, ApartKeeps
  <2>7. BeforeStart'
    BY <1>1, <2>2, <2>3, BeforeStartLeaves
  <2>8. AfterStart'
    <3>1. \A e \in completed' : e \cap (live' \cup taking') = {}
      BY <1>1, <1>2, <2>1 DEF AfterStart
    <3>2. \A e \in walking' : e \in Seated' /\ e # delivering'
      BY <1>1, <1>2, <2>1, <2>4 DEF AfterStart
    <3>3. \A e \in completed' : e \in Seated' =>
            e \in walking' \/ e = delivering' \/ config'.blocksUnit
      BY <1>1, <1>2, <1>7, <2>1, <2>4 DEF AfterStart
    <3>4. \A e \in completed' : e = delivering' =>
            IF KindOf(e)' = "window" THEN e \in Seated' \/ config'.blocksUnit
                                     ELSE e \notin Seated'
      BY <1>1, <1>2, <1>6, <2>1, <2>4
    <3>5. /\ \A e \in started' \ ended' : e \in Seated' \cup withdrawn'
          /\ \A e \in ended' : e \in completed' \cup withdrawn'
          /\ walking' # {} => ~ config'.blocksUnit
      BY <1>1, <2>1, <2>4 DEF AfterStart
    <3> QED
      BY <3>1, <3>2, <3>3, <3>4, <3>5 DEF AfterStart
  <2> QED
    BY <2>3, <2>5, <2>6, <2>7, <2>8 DEF Leaves
<1> QED
  BY <1>8, <1>9, <1>10 DEF DecodeEnds

\* A decode that ended keeps its unit or gives it back, and what is delivered
\* or walked on changes.
LEMMA AfterEndKeeps ==
    ASSUME IInv, NEW d, d \in completed,
           \/ UNCHANGED compute
           \/ d \in Seated /\ Free(d),
           Release(d) \/ (memory' = memory /\ held' = held),
           walking' \subseteq completed, delivering' \in {delivering, NoDecode},
           walking' # {} => ~ config.blocksUnit,
           \A e \in walking' : e \in Seated' /\ e # delivering',
           delivering' = delivering /\ delivering = d => config.blocksUnit,
           \A e \in completed : e \in Seated' =>
                e \in walking' \/ e = delivering' \/ config.blocksUnit,
           dispatching' = TRUE,
           UNCHANGED <<config, queue, taking, asking, missing, inFlight, awaited, ended,
                       completed, withdrawn>>
    PROVE  IInv'
<1> USE DEF IInv
<1>1. /\ config' = config /\ submitted' = submitted /\ waiting' = waiting
      /\ blocked' = blocked /\ live' = live /\ taking' = taking /\ asking' = asking
      /\ missing' = missing /\ inFlight' = inFlight /\ awaited' = awaited /\ ended' = ended
      /\ completed' = completed /\ withdrawn' = withdrawn
  BY DEF queue
<1>2. Requests' = Requests /\ Units' = Units /\ Decodes' = Decodes /\ Inputs' = Inputs
      /\ NoDecode' = NoDecode
  BY <1>1, SamePool DEF NoDecode
<1>3. d \in started /\ d \in ended /\ d \in Decodes /\ d \in Known
  BY DEF EndTypes, ComputeInv, ComputeTypes, Known
<1>4. \A e : KindOf(e)' = KindOf(e)
  BY <1>1, SameKind
<1>5. \A e \in completed : e # NoDecode
  BY NoDecodeFacts DEF EndTypes, ComputeInv, ComputeTypes
<1>6. \/ Stands
      \/ d \in Seated /\ Leaves(d)
  <2>1. CASE UNCHANGED compute
    <3>1. \A e \in Seated : InputLanded(e)' <=> InputLanded(e)
      BY <1>1 DEF InputLanded
    <3> QED
      BY <1>1, <2>1, <3>1, ComputeKept
  <2>2. CASE d \in Seated /\ Free(d)
    <3>1. \A e \in Seated \ {d} : InputLanded(e)' <=> InputLanded(e)
      BY <1>1 DEF InputLanded
    <3>2. IsResident(d)
      BY <2>2 DEF Seated
    <3> QED
      BY <1>1, <1>3, <2>2, <3>1, <3>2, SeatedPastStart, FreeKeeps DEF QueueTypes
  <2> QED
    BY <2>1, <2>2
<1>7. /\ ComputeInv' /\ Seated' \subseteq Seated /\ Seated \subseteq Seated' \cup {d}
      /\ started \subseteq started' /\ \A e \in started' : e \in started \/ e \in Seated'
  BY <1>6 DEF Stands, Leaves
<1>8. QueueTypes'
  BY <1>1, <1>2 DEF QueueTypes
<1>9. StagingTypes'
  <2>1. memory' \in [Units -> [Inputs -> SUBSET submitted]] /\ held' \subseteq submitted
    BY <1>1, ReleaseTypes DEF StagingTypes
  <2> QED
    BY <1>1, <1>2, <2>1 DEF StagingTypes
<1>10. EndTypes'
  BY <1>1, <1>2, <1>7 DEF EndTypes
<1>11. Apart'
  <2>1. Known' \subseteq Known
    BY <1>1, <1>7 DEF Known
  <2> QED
    BY <1>1, <2>1, ApartKeeps
<1>12. BeforeStart'
  <2>1. CASE Stands
    BY <1>1, <2>1 DEF BeforeStart, Stands
  <2>2. CASE d \in Seated /\ Leaves(d)
    BY <1>1, <1>3, <2>2, BeforeStartLeaves
  <2> QED
    BY <1>6, <2>1, <2>2
<1>13. AfterStart'
  <2>1. /\ \A e \in started' \ ended' : e \in Seated' \cup withdrawn'
        /\ \A e \in ended' : e \in completed' \cup withdrawn'
        /\ \A e \in completed' : e \cap (live' \cup taking') = {}
    BY <1>1, <1>3, <1>7 DEF AfterStart
  <2>2. \A e \in completed' : e = delivering' =>
          IF KindOf(e)' = "window" THEN e \in Seated' \/ config'.blocksUnit
                                   ELSE e \notin Seated'
    <3> SUFFICES ASSUME NEW e \in completed, e = delivering'
                 PROVE  IF KindOf(e) = "window" THEN e \in Seated' \/ config.blocksUnit
                                                ELSE e \notin Seated'
      BY <1>1, <1>4
    <3>1. e = delivering
      BY <1>5
    <3> QED
      BY <1>7, <3>1 DEF AfterStart
  <2> QED
    BY <1>1, <2>1, <2>2 DEF AfterStart
<1> QED
  BY <1>7, <1>8, <1>9, <1>10, <1>11, <1>12, <1>13

\* A delivered window's decode gives back its unit, unless it is blocked or
\* a confidence walk goes on there.
LEMMA DeliveryEndsKeeps ==
    ASSUME IInv, DeliveryEnds
    PROVE  IInv'
<1> USE DEF IInv
<1> DEFINE d == delivering
<1>1. /\ d # NoDecode /\ delivering' = NoDecode /\ dispatching' = TRUE
      /\ UNCHANGED <<config, queue, taking, asking, missing, inFlight, awaited, ended,
                     completed, withdrawn>>
  BY DEF DeliveryEnds
<1>2. d \in completed
  BY <1>1 DEF EndTypes
<1>3. d \notin walking /\ (walking # {} => ~ config.blocksUnit)
  BY DEF AfterStart
<1>4. \A e \in completed : e # NoDecode
  BY NoDecodeFacts DEF EndTypes, ComputeInv, ComputeTypes
<1>5. \A e \in completed : e \in Seated => e \in walking \/ e = d \/ config.blocksUnit
  BY DEF AfterStart
<1>6. \A e \in walking : e \in Seated /\ e \in completed
  BY DEF AfterStart, EndTypes
<1>7. IF KindOf(d) = "window" THEN d \in Seated \/ config.blocksUnit ELSE d \notin Seated
  BY <1>2 DEF AfterStart
<1>8. config' = config
  BY <1>1
<1>9. CASE UNCHANGED compute /\ walking' = walking
           /\ (KindOf(d) = "window" => config.blocksUnit)
           /\ (Release(d) \/ (memory' = memory /\ held' = held))
  <2>1. Seated' = Seated
    BY <1>8, <1>9, SeatsKept DEF compute
  <2>2. \A e \in completed : e \in Seated' =>
            e \in walking' \/ e = delivering' \/ config.blocksUnit
    BY <1>5, <1>7, <1>9, <2>1
  <2>3. \A e \in walking' : e \in Seated' /\ e # delivering'
    BY <1>1, <1>4, <1>6, <1>9, <2>1
  <2>4. walking' \subseteq completed
    BY <1>6, <1>9
  <2> QED
    BY <1>1, <1>2, <1>3, <1>9, <2>2, <2>3, <2>4, AfterEndKeeps
<1>10. CASE ~ config.blocksUnit /\ KindOf(d) = "window" /\ Release(d) /\ Free(d)
            /\ walking' = walking
  <2>1. d \in Seated
    BY <1>7, <1>10
  <2>2. Seated' = Seated \ {d}
    <3>1. d \in started /\ d \in Decodes /\ IsResident(d) /\ d \in Known
      BY <1>2, <2>1 DEF EndTypes, Seated, Known
    <3>2. \A e \in Seated \ {d} : InputLanded(e)' <=> InputLanded(e)
      BY <1>1, <3>1, OthersStayLanded
    <3>3. Leaves(d)
      BY <1>8, <1>10, <3>1, <3>2, SeatedPastStart, FreeKeeps DEF QueueTypes
    <3> QED
      BY <3>3 DEF Leaves
  <2>3. \A e \in completed : e \in Seated' =>
            e \in walking' \/ e = delivering' \/ config.blocksUnit
    BY <1>5, <1>10, <2>2
  <2>4. \A e \in walking' : e \in Seated' /\ e # delivering'
    BY <1>1, <1>3, <1>4, <1>6, <1>10, <2>2
  <2>5. walking' \subseteq completed
    BY <1>6, <1>10
  <2> QED
    BY <1>1, <1>2, <1>3, <1>10, <2>1, <2>3, <2>4, <2>5, AfterEndKeeps
<1>11. CASE ~ config.blocksUnit /\ KindOf(d) = "window" /\ Release(d) /\ UNCHANGED compute
            /\ walking' = walking \cup {d}
  <2>1. Seated' = Seated
    BY <1>8, <1>11, SeatsKept DEF compute
  <2>2. d \in Seated
    BY <1>7, <1>11
  <2>3. \A e \in completed : e \in Seated' =>
            e \in walking' \/ e = delivering' \/ config.blocksUnit
    BY <1>5, <1>11, <2>1
  <2>4. \A e \in walking' : e \in Seated' /\ e # delivering'
    BY <1>1, <1>4, <1>6, <1>11, <2>1, <2>2
  <2>5. walking' \subseteq completed
    BY <1>2, <1>6, <1>11
  <2> QED
    BY <1>1, <1>2, <1>3, <1>11, <2>3, <2>4, <2>5, AfterEndKeeps
<1>12. \/ /\ UNCHANGED compute /\ walking' = walking
          /\ (KindOf(d) = "window" => config.blocksUnit)
          /\ (Release(d) \/ (memory' = memory /\ held' = held))
       \/ /\ ~ config.blocksUnit /\ KindOf(d) = "window" /\ Release(d) /\ Free(d)
          /\ walking' = walking
       \/ /\ ~ config.blocksUnit /\ KindOf(d) = "window" /\ Release(d) /\ UNCHANGED compute
          /\ walking' = walking \cup {d}
  BY DEF DeliveryEnds
<1> QED
  BY <1>9, <1>10, <1>11, <1>12

\* A confidence walk ends and gives its unit back.
LEMMA WalkEndsKeeps ==
    ASSUME IInv, NEW d, WalkEnds(d)
    PROVE  IInv'
<1> USE DEF IInv
<1>1. /\ AtRest /\ d \in walking /\ walking' = walking \ {d} /\ Free(d) /\ dispatching' = TRUE
      /\ delivering' = delivering /\ memory' = memory /\ held' = held
      /\ UNCHANGED <<config, queue, taking, asking, missing, inFlight, awaited, ended,
                     completed, withdrawn>>
  BY DEF WalkEnds, staging
<1>2. d \in Seated /\ d # delivering /\ d \in completed /\ ~ config.blocksUnit
  BY <1>1 DEF AfterStart, EndTypes
<1>3. Seated' = Seated \ {d}
  <2>1. d \in started /\ d \in Decodes /\ IsResident(d) /\ d \in Known
    BY <1>2 DEF EndTypes, Seated, Known
  <2>2. \A e \in Seated \ {d} : InputLanded(e)' <=> InputLanded(e)
    BY <1>1, <2>1, OthersStayLanded
  <2>3. Leaves(d)
    BY <1>1, <2>1, <2>2, SeatedPastStart, FreeKeeps DEF QueueTypes
  <2> QED
    BY <2>3 DEF Leaves
<1>4. \A e \in completed : e \in Seated' => e \in walking' \/ e = delivering' \/ config.blocksUnit
  BY <1>1, <1>3 DEF AfterStart
<1>5. \A e \in walking' : e \in Seated' /\ e # delivering'
  BY <1>1, <1>3 DEF AfterStart
<1>6. walking' \subseteq completed
  BY <1>1 DEF EndTypes
<1> QED
  BY <1>1, <1>2, <1>4, <1>5, <1>6, AfterEndKeeps

-----------------------------------------------------------------------------
(* The invariant holds *)

\* The invariant holds of a new pool.
LEMMA InitHolds ==
    ASSUME Init
    PROVE  IInv
<1> USE DEF Init
<1>1. IsFiniteSet(Units) /\ config.slotCount \in Nat
  BY PoolFacts
<1>2. /\ free \in Seq(Units) /\ IsInjective(free) /\ Range(free) = Units
  BY <1>1, SetToSeqFacts
<1>3. Range(<<>>) = {} /\ IsInjective(<<>>)
  BY DEF Range, IsInjective
<1>4. \A u \in Units : residents[u] = <<>> /\ Holding(u) = {} /\ holder[u] = NoDecode
  BY <1>3 DEF Holding
<1>5. Seated = {} /\ Holders = {}
  BY <1>4 DEF Seated, IsResident, Holders
<1>6. QueueTypes
  <2>1. config.owes \subseteq Requests
    BY RequestsAssumption DEF Requests
  <2> QED
    BY <2>1 DEF QueueTypes
<1>7. StagingTypes /\ EndTypes
  BY DEF StagingTypes, EndTypes
<1>8. ComputeTypes
  <2>1. Len(<<>>) <= InputSlotCount
    BY DEF InputSlotCount
  <2> QED
    BY <1>2, <2>1 DEF ComputeTypes
<1>9. OneSeat
  BY <1>3, <1>4 DEF OneSeat
<1>10. UnitInv
  BY <1>2, <1>4 DEF UnitInv
<1>11. SlotInv
  <2>1. IsFiniteSet({}) /\ Cardinality({}) = 0
    BY FS_EmptySet
  <2>2. Cardinality({}) <= config.slotCount
    BY <1>1, <2>1
  <2> QED
    BY <1>3, <1>5, <2>1, <2>2 DEF SlotInv, SlotsFit
<1>12. Apart /\ BeforeStart /\ AfterStart
  BY <1>5 DEF Apart, Known, BeforeStart, AfterStart
<1> QED
  BY <1>6, <1>7, <1>8, <1>9, <1>10, <1>11, <1>12 DEF IInv, ComputeInv

\* Every step keeps the pool in order.
LEMMA NextKeeps ==
    ASSUME IInv, Next
    PROVE  IInv'
<1>1. ASSUME NEW r \in Requests, Enqueue(r)
      PROVE  IInv'
  BY <1>1, EnqueueKeeps
<1>2. ASSUME NEW i \in Inputs, ReleaseWindow(i) \/ Withdraw(i) \/ CancelStrong(i)
      PROVE  IInv'
  BY <1>2, ReleaseWindowKeeps, WithdrawKeeps
<1>3. ASSUME NEW d \in completed, Read(d)
      PROVE  IInv'
  BY <1>3, ReadKeeps
<1>4. CASE DeliveryEnds
  BY <1>4, DeliveryEndsKeeps
<1>5. CASE Dispatch
  BY <1>5, DispatchKeeps, DispatchEndsKeeps DEF Dispatch
<1>6. ASSUME NEW r \in taking, TakeBack(r)
      PROVE  IInv'
  BY <1>6, TakeBackKeeps
<1>7. ASSUME NEW d \in asking, Ask(d)
      PROVE  IInv'
  BY <1>7, AskKeeps
<1>8. ASSUME NEW r \in inFlight, Land(r)
      PROVE  IInv'
  BY <1>8, LandingKeeps
<1>9. ASSUME NEW d \in started, DecodeEnds(d)
      PROVE  IInv'
  BY <1>9, DecodeEndsKeeps
<1>10. ASSUME NEW d \in walking, WalkEnds(d)
       PROVE  IInv'
  BY <1>10, WalkEndsKeeps
<1>11. HalfAsked \subseteq Requests
  BY DEF HalfAsked
<1>12. Calls \/ Continues \/ Events
  BY DEF Next
<1>13. CASE Calls
  BY <1>1, <1>2, <1>3, <1>13 DEF Calls
<1>14. CASE Continues
  BY <1>1, <1>4, <1>5, <1>6, <1>11, <1>14 DEF Continues
<1>15. CASE Events
  BY <1>7, <1>8, <1>9, <1>10, <1>15 DEF Events
<1> QED
  BY <1>12, <1>13, <1>14, <1>15

\* A step that changes nothing keeps the pool in order.
LEMMA StutterKeeps ==
    ASSUME IInv, UNCHANGED vars
    PROVE  IInv'
<1>1. /\ UNCHANGED <<compute, asking, staging, ends, delivering>>
      /\ config' = config /\ submitted' = submitted /\ waiting' = waiting
      /\ blocked' = blocked /\ live' = live /\ taking' = taking
      /\ dispatching' = dispatching
  BY DEF vars, queue
<1>2. live' \cap taking' = {} /\ dispatching' \in BOOLEAN
  BY <1>1 DEF IInv, QueueTypes, EndTypes
<1> QED
  BY <1>1, <1>2, LedgerKeeps

\* The pool is always in order: the request side, the decodes' seats, the
\* compute of each unit and the device's slots (the inductive invariant).
THEOREM PoolIsInOrder == Spec => []IInv
<1>1. Init => IInv
  BY InitHolds
<1>2. IInv /\ [Next]_vars => IInv'
  BY NextKeeps, StutterKeeps
<1> QED
  BY <1>1, <1>2, PTL DEF Spec

-----------------------------------------------------------------------------
(* What it implies *)

\* The invariant implies the type invariant.
LEMMA InvariantTypes ==
    ASSUME IInv
    PROVE  TypeOK
<1> USE DEF IInv
<1>1. ASSUME NEW u \in Units
      PROVE  /\ Len(residents[u]) <= InputSlotCount
             /\ \A i \in DOMAIN residents[u] : residents[u][i] \in Decodes
  BY DEF ComputeInv, ComputeTypes
<1>2. /\ \A i \in DOMAIN free : free[i] \in Units
      /\ \A i \in DOMAIN device_queue : device_queue[i] \in Decodes
      /\ holder \in [Units -> Decodes \cup {NoDecode}] /\ started \subseteq Decodes
  BY DEF ComputeInv, ComputeTypes
<1>3. running \subseteq started
  BY DEF ComputeInv, SlotInv, SlotsFit
<1> QED
  BY <1>1, <1>2, <1>3 DEF TypeOK, QueueTypes, StagingTypes, EndTypes

\* In order, units and slots are accounted for.
LEMMA InvariantAccounts ==
    ASSUME IInv
    PROVE  UnitsAccounted /\ SlotsAccounted
<1> USE DEF IInv
<1>1. /\ IsInjective(free)
      /\ \A u \in Units :
        /\ u \in Range(free) <=> holder[u] = NoDecode
        /\ holder[u] # NoDecode => holder[u] \in Holding(u)
  BY DEF ComputeInv, UnitInv
<1>2. UnitsAccounted
  BY <1>1 DEF UnitsAccounted, IsInjective, Range
<1>3. /\ running = started \cap Seated /\ Cardinality(running) <= config.slotCount
      /\ device_queue # <<>> => Cardinality(running) = config.slotCount
      /\ Range(device_queue) = (Holders \cap LandedDecodes) \ started
  BY DEF ComputeInv, SlotInv, SlotsFit
<1>4. running = {d \in started : IsResident(d)}
  BY <1>3 DEF Seated, ComputeInv, ComputeTypes
<1>5. ASSUME NEW i \in DOMAIN device_queue
      PROVE  LET d == device_queue[i]
             IN  /\ IsResident(d) /\ InputLanded(d)
                 /\ holder[UnitOf(d)] = d
                 /\ ~ IsPastStart(d, started)
  <2> DEFINE d == device_queue[i]
  <2>1. d \in Holders /\ d \in LandedDecodes /\ d \notin started
    BY <1>3 DEF Range
  <2> HIDE DEF d
  <2>2. PICK u \in Units : d = holder[u] /\ holder[u] # NoDecode
    BY <2>1 DEF Holders
  <2>3. d \in Holding(u)
    BY <1>1, <2>2
  <2>4. d \in Seated
    BY <2>3, SeatedFacts
  <2>5. u = UnitOf(d) /\ IsResident(d)
    BY <2>3, <2>4, UnitOfFacts DEF Seated, ComputeInv
  <2>6. d \notin withdrawn /\ d \notin completed
    BY <2>1, <2>4, SeatedPastStart DEF EndTypes, BeforeStart
  <2>7. InputLanded(d)
    BY <2>1 DEF LandedDecodes
  <2>8. /\ IsResident(d) /\ InputLanded(d) /\ holder[UnitOf(d)] = d
        /\ ~ IsPastStart(d, started)
    BY <2>1, <2>2, <2>5, <2>6, <2>7 DEF IsPastStart
  <2> QED
    BY <2>8 DEF d
<1>6. SlotsAccounted
  BY <1>3, <1>4, <1>5 DEF SlotsAccounted
<1> QED
  BY <1>2, <1>6

\* Every unit of compute is free or held by one of its residents, each once,
\* the device never runs more decodes than it has slots, and a decode waits
\* only while all are taken (pool.release in _offer_compute against claim;
\* ExecutionSlots.take, give_back and withdraw).
THEOREM ComputeIsAccounted == Spec => []ComputeAccounted
<1>1. IInv => ComputeAccounted
  BY InvariantTypes, InvariantAccounts DEF ComputeAccounted
<1> QED
  BY <1>1, PoolIsInOrder, PTL

\* In order, held compute moves.
LEMMA InvariantMoves ==
    ASSUME IInv
    PROVE  HeldComputeMoves
<1> USE DEF IInv
<1> SUFFICES ASSUME NEW u \in Units
             PROVE  /\ Holding(u) # {} => holder[u] # NoDecode
                    /\ LET d == holder[u]
                       IN  d # NoDecode =>
                            /\ d \notin withdrawn
                            /\ \/ ~InputLanded(d)
                               \/ \E i \in DOMAIN device_queue : device_queue[i] = d
                               \/ d \in started \ ended
                               \/ d \in walking \cup {delivering}
                               \/ config.blocksUnit /\ d \in completed
  BY DEF HeldComputeMoves
<1>1. Holding(u) # {} => holder[u] # NoDecode
  BY DEF ComputeInv, UnitInv
<1>2. ASSUME holder[u] # NoDecode
      PROVE  /\ holder[u] \notin withdrawn
             /\ \/ ~InputLanded(holder[u])
                \/ \E i \in DOMAIN device_queue : device_queue[i] = holder[u]
                \/ holder[u] \in started \ ended
                \/ holder[u] \in walking \cup {delivering}
                \/ config.blocksUnit /\ holder[u] \in completed
  <2> DEFINE d == holder[u]
  <2>1. d \in Holding(u)
    BY <1>2 DEF ComputeInv, UnitInv
  <2>2. d \in Holders
    BY <1>2 DEF Holders
  <2> HIDE DEF d
  <2>3. d \in Seated /\ d \in Decodes
    BY <2>1, SeatedFacts
  <2>4. d \notin withdrawn
    BY <2>3 DEF BeforeStart
  <2>5. ASSUME InputLanded(d), d \notin started
        PROVE  \E i \in DOMAIN device_queue : device_queue[i] = d
    <3>1. d \in Range(device_queue)
      BY <2>2, <2>3, <2>5 DEF ComputeInv, SlotInv, SlotsFit, LandedDecodes
    <3> QED
      BY <3>1 DEF Range
  <2>6. ASSUME d \in started, d \in ended
        PROVE  d \in walking \cup {delivering} \/ (config.blocksUnit /\ d \in completed)
    <3>1. d \in completed
      BY <2>4, <2>6 DEF AfterStart
    <3> QED
      BY <2>3, <3>1 DEF AfterStart
  <2> QED
    BY <2>4, <2>5, <2>6 DEF d
<1> QED
  BY <1>1, <1>2

\* Compute is never held by a decode that will not go on, and an input never
\* lands on a unit nobody holds (the assertion in _input_landed).
THEOREM HeldComputeAlwaysMoves == Spec => []HeldComputeMoves
<1>1. IInv => HeldComputeMoves
  BY InvariantMoves
<1> QED
  BY <1>1, PoolIsInOrder, PTL

-----------------------------------------------------------------------------
(* The inputs: a unit's memory *)

\* A completed decode reads nothing but while a window's result is delivered.
CompletedReadsEnd ==
    \A d \in completed : \A u \in Units, i \in Inputs :
        d \cap memory[u][i] # {} => d = delivering /\ KindOf(d) = "window"

\* What a resident asked for is on its way until its unit's memory has it.
AskedIsMissingOrRead ==
    \A u \in Units : \A d \in Holding(u) : d \notin completed \cup asking =>
        \A r \in d \cap live : r \in missing \/ r \in memory[u][InputOf[r]]

MemoryInv == MemoryOnlyForResidents /\ CompletedReadsEnd /\ AskedIsMissingOrRead

\* Requests whose rounds no unit has yet, and those of a decode on a unit.
Unlanded == waiting \cup missing \cup UNION (asking \ withdrawn)
UnlandedIsHeld == \A r \in Unlanded : Kind[r] # "external" => r \in held
HeldIsUnlanded ==
    \A r \in held : r \in Unlanded \/ (r \notin live /\ \E d \in Seated : r \in d)

\* A decode of one request that asked for its input is held only what is missing.
SingleHoldsMissing ==
    \A d \in Seated \ asking : ~ IsBatch(d) => d \cap held \subseteq missing

\* A window's decode is of one request, and only windows are walked on.
WindowsAreSingle ==
    /\ \A d \in Known : KindOf(d) = "window" => ~ IsBatch(d)
    /\ \A d \in walking : KindOf(d) = "window"

StoreInv == UnlandedIsHeld /\ HeldIsUnlanded /\ SingleHoldsMissing /\ WindowsAreSingle

InputsInv == MemoryInv /\ StoreInv

\* Some calls give inputs back: the reads and holds of the requests R go, and
\* the decodes L leave their units.
HandsBack(R, L) ==
    /\ config' = config /\ asking' = asking /\ live' \subseteq live
    /\ \A u \in Units, i \in Inputs : memory'[u][i] = memory[u][i] \ R
    /\ held' = held \ R /\ missing' = missing \ R /\ Unlanded' = Unlanded \ R
    /\ \A u \in Units : Holding(u)' = Holding(u) \ L
    /\ Seated' = Seated \ L /\ Known' \subseteq Known
Unread(d) == \A u \in Units, i \in Inputs : d \cap memory[u][i] = {}

\* What is given back of a decode that leaves is all it read, and nothing a
\* decode that stays still needs.
LEMMA HandsBackMemory ==
    ASSUME MemoryInv, NEW R, NEW L, HandsBack(R, L),
           completed \subseteq completed',
           \A d \in L \cup {delivering} : d = delivering' \/ d \subseteq R \/ Unread(d),
           \A d \in completed' : \/ d \subseteq R \/ Unread(d)
                                 \/ d = delivering' /\ KindOf(d) = "window",
           \A d \in Seated' : d \notin completed' \cup asking => d \cap R \cap live' = {},
           \A u \in Units : Holding(u) \subseteq Seated,
           \A r \in live : InputOf[r] \in Inputs
    PROVE  MemoryInv'
<1>1. Units' = Units /\ Inputs' = Inputs /\ InputOf' = InputOf
  BY SamePool DEF HandsBack
<1>2. MemoryOnlyForResidents'
  <2> SUFFICES ASSUME NEW u \in Units, NEW i \in Inputs, NEW r \in memory'[u][i]
               PROVE  \E d \in Holding(u)' \cup {delivering'} : r \in d
    BY <1>1 DEF MemoryOnlyForResidents
  <2>1. r \in memory[u][i] /\ r \notin R
    BY DEF HandsBack
  <2>2. PICK d \in Holding(u) \cup {delivering} : r \in d
    BY <2>1 DEF MemoryInv, MemoryOnlyForResidents
  <2>3. ~ Unread(d) /\ ~ d \subseteq R
    BY <2>1, <2>2 DEF Unread
  <2>4. CASE d \in L \cup {delivering}
    BY <2>2, <2>3, <2>4
  <2>5. CASE d \notin L \cup {delivering}
    <3>1. d \in Holding(u)'
      BY <2>2, <2>5 DEF HandsBack
    <3> QED
      BY <2>2, <3>1
  <2> QED
    BY <2>4, <2>5
<1>3. CompletedReadsEnd'
  <2> SUFFICES ASSUME NEW d \in completed', NEW u \in Units, NEW i \in Inputs,
                      d \cap memory'[u][i] # {}
               PROVE  d = delivering' /\ KindOf(d)' = "window"
    BY <1>1 DEF CompletedReadsEnd
  <2>1. ~ Unread(d) /\ ~ d \subseteq R
    BY DEF HandsBack, Unread
  <2> QED
    BY <2>1, SameKind DEF HandsBack
<1>4. AskedIsMissingOrRead'
  <2> SUFFICES ASSUME NEW u \in Units, NEW d \in Holding(u)', d \notin completed' \cup asking',
                      NEW r \in d \cap live'
               PROVE  r \in missing' \/ r \in memory'[u][InputOf[r]]
    BY <1>1 DEF AskedIsMissingOrRead
  <2>1. d \in Holding(u) /\ d \notin completed \cup asking /\ r \in live /\ asking' = asking
        /\ missing' = missing \ R
    BY DEF HandsBack
  <2>2. d \in Seated'
    BY <2>1 DEF HandsBack
  <2>3. r \notin R
    BY <2>1, <2>2
  <2>4. r \in missing \/ r \in memory[u][InputOf[r]]
    BY <2>1 DEF MemoryInv, AskedIsMissingOrRead
  <2>5. memory'[u][InputOf[r]] = memory[u][InputOf[r]] \ R
    BY <2>1 DEF HandsBack
  <2> QED
    BY <2>1, <2>3, <2>4, <2>5
<1> QED
  BY <1>2, <1>3, <1>4 DEF MemoryInv

\* A hold that stays is of a request that still needs it.
LEMMA HandsBackStore ==
    ASSUME StoreInv, NEW R, NEW L, HandsBack(R, L),
           \A d \in L : d \subseteq R \/ d \cap held = {},
           \A d \in walking' : KindOf(d) = "window"
    PROVE  StoreInv'
<1>1. Kind' = Kind /\ \A d : IsBatch(d)' = IsBatch(d) /\ KindOf(d)' = KindOf(d)
  BY SamePool, SameKind DEF HandsBack, IsBatch
<1>2. UnlandedIsHeld'
  BY <1>1 DEF HandsBack, StoreInv, UnlandedIsHeld
<1>3. HeldIsUnlanded'
  <2> SUFFICES ASSUME NEW r \in held', r \notin Unlanded'
               PROVE  r \notin live' /\ \E d \in Seated' : r \in d
    BY DEF HeldIsUnlanded
  <2>1. r \in held /\ r \notin R /\ r \notin Unlanded
    BY DEF HandsBack
  <2>2. r \notin live /\ \E d \in Seated : r \in d
    BY <2>1 DEF StoreInv, HeldIsUnlanded
  <2>3. PICK d \in Seated : r \in d
    BY <2>2
  <2>4. d \notin L
    BY <2>1, <2>3
  <2>5. d \in Seated'
    BY <2>3, <2>4 DEF HandsBack
  <2> QED
    BY <2>2, <2>3, <2>5 DEF HandsBack
<1>4. SingleHoldsMissing'
  BY <1>1 DEF HandsBack, StoreInv, SingleHoldsMissing
<1>5. WindowsAreSingle'
  BY <1>1 DEF HandsBack, StoreInv, WindowsAreSingle
<1> QED
  BY <1>2, <1>3, <1>4, <1>5 DEF StoreInv

\* The same of its reads on every unit at once.
LEMMA CompletedReads ==
    ASSUME MemoryInv
    PROVE  \A d \in completed : Unread(d) \/ (d = delivering /\ KindOf(d) = "window")
<1> SUFFICES ASSUME NEW d \in completed, ~ Unread(d)
             PROVE  d = delivering /\ KindOf(d) = "window"
  OBVIOUS
<1>1. PICK u \in Units, i \in Inputs : d \cap memory[u][i] # {}
  BY DEF Unread
<1> QED
  BY <1>1 DEF MemoryInv, CompletedReadsEnd

\* Nothing of a decode that started is on its way.
LEMMA StartedHasAll ==
    ASSUME IInv, NEW d \in started
    PROVE  d \cap Unlanded = {} /\ d \cap missing = {}
<1>1. d \in Known
  BY DEF Known
<1>2. d \cap waiting = {}
  BY <1>1 DEF IInv, Apart
<1>3. d \cap missing = {}
  BY StartedHasLanded DEF InputLanded
<1>4. ASSUME NEW e \in asking
      PROVE  d \cap e = {}
  BY <1>1 DEF Known, IInv, Apart, BeforeStart
<1> QED
  BY <1>2, <1>3, <1>4 DEF Unlanded

\* The decodes on their units stay there.
LEMMA SeatsStay ==
    ASSUME config' = config, residents' = residents, started' \subseteq started,
           asking' \subseteq asking, withdrawn' = withdrawn
    PROVE  /\ \A u \in Units : Holding(u)' = Holding(u) \ {}
           /\ Seated' = Seated \ {} /\ Known' \subseteq Known
    BY SeatsKept DEF Known

\* One decode gives its unit back, and no other.
LEMMA SeatGivenBack ==
    ASSUME IInv, NEW d \in Seated, config' = config, asking' = asking,
           missing' = missing \/ missing' = missing \ d,
           withdrawn' \subseteq withdrawn \cup {d},
           (d \in started /\ Free(d)) \/ (d \notin started /\ Evict(d, UnitOf(d)))
    PROVE  /\ \A u \in Units : Holding(u)' = Holding(u) \ {d}
           /\ Seated' = Seated \ {d} /\ Known' \subseteq Known
<1> USE DEF IInv
<1>1. d \in Decodes /\ IsResident(d) /\ d \in Known /\ config \in Settings
  BY DEF Seated, Known, QueueTypes
<1>2. \A e \in Seated \ {d} : InputLanded(e)' <=> InputLanded(e)
  BY <1>1, OthersStayLanded
<1>3. Leaves(d)
  <2>1. CASE d \in started /\ Free(d)
    BY <1>1, <1>2, <2>1, SeatedPastStart, FreeKeeps
  <2>2. CASE d \notin started /\ Evict(d, UnitOf(d))
    BY <1>1, <1>2, <2>2, SeatedPastStart, EvictKeeps
  <2> QED
    BY <2>1, <2>2
<1>4. Known' \subseteq Known
  BY <1>3, KnownLeaves
<1>5. UnitOf(d) \in Units /\ d \in Holding(UnitOf(d))
  BY <1>1, UnitOfFacts DEF ComputeInv
<1>6. residents' = [residents EXCEPT ![UnitOf(d)] = Others(UnitOf(d), d)]
  BY DEF Free, Evict
<1>7. \A u \in Units : Holding(u)' = Holding(u) \ {d}
  BY <1>5, <1>6, SeatLeft DEF ComputeInv, ComputeTypes
<1> QED
  BY <1>3, <1>4, <1>7 DEF Leaves

\* What the generic facts ask of the pool's order.
LEMMA InOrderFacts ==
    ASSUME IInv
    PROVE  /\ \A u \in Units : Holding(u) \subseteq Seated
           /\ \A r \in submitted : InputOf[r] \in Inputs
<1>1. \A u \in Units : Holding(u) \subseteq Seated
  BY SeatedFacts DEF IInv
<1>2. \A r \in submitted : InputOf[r] \in Inputs
  BY PoolFacts DEF IInv, QueueTypes
<1> QED
  BY <1>1, <1>2

\* Steps that give inputs back keep the inputs in order.
LEMMA HandsBackKeeps ==
    ASSUME IInv, InputsInv, NEW R, NEW L, HandsBack(R, L),
           completed \subseteq completed',
           \A d \in L \cup {delivering} : d = delivering' \/ d \subseteq R \/ Unread(d),
           \A d \in completed' : \/ d \subseteq R \/ Unread(d)
                                 \/ d = delivering' /\ KindOf(d) = "window",
           \A d \in Seated' : d \notin completed' \cup asking => d \cap R \cap live' = {},
           \A d \in L : d \subseteq R \/ d \cap held = {},
           \A d \in walking' : KindOf(d) = "window"
    PROVE  InputsInv'
<1>1. /\ \A u \in Units : Holding(u) \subseteq Seated
      /\ \A r \in live : InputOf[r] \in Inputs
  BY InOrderFacts DEF IInv, QueueTypes
<1>2. MemoryInv'
  BY <1>1, HandsBackMemory DEF InputsInv
<1>3. StoreInv'
  BY HandsBackStore DEF InputsInv
<1> QED
  BY <1>2, <1>3 DEF InputsInv

\* A step that changes neither the inputs nor who reads them.
LEMMA InputsStay ==
    ASSUME IInv, InputsInv, config' = config, residents' = residents, started' = started,
           asking' = asking, withdrawn' = withdrawn, waiting' = waiting, live' \subseteq live,
           missing' = missing, memory' = memory, held' = held, completed' = completed,
           delivering' = delivering, walking' = walking
    PROVE  InputsInv'
<1>1. HandsBack({}, {})
  BY SeatsStay DEF HandsBack, Unlanded
<1>2. \A d \in completed : Unread(d) \/ (d = delivering /\ KindOf(d) = "window")
  BY CompletedReads DEF InputsInv
<1>3. \A d \in walking : KindOf(d) = "window"
  BY DEF InputsInv, StoreInv, WindowsAreSingle
<1> QED
  BY <1>1, <1>2, <1>3, HandsBackKeeps

\* A new request: the store holds its rounds and nothing else changes.
LEMMA EnqueueKeepsInputs ==
    ASSUME IInv, InputsInv, NEW r \in Requests, Enqueue(r)
    PROVE  InputsInv'
<1>1. /\ r \notin submitted /\ waiting' = waiting \cup {r} /\ live' = live \cup {r}
      /\ held' = IF Kind[r] = "external" THEN held ELSE held \cup {r}
      /\ config' = config /\ residents' = residents /\ started' = started
      /\ asking' = asking /\ missing' = missing /\ memory' = memory /\ completed' = completed
      /\ withdrawn' = withdrawn /\ walking' = walking /\ delivering' = delivering
  BY DEF Enqueue, compute, ends
<1>2. /\ Units' = Units /\ Inputs' = Inputs /\ InputOf' = InputOf /\ Kind' = Kind
      /\ \A d : IsBatch(d)' = IsBatch(d) /\ KindOf(d)' = KindOf(d)
  BY <1>1, SamePool, SameKind DEF IsBatch
<1>3. /\ Seated' = Seated /\ Known' = Known /\ \A u : Holding(u)' = Holding(u)
  BY <1>1, SeatsKept DEF Known
<1>4. \A d \in Known : r \notin d
  BY <1>1 DEF IInv, Apart
<1>5. \A u \in Units : \A d \in Holding(u) : d \in Known
  BY InOrderFacts DEF Known
<1>6. MemoryInv'
  <2>1. MemoryOnlyForResidents' /\ CompletedReadsEnd'
    BY <1>1, <1>2, <1>3 DEF InputsInv, MemoryInv, MemoryOnlyForResidents, CompletedReadsEnd
  <2>2. AskedIsMissingOrRead'
    BY <1>1, <1>2, <1>3, <1>4, <1>5 DEF InputsInv, MemoryInv, AskedIsMissingOrRead
  <2> QED
    BY <2>1, <2>2 DEF MemoryInv
<1>7. StoreInv'
  <2>1. Unlanded' = Unlanded \cup {r}
    BY <1>1 DEF Unlanded
  <2>2. UnlandedIsHeld'
    BY <1>1, <1>2, <2>1 DEF InputsInv, StoreInv, UnlandedIsHeld
  <2>3. HeldIsUnlanded'
    BY <1>1, <1>3, <2>1 DEF InputsInv, StoreInv, HeldIsUnlanded
  <2>4. SingleHoldsMissing'
    BY <1>1, <1>2, <1>3, <1>4 DEF InputsInv, StoreInv, SingleHoldsMissing, Known
  <2>5. WindowsAreSingle'
    BY <1>1, <1>2, <1>3 DEF InputsInv, StoreInv, WindowsAreSingle
  <2> QED
    BY <2>2, <2>3, <2>4, <2>5 DEF StoreInv
<1> QED
  BY <1>6, <1>7 DEF InputsInv

\* The store holds nothing for a window's decode that ended.
LEMMA EndedWindowHoldsNothing ==
    ASSUME IInv, InputsInv, NEW d \in completed, d \in Seated, KindOf(d) = "window"
    PROVE  d \cap held = {}
<1>1. d \in started /\ d \in Known
  BY DEF IInv, EndTypes, Known
<1>2. ~ IsBatch(d) /\ d \notin asking /\ d \cap missing = {}
  BY <1>1, StartedHasAll DEF InputsInv, StoreInv, WindowsAreSingle, IInv, BeforeStart
<1> QED
  BY <1>2 DEF InputsInv, StoreInv, SingleHoldsMissing

\* The result a unit was blocked on is read: its input is gone already.
LEMMA ReadKeepsInputs ==
    ASSUME IInv, InputsInv, NEW d, Read(d)
    PROVE  InputsInv'
<1>1. /\ d \in completed /\ KindOf(d) = "window" /\ IsResident(d) /\ Free(d)
      /\ config' = config /\ waiting' = waiting /\ live' = live /\ asking' = asking
      /\ missing' = missing /\ memory' = memory /\ held' = held /\ completed' = completed
      /\ withdrawn' = withdrawn /\ walking' = walking /\ delivering' = delivering
  BY DEF Read, ends, staging, queue
<1>2. d \in started /\ d \in Seated
  BY <1>1 DEF IInv, EndTypes, ComputeInv, ComputeTypes, Seated
<1>3. HandsBack({}, {d})
  <2>1. /\ \A u \in Units : Holding(u)' = Holding(u) \ {d}
        /\ Seated' = Seated \ {d} /\ Known' \subseteq Known
    BY <1>1, <1>2, SeatGivenBack
  <2> QED
    BY <1>1, <2>1 DEF HandsBack, Unlanded
<1>4. \A e \in completed : Unread(e) \/ (e = delivering /\ KindOf(e) = "window")
  BY CompletedReads DEF InputsInv
<1>5. d \cap held = {}
  BY <1>1, <1>2, EndedWindowHoldsNothing
<1>6. \A e \in walking : KindOf(e) = "window"
  BY DEF InputsInv, StoreInv, WindowsAreSingle
<1> QED
  BY <1>1, <1>3, <1>4, <1>5, <1>6, HandsBackKeeps

\* A request leaves the queue, or its reads of a run that goes on.
LEMMA TakeBackInPlaceInputs ==
    ASSUME IInv, InputsInv, NEW r \in taking, NEW R, R \subseteq {r},
           \A u \in Units, i \in Inputs : memory'[u][i] = memory[u][i] \ R, held' = held \ R,
           (R = {} /\ waiting' = waiting) \/ (r \in waiting /\ R = {r} /\ waiting' = waiting \ {r})
           \/ (waiting' = waiting /\ \E d \in started : r \in d),
           UNCHANGED <<config, live, compute, asking, missing, withdrawn, completed, walking,
                       delivering>>
    PROVE  InputsInv'
<1>1. r \notin live
  BY DEF IInv, QueueTypes
<1>2. /\ \A u \in Units : Holding(u)' = Holding(u) \ {}
      /\ Seated' = Seated \ {} /\ Known' \subseteq Known
  BY SeatsStay DEF compute
<1>3. missing' = missing \ R /\ Unlanded' = Unlanded \ R
  <2>1. CASE R = {} /\ waiting' = waiting
    BY <2>1 DEF Unlanded
  <2>2. CASE r \in waiting /\ R = {r} /\ waiting' = waiting \ {r}
    <3>1. \A d \in Known : r \notin d
      BY <2>2 DEF IInv, Apart
    <3>2. r \notin missing
      BY <3>1 DEF IInv, BeforeStart, Known
    <3>3. r \notin UNION (asking \ withdrawn)
      BY <3>1 DEF Known
    <3> QED
      BY <2>2, <3>2, <3>3 DEF Unlanded
  <2>3. CASE waiting' = waiting /\ \E d \in started : r \in d
    <3>1. r \notin Unlanded /\ r \notin missing
      BY <2>3, StartedHasAll
    <3>2. Unlanded' = Unlanded
      BY <2>3 DEF Unlanded
    <3> QED
      BY <3>1, <3>2
  <2> QED
    BY <2>1, <2>2, <2>3
<1>4. HandsBack(R, {})
  BY <1>2, <1>3 DEF HandsBack
<1>5. \A d \in completed : Unread(d) \/ (d = delivering /\ KindOf(d) = "window")
  BY CompletedReads DEF InputsInv
<1>6. \A d \in walking : KindOf(d) = "window"
  BY DEF InputsInv, StoreInv, WindowsAreSingle
<1> QED
  BY <1>1, <1>4, <1>5, <1>6, HandsBackKeeps

\* A decode taken back gives back all it was given.
LEMMA TakeBackDecodeInputs ==
    ASSUME IInv, InputsInv, NEW d \in Seated,
           withdrawn' = withdrawn \cup {d}, CancelInputs(d, UnitOf(d)),
           (d \in started /\ Free(d)) \/ (d \notin started /\ Evict(d, UnitOf(d))),
           UNCHANGED <<config, submitted, waiting, live, asking, completed, walking, delivering>>
    PROVE  InputsInv'
<1>1. Release(d) /\ missing' = missing \ d
  BY DEF CancelInputs
<1>2. /\ \A u \in Units : Holding(u)' = Holding(u) \ {d}
      /\ Seated' = Seated \ {d} /\ Known' \subseteq Known
  BY <1>1, SeatGivenBack
<1>3. /\ \A u \in Units, i \in Inputs : memory'[u][i] = memory[u][i] \ d
      /\ held' = held \ d
  BY <1>1, ReleaseTypes DEF IInv, Release
<1>4. d \in Known /\ d \cap waiting = {}
  BY DEF IInv, Apart, Known
<1>5. \A e \in Known : e # d => e \cap d = {}
  BY <1>4 DEF IInv, Apart
<1>6. Unlanded' = Unlanded \ d
  <2>1. asking \ withdrawn' = (asking \ withdrawn) \ {d}
    OBVIOUS
  <2>2. \A e \in asking : e # d => e \cap d = {}
    BY <1>5 DEF Known
  <2>3. UNION ((asking \ withdrawn) \ {d}) = (UNION (asking \ withdrawn)) \ d
    BY <2>2
  <2> QED
    BY <1>1, <1>4, <2>1, <2>3 DEF Unlanded
<1>7. HandsBack(d, {d})
  BY <1>1, <1>2, <1>3, <1>6 DEF HandsBack
<1>8. \A e \in completed : Unread(e) \/ (e = delivering /\ KindOf(e) = "window")
  BY CompletedReads DEF InputsInv
<1>9. \A e \in walking : KindOf(e) = "window"
  BY DEF InputsInv, StoreInv, WindowsAreSingle
<1>10. \A e \in Seated' : e \cap d \cap live' = {}
  BY <1>2, <1>5 DEF Known
<1> QED
  BY <1>7, <1>8, <1>9, <1>10, HandsBackKeeps

\* A request is taken back.
LEMMA TakeBackKeepsInputs ==
    ASSUME IInv, InputsInv, NEW r, TakeBack(r)
    PROVE  InputsInv'
<1>1. /\ r \in taking
      /\ UNCHANGED <<config, submitted, live, asking, completed, walking, delivering>>
  BY DEF TakeBack
<1>2. /\ \A u \in Units, i \in Inputs : memory[u][i] = memory[u][i] \ {}
      /\ held = held \ {}
  OBVIOUS
<1>3. ASSUME Release({r})
      PROVE  /\ \A u \in Units, i \in Inputs : memory'[u][i] = memory[u][i] \ {r}
             /\ held' = held \ {r}
  BY <1>1, <1>3, ReleaseTypes DEF IInv, Release
<1>4. CASE TakeBackQueued(r)
  <2>1. /\ r \in waiting /\ waiting' = waiting \ {r} /\ Release({r})
        /\ UNCHANGED <<compute, missing, withdrawn>>
    BY <1>4 DEF TakeBackQueued
  <2> QED
    BY <1>1, <1>3, <2>1, TakeBackInPlaceInputs
<1>5. ASSUME NEW u \in Units, NEW d \in Holding(u), r \in d,
             \/ TakeBackStagedMember(d) \/ TakeBackStaged(d)
             \/ TakeBackRunningMember(r, d) \/ TakeBackRunning(d)
      PROVE  InputsInv'
  <2>1. d \in Seated
    BY SeatedFacts DEF IInv
  <2>2. CASE TakeBackStagedMember(d)
    <3>1. /\ waiting' = waiting /\ memory' = memory /\ held' = held
          /\ UNCHANGED <<compute, missing, withdrawn>>
      BY <2>2 DEF TakeBackStagedMember, staging
    <3>2. /\ \A v \in Units, i \in Inputs : memory'[v][i] = memory[v][i] \ {}
          /\ held' = held \ {}
      BY <3>1
    <3> QED
      BY <1>1, <3>1, <3>2, TakeBackInPlaceInputs
  <2>3. CASE TakeBackRunningMember(r, d)
    <3>1. /\ waiting' = waiting /\ Release({r}) /\ d \in started
          /\ UNCHANGED <<compute, missing, withdrawn>>
      BY <2>3 DEF TakeBackRunningMember
    <3> QED
      BY <1>1, <1>3, <1>5, <3>1, TakeBackInPlaceInputs
  <2>4. CASE TakeBackStaged(d)
    <3>1. /\ d \notin started /\ Evict(d, UnitOf(d)) /\ CancelInputs(d, UnitOf(d))
          /\ withdrawn' = withdrawn \cup {d} /\ waiting' = waiting
      BY <2>4 DEF TakeBackStaged
    <3> QED
      BY <1>1, <2>1, <3>1, TakeBackDecodeInputs
  <2>5. CASE TakeBackRunning(d)
    <3>1. /\ d \in started /\ Free(d) /\ CancelInputs(d, UnitOf(d))
          /\ withdrawn' = withdrawn \cup {d} /\ waiting' = waiting
      BY <2>5 DEF TakeBackRunning
    <3> QED
      BY <1>1, <2>1, <3>1, TakeBackDecodeInputs
  <2> QED
    BY <1>5, <2>2, <2>3, <2>4, <2>5
<1> QED
  BY <1>4, <1>5 DEF TakeBack

\* A decode of a window is of one request: a pool that merges has no windows.
LEMMA CandidateWindowIsSingle ==
    ASSUME IInv, NEW d \in Candidates, KindOf(d) = "window"
    PROVE  ~ IsBatch(d)
<1>1. d \in Decodes
  BY CandidateFacts
<1>2. CASE config.mergesStrong
  <2>1. \A r \in Requests : Kind[r] # "window"
    BY <1>2, PoolAssumption DEF IInv, QueueTypes, Requests, Kind
  <2>2. (CHOOSE r \in d : TRUE) \in Requests
    BY <1>1 DEF Decodes
  <2> QED
    BY <2>1, <2>2 DEF KindOf
<1>3. CASE ~ config.mergesStrong
  <2>1. PICK r \in Startable : d = {r}
    BY <1>3 DEF Candidates
  <2>2. Cardinality(d) = 1
    BY <2>1, FS_Singleton
  <2> QED
    BY <2>2 DEF IsBatch
<1> QED
  BY <1>2, <1>3

\* A dispatched decode takes its requests from the queue to its unit.
LEMMA DispatchKeepsInputs ==
    ASSUME IInv, InputsInv, NEW d \in Candidates,
           DispatchToCompute(d) \/ \E u \in Units : DispatchToStage(d, u)
    PROVE  InputsInv'
<1>1. d \in Decodes /\ d \subseteq waiting /\ d \notin Known
  BY CandidateFacts
<1>2. PICK u \in Units : DispatchedTo(d, u)
  BY DispatchPlace
<1>3. /\ residents' = [residents EXCEPT ![u] = Append(@, d)] /\ HasRoom(u, d)
      /\ waiting' = waiting \ d /\ asking' = asking \cup {d} /\ config' = config
      /\ live' = live /\ started' = started /\ missing' = missing /\ memory' = memory
      /\ held' = held /\ completed' = completed /\ withdrawn' = withdrawn
      /\ walking' = walking /\ delivering' = delivering
  BY <1>2 DEF DispatchedTo, Admit, staging, ends
<1>4. /\ \A v \in Units : Holding(v)' = IF v = u THEN Holding(v) \cup {d} ELSE Holding(v)
      /\ Seated' = Seated \cup {d}
  <2>1. ~ IsResident(d) /\ Len(residents[u]) < InputSlotCount
    BY <1>1, <1>3 DEF Known, Seated, HasRoom
  <2> QED
    BY <1>1, <1>3, <2>1, SeatTaken DEF IInv, ComputeInv, ComputeTypes
<1>5. Known' = Known \cup {d}
  BY <1>3, <1>4 DEF Known
<1>6. /\ Units' = Units /\ Inputs' = Inputs /\ InputOf' = InputOf /\ Kind' = Kind
      /\ \A e : IsBatch(e)' = IsBatch(e) /\ KindOf(e)' = KindOf(e)
  BY <1>3, SamePool, SameKind DEF IsBatch
<1>7. d \notin withdrawn
  BY <1>1 DEF Known
<1>8. MemoryInv'
  <2>1. MemoryOnlyForResidents'
    <3> SUFFICES ASSUME NEW v \in Units, NEW i \in Inputs, NEW r \in memory[v][i]
                 PROVE  \E e \in Holding(v)' \cup {delivering} : r \in e
      BY <1>3, <1>6 DEF MemoryOnlyForResidents
    <3>1. PICK e \in Holding(v) \cup {delivering} : r \in e
      BY DEF InputsInv, MemoryInv, MemoryOnlyForResidents
    <3> QED
      BY <1>4, <3>1
  <2>2. CompletedReadsEnd'
    BY <1>3, <1>6 DEF InputsInv, MemoryInv, CompletedReadsEnd
  <2>3. AskedIsMissingOrRead'
    BY <1>3, <1>4, <1>6 DEF InputsInv, MemoryInv, AskedIsMissingOrRead
  <2> QED
    BY <2>1, <2>2, <2>3 DEF MemoryInv
<1>9. StoreInv'
  <2>1. Unlanded' = Unlanded
    <3>1. asking' \ withdrawn' = (asking \ withdrawn) \cup {d}
      BY <1>3, <1>7
    <3>2. UNION ((asking \ withdrawn) \cup {d}) = (UNION (asking \ withdrawn)) \cup d
      OBVIOUS
    <3> QED
      BY <1>1, <1>3, <3>1, <3>2 DEF Unlanded
  <2>2. UnlandedIsHeld'
    BY <1>3, <1>6, <2>1 DEF InputsInv, StoreInv, UnlandedIsHeld
  <2>3. HeldIsUnlanded'
    BY <1>3, <1>4, <2>1 DEF InputsInv, StoreInv, HeldIsUnlanded
  <2>4. SingleHoldsMissing'
    BY <1>3, <1>4, <1>6 DEF InputsInv, StoreInv, SingleHoldsMissing
  <2>5. WindowsAreSingle'
    BY <1>3, <1>5, <1>6, CandidateWindowIsSingle DEF InputsInv, StoreInv, WindowsAreSingle
  <2> QED
    BY <2>2, <2>3, <2>4, <2>5 DEF StoreInv
<1> QED
  BY <1>8, <1>9 DEF InputsInv

\* The starts of a landing are of decodes on a unit.
LEMMA LandOnSeats ==
    ASSUME NEW u, NEW D, LandOn(u, D), D \subseteq Seated,
           asking' \subseteq asking, withdrawn' = withdrawn
    PROVE  /\ config' = config /\ Seated' = Seated /\ Known' \subseteq Known
           /\ \A v : Holding(v)' = Holding(v)
<1>1. /\ config' = config /\ residents' = residents
      /\ BeginFrom(D \cap {holder[u]}, running, device_queue, started)
  BY DEF LandOn
<1>2. started' \subseteq started \cup D
  BY <1>1 DEF BeginFrom
<1> QED
  BY <1>1, <1>2, SeatsKept DEF Known

\* A decode found withdrawn asks for nothing.
LEMMA AskWithdrawnKeepsInputs ==
    ASSUME IInv, InputsInv, NEW d, Ask(d), AskWithdrawn(d)
    PROVE  InputsInv'
<1>1. /\ d \in withdrawn /\ asking' = asking \ {d}
      /\ config' = config /\ residents' = residents /\ started' = started
      /\ waiting' = waiting /\ live' = live /\ missing' = missing /\ memory' = memory
      /\ held' = held /\ completed' = completed /\ withdrawn' = withdrawn
      /\ walking' = walking /\ delivering' = delivering
  BY DEF Ask, AskWithdrawn, compute, staging, queue, ends
<1>2. d \notin Seated
  BY <1>1 DEF IInv, BeforeStart
<1>3. /\ Units' = Units /\ Inputs' = Inputs /\ InputOf' = InputOf /\ Kind' = Kind
      /\ \A e : IsBatch(e)' = IsBatch(e) /\ KindOf(e)' = KindOf(e)
  BY <1>1, SamePool, SameKind DEF IsBatch
<1>4. Seated' = Seated /\ Known' \subseteq Known /\ \A u : Holding(u)' = Holding(u)
  BY <1>1, SeatsKept DEF Known
<1>5. \A u \in Units : d \notin Holding(u)
  BY <1>2, InOrderFacts
<1>6. MemoryInv'
  <2>1. MemoryOnlyForResidents' /\ CompletedReadsEnd'
    BY <1>1, <1>3, <1>4 DEF InputsInv, MemoryInv, MemoryOnlyForResidents, CompletedReadsEnd
  <2>2. AskedIsMissingOrRead'
    BY <1>1, <1>3, <1>4, <1>5 DEF InputsInv, MemoryInv, AskedIsMissingOrRead
  <2> QED
    BY <2>1, <2>2 DEF MemoryInv
<1>7. StoreInv'
  <2>1. Unlanded' = Unlanded
    <3>1. asking' \ withdrawn' = asking \ withdrawn
      BY <1>1
    <3> QED
      BY <1>1, <3>1 DEF Unlanded
  <2>2. UnlandedIsHeld' /\ HeldIsUnlanded'
    BY <1>1, <1>3, <1>4, <2>1 DEF InputsInv, StoreInv, UnlandedIsHeld, HeldIsUnlanded
  <2>3. SingleHoldsMissing'
    BY <1>1, <1>2, <1>3, <1>4 DEF InputsInv, StoreInv, SingleHoldsMissing
  <2>4. WindowsAreSingle'
    BY <1>1, <1>3, <1>4 DEF InputsInv, StoreInv, WindowsAreSingle
  <2> QED
    BY <2>2, <2>3, <2>4 DEF StoreInv
<1> QED
  BY <1>6, <1>7 DEF InputsInv

\* What a decode asks for it reads at once, or it is on its way.
LEMMA AskForInputKeepsInputs ==
    ASSUME IInv, InputsInv, NEW d, Ask(d), AskForInput(d)
    PROVE  InputsInv'
<1> USE DEF IInv
<1> DEFINE u       == UnitOf(d)
           asked   == IF IsBatch(d) THEN d \cap live ELSE d
           reads   == {r \in asked : memory[u][InputOf[r]] # {}}
           joins   == {r \in asked : <<u, InputOf[r]>> \in awaited}
           atOnce  == reads \cup {r \in asked : Kind[r] = "external"}
           D       == IF asked = atOnce THEN {d} ELSE {}
<1>1. /\ d \in asking /\ asking' = asking \ {d}
      /\ waiting' = waiting /\ live' = live /\ completed' = completed
      /\ withdrawn' = withdrawn /\ walking' = walking /\ delivering' = delivering
  BY DEF Ask, queue, ends
<1>2. /\ d \notin withdrawn /\ memory' = ReadersAdded(u, atOnce)
      /\ held' = held \ atOnce /\ missing' = missing \cup (asked \ atOnce)
      /\ LandOn(u, D)
  BY Zenon DEF AskForInput
<1>3. atOnce \subseteq asked /\ asked \subseteq d /\ D \subseteq {d}
  OBVIOUS
<1>4. (IsBatch(d) => asked = d \cap live) /\ (~ IsBatch(d) => asked = d)
  OBVIOUS
<1> HIDE DEF u, asked, reads, joins, atOnce, D
<1>5. d \in Seated /\ d \in Known /\ d \notin started
  BY <1>1, <1>2 DEF BeforeStart, Known
<1>6. u \in Units /\ d \in Holding(u)
  BY <1>5, SeatedFacts DEF u
<1>7. d \subseteq submitted /\ d \cap waiting = {} /\ d \cap missing = {}
  BY <1>1, <1>5, AskingHasNothingMissing DEF Apart
<1>8. \A e \in Known : e # d => e \cap d = {}
  BY <1>5 DEF Apart
<1>9. /\ config' = config /\ Seated' = Seated /\ Known' \subseteq Known
      /\ \A v : Holding(v)' = Holding(v)
  <2>1. D \subseteq Seated /\ asking' \subseteq asking
    BY <1>1, <1>3, <1>5
  <2> QED
    BY <1>1, <1>2, <2>1, LandOnSeats
<1>10. /\ Units' = Units /\ Inputs' = Inputs /\ InputOf' = InputOf /\ Kind' = Kind
       /\ \A e : IsBatch(e)' = IsBatch(e) /\ KindOf(e)' = KindOf(e)
  BY <1>9, SamePool, SameKind DEF IsBatch
<1>11. \A v \in Units, i \in Inputs :
         memory'[v][i] = IF v = u THEN memory[v][i] \cup {r \in atOnce : InputOf[r] = i}
                         ELSE memory[v][i]
  <2>1. atOnce \subseteq submitted /\ memory' = ReadersAdded(u, atOnce)
    BY <1>2, <1>3, <1>7
  <2>2. MemoryGains(u, atOnce)
    BY <1>6, <2>1, ReadersTypes
  <2> QED
    BY <2>2, Zenon DEF MemoryGains
<1>12. \A e \in completed : e \cap d = {}
  <2>1. \A e \in completed : e \in started /\ e \in Known
    BY DEF EndTypes, Known
  <2> QED
    BY <1>5, <1>8, <2>1
<1>13. MemoryInv'
  <2>1. MemoryOnlyForResidents'
    <3> SUFFICES ASSUME NEW v \in Units, NEW i \in Inputs, NEW r \in memory'[v][i]
                 PROVE  \E e \in Holding(v) \cup {delivering} : r \in e
      BY <1>1, <1>9, <1>10 DEF MemoryOnlyForResidents
    <3>1. r \in memory[v][i] \/ (v = u /\ r \in atOnce)
      BY <1>11
    <3>2. CASE r \in memory[v][i]
      BY <3>2 DEF InputsInv, MemoryInv, MemoryOnlyForResidents
    <3>3. CASE v = u /\ r \in atOnce
      BY <1>3, <1>6, <3>3
    <3> QED
      BY <3>1, <3>2, <3>3
  <2>2. CompletedReadsEnd'
    <3> SUFFICES ASSUME NEW e \in completed, NEW v \in Units, NEW i \in Inputs,
                        e \cap memory'[v][i] # {}
                 PROVE  e = delivering /\ KindOf(e) = "window"
      BY <1>1, <1>10 DEF CompletedReadsEnd
    <3>1. e \cap memory[v][i] # {}
      BY <1>3, <1>11, <1>12
    <3> QED
      BY <3>1 DEF InputsInv, MemoryInv, CompletedReadsEnd
  <2>3. AskedIsMissingOrRead'
    <3> SUFFICES ASSUME NEW v \in Units, NEW e \in Holding(v), e \notin completed,
                        e \notin asking', NEW r \in e \cap live
                 PROVE  r \in missing' \/ r \in memory'[v][InputOf[r]]
      BY <1>1, <1>9, <1>10 DEF AskedIsMissingOrRead
    <3>1. e \in Seated /\ e \subseteq submitted
      BY InOrderFacts DEF Known, Apart
    <3>2. InputOf[r] \in Inputs
      BY <3>1, InOrderFacts
    <3>3. CASE e = d
      <4>1. v = u
        BY <1>6, <3>3 DEF ComputeInv, OneSeat
      <4>2. r \in asked
        BY <1>4, <3>3
      <4> QED
        BY <1>2, <1>11, <3>2, <4>1, <4>2
    <3>4. CASE e # d
      <4>1. e \notin asking
        BY <1>1, <3>4
      <4>2. r \in missing \/ r \in memory[v][InputOf[r]]
        BY <4>1 DEF InputsInv, MemoryInv, AskedIsMissingOrRead
      <4> QED
        BY <1>2, <1>11, <3>2, <4>2
    <3> QED
      BY <3>3, <3>4
  <2> QED
    BY <2>1, <2>2, <2>3 DEF MemoryInv
<1>14. StoreInv'
  <2>1. \A e \in asking : e # d => e \cap d = {}
    BY <1>8 DEF Known
  <2>2. \A r : r \in Unlanded' <=> r \in asked \ atOnce \/ (r \in Unlanded /\ r \notin d)
    <3>1. \A r : r \in UNION (asking' \ withdrawn') <=>
                   r \in UNION (asking \ withdrawn) /\ r \notin d
      BY <1>1, <1>2, <2>1
    <3> QED
      BY <1>1, <1>2, <1>3, <1>7, <3>1 DEF Unlanded
  <2>3. d \subseteq Unlanded
    BY <1>1, <1>2 DEF Unlanded
  <2>4. UnlandedIsHeld'
    <3> SUFFICES ASSUME NEW r \in Unlanded', Kind[r] # "external"
                 PROVE  r \in held'
      BY <1>10 DEF UnlandedIsHeld
    <3>1. r \in Unlanded /\ r \notin atOnce
      BY <1>3, <2>2, <2>3
    <3> QED
      BY <1>2, <3>1 DEF InputsInv, StoreInv, UnlandedIsHeld
  <2>5. HeldIsUnlanded'
    <3> SUFFICES ASSUME NEW r \in held', r \notin Unlanded'
                 PROVE  r \notin live /\ \E e \in Seated : r \in e
      BY <1>1, <1>9 DEF HeldIsUnlanded
    <3>1. r \in held /\ r \notin atOnce
      BY <1>2
    <3>2. CASE r \in d
      <4>1. r \notin asked
        BY <2>2, <3>1
      <4> QED
        BY <1>4, <1>5, <3>2, <4>1
    <3>3. CASE r \notin d
      <4>1. r \notin Unlanded
        BY <2>2, <3>3
      <4> QED
        BY <3>1, <4>1 DEF InputsInv, StoreInv, HeldIsUnlanded
    <3> QED
      BY <3>2, <3>3
  <2>6. SingleHoldsMissing'
    <3> SUFFICES ASSUME NEW e \in Seated, e \notin asking', ~ IsBatch(e), NEW r \in e \cap held'
                 PROVE  r \in missing'
      BY <1>9, <1>10 DEF SingleHoldsMissing
    <3>1. CASE e = d
      BY <1>2, <1>4, <3>1
    <3>2. CASE e # d
      BY <1>1, <1>2, <3>2 DEF InputsInv, StoreInv, SingleHoldsMissing
    <3> QED
      BY <3>1, <3>2
  <2>7. WindowsAreSingle'
    BY <1>1, <1>9, <1>10 DEF InputsInv, StoreInv, WindowsAreSingle
  <2> QED
    BY <2>4, <2>5, <2>6, <2>7 DEF StoreInv
<1> QED
  BY <1>13, <1>14 DEF InputsInv

\* A landing gives its readers their input, and the store lets go of it.
LEMMA LandingKeepsInputs ==
    ASSUME IInv, InputsInv, NEW r, Land(r)
    PROVE  InputsInv'
<1> USE DEF IInv
<1>1. PICK u \in Units, lands \in SUBSET missing : LandsOn(r, u, lands)
  BY LandingFacts
<1> DEFINE whole == {e \in Holding(u) : e \cap lands # {} /\ e \cap missing \subseteq lands}
<1>2. /\ missing' = missing \ lands /\ memory' = ReadersAdded(u, lands)
      /\ held' = held \ lands /\ LandOn(u, whole) /\ asking' = asking
      /\ waiting' = waiting /\ live' = live /\ completed' = completed
      /\ withdrawn' = withdrawn /\ walking' = walking /\ delivering' = delivering
  BY <1>1 DEF LandsOn, queue, ends
<1>3. \A e \in Seated : e \cap lands # {} =>
        e \in Holding(u) /\ e \notin asking /\ e \notin started
  BY <1>1 DEF LandsOn
<1>4. whole \subseteq Seated
  BY InOrderFacts
<1> HIDE DEF whole
<1>5. /\ config' = config /\ Seated' = Seated /\ Known' \subseteq Known
      /\ \A v : Holding(v)' = Holding(v)
  BY <1>2, <1>4, LandOnSeats
<1>6. /\ Units' = Units /\ Inputs' = Inputs /\ InputOf' = InputOf /\ Kind' = Kind
      /\ \A e : IsBatch(e)' = IsBatch(e) /\ KindOf(e)' = KindOf(e)
  BY <1>5, SamePool, SameKind DEF IsBatch
<1>7. \A v \in Units, i \in Inputs :
        memory'[v][i] = IF v = u THEN memory[v][i] \cup {s \in lands : InputOf[s] = i}
                        ELSE memory[v][i]
  <2>1. lands \subseteq submitted
    BY DEF StagingTypes
  <2>2. MemoryGains(u, lands)
    BY <1>2, <2>1, ReadersTypes
  <2> QED
    BY <2>2, Zenon DEF MemoryGains
<1>8. ASSUME NEW s \in lands
      PROVE  \E x \in Seated : s \in x /\ x \in Holding(u) /\ x \notin asking /\ x \notin started
  <2>1. PICK x \in Seated : s \in x
    BY DEF BeforeStart
  <2> QED
    BY <1>3, <2>1
<1>9. \A e \in Known : e \in asking \cup started => e \cap lands = {}
  BY <1>8 DEF Apart, Known
<1>10. \A e \in completed : e \cap lands = {}
  BY <1>9 DEF EndTypes, Known
<1>11. MemoryInv'
  <2>1. MemoryOnlyForResidents'
    <3> SUFFICES ASSUME NEW v \in Units, NEW i \in Inputs, NEW s \in memory'[v][i]
                 PROVE  \E e \in Holding(v) \cup {delivering} : s \in e
      BY <1>2, <1>5, <1>6 DEF MemoryOnlyForResidents
    <3>1. s \in memory[v][i] \/ (v = u /\ s \in lands)
      BY <1>7
    <3>2. CASE s \in memory[v][i]
      BY <3>2 DEF InputsInv, MemoryInv, MemoryOnlyForResidents
    <3>3. CASE v = u /\ s \in lands
      BY <1>8, <3>3
    <3> QED
      BY <3>1, <3>2, <3>3
  <2>2. CompletedReadsEnd'
    <3> SUFFICES ASSUME NEW e \in completed, NEW v \in Units, NEW i \in Inputs,
                        e \cap memory'[v][i] # {}
                 PROVE  e = delivering /\ KindOf(e) = "window"
      BY <1>2, <1>6 DEF CompletedReadsEnd
    <3>1. e \cap memory[v][i] # {}
      BY <1>7, <1>10
    <3> QED
      BY <3>1 DEF InputsInv, MemoryInv, CompletedReadsEnd
  <2>3. AskedIsMissingOrRead'
    <3> SUFFICES ASSUME NEW v \in Units, NEW e \in Holding(v), e \notin completed \cup asking,
                        NEW s \in e \cap live
                 PROVE  s \in missing' \/ s \in memory'[v][InputOf[s]]
      BY <1>2, <1>5, <1>6 DEF AskedIsMissingOrRead
    <3>1. e \in Seated /\ e \subseteq submitted
      BY InOrderFacts DEF Known, Apart
    <3>2. InputOf[s] \in Inputs
      BY <3>1, InOrderFacts
    <3>3. s \in missing \/ s \in memory[v][InputOf[s]]
      BY DEF InputsInv, MemoryInv, AskedIsMissingOrRead
    <3>4. CASE s \in lands
      <4>1. e \in Holding(u)
        BY <1>3, <3>1, <3>4
      <4>2. v = u
        BY <4>1 DEF ComputeInv, OneSeat
      <4> QED
        BY <1>7, <3>2, <3>4, <4>2
    <3>5. CASE s \notin lands
      BY <1>2, <1>7, <3>2, <3>3, <3>5
    <3> QED
      BY <3>4, <3>5
  <2> QED
    BY <2>1, <2>2, <2>3 DEF MemoryInv
<1>12. StoreInv'
  <2>1. lands \cap waiting = {}
    BY <1>8 DEF Apart, Known
  <2>2. lands \cap UNION (asking \ withdrawn) = {}
    BY <1>9 DEF Known
  <2>3. \A s : s \in Unlanded' <=> s \in Unlanded /\ s \notin lands
    BY <1>2, <2>1, <2>2 DEF Unlanded
  <2>4. UnlandedIsHeld'
    BY <1>2, <1>6, <2>3 DEF InputsInv, StoreInv, UnlandedIsHeld
  <2>5. HeldIsUnlanded'
    BY <1>2, <1>5, <2>3 DEF InputsInv, StoreInv, HeldIsUnlanded
  <2>6. SingleHoldsMissing'
    BY <1>2, <1>5, <1>6 DEF InputsInv, StoreInv, SingleHoldsMissing
  <2>7. WindowsAreSingle'
    BY <1>2, <1>5, <1>6 DEF InputsInv, StoreInv, WindowsAreSingle
  <2> QED
    BY <2>4, <2>5, <2>6, <2>7 DEF StoreInv
<1> QED
  BY <1>11, <1>12 DEF InputsInv

\* A decode ends: a window's keeps its input for the delivery, any other gives
\* everything back.
LEMMA DecodeEndsKeepsInputs ==
    ASSUME IInv, InputsInv, NEW d, DecodeEnds(d)
    PROVE  InputsInv'
<1> USE DEF IInv
<1>1. /\ AtRest /\ d \in started \ ended
      /\ config' = config /\ submitted' = submitted /\ waiting' = waiting
      /\ asking' = asking /\ missing' = missing /\ withdrawn' = withdrawn
      /\ walking' = walking
  BY DEF DecodeEnds
<1>2. /\ d \in Decodes /\ d \in Known /\ delivering = NoDecode
      /\ d \notin withdrawn => d \in Seated
  BY <1>1, EndingFacts
<1>3. \A e \in completed : Unread(e) \/ (e = delivering /\ KindOf(e) = "window")
  BY CompletedReads DEF InputsInv
<1>4. \A e \in completed : e # NoDecode
  BY NoDecodeFacts DEF EndTypes, ComputeInv, ComputeTypes
<1>5. \A e \in completed : Unread(e)
  BY <1>2, <1>3, <1>4
<1>6. \A e \in walking : KindOf(e) = "window"
  BY DEF InputsInv, StoreInv, WindowsAreSingle
<1>7. delivering \subseteq {}
  BY <1>2 DEF NoDecode
<1>8. CASE AbortedEnds(d)
  <2>1. /\ residents' = residents /\ started' = started /\ live' = live /\ memory' = memory
        /\ held' = held /\ completed' = completed /\ delivering' = delivering
    BY <1>8 DEF AbortedEnds, compute
  <2> QED
    BY <1>1, <2>1, InputsStay
<1>9. CASE WindowDecodeEnds(d)
  <2>1. /\ KindOf(d) = "window" /\ completed' = completed \cup {d} /\ live' = live \ d
        /\ delivering' = d /\ residents' = residents /\ started' = started
        /\ memory' = memory /\ held' = held
    BY <1>9 DEF WindowDecodeEnds, compute
  <2>2. HandsBack({}, {})
    <3>1. /\ \A u \in Units : Holding(u)' = Holding(u) \ {}
          /\ Seated' = Seated \ {} /\ Known' \subseteq Known
      BY <1>1, <2>1, SeatsStay
    <3> QED
      BY <1>1, <2>1, <3>1 DEF HandsBack, Unlanded
  <2> QED
    BY <1>1, <1>5, <1>6, <1>7, <2>1, <2>2, HandsBackKeeps
<1>10. CASE OtherDecodeEnds(d)
  <2>1. /\ d \notin withdrawn /\ completed' = completed \cup {d} /\ live' = live \ d
        /\ Release(d) /\ Free(d) /\ delivering' = d
    BY <1>10 DEF OtherDecodeEnds
  <2>2. d \in Seated /\ d \in started
    BY <1>1, <1>2, <2>1
  <2>3. /\ \A u \in Units : Holding(u)' = Holding(u) \ {d}
        /\ Seated' = Seated \ {d} /\ Known' \subseteq Known
    BY <1>1, <2>1, <2>2, SeatGivenBack
  <2>4. /\ \A u \in Units, i \in Inputs : memory'[u][i] = memory[u][i] \ d
        /\ held' = held \ d
    BY <1>1, <2>1, ReleaseTypes DEF Release
  <2>5. Unlanded' = Unlanded \ d /\ missing' = missing \ d
    <3>1. d \cap Unlanded = {} /\ d \cap missing = {}
      BY <2>2, StartedHasAll
    <3>2. Unlanded' = Unlanded
      BY <1>1 DEF Unlanded
    <3> QED
      BY <1>1, <3>1, <3>2
  <2>6. HandsBack(d, {d})
    BY <1>1, <2>1, <2>3, <2>4, <2>5 DEF HandsBack
  <2>7. \A e \in Seated' : e \cap d \cap live' = {}
    BY <2>1
  <2> QED
    BY <1>1, <1>5, <1>6, <1>7, <2>1, <2>6, <2>7, HandsBackKeeps
<1> QED
  BY <1>8, <1>9, <1>10 DEF DecodeEnds

\* After the delivery a window's input goes, whatever becomes of its unit.
LEMMA DeliveryEndsKeepsInputs ==
    ASSUME IInv, InputsInv, DeliveryEnds
    PROVE  InputsInv'
<1> USE DEF IInv
<1> DEFINE d == delivering
<1>1. /\ d # NoDecode /\ delivering' = NoDecode
      /\ config' = config /\ submitted' = submitted /\ waiting' = waiting /\ live' = live
      /\ asking' = asking /\ missing' = missing /\ completed' = completed
      /\ withdrawn' = withdrawn
  BY DEF DeliveryEnds, queue
<1>2. d \in completed /\ d \in started
  BY <1>1 DEF EndTypes
<1>3. d \cap live = {}
  BY <1>2 DEF AfterStart
<1>4. \A e \in completed : Unread(e) \/ (e = d /\ KindOf(e) = "window")
  BY CompletedReads DEF InputsInv
<1>5. \A e \in walking : KindOf(e) = "window"
  BY DEF InputsInv, StoreInv, WindowsAreSingle
<1>6. Unlanded' = Unlanded \ d /\ missing' = missing \ d /\ Unlanded' = Unlanded
  <2>1. d \cap Unlanded = {} /\ d \cap missing = {}
    BY <1>2, StartedHasAll
  <2>2. Unlanded' = Unlanded
    BY <1>1 DEF Unlanded
  <2> QED
    BY <1>1, <2>1, <2>2
<1>7. CASE KindOf(d) # "window"
  <2>1. /\ residents' = residents /\ started' = started /\ memory' = memory /\ held' = held
        /\ walking' = walking
    BY <1>7 DEF DeliveryEnds, compute
  <2>2. HandsBack({}, {})
    <3>1. /\ \A u \in Units : Holding(u)' = Holding(u) \ {}
          /\ Seated' = Seated \ {} /\ Known' \subseteq Known
      BY <1>1, <2>1, SeatsStay
    <3> QED
      BY <1>1, <1>6, <2>1, <3>1 DEF HandsBack
  <2>3. \A e \in completed : Unread(e)
    BY <1>4, <1>7
  <2> QED
    BY <1>1, <1>2, <1>5, <2>1, <2>2, <2>3, HandsBackKeeps
<1>8. CASE KindOf(d) = "window" /\ UNCHANGED compute /\ walking' \subseteq walking \cup {d}
           /\ Release(d)
  <2>1. residents' = residents /\ started' = started
    BY <1>8 DEF compute
  <2>2. /\ \A u \in Units : Holding(u)' = Holding(u) \ {}
        /\ Seated' = Seated \ {} /\ Known' \subseteq Known
    BY <1>1, <2>1, SeatsStay
  <2>3. /\ \A u \in Units, i \in Inputs : memory'[u][i] = memory[u][i] \ d
        /\ held' = held \ d
    BY <1>1, <1>8, ReleaseTypes DEF Release
  <2>4. HandsBack(d, {})
    BY <1>1, <1>6, <2>2, <2>3 DEF HandsBack
  <2>5. \A e \in completed : e \subseteq d \/ Unread(e)
    BY <1>4
  <2>6. \A e \in walking' : KindOf(e) = "window"
    BY <1>5, <1>8
  <2> QED
    BY <1>1, <1>3, <2>4, <2>5, <2>6, HandsBackKeeps
<1>9. CASE KindOf(d) = "window" /\ ~ config.blocksUnit /\ Free(d) /\ walking' = walking
           /\ Release(d)
  <2>1. d \in Seated
    BY <1>2, <1>9 DEF AfterStart
  <2>2. /\ \A u \in Units : Holding(u)' = Holding(u) \ {d}
        /\ Seated' = Seated \ {d} /\ Known' \subseteq Known
    BY <1>1, <1>2, <1>9, <2>1, SeatGivenBack
  <2>3. /\ \A u \in Units, i \in Inputs : memory'[u][i] = memory[u][i] \ d
        /\ held' = held \ d
    BY <1>1, <1>9, ReleaseTypes DEF Release
  <2>4. HandsBack(d, {d})
    BY <1>1, <1>6, <2>2, <2>3 DEF HandsBack
  <2>5. \A e \in completed : e \subseteq d \/ Unread(e)
    BY <1>4
  <2> QED
    BY <1>1, <1>3, <1>5, <1>9, <2>4, <2>5, HandsBackKeeps
<1> QED
  BY <1>7, <1>8, <1>9 DEF DeliveryEnds

\* A walk ends on a decode whose input went with its delivery.
LEMMA WalkEndsKeepsInputs ==
    ASSUME IInv, InputsInv, NEW d, WalkEnds(d)
    PROVE  InputsInv'
<1> USE DEF IInv
<1>1. /\ d \in walking /\ walking' = walking \ {d} /\ Free(d)
      /\ config' = config /\ waiting' = waiting /\ live' = live /\ asking' = asking
      /\ missing' = missing /\ memory' = memory /\ held' = held /\ completed' = completed
      /\ withdrawn' = withdrawn /\ delivering' = delivering
  BY DEF WalkEnds, staging, queue
<1>2. d \in Seated /\ d # delivering /\ d \in completed /\ d \in started
  BY <1>1 DEF AfterStart, EndTypes
<1>3. HandsBack({}, {d})
  <2>1. /\ \A u \in Units : Holding(u)' = Holding(u) \ {d}
        /\ Seated' = Seated \ {d} /\ Known' \subseteq Known
    BY <1>1, <1>2, SeatGivenBack
  <2> QED
    BY <1>1, <2>1 DEF HandsBack, Unlanded
<1>4. \A e \in completed : Unread(e) \/ (e = delivering /\ KindOf(e) = "window")
  BY CompletedReads DEF InputsInv
<1>5. \A e \in walking : KindOf(e) = "window"
  BY DEF InputsInv, StoreInv, WindowsAreSingle
<1>6. d \cap held = {}
  BY <1>1, <1>2, <1>5, EndedWindowHoldsNothing
<1> QED
  BY <1>1, <1>2, <1>3, <1>4, <1>5, <1>6, HandsBackKeeps

\* The inputs are in order at first.
LEMMA InitInputs ==
    ASSUME Init
    PROVE  InputsInv
<1>1. /\ \A u \in Units, i \in Inputs : memory[u][i] = {}
      /\ held = {} /\ waiting = {} /\ missing = {} /\ asking = {} /\ started = {}
      /\ withdrawn = {} /\ walking = {} /\ completed = {}
      /\ \A u \in Units : residents[u] = <<>>
  BY DEF Init
<1>2. \A u \in Units : Holding(u) = {}
  BY <1>1 DEF Holding, Range
<1>3. Seated = {} /\ Known = {}
  BY <1>1, <1>2 DEF Seated, IsResident, Known
<1>4. MemoryInv
  BY <1>1, <1>2 DEF MemoryInv, MemoryOnlyForResidents, CompletedReadsEnd, AskedIsMissingOrRead
<1>5. StoreInv
  <2>1. Unlanded = {}
    BY <1>1 DEF Unlanded
  <2> QED
    BY <1>1, <1>3, <2>1 DEF StoreInv, UnlandedIsHeld, HeldIsUnlanded, SingleHoldsMissing,
                            WindowsAreSingle
<1> QED
  BY <1>4, <1>5 DEF InputsInv

\* Every step keeps the inputs in order.
LEMMA NextKeepsInputs ==
    ASSUME IInv, InputsInv, [Next]_vars
    PROVE  InputsInv'
<1>1. ASSUME NEW r \in Requests, Enqueue(r)
      PROVE  InputsInv'
  BY <1>1, EnqueueKeepsInputs
<1>2. ASSUME NEW i \in Inputs, ReleaseWindow(i) \/ Withdraw(i) \/ CancelStrong(i)
      PROVE  InputsInv'
  <2>1. /\ config' = config /\ residents' = residents /\ started' = started
        /\ asking' = asking /\ withdrawn' = withdrawn /\ waiting' = waiting
        /\ live' \subseteq live /\ missing' = missing /\ memory' = memory /\ held' = held
        /\ completed' = completed /\ delivering' = delivering /\ walking' = walking
    BY <1>2 DEF ReleaseWindow, Withdraw, CancelStrong, compute, staging, ends
  <2> QED
    BY <2>1, InputsStay
<1>3. ASSUME NEW d \in completed, Read(d)
      PROVE  InputsInv'
  BY <1>3, ReadKeepsInputs
<1>4. ASSUME DeliveryEnds
      PROVE  InputsInv'
  BY <1>4, DeliveryEndsKeepsInputs
<1>5. ASSUME NEW d \in Candidates, DispatchToCompute(d)
      PROVE  InputsInv'
  BY <1>5, DispatchKeepsInputs
<1>6. ASSUME NEW d \in Candidates, NEW u \in Units, DispatchToStage(d, u)
      PROVE  InputsInv'
  BY <1>6, DispatchKeepsInputs
<1>7. ASSUME NEW r \in taking, TakeBack(r)
      PROVE  InputsInv'
  BY <1>7, TakeBackKeepsInputs
<1>8. ASSUME NEW d \in asking, Ask(d)
      PROVE  InputsInv'
  BY <1>8, AskWithdrawnKeepsInputs, AskForInputKeepsInputs DEF Ask
<1>9. ASSUME NEW r \in inFlight, Land(r)
      PROVE  InputsInv'
  BY <1>9, LandingKeepsInputs
<1>10. ASSUME NEW d \in started, DecodeEnds(d)
       PROVE  InputsInv'
  BY <1>10, DecodeEndsKeepsInputs
<1>11. ASSUME NEW d \in walking, WalkEnds(d)
       PROVE  InputsInv'
  BY <1>11, WalkEndsKeepsInputs
<1>12. ASSUME DispatchEnds \/ UNCHANGED vars
       PROVE  InputsInv'
  <2>1. /\ config' = config /\ residents' = residents /\ started' = started
        /\ asking' = asking /\ withdrawn' = withdrawn /\ waiting' = waiting
        /\ live' = live /\ missing' = missing /\ memory' = memory /\ held' = held
        /\ completed' = completed /\ delivering' = delivering /\ walking' = walking
    BY <1>12 DEF DispatchEnds, vars, queue, compute, staging, ends
  <2> QED
    BY <2>1, InputsStay
<1>13. HalfAsked \subseteq Requests
  BY DEF HalfAsked
<1> QED
  BY <1>1, <1>2, <1>3, <1>4, <1>5, <1>6, <1>7, <1>8, <1>9, <1>10, <1>11, <1>12, <1>13
     DEF Next, Calls, Continues, Events, Dispatch

\* The inputs are always in order: who reads what a unit's memory holds, and
\* for whom the store keeps its rounds.
THEOREM InputsAreInOrder == Spec => []InputsInv
<1>1. Init => InputsInv
  BY InitInputs
<1>2. IInv /\ InputsInv /\ [Next]_vars => InputsInv'
  BY NextKeepsInputs
<1> QED
  BY <1>1, <1>2, PoolIsInOrder, PTL DEF Spec

\* A unit's memory keeps rounds only for its residents and the result being
\* delivered, and a running decode never loses the input it still decodes
\* (check_decode_work_settled; DecoderMemory.take and release).
THEOREM MemoryAlwaysFollowsResidents == Spec => []MemoryFollowsResidents
<1>1. IInv /\ InputsInv => MemoryFollowsResidents
  <2> SUFFICES ASSUME IInv, InputsInv
               PROVE  RunningHasInput
    BY DEF MemoryFollowsResidents, InputsInv, MemoryInv
  <2> SUFFICES ASSUME NEW d \in running \ completed, NEW r \in d \cap live
               PROVE  r \in memory[UnitOf(d)][InputOf[r]]
    BY DEF RunningHasInput
  <2>1. d \in started /\ d \in Seated
    BY DEF IInv, ComputeInv, SlotInv, SlotsFit
  <2>2. UnitOf(d) \in Units /\ d \in Holding(UnitOf(d))
    BY <2>1, SeatedFacts DEF IInv
  <2>3. d \notin asking /\ r \notin missing
    BY <2>1, StartedHasAll DEF IInv, BeforeStart
  <2> QED
    BY <2>2, <2>3 DEF InputsInv, MemoryInv, AskedIsMissingOrRead
<1> QED
  BY <1>1, InputsAreInOrder, PoolIsInOrder, PTL

\* The source store keeps a request's rounds exactly until they land in a unit
\* or the request is taken back: no transfer reads rounds that were let go of,
\* and none are kept for nobody (input_hold).
THEOREM StoreAlwaysHoldsUntilLanded == Spec => []StoreHoldsUntilLanded
<1>1. IInv /\ InputsInv => StoreHoldsUntilLanded
  <2> SUFFICES ASSUME IInv, InputsInv
               PROVE  StoreHoldsUntilLanded
    OBVIOUS
  <2>1. \A d \in Seated : d \in Decodes /\ \E u \in Units : d \in Holding(u)
    BY DEF Seated, IsResident
  <2> QED
    BY <2>1 DEF StoreHoldsUntilLanded, InputsInv, StoreInv, UnlandedIsHeld, HeldIsUnlanded,
                Unlanded
<1> QED
  BY <1>1, InputsAreInOrder, PoolIsInOrder, PTL

-----------------------------------------------------------------------------
(* Room in the units' memories *)

\* Who reads an input reads these rounds, and sits on the unit that holds them.
ReadersMatch == \A u \in Units, i \in Inputs : \A r \in memory[u][i] : InputOf[r] = i
ReadsAtHome ==
    \A u \in Units, i \in Inputs : \A r \in memory[u][i] :
        \A d \in Seated : r \in d => d \in Holding(u)
BatchesMerge == \A d \in Seated : IsBatch(d) => config.mergesStrong

LiveInputs(u) == UNION {InputsOf(d) : d \in LiveResidents(u)}
LiveInputsFit ==
    RoomIsAsked(config) => \A u \in Units : BitsOf(LiveInputs(u)) <= config.capacityBits

\* No job waits for compute that is free, or for a slot that has room.
NoneWaitsForFree ==
    EachInputFits(config) /\ ~ dispatching /\ taking = {} /\ delivering = NoDecode =>
        \A d \in Candidates : MayWait(d)

RoomInv == ReadersMatch /\ ReadsAtHome /\ BatchesMerge /\ LiveInputsFit /\ NoneWaitsForFree

\* The bits of inputs are their weight.
LEMMA BitsFacts ==
    ASSUME config \in Settings
    PROVE  /\ IsFiniteSet(Inputs) /\ \A i \in Inputs : Bits[i] \in Nat
           /\ config.capacityBits \in Nat
           /\ \A S : BitsOf(S) = Weight(Bits, S)
           /\ \A S \in SUBSET Inputs : BitsOf(S) \in Nat
<1>1. IsFiniteSet(Inputs) /\ \A i \in Inputs : Bits[i] \in Nat
  BY RequestsAssumption DEF Inputs, Bits
<1>2. config.capacityBits \in Nat
  BY PoolAssumption
<1>3. \A S : BitsOf(S) = Weight(Bits, S)
  BY DEF BitsOf, Weight, Grains
<1>4. ASSUME NEW S \in SUBSET Inputs
      PROVE  BitsOf(S) \in Nat
  <2>1. IsFiniteSet(S) /\ \A i \in S : Bits[i] \in Nat
    BY <1>1, FS_Subset
  <2> QED
    BY <1>3, <2>1, WeightFacts
<1> QED
  BY <1>1, <1>2, <1>3, <1>4

\* Fewer inputs have fewer bits, two sets no more than both, and none is bits
\* of one.
LEMMA BitsOrder ==
    ASSUME config \in Settings, NEW S \in SUBSET Inputs, NEW T \in SUBSET Inputs
    PROVE  /\ S \subseteq T => BitsOf(S) <= BitsOf(T)
           /\ BitsOf(S \cup T) <= BitsOf(S) + BitsOf(T)
           /\ S \cap T = {} => BitsOf(S \cup T) = BitsOf(S) + BitsOf(T)
<1>1. /\ IsFiniteSet(S) /\ \A i \in S : Bits[i] \in Nat
      /\ IsFiniteSet(T) /\ \A i \in T : Bits[i] \in Nat
  BY BitsFacts, FS_Subset
<1>2. S \subseteq T => Weight(Bits, S) <= Weight(Bits, T)
  BY <1>1, WeightOfPart
<1>3. /\ Weight(Bits, S \cup T) <= Weight(Bits, S) + Weight(Bits, T)
      /\ S \cap T = {} => Weight(Bits, S \cup T) = Weight(Bits, S) + Weight(Bits, T)
  BY <1>1, WeightOfTwo
<1> QED
  BY <1>2, <1>3, BitsFacts

\* Bits of at most one input.
LEMMA BitsOfOne ==
    ASSUME config \in Settings, EachInputFits(config), NEW i \in Inputs, NEW S, S \subseteq {i}
    PROVE  BitsOf(S) <= config.capacityBits /\ BitsOf({}) = 0
<1>1. Bits[i] \in Nat /\ Bits[i] <= config.capacityBits /\ config.capacityBits \in Nat
  BY BitsFacts DEF EachInputFits, Inputs, Bits
<1>2. Weight(Bits, {}) = 0 /\ Weight(Bits, {i}) = Bits[i]
  BY <1>1, WeightOfOne
<1>3. BitsOf({}) = 0 /\ BitsOf({i}) = Bits[i]
  BY <1>2, BitsFacts
<1>4. S = {} \/ S = {i}
  OBVIOUS
<1> QED
  BY <1>1, <1>3, <1>4

\* A decode that is no batch is of one request.
LEMMA SingleFacts ==
    ASSUME config \in Settings, NEW d \in Decodes
    PROVE  /\ \A r \in d : InputOf[r] \in Inputs
           /\ InputsOf(d) \subseteq Inputs
           /\ ~ IsBatch(d) => \E r \in Requests : d = {r} /\ InputsOf(d) = {InputOf[r]}
<1>1. d \subseteq Requests /\ d # {} /\ IsFiniteSet(d)
  <2>1. IsFiniteSet(Requests)
    BY RequestsAssumption DEF Requests
  <2> QED
    BY <2>1, FS_Subset DEF Decodes
<1>2. \A r \in d : InputOf[r] \in Inputs
  BY <1>1, PoolFacts
<1>3. ASSUME ~ IsBatch(d)
      PROVE  \E r \in Requests : d = {r}
  <2>1. Cardinality(d) \in Nat /\ Cardinality(d) # 0 /\ ~ (Cardinality(d) > 1)
    BY <1>1, <1>3, FS_EmptySet, FS_CardinalityType DEF IsBatch
  <2>2. Cardinality(d) = 1
    BY <2>1
  <2>3. \E r : d = {r}
    BY <1>1, <2>2, FS_Singleton
  <2> QED
    BY <1>1, <2>3
<1> QED
  BY <1>2, <1>3 DEF InputsOf

\* Free units are empty, so they have room for any job.
LEMMA FreeHasRoom ==
    ASSUME IInv, NEW d
    PROVE  FreeWithRoom(d) = {} <=> free = <<>>
<1> USE DEF IInv
<1>1. ASSUME NEW i \in DOMAIN free
      PROVE  HasRoom(free[i], d)
  <2>1. free[i] \in Units /\ free[i] \in Range(free)
    BY <1>1 DEF ComputeInv, ComputeTypes, Range
  <2>2. Holding(free[i]) = {}
    BY <2>1 DEF ComputeInv, UnitInv
  <2>3. residents[free[i]] \in Seq(Decodes)
    BY <2>1 DEF ComputeInv, ComputeTypes
  <2>4. Len(residents[free[i]]) = 0
    <3>1. Len(residents[free[i]]) \in Nat
          /\ DOMAIN residents[free[i]] = 1 .. Len(residents[free[i]])
      BY <2>3, LenProperties
    <3>2. ~ \E j : j \in DOMAIN residents[free[i]]
      BY <2>2 DEF Holding, Range
    <3> QED
      BY <3>1, <3>2
  <2> QED
    BY <2>2, <2>4 DEF HasRoom, LiveResidents, InputSlotCount
<1>2. free \in Seq(Units)
  BY DEF ComputeInv, ComputeTypes
<1>3. free = <<>> <=> DOMAIN free = {}
  BY <1>2
<1> QED
  BY <1>1, <1>3 DEF FreeWithRoom

-----------------------------------------------------------------------------
(* Inputs that land or are shared *)

\* A unit's memory gains readers R, of decodes on the unit, and nothing else of
\* the pool changes but what starts and what is on its way.
Gains(u, R) ==
    /\ config' = config /\ residents' = residents /\ free' = free
    /\ waiting' = waiting /\ blocked' = blocked /\ live' = live
    /\ withdrawn' = withdrawn /\ completed' = completed /\ delivering' = delivering
    /\ started \subseteq started'
    /\ MemoryGains(u, R)
    /\ \A r \in R : \E e \in Holding(u) : r \in e

Stored(v) == {i \in Inputs : memory[v][i] # {}}
Arrives(v, d) ==
    UNION {Demanded(e) : e \in {x \in LiveResidents(v) \cup {d} : ~ Holds(v, x)}}
Need(v, d) == Occupied(v) + Arriving(v, LiveResidents(v) \cup {d})

\* A memory that stays as it is gains no reader.
LEMMA NothingGained ==
    ASSUME NEW u, memory' = memory
    PROVE  MemoryGains(u, {})
<1>1. \A i : {r \in {} : InputOf[r] = i} = {}
  OBVIOUS
<1>2. \A S : S \cup {} = S
  OBVIOUS
<1> QED
  BY <1>1, <1>2, Zenon DEF MemoryGains

LEMMA GainsKeepPool ==
    ASSUME NEW u, NEW R, Gains(u, R)
    PROVE  /\ Units' = Units /\ Inputs' = Inputs /\ InputOf' = InputOf /\ Kind' = Kind
           /\ Bits' = Bits /\ Decodes' = Decodes /\ Requests' = Requests
           /\ \A d : /\ IsBatch(d)' = IsBatch(d) /\ KindOf(d)' = KindOf(d)
                     /\ InputsOf(d)' = InputsOf(d)
           /\ \A v : Holding(v)' = Holding(v) /\ LiveResidents(v)' = LiveResidents(v)
           /\ Candidates' = Candidates /\ Seated' = Seated
<1>1. config' = config /\ residents' = residents /\ withdrawn' = withdrawn
      /\ completed' = completed /\ waiting' = waiting /\ blocked' = blocked
  BY DEF Gains, MemoryGains
<1>2. /\ Units' = Units /\ Inputs' = Inputs /\ InputOf' = InputOf /\ Kind' = Kind
      /\ Decodes' = Decodes /\ Requests' = Requests
  BY <1>1, SamePool
<1>3. Bits' = Bits /\ \A d : KindOf(d)' = KindOf(d)
  BY <1>1, SameKind DEF Bits
<1>4. \A d : IsBatch(d)' = IsBatch(d) /\ InputsOf(d)' = InputsOf(d)
  BY <1>2 DEF IsBatch, InputsOf
<1>5. \A v : Holding(v)' = Holding(v)
  BY <1>1 DEF Holding
<1>6. \A v : LiveResidents(v)' = LiveResidents(v)
  BY <1>1, <1>5 DEF LiveResidents
<1>7. Candidates' = Candidates
  BY <1>1 DEF Candidates, Startable
<1>8. Seated' = Seated
  BY <1>2, <1>5 DEF Seated, IsResident
<1> QED
  BY <1>2, <1>3, <1>4, <1>5, <1>6, <1>7, <1>8

\* The inputs of a decode that may stand at a unit are inputs of the pool.
LEMMA DemandedFacts ==
    ASSUME IInv, NEW d \in Decodes
    PROVE  Demanded(d) \subseteq Inputs
<1>1. \A r \in d : InputOf[r] \in Inputs
  BY SingleFacts DEF IInv, QueueTypes
<1> QED
  BY <1>1 DEF Demanded, InputsOf

\* An input that no longer arrives is in the memory now, or has no bits.
LEMMA ArrivedIsStored ==
    ASSUME IInv, RoomInv, NEW u \in Units, NEW R, Gains(u, R), NEW v \in Units,
           NEW e, e \in LiveResidents(v) \/ e \in Candidates,
           NEW i \in Demanded(e), ~ Holds(v, e), Holds(v, e)' \/ i \notin Demanded(e)'
    PROVE  i \in Stored(v)' \ Stored(v) \/ Bits[i] = 0
<1> USE DEF IInv
<1>1. /\ Units' = Units /\ Inputs' = Inputs /\ InputOf' = InputOf
      /\ \A d : IsBatch(d)' = IsBatch(d) /\ InputsOf(d)' = InputsOf(d)
  BY GainsKeepPool
<1>2. /\ config' = config /\ live' = live /\ started \subseteq started'
      /\ \A w \in Units, j \in Inputs :
            memory'[w][j] = IF w = u THEN memory[w][j] \cup {r \in R : InputOf[r] = j}
                            ELSE memory[w][j]
      /\ \A r \in R : \E x \in Holding(u) : r \in x
  BY DEF Gains, MemoryGains
<1>3. e \in Decodes
  <2>1. CASE e \in LiveResidents(v)
    BY <2>1, SeatedFacts DEF LiveResidents
  <2> QED
    BY <2>1, CandidateFacts
<1>4. config \in Settings
  BY DEF QueueTypes
<1>5. i \in Inputs
  BY <1>3, DemandedFacts
<1>6. CASE ~ IsBatch(e)
  <2>1. PICK r \in Requests : e = {r} /\ InputsOf(e) = {InputOf[r]}
    BY <1>3, <1>4, <1>6, SingleFacts
  <2>2. i = InputOf[r] /\ Demanded(e)' = Demanded(e)
    BY <1>1, <1>6, <2>1 DEF Demanded
  <2>3. Holds(v, e)'
    BY <2>2
  <2>4. memory'[v][i] # {}
    BY <1>1, <2>1, <2>2, <2>3 DEF Holds
  <2>5. memory[v][i] = {}
    BY <1>6, <2>1, <2>2 DEF Holds
  <2> QED
    BY <1>1, <1>5, <2>4, <2>5 DEF Stored
<1>7. CASE IsBatch(e)
  <2>1. ~ Holds(v, e)' /\ i \notin Demanded(e)'
    BY <1>1, <1>7 DEF Holds
  <2>2. PICK r \in e \cap live : CarriesPayload(r, e) /\ i = InputOf[r]
    BY <1>7 DEF Demanded, InputsOf
  <2>3. ~ CarriesPayload(r, e)'
    BY <1>1, <1>2, <1>7, <2>1, <2>2 DEF Demanded, InputsOf
  <2>4. PICK w \in Units : r \in memory'[w][i]
    BY <1>1, <2>2, <2>3 DEF CarriesPayload
  <2>5. \A x \in Units : r \notin memory[x][i]
    BY <1>2, <2>2, <2>3 DEF CarriesPayload
  <2>6. w = u /\ r \in R
    BY <1>2, <1>5, <2>4, <2>5
  <2>7. PICK x \in Holding(u) : r \in x
    BY <1>2, <2>6
  <2>8. x \in Seated /\ x \in Known
    BY <2>7, SeatedFacts DEF Known
  <2>9. e \in LiveResidents(v)
    <3> SUFFICES ASSUME e \in Candidates
                 PROVE  FALSE
      OBVIOUS
    <3>1. r \in waiting
      BY <2>2, CandidateFacts
    <3> QED
      BY <2>7, <2>8, <3>1 DEF Apart
  <2>10. e \in Seated /\ e \in Holding(v)
    BY <2>9, SeatedFacts DEF LiveResidents
  <2>11. e = x
    BY <2>2, <2>7, <2>8, <2>10 DEF Apart, Known
  <2>12. v = u
    BY <2>7, <2>10, <2>11 DEF ComputeInv, OneSeat
  <2>13. i \in Stored(v)'
    BY <1>1, <1>5, <2>4, <2>6, <2>12 DEF Stored
  <2>14. config.mergesStrong
    BY <1>7, <2>10 DEF RoomInv, BatchesMerge
  <2>15. ASSUME memory[v][i] # {}, Bits[i] # 0
         PROVE  FALSE
    <3>1. PICK s : s \in memory[v][i]
      BY <2>15
    <3>2. s \in Requests /\ InputOf[s] = i
      <4>1. s \in submitted
        BY <1>5, <3>1 DEF StagingTypes
      <4> QED
        BY <1>5, <3>1, <4>1 DEF RoomInv, ReadersMatch, QueueTypes
    <3>3. r \in Requests /\ InputOf[r] = i
      BY <1>3, <2>2 DEF Decodes
    <3>4. Kind[r] = "strong"
      <4>1. Kind[r] \in {"window", "strong", "external"}
        BY <1>4, <3>3, RequestsAssumption DEF Kind, Requests
      <4>2. Kind[r] # "window"
        BY <1>4, <2>14, <3>3, PoolAssumption DEF Kind, Requests
      <4>3. Kind[r] # "external"
        BY <1>4, <2>15, <3>3, RequestsAssumption DEF Kind, Requests, InputOf, Bits
      <4> QED
        BY <4>1, <4>2, <4>3
    <3>5. r = s
      BY <1>4, <2>14, <3>2, <3>3, <3>4, PoolAssumption DEF Kind, Requests, InputOf
    <3> QED
      BY <2>5, <3>1, <3>5
  <2> QED
    BY <1>5, <2>13, <2>15 DEF Stored
<1> QED
  BY <1>6, <1>7

\* What is needed, in weights.
LEMMA NeedIsWeight ==
    ASSUME NEW v, NEW d
    PROVE  /\ Need(v, d) = Weight(Bits, Stored(v)) + Weight(Bits, Arrives(v, d))
           /\ Need(v, d)' = Weight(Bits', Stored(v)') + Weight(Bits', Arrives(v, d)')
  BY DEF Need, Occupied, Arriving, Stored, Arrives, BitsOf, Weight, Grains

\* What is stored and what arrives are inputs of the pool.
LEMMA NeedSets ==
    ASSUME IInv, NEW u, NEW R, Gains(u, R), NEW v \in Units, NEW d \in Candidates
    PROVE  /\ Stored(v) \in SUBSET Inputs /\ Stored(v)' \in SUBSET Inputs
           /\ Arrives(v, d) \in SUBSET Inputs /\ Arrives(v, d)' \in SUBSET Inputs
<1> USE DEF IInv
<1>1. /\ Units' = Units /\ Inputs' = Inputs /\ InputOf' = InputOf
      /\ LiveResidents(v)' = LiveResidents(v)
      /\ \A x : IsBatch(x)' = IsBatch(x) /\ InputsOf(x)' = InputsOf(x)
  BY GainsKeepPool
<1>2. live' = live
  BY DEF Gains, MemoryGains
<1> DEFINE readers == LiveResidents(v) \cup {d}
<1>3. config \in Settings /\ \A x \in readers : x \in Decodes
  <2>1. \A x \in LiveResidents(v) : x \in Decodes
    BY SeatedFacts DEF LiveResidents
  <2> QED
    BY <2>1, CandidateFacts DEF QueueTypes
<1>4. ASSUME NEW x \in readers
      PROVE  Demanded(x) \subseteq Inputs /\ Demanded(x)' \subseteq Inputs
  <2>1. \A r \in x : InputOf[r] \in Inputs
    BY <1>3, SingleFacts
  <2>2. Demanded(x)' \subseteq {InputOf[r] : r \in x}
    BY <1>1 DEF Demanded, InputsOf
  <2> QED
    BY <1>3, <2>1, <2>2, DemandedFacts
<1> QED
  BY <1>1, <1>4 DEF Stored, Arrives

\* What is stored and what arrives need no less room than before.
LEMMA NeedGrows ==
    ASSUME IInv, RoomInv, NEW u \in Units, NEW R, Gains(u, R), NEW v \in Units,
           NEW d \in Candidates
    PROVE  Need(v, d) <= Need(v, d)'
<1> USE DEF IInv
<1>1. /\ Units' = Units /\ Inputs' = Inputs /\ InputOf' = InputOf /\ Bits' = Bits
      /\ LiveResidents(v)' = LiveResidents(v)
      /\ \A x : IsBatch(x)' = IsBatch(x) /\ InputsOf(x)' = InputsOf(x)
  BY GainsKeepPool
<1>2. /\ \A w \in Units, j \in Inputs : memory[w][j] \subseteq memory'[w][j]
      /\ live' = live
  BY DEF Gains, MemoryGains
<1>3. config \in Settings
  BY DEF QueueTypes
<1>5. /\ Stored(v) \in SUBSET Inputs /\ Stored(v)' \in SUBSET Inputs
      /\ Arrives(v, d) \in SUBSET Inputs /\ Arrives(v, d)' \in SUBSET Inputs
  BY NeedSets
<1>6. Stored(v) \subseteq Stored(v)'
  BY <1>1, <1>2 DEF Stored
<1>7. ASSUME NEW i \in Arrives(v, d), i \notin Arrives(v, d)'
      PROVE  i \in Stored(v)' \ Stored(v) \/ Bits[i] = 0
  <2>1. PICK e \in LiveResidents(v) \cup {d} : ~ Holds(v, e) /\ i \in Demanded(e)
    BY DEF Arrives
  <2>2. Holds(v, e)' \/ i \notin Demanded(e)'
    BY <1>1, <1>7, <2>1 DEF Arrives
  <2>3. e \in LiveResidents(v) \/ e \in Candidates
    BY <2>1
  <2> QED
    BY <2>1, <2>2, <2>3, ArrivedIsStored
<1>8. /\ Need(v, d) = Weight(Bits, Stored(v)) + Weight(Bits, Arrives(v, d))
      /\ Need(v, d)' = Weight(Bits, Stored(v)') + Weight(Bits, Arrives(v, d)')
  BY <1>1, NeedIsWeight
<1>9. /\ IsFiniteSet(Inputs) /\ \A i \in Inputs : Bits[i] \in Nat
  BY <1>3, BitsFacts
<1>10. \A i \in Arrives(v, d) \ Arrives(v, d)' : i \in Stored(v)' \ Stored(v) \/ Bits[i] = 0
  BY <1>7
<1>11. Weight(Bits, Stored(v)) + Weight(Bits, Arrives(v, d))
        <= Weight(Bits, Stored(v)') + Weight(Bits, Arrives(v, d)')
  BY <1>5, <1>6, <1>9, <1>10, WeightMovesOrIsNone
<1> QED
  BY <1>8, <1>11

\* A unit with a slot left and a resident has that one resident.
LEMMA OneResident ==
    ASSUME ComputeInv, NEW v \in Units, Len(residents[v]) < InputSlotCount,
           NEW e \in Holding(v)
    PROVE  Holding(v) = {e}
<1>1. residents[v] \in Seq(Decodes)
  BY DEF ComputeInv, ComputeTypes
<1>2. /\ Len(residents[v]) \in Nat /\ Len(residents[v]) < 2
      /\ DOMAIN residents[v] = 1 .. Len(residents[v])
  BY <1>1, LenProperties DEF InputSlotCount
<1>3. PICK j \in DOMAIN residents[v] : e = residents[v][j]
  BY DEF Holding, Range
<1>4. \A k \in DOMAIN residents[v] : k = j
  BY <1>2, <1>3
<1> QED
  BY <1>3, <1>4 DEF Holding, Range

\* A job's rounds land on a unit that has one resident, which reads them too:
\* the unit has had room for the job all along.
LEMMA SharedHadRoom ==
    ASSUME IInv, InputsInv, RoomInv, EachInputFits(config), delivering = NoDecode,
           NEW u \in Units, NEW R, Gains(u, R), NEW d \in Candidates, KindOf(d) # "external",
           NEW v \in Units, Len(residents[v]) < InputSlotCount,
           ~ Holds(v, d), Holds(v, d)'
    PROVE  Need(v, d) <= config.capacityBits
<1> USE DEF IInv
<1>1. /\ Units' = Units /\ Inputs' = Inputs /\ InputOf' = InputOf
      /\ \A x : IsBatch(x)' = IsBatch(x) /\ InputsOf(x)' = InputsOf(x)
  BY GainsKeepPool
<1>2. /\ \A w \in Units, j \in Inputs :
            memory'[w][j] = IF w = u THEN memory[w][j] \cup {r \in R : InputOf[r] = j}
                            ELSE memory[w][j]
      /\ \A r \in R : \E x \in Holding(u) : r \in x
  BY DEF Gains, MemoryGains
<1>3. config \in Settings /\ d \in Decodes /\ d \subseteq waiting
  BY CandidateFacts DEF QueueTypes
<1>4. ~ IsBatch(d)
  BY <1>1 DEF Holds
<1>5. PICK s \in Requests : d = {s} /\ InputsOf(d) = {InputOf[s]}
  BY <1>3, <1>4, SingleFacts
<1>6. Kind[s] # "external"
  <2>1. (CHOOSE r \in d : TRUE) = s
    BY <1>5
  <2>2. KindOf(d) = Kind[s]
    BY <2>1, Zenon DEF KindOf
  <2> QED
    BY <2>2
<1> DEFINE i == InputOf[s]
<1>7. i \in Inputs
  BY <1>3, <1>5, SingleFacts
<1>8. memory[v][i] = {} /\ memory'[v][i] # {}
  BY <1>1, <1>4, <1>5 DEF Holds
<1>9. PICK r \in R : v = u /\ InputOf[r] = i
  <2> HIDE DEF i
  <2>1. memory'[v][i] = IF v = u THEN memory[v][i] \cup {r \in R : InputOf[r] = i}
                        ELSE memory[v][i]
    BY <1>2, <1>7
  <2> QED
    BY <1>8, <2>1
<1>10. PICK e \in Holding(v) : r \in e
  BY <1>2, <1>9
<1>11. e \in Seated /\ e \in Decodes /\ r \in Requests /\ r \notin waiting
  <2>1. e \in Seated /\ e \in Decodes
    BY <1>10, SeatedFacts
  <2> QED
    BY <1>10, <2>1 DEF Decodes, Apart, Known
<1>12. ~ config.mergesStrong
  <2> SUFFICES ASSUME config.mergesStrong
               PROVE  FALSE
    OBVIOUS
  <2>1. Kind[s] \in {"window", "strong", "external"} /\ Kind[s] # "window"
    BY <1>3, RequestsAssumption, PoolAssumption DEF Kind, Requests
  <2>2. Kind[r] = Kind[s]
    BY <1>3, <1>9, <1>11, RequestsAssumption DEF Kind, Requests, InputOf
  <2>3. Kind[r] = "strong"
    BY <1>6, <2>1, <2>2
  <2>4. r = s
    BY <1>3, <1>9, <1>11, <2>3, PoolAssumption DEF Kind, Requests, InputOf
  <2> QED
    BY <1>3, <1>5, <1>11, <2>4
<1>13. e = {r} /\ InputsOf(e) = {i} /\ ~ IsBatch(e)
  <2>1. ~ IsBatch(e)
    BY <1>11, <1>12 DEF RoomInv, BatchesMerge
  <2>2. PICK q \in Requests : e = {q} /\ InputsOf(e) = {InputOf[q]}
    BY <1>3, <1>11, <2>1, SingleFacts
  <2> QED
    BY <1>9, <1>10, <2>1, <2>2
<1>14. Holding(v) = {e}
  BY <1>10, OneResident
<1>15. Stored(v) = {}
  <2> SUFFICES ASSUME NEW j \in Inputs, NEW q \in memory[v][j]
               PROVE  FALSE
    BY DEF Stored
  <2>1. InputOf[q] = j
    BY DEF RoomInv, ReadersMatch
  <2>2. \E x \in Holding(v) \cup {delivering} : q \in x
    BY DEF InputsInv, MemoryInv, MemoryOnlyForResidents
  <2>3. q = r
    BY <1>13, <1>14, <2>2 DEF NoDecode
  <2> QED
    BY <1>8, <1>9, <2>1, <2>3
<1>16. Arrives(v, d) \subseteq {i}
  <2>1. LiveResidents(v) \subseteq {e}
    BY <1>14 DEF LiveResidents
  <2>2. Demanded(e) = {i} /\ Demanded(d) = {i}
    BY <1>4, <1>5, <1>13 DEF Demanded
  <2> QED
    BY <2>1, <2>2 DEF Arrives
<1> HIDE DEF i
<1>17. BitsOf(Arrives(v, d)) <= config.capacityBits /\ BitsOf({}) = 0
  BY <1>3, <1>7, <1>16, BitsOfOne
<1>18. BitsOf(Arrives(v, d)) \in Nat
  BY <1>3, <1>7, <1>16, BitsFacts
<1>19. Need(v, d) = BitsOf(Stored(v)) + BitsOf(Arrives(v, d))
  BY <1>3, BitsFacts, NeedIsWeight
<1> QED
  BY <1>15, <1>17, <1>18, <1>19

\* A unit without room for a job gets none by what lands or is shared.
LEMMA NoNewRoom ==
    ASSUME IInv, InputsInv, RoomInv, EachInputFits(config), delivering = NoDecode,
           NEW u \in Units, NEW R, Gains(u, R), NEW d \in Candidates, KindOf(d) # "external",
           NEW v \in Units, ~ HasRoom(v, d)
    PROVE  ~ HasRoom(v, d)'
<1> USE DEF IInv
<1>1. /\ residents' = residents /\ config' = config
      /\ LiveResidents(v)' = LiveResidents(v)
  BY GainsKeepPool DEF Gains, MemoryGains
<1>2. CASE ~ (Len(residents[v]) < InputSlotCount)
  BY <1>1, <1>2 DEF HasRoom, InputSlotCount
<1>3. CASE Len(residents[v]) < InputSlotCount
  <2>1. ~ Holds(v, d) /\ LiveResidents(v) # {} /\ ~ (Need(v, d) <= config.capacityBits)
    BY <1>3 DEF HasRoom, Need
  <2>2. ~ Holds(v, d)'
    BY <1>3, <2>1, SharedHadRoom
  <2>3. Need(v, d) <= Need(v, d)'
    BY NeedGrows
  <2>4. config.capacityBits \in Nat /\ Need(v, d) \in Int /\ Need(v, d)' \in Int
    <3>1. /\ Bits' = Bits /\ Inputs' = Inputs /\ config \in Settings
      BY GainsKeepPool DEF QueueTypes
    <3>2. config.capacityBits \in Nat /\ \A S \in SUBSET Inputs : Weight(Bits, S) \in Nat
      BY <3>1, BitsFacts
    <3>3. /\ Stored(v) \in SUBSET Inputs /\ Arrives(v, d) \in SUBSET Inputs
          /\ Stored(v)' \in SUBSET Inputs /\ Arrives(v, d)' \in SUBSET Inputs
      BY NeedSets
    <3> QED
      BY <3>1, <3>2, <3>3, NeedIsWeight
  <2>5. ~ (Need(v, d)' <= config.capacityBits)
    BY <2>1, <2>3, <2>4
  <2> QED
    BY <1>1, <2>1, <2>2, <2>5 DEF HasRoom, Need
<1> QED
  BY <1>2, <1>3

\* Every job that had to wait has to go on waiting.
LEMMA WaitersWait ==
    ASSUME IInv, InputsInv, RoomInv, EachInputFits(config), delivering = NoDecode,
           NEW u \in Units, NEW R, Gains(u, R), NEW d \in Candidates, MayWait(d)
    PROVE  MayWait(d)'
<1>1. /\ free' = free /\ Units' = Units /\ KindOf(d)' = KindOf(d)
  BY GainsKeepPool DEF Gains, MemoryGains
<1>2. free = <<>>
  BY FreeHasRoom DEF MayWait
<1>3. FreeWithRoom(d)' = {}
  BY <1>1, <1>2 DEF FreeWithRoom
<1>4. CASE KindOf(d) = "external"
  BY <1>1, <1>3, <1>4 DEF MayWait
<1>5. CASE KindOf(d) # "external"
  <2>1. PICK v \in Units : ~ HasRoom(v, d)
    BY <1>5 DEF MayWait
  <2>2. ~ HasRoom(v, d)'
    BY <1>5, <2>1, NoNewRoom
  <2> QED
    BY <1>1, <1>3, <2>2 DEF MayWait
<1> QED
  BY <1>4, <1>5

\* A decode that asks for its input gains readers of its own.
LEMMA AskGains ==
    ASSUME IInv, NEW d, Ask(d)
    PROVE  /\ \E u \in Units, R \in SUBSET submitted : Gains(u, R)
           /\ dispatching' = dispatching /\ taking' = taking
<1>0. ASSUME NEW w \in Units, NEW S, S \subseteq submitted, memory' = ReadersAdded(w, S)
      PROVE  MemoryGains(w, S)
  BY <1>0, ReadersTypes
<1> USE DEF IInv
<1>1. /\ d \in asking /\ config' = config /\ waiting' = waiting /\ blocked' = blocked
      /\ live' = live /\ withdrawn' = withdrawn /\ completed' = completed
      /\ delivering' = delivering /\ dispatching' = dispatching /\ taking' = taking
  BY DEF Ask, queue, ends, AskWithdrawn, AskForInput
<1>2. CASE AskWithdrawn(d)
  <2>1. residents' = residents /\ free' = free /\ started' = started /\ memory' = memory
    BY <1>2 DEF AskWithdrawn, compute, staging
  <2>2. PICK u \in Units : TRUE
    BY PoolFacts DEF QueueTypes
  <2>3. MemoryGains(u, {})
    BY <2>1, NothingGained
  <2>4. Gains(u, {})
    BY <1>1, <2>1, <2>3, Zenon DEF Gains
  <2> QED
    BY <1>1, <2>2, <2>4
<1>3. CASE AskForInput(d)
  <2> DEFINE u      == UnitOf(d)
             asked  == IF IsBatch(d) THEN d \cap live ELSE d
             atOnce == {r \in asked : memory[u][InputOf[r]] # {}}
                         \cup {r \in asked : Kind[r] = "external"}
  <2>1. /\ d \notin withdrawn /\ memory' = ReadersAdded(u, atOnce)
        /\ LandOn(u, IF asked = atOnce THEN {d} ELSE {})
    BY <1>3, Zenon DEF AskForInput
  <2>2. atOnce \subseteq d
    OBVIOUS
  <2> HIDE DEF u, asked, atOnce
  <2>3. d \in Seated /\ d \in Known
    BY <1>1, <2>1 DEF BeforeStart, Known
  <2>4. u \in Units /\ d \in Holding(u)
    BY <2>3, SeatedFacts DEF u
  <2>5. atOnce \subseteq submitted
    BY <2>2, <2>3 DEF Apart
  <2>6. residents' = residents /\ free' = free /\ started \subseteq started'
    BY <2>1 DEF LandOn, BeginFrom
  <2>7. MemoryGains(u, atOnce)
    BY <1>0, <2>1, <2>4, <2>5, Zenon
  <2>8. \A r \in atOnce : \E e \in Holding(u) : r \in e
    BY <2>2, <2>4, Zenon
  <2>9. Gains(u, atOnce)
    BY <1>1, <2>6, <2>7, <2>8, Zenon DEF Gains
  <2> QED
    BY <1>1, <2>4, <2>5, <2>9
<1> QED
  BY <1>2, <1>3 DEF Ask

\* What lands gains its unit the requests that waited for it.
LEMMA LandGains ==
    ASSUME IInv, NEW r, Land(r)
    PROVE  /\ \E u \in Units, R \in SUBSET submitted : Gains(u, R)
           /\ dispatching' = dispatching /\ taking' = taking
<1>0. ASSUME NEW w \in Units, NEW S, S \subseteq submitted, memory' = ReadersAdded(w, S)
      PROVE  MemoryGains(w, S)
  BY <1>0, ReadersTypes
<1> USE DEF IInv
<1>1. PICK u \in Units, lands \in SUBSET missing : LandsOn(r, u, lands)
  BY LandingFacts
<1>2. /\ memory' = ReadersAdded(u, lands) /\ lands \subseteq submitted
      /\ config' = config /\ waiting' = waiting /\ blocked' = blocked
      /\ live' = live /\ withdrawn' = withdrawn /\ completed' = completed
      /\ delivering' = delivering /\ dispatching' = dispatching /\ taking' = taking
      /\ residents' = residents /\ free' = free /\ started \subseteq started'
  BY <1>1 DEF LandsOn, LandOn, BeginFrom, queue, ends, StagingTypes
<1>3. ASSUME NEW s \in lands
      PROVE  \E e \in Holding(u) : s \in e
  <2>1. PICK e \in Seated : s \in e
    BY <1>3 DEF BeforeStart
  <2> QED
    BY <1>1, <1>3, <2>1 DEF LandsOn
<1>4. MemoryGains(u, lands)
  BY <1>0, <1>2, Zenon
<1>5. Gains(u, lands)
  BY <1>2, <1>3, <1>4, Zenon DEF Gains
<1> QED
  BY <1>2, <1>5

\* What a unit's memory gains, and what changes nothing, keeps the room.
LEMMA GainsKeepRoom ==
    ASSUME IInv, InputsInv, RoomInv, NEW u \in Units, NEW R \in SUBSET submitted, Gains(u, R),
           dispatching' = dispatching /\ taking' = taking
    PROVE  RoomInv'
<1> USE DEF IInv
<1>1. /\ Units' = Units /\ Inputs' = Inputs /\ InputOf' = InputOf /\ Bits' = Bits
      /\ \A d : IsBatch(d)' = IsBatch(d) /\ InputsOf(d)' = InputsOf(d)
      /\ \A v : Holding(v)' = Holding(v) /\ LiveResidents(v)' = LiveResidents(v)
      /\ Candidates' = Candidates /\ Seated' = Seated
  BY GainsKeepPool
<1>2. /\ config' = config /\ delivering' = delivering
      /\ \A w \in Units, j \in Inputs :
            memory'[w][j] = IF w = u THEN memory[w][j] \cup {r \in R : InputOf[r] = j}
                            ELSE memory[w][j]
      /\ \A r \in R : \E x \in Holding(u) : r \in x
  BY DEF Gains, MemoryGains
<1>3. ReadersMatch'
  <2> SUFFICES ASSUME NEW v \in Units, NEW i \in Inputs, NEW r \in memory'[v][i]
               PROVE  InputOf[r] = i
    BY <1>1 DEF ReadersMatch
  <2>1. r \in memory[v][i] => InputOf[r] = i
    BY DEF RoomInv, ReadersMatch
  <2> QED
    BY <1>2, <2>1
<1>4. ReadsAtHome'
  <2> SUFFICES ASSUME NEW v \in Units, NEW i \in Inputs, NEW r \in memory'[v][i],
                      NEW d \in Seated, r \in d
               PROVE  d \in Holding(v)
    BY <1>1 DEF ReadsAtHome
  <2>1. CASE r \in memory[v][i]
    BY <2>1 DEF RoomInv, ReadsAtHome
  <2>2. CASE r \notin memory[v][i]
    <3>1. v = u /\ r \in R
      BY <1>2, <2>2
    <3>2. PICK x \in Holding(u) : r \in x
      BY <1>2, <3>1
    <3>3. x = d
      BY <3>2, SeatedFacts DEF Apart, Known
    <3> QED
      BY <3>1, <3>2, <3>3
  <2> QED
    BY <2>1, <2>2
<1>5. BatchesMerge'
  BY <1>1, <1>2 DEF RoomInv, BatchesMerge
<1>6. LiveInputsFit'
  <2>1. \A v \in Units : LiveInputs(v)' = LiveInputs(v)
    BY <1>1 DEF LiveInputs
  <2>2. \A v \in Units : BitsOf(LiveInputs(v))' = BitsOf(LiveInputs(v))
    BY <1>1, <2>1 DEF BitsOf
  <2> QED
    BY <1>1, <1>2, <2>2 DEF RoomInv, LiveInputsFit, RoomIsAsked, EachInputFits
<1>7. NoneWaitsForFree'
  <2> SUFFICES ASSUME EachInputFits(config), ~ dispatching, taking = {},
                      delivering = NoDecode, NEW d \in Candidates
               PROVE  MayWait(d)'
    BY <1>1, <1>2 DEF NoneWaitsForFree, EachInputFits, NoDecode
  <2>1. MayWait(d)
    BY DEF RoomInv, NoneWaitsForFree
  <2> QED
    BY <2>1, WaitersWait
<1> QED
  BY <1>3, <1>4, <1>5, <1>6, <1>7 DEF RoomInv

\* The dispatch loop ends with every job waiting that may.
LEMMA DispatchEndsKeepsRoom ==
    ASSUME IInv, InputsInv, RoomInv, DispatchEnds
    PROVE  RoomInv'
<1> USE DEF IInv
<1>1. /\ config' = config /\ waiting' = waiting /\ blocked' = blocked
      /\ live' = live /\ withdrawn' = withdrawn /\ completed' = completed
      /\ delivering' = delivering /\ taking' = taking /\ memory' = memory
      /\ residents' = residents /\ free' = free /\ started' = started
      /\ \A d \in Candidates : MayWait(d)
  BY DEF DispatchEnds, queue, compute, staging, ends
<1>2. PICK u \in Units : TRUE
  BY PoolFacts DEF QueueTypes
<1>3. Gains(u, {})
  <2>1. MemoryGains(u, {})
    BY <1>1, NothingGained
  <2> QED
    BY <1>1, <2>1, Zenon DEF Gains
<1>4. /\ Units' = Units /\ Inputs' = Inputs /\ InputOf' = InputOf /\ Bits' = Bits
      /\ \A d : IsBatch(d)' = IsBatch(d) /\ InputsOf(d)' = InputsOf(d)
      /\ \A v : Holding(v)' = Holding(v) /\ LiveResidents(v)' = LiveResidents(v)
      /\ Candidates' = Candidates /\ Seated' = Seated
  BY <1>3, GainsKeepPool
<1>5. ReadersMatch' /\ ReadsAtHome' /\ BatchesMerge'
  BY <1>1, <1>4 DEF RoomInv, ReadersMatch, ReadsAtHome, BatchesMerge
<1>6. LiveInputsFit'
  <2>1. \A v \in Units : LiveInputs(v)' = LiveInputs(v)
    BY <1>4 DEF LiveInputs
  <2>2. \A v \in Units : BitsOf(LiveInputs(v))' = BitsOf(LiveInputs(v))
    BY <1>4, <2>1 DEF BitsOf
  <2> QED
    BY <1>1, <1>4, <2>2 DEF RoomInv, LiveInputsFit, RoomIsAsked, EachInputFits
<1>7. NoneWaitsForFree'
  <2> SUFFICES ASSUME EachInputFits(config), delivering = NoDecode, NEW d \in Candidates
               PROVE  MayWait(d)'
    BY <1>1, <1>4 DEF NoneWaitsForFree, EachInputFits, NoDecode
  <2> QED
    BY <1>1, <1>2, <1>3, WaitersWait
<1> QED
  BY <1>5, <1>6, <1>7 DEF RoomInv

\* A step after which the dispatch loop has yet to run adds no decode, no read
\* and no live work to a unit.
Shrinks ==
    /\ config' = config
    /\ \A u \in Units : Holding(u)' \subseteq Holding(u)
    /\ \A u \in Units, i \in Inputs : memory'[u][i] \subseteq memory[u][i]
    /\ withdrawn \subseteq withdrawn' /\ completed \subseteq completed'
    /\ dispatching' \/ taking' # {} \/ delivering' # NoDecode

LEMMA ShrinksKeepsRoom ==
    ASSUME IInv, RoomInv, Shrinks
    PROVE  RoomInv'
<1> USE DEF IInv
<1>1. /\ Units' = Units /\ Inputs' = Inputs /\ InputOf' = InputOf /\ Bits' = Bits
      /\ Decodes' = Decodes /\ NoDecode' = NoDecode /\ config' = config
      /\ \A d : IsBatch(d)' = IsBatch(d) /\ InputsOf(d)' = InputsOf(d)
  BY SamePool DEF Shrinks, NoDecode, IsBatch, InputsOf, Bits, InputOf
<1>2. Seated' \subseteq Seated
  BY <1>1 DEF Shrinks, Seated, IsResident
<1>3. ReadersMatch'
  BY <1>1 DEF Shrinks, RoomInv, ReadersMatch
<1>4. ReadsAtHome'
  <2> SUFFICES ASSUME NEW u \in Units, NEW i \in Inputs, NEW r \in memory'[u][i],
                      NEW d \in Seated', r \in d
               PROVE  d \in Holding(u)'
    BY <1>1 DEF ReadsAtHome
  <2>1. d \in Holding(u)
    BY <1>2 DEF Shrinks, RoomInv, ReadsAtHome
  <2>2. PICK v \in Units : d \in Holding(v)'
    BY <1>1 DEF Seated, IsResident
  <2>3. v = u
    BY <2>1, <2>2 DEF Shrinks, ComputeInv, OneSeat
  <2> QED
    BY <2>2, <2>3
<1>5. BatchesMerge'
  BY <1>1, <1>2 DEF RoomInv, BatchesMerge
<1>6. LiveInputsFit'
  <2> SUFFICES ASSUME RoomIsAsked(config), NEW u \in Units
               PROVE  BitsOf(LiveInputs(u)') <= config.capacityBits
    BY <1>1 DEF LiveInputsFit, RoomIsAsked, EachInputFits, BitsOf
  <2>1. LiveResidents(u)' \subseteq LiveResidents(u)
    BY DEF Shrinks, LiveResidents
  <2>2. LiveInputs(u)' \subseteq LiveInputs(u)
    BY <1>1, <2>1 DEF LiveInputs
  <2>3. LiveInputs(u) \subseteq Inputs
    BY SeatedFacts, SingleFacts DEF LiveInputs, LiveResidents, QueueTypes
  <2>4. BitsOf(LiveInputs(u)') <= BitsOf(LiveInputs(u))
    BY <2>2, <2>3, BitsOrder DEF QueueTypes
  <2>5. /\ BitsOf(LiveInputs(u)') \in Nat /\ BitsOf(LiveInputs(u)) \in Nat
        /\ config.capacityBits \in Nat
    BY <2>2, <2>3, BitsFacts DEF QueueTypes
  <2>6. BitsOf(LiveInputs(u)) <= config.capacityBits
    BY DEF RoomInv, LiveInputsFit
  <2> QED
    BY <2>4, <2>5, <2>6
<1>7. NoneWaitsForFree'
  BY DEF Shrinks, NoneWaitsForFree
<1> QED
  BY <1>3, <1>4, <1>5, <1>6, <1>7 DEF RoomInv

\* A call from the window side runs the dispatch loop or takes requests back.
LEMMA CallShrinks ==
    ASSUME IInv,
           \/ \E r \in Requests : Enqueue(r)
           \/ \E i \in Inputs : ReleaseWindow(i) \/ Withdraw(i) \/ CancelStrong(i)
    PROVE  Shrinks
<1>1. /\ config' = config /\ residents' = residents /\ memory' = memory
      /\ withdrawn' = withdrawn /\ completed' = completed
  BY DEF Enqueue, ReleaseWindow, Withdraw, CancelStrong, compute, staging, ends
<1>2. dispatching' \/ taking' # {}
  BY DEF Enqueue, ReleaseWindow, Withdraw, CancelStrong
<1>3. Units' = Units /\ \A u : Holding(u)' = Holding(u)
  BY <1>1, SamePool DEF Holding
<1> QED
  BY <1>1, <1>2, <1>3 DEF Shrinks

\* A result that is read frees its unit.
LEMMA ReadShrinks ==
    ASSUME IInv, NEW d, Read(d)
    PROVE  Shrinks
<1>1. /\ config' = config /\ asking' = asking /\ missing' = missing
      /\ memory' = memory /\ withdrawn' = withdrawn /\ completed' = completed
      /\ dispatching' = TRUE /\ d \in completed /\ IsResident(d) /\ Free(d)
  BY DEF Read, staging, ends
<1>2. d \in started /\ d \in Seated
  BY <1>1 DEF IInv, EndTypes, ComputeInv, ComputeTypes, Seated
<1>3. \A u \in Units : Holding(u)' = Holding(u) \ {d}
  BY <1>1, <1>2, SeatGivenBack
<1> QED
  BY <1>1, <1>3 DEF Shrinks

\* A request taken back leaves no more behind it.
LEMMA TakeBackShrinks ==
    ASSUME IInv, NEW r, TakeBack(r)
    PROVE  Shrinks
<1>1. /\ config' = config /\ submitted' = submitted /\ completed' = completed
      /\ asking' = asking
  BY DEF TakeBack
<1>2. \A u \in Units : Holding(u) \subseteq Seated
  BY SeatedFacts DEF IInv
<1>3. ASSUME NEW R, Release(R)
      PROVE  \A u \in Units, i \in Inputs : memory'[u][i] \subseteq memory[u][i]
  BY <1>1, <1>3, ReleaseTypes DEF IInv
<1>4. ASSUME residents' = residents
      PROVE  \A u \in Units : Holding(u)' = Holding(u)
  BY <1>4 DEF Holding
<1>5. CASE TakeBackQueued(r)
  <2>1. /\ residents' = residents /\ withdrawn' = withdrawn /\ Release({r})
        /\ dispatching' = (taking' = {})
    BY <1>5 DEF TakeBackQueued, compute
  <2> QED
    BY <1>1, <1>3, <1>4, <2>1 DEF Shrinks
<1>6. ASSUME NEW u \in Units, NEW d \in Holding(u), r \in d,
             \/ TakeBackStagedMember(d) \/ TakeBackStaged(d)
             \/ TakeBackRunningMember(r, d) \/ TakeBackRunning(d)
      PROVE  Shrinks
  <2>1. d \in Seated
    BY <1>2
  <2>2. CASE TakeBackStagedMember(d)
    <3>1. /\ residents' = residents /\ withdrawn' = withdrawn /\ memory' = memory
          /\ dispatching' = (taking' = {})
      BY <2>2 DEF TakeBackStagedMember, compute, staging
    <3> QED
      BY <1>1, <1>4, <3>1 DEF Shrinks
  <2>3. CASE TakeBackRunningMember(r, d)
    <3>1. /\ residents' = residents /\ withdrawn' = withdrawn /\ Release({r})
          /\ dispatching' = (taking' = {})
      BY <2>3 DEF TakeBackRunningMember, compute
    <3> QED
      BY <1>1, <1>3, <1>4, <3>1 DEF Shrinks
  <2>4. CASE TakeBackStaged(d)
    <3>1. /\ d \notin started /\ Evict(d, UnitOf(d)) /\ Release(d) /\ missing' = missing \ d
          /\ withdrawn' = withdrawn \cup {d} /\ dispatching' = (taking' = {})
      BY <2>4 DEF TakeBackStaged, CancelInputs
    <3>2. \A v \in Units : Holding(v)' = Holding(v) \ {d}
      BY <1>1, <2>1, <3>1, SeatGivenBack
    <3> QED
      BY <1>1, <1>3, <3>1, <3>2 DEF Shrinks
  <2>5. CASE TakeBackRunning(d)
    <3>1. /\ d \in started /\ Free(d) /\ Release(d) /\ missing' = missing \ d
          /\ withdrawn' = withdrawn \cup {d} /\ dispatching' = TRUE
      BY <2>5 DEF TakeBackRunning, CancelInputs
    <3>2. \A v \in Units : Holding(v)' = Holding(v) \ {d}
      BY <1>1, <2>1, <3>1, SeatGivenBack
    <3> QED
      BY <1>1, <1>3, <3>1, <3>2 DEF Shrinks
  <2> QED
    BY <1>6, <2>2, <2>3, <2>4, <2>5
<1> QED
  BY <1>5, <1>6 DEF TakeBack

\* A decode that ends is delivered, or was withdrawn and the loop runs.
LEMMA DecodeEndsShrinks ==
    ASSUME IInv, NEW d, DecodeEnds(d)
    PROVE  Shrinks
<1> USE DEF IInv
<1>1. /\ AtRest /\ d \in started \ ended
      /\ config' = config /\ submitted' = submitted /\ asking' = asking /\ missing' = missing
      /\ withdrawn' = withdrawn
  BY DEF DecodeEnds
<1>2. d \in Decodes /\ d # NoDecode /\ (d \notin withdrawn => d \in Seated)
  BY <1>1, EndingFacts
<1>3. NoDecode' = NoDecode
  BY DEF NoDecode
<1>4. CASE AbortedEnds(d) \/ WindowDecodeEnds(d)
  <2>1. /\ residents' = residents /\ memory' = memory /\ completed \subseteq completed'
        /\ dispatching' = TRUE \/ delivering' = d
    BY <1>4 DEF AbortedEnds, WindowDecodeEnds, compute
  <2>2. \A u \in Units : Holding(u)' = Holding(u)
    BY <2>1 DEF Holding
  <2> QED
    BY <1>1, <1>2, <1>3, <2>1, <2>2 DEF Shrinks
<1>5. CASE OtherDecodeEnds(d)
  <2>1. /\ d \notin withdrawn /\ completed \subseteq completed'
        /\ Release(d) /\ Free(d) /\ delivering' = d
    BY <1>5 DEF OtherDecodeEnds
  <2>2. \A u \in Units : Holding(u)' = Holding(u) \ {d}
    BY <1>1, <1>2, <2>1, SeatGivenBack
  <2>3. \A u \in Units, i \in Inputs : memory'[u][i] \subseteq memory[u][i]
    BY <1>1, <2>1, ReleaseTypes
  <2> QED
    BY <1>1, <1>2, <1>3, <2>1, <2>2, <2>3 DEF Shrinks
<1> QED
  BY <1>4, <1>5 DEF DecodeEnds

\* After a delivery, and after a walk, the loop runs.
LEMMA AfterEndShrinks ==
    ASSUME IInv, NEW d, DeliveryEnds \/ (d \in walking /\ WalkEnds(d))
    PROVE  Shrinks
<1> USE DEF IInv
<1>1. /\ config' = config /\ submitted' = submitted /\ asking' = asking /\ missing' = missing
      /\ withdrawn' = withdrawn /\ completed' = completed /\ dispatching' = TRUE
  BY DEF DeliveryEnds, WalkEnds, queue, staging
<1>2. PICK R : memory' = memory \/ Release(R)
  BY DEF DeliveryEnds, WalkEnds, staging
<1>3. \A u \in Units, i \in Inputs : memory'[u][i] \subseteq memory[u][i]
  BY <1>1, <1>2, ReleaseTypes
<1>4. residents' = residents \/ \E e \in Seated \cap started : Free(e)
  <2>1. CASE DeliveryEnds
    <3>1. delivering \in completed /\ delivering \in started
      BY <2>1 DEF DeliveryEnds, EndTypes
    <3>2. residents' = residents \/ (KindOf(delivering) = "window" /\ ~ config.blocksUnit
                                       /\ Free(delivering))
      BY <2>1 DEF DeliveryEnds, compute
    <3> QED
      BY <3>1, <3>2 DEF AfterStart
  <2>2. CASE d \in walking /\ WalkEnds(d)
    BY <2>2 DEF WalkEnds, AfterStart, EndTypes
  <2> QED
    BY <2>1, <2>2
<1>5. \A u \in Units : Holding(u)' \subseteq Holding(u)
  <2>1. CASE residents' = residents
    BY <2>1 DEF Holding
  <2>2. CASE \E e \in Seated \cap started : Free(e)
    BY <1>1, <2>2, SeatGivenBack
  <2> QED
    BY <1>4, <2>1, <2>2
<1> QED
  BY <1>1, <1>3, <1>5 DEF Shrinks

\* Where a job is dispatched while room is asked of every decode, the inputs of
\* the unit's live residents fit with its own.
LEMMA DispatchedInputsFit ==
    ASSUME IInv, InputsInv, RoomInv, RoomIsAsked(config), NEW d \in Candidates,
           NEW u \in Units, HasRoom(u, d)
    PROVE  BitsOf(LiveInputs(u) \cup InputsOf(d)) <= config.capacityBits
<1> USE DEF IInv
<1>1. config \in Settings /\ d \in Decodes /\ d \subseteq waiting /\ EachInputFits(config)
      /\ ~ config.mergesStrong /\ ~ config.blocksUnit
  BY CandidateFacts DEF QueueTypes, RoomIsAsked
<1>2. ~ IsBatch(d)
  <2>1. PICK r \in Startable : d = {r}
    BY <1>1 DEF Candidates
  <2>2. Cardinality({r}) = 1
    BY FS_Singleton
  <2> QED
    BY <2>1, <2>2 DEF IsBatch
<1>3. PICK s \in Requests : d = {s} /\ InputsOf(d) = {InputOf[s]}
  BY <1>1, <1>2, SingleFacts
<1>4. InputOf[s] \in Inputs
  BY <1>1, <1>3, SingleFacts
<1>5. CASE LiveResidents(u) = {}
  <2>1. LiveInputs(u) \cup InputsOf(d) = {InputOf[s]}
    BY <1>3, <1>5 DEF LiveInputs
  <2> QED
    BY <1>1, <1>4, <2>1, BitsOfOne
<1>6. CASE LiveResidents(u) # {}
  <2>1. PICK e \in LiveResidents(u) : TRUE
    BY <1>6
  <2>2. e \in Holding(u) /\ e \in Decodes /\ e \in Seated
    BY <2>1, SeatedFacts DEF LiveResidents
  <2>3. Holding(u) = {e}
    BY <2>2, OneResident DEF HasRoom
  <2>4. LiveResidents(u) = {e}
    BY <2>1, <2>3 DEF LiveResidents
  <2>5. ~ IsBatch(e)
    BY <1>1, <2>2 DEF RoomInv, BatchesMerge
  <2>6. PICK q \in Requests : e = {q} /\ InputsOf(e) = {InputOf[q]}
    BY <1>1, <2>2, <2>5, SingleFacts
  <2>7. InputOf[q] \in Inputs
    BY <1>1, <2>2, <2>6, SingleFacts
  <2>8. LiveInputs(u) = {InputOf[q]}
    BY <2>4, <2>6 DEF LiveInputs
  <2>9. CASE Holds(u, d)
    <3>1. PICK r : r \in memory[u][InputOf[s]]
      BY <1>2, <1>3, <2>9 DEF Holds
    <3>2. InputOf[r] = InputOf[s]
      BY <1>4, <3>1 DEF RoomInv, ReadersMatch
    <3>3. PICK x \in Holding(u) \cup {delivering} : r \in x
      BY <1>4, <3>1 DEF InputsInv, MemoryInv, MemoryOnlyForResidents
    <3>4. x = e
      <4>1. CASE x \in Holding(u)
        BY <2>3, <4>1
      <4>2. CASE x = delivering
        <5>1. x \in completed
          BY <3>3, <4>2 DEF EndTypes, NoDecode
        <5>2. x \cap memory[u][InputOf[s]] # {}
          BY <3>1, <3>3
        <5>3. KindOf(x) = "window"
          BY <1>4, <5>1, <5>2 DEF InputsInv, MemoryInv, CompletedReadsEnd
        <5>4. x \in Seated
          BY <1>1, <4>2, <5>1, <5>3 DEF AfterStart
        <5>5. x \in Holding(u)
          BY <1>4, <3>1, <3>3, <5>4 DEF RoomInv, ReadsAtHome
        <5> QED
          BY <2>3, <5>5
      <4> QED
        BY <3>3, <4>1, <4>2
    <3>5. r = q
      BY <2>6, <3>3, <3>4
    <3>6. LiveInputs(u) \cup InputsOf(d) = {InputOf[s]}
      BY <1>3, <2>8, <3>2, <3>5
    <3> QED
      BY <1>1, <1>4, <3>6, BitsOfOne
  <2>10. CASE ~ Holds(u, d)
    <3>1. Occupied(u) + Arriving(u, LiveResidents(u) \cup {d}) <= config.capacityBits
      BY <1>6, <2>10 DEF HasRoom
    <3>2. /\ Occupied(u) = BitsOf(Stored(u))
          /\ Arriving(u, LiveResidents(u) \cup {d}) = BitsOf(Arrives(u, d))
      BY DEF Occupied, Stored, Arriving, Arrives
    <3>3. Demanded(d) = {InputOf[s]} /\ Demanded(e) = {InputOf[q]}
      BY <1>2, <1>3, <2>5, <2>6 DEF Demanded
    <3>4. Arrives(u, d) \subseteq {InputOf[s], InputOf[q]} /\ InputOf[s] \in Arrives(u, d)
      BY <2>4, <2>10, <3>3 DEF Arrives
    <3>5. InputOf[q] \in Arrives(u, d) \cup Stored(u)
      <4>1. CASE Holds(u, e)
        BY <2>6, <2>7, <4>1 DEF Holds, Stored
      <4>2. CASE ~ Holds(u, e)
        BY <2>4, <3>3, <4>2 DEF Arrives
      <4> QED
        BY <4>1, <4>2
    <3>6. Stored(u) \in SUBSET Inputs /\ Arrives(u, d) \in SUBSET Inputs
      BY <1>4, <2>7, <3>4 DEF Stored
    <3>7. LiveInputs(u) \cup InputsOf(d) \subseteq Stored(u) \cup Arrives(u, d)
      BY <1>3, <2>8, <3>4, <3>5
    <3> DEFINE A == LiveInputs(u) \cup InputsOf(d)
               B == Stored(u) \cup Arrives(u, d)
    <3>8. A \in SUBSET Inputs /\ B \in SUBSET Inputs /\ A \subseteq B
      BY <3>6, <3>7
    <3>9. BitsOf(B) <= BitsOf(Stored(u)) + BitsOf(Arrives(u, d))
      BY <1>1, <3>6, BitsOrder
    <3> HIDE DEF A, B
    <3>10. BitsOf(A) <= BitsOf(B)
      BY <1>1, <3>8, BitsOrder
    <3>11. /\ BitsOf(A) \in Nat /\ BitsOf(B) \in Nat /\ BitsOf(Stored(u)) \in Nat
           /\ BitsOf(Arrives(u, d)) \in Nat /\ config.capacityBits \in Nat
      BY <1>1, <3>6, <3>8, BitsFacts
    <3>12. BitsOf(A) <= config.capacityBits
      BY <3>1, <3>2, <3>9, <3>10, <3>11
    <3> QED
      BY <3>12 DEF A
  <2> QED
    BY <2>9, <2>10
<1> QED
  BY <1>5, <1>6

\* A dispatched job keeps the room: what it is staged behind leaves room for it.
LEMMA DispatchKeepsRoom ==
    ASSUME IInv, InputsInv, RoomInv, NEW d \in Candidates,
           \/ dispatching /\ DispatchToCompute(d)
           \/ dispatching /\ \E u \in Units : DispatchToStage(d, u)
    PROVE  RoomInv'
<1> USE DEF IInv
<1>1. d \in Decodes /\ d \subseteq waiting /\ d \notin Known /\ config \in Settings
  BY CandidateFacts DEF QueueTypes
<1>2. PICK u \in Units : DispatchedTo(d, u)
  BY DispatchPlace
<1>3. /\ residents' = [residents EXCEPT ![u] = Append(@, d)] /\ HasRoom(u, d)
      /\ config' = config /\ memory' = memory /\ completed' = completed
      /\ withdrawn' = withdrawn /\ dispatching' = dispatching
  BY <1>2 DEF DispatchedTo, Admit, staging, ends
<1>4. dispatching
  OBVIOUS
<1>5. /\ Units' = Units /\ Inputs' = Inputs /\ InputOf' = InputOf /\ Bits' = Bits
      /\ \A e : IsBatch(e)' = IsBatch(e) /\ InputsOf(e)' = InputsOf(e)
  BY <1>3, SamePool DEF IsBatch, InputsOf, Bits, InputOf
<1>6. ~ IsResident(d)
  BY <1>1 DEF Known, Seated
<1>7. /\ \A v \in Units : Holding(v)' = IF v = u THEN Holding(v) \cup {d} ELSE Holding(v)
      /\ Seated' = Seated \cup {d}
  <2>1. Len(residents[u]) < InputSlotCount
    BY <1>3 DEF HasRoom
  <2>2. residents' = [residents EXCEPT ![u] = Append(residents[u], d)]
    BY <1>3
  <2> QED
    BY <1>1, <1>3, <1>6, <2>1, <2>2, SeatTaken DEF ComputeInv, ComputeTypes
<1>8. ReadersMatch'
  BY <1>3, <1>5 DEF RoomInv, ReadersMatch
<1>9. ReadsAtHome'
  <2> SUFFICES ASSUME NEW v \in Units, NEW i \in Inputs, NEW r \in memory[v][i],
                      NEW e \in Seated', r \in e
               PROVE  e \in Holding(v)'
    BY <1>3, <1>5 DEF ReadsAtHome
  <2>1. PICK x \in Holding(v) \cup {delivering} : r \in x
    BY DEF InputsInv, MemoryInv, MemoryOnlyForResidents
  <2>2. x \in Known
    BY <2>1, SeatedFacts DEF Known, EndTypes, NoDecode
  <2>3. r \notin waiting
    BY <2>1, <2>2 DEF Apart
  <2>4. e \in Seated
    BY <1>1, <1>7, <2>3
  <2>5. e \in Holding(v)
    BY <2>4 DEF RoomInv, ReadsAtHome
  <2> QED
    BY <1>7, <2>5
<1>10. BatchesMerge'
  <2>1. IsBatch(d) => config.mergesStrong
    <3> SUFFICES ASSUME ~ config.mergesStrong
                 PROVE  ~ IsBatch(d)
      OBVIOUS
    <3>1. PICK r \in Startable : d = {r}
      BY DEF Candidates
    <3>2. Cardinality({r}) = 1
      BY FS_Singleton
    <3> QED
      BY <3>1, <3>2 DEF IsBatch
  <2> QED
    BY <1>3, <1>5, <1>7, <2>1 DEF RoomInv, BatchesMerge
<1>11. LiveInputsFit'
  <2> SUFFICES ASSUME RoomIsAsked(config), NEW v \in Units
               PROVE  BitsOf(LiveInputs(v)') <= config.capacityBits
    BY <1>3, <1>5 DEF LiveInputsFit, RoomIsAsked, EachInputFits, BitsOf
  <2>1. CASE v # u
    <3>1. LiveInputs(v)' = LiveInputs(v)
      BY <1>3, <1>5, <1>7, <2>1 DEF LiveInputs, LiveResidents
    <3> QED
      BY <3>1 DEF RoomInv, LiveInputsFit
  <2>2. CASE v = u
    <3>1. LiveInputs(v)' \subseteq LiveInputs(u) \cup InputsOf(d)
      BY <1>3, <1>5, <1>7, <2>2 DEF LiveInputs, LiveResidents
    <3>2. BitsOf(LiveInputs(u) \cup InputsOf(d)) <= config.capacityBits
      BY <1>3, DispatchedInputsFit
    <3>3. LiveInputs(u) \cup InputsOf(d) \in SUBSET Inputs
      <4>1. \A e \in LiveResidents(u) : e \in Decodes
        BY SeatedFacts DEF LiveResidents
      <4> QED
        BY <1>1, <4>1, SingleFacts DEF LiveInputs
    <3>4. BitsOf(LiveInputs(v)') <= BitsOf(LiveInputs(u) \cup InputsOf(d))
      BY <1>1, <3>1, <3>3, BitsOrder
    <3>5. /\ BitsOf(LiveInputs(v)') \in Nat /\ config.capacityBits \in Nat
          /\ BitsOf(LiveInputs(u) \cup InputsOf(d)) \in Nat
      BY <1>1, <3>1, <3>3, BitsFacts
    <3> QED
      BY <3>2, <3>4, <3>5
  <2> QED
    BY <2>1, <2>2
<1>12. NoneWaitsForFree'
  BY <1>3, <1>4 DEF NoneWaitsForFree
<1> QED
  BY <1>8, <1>9, <1>10, <1>11, <1>12 DEF RoomInv

\* No unit holds or waits for anything at first.
LEMMA InitHasRoom ==
    ASSUME Init
    PROVE  RoomInv
<1>1. /\ config \in Settings /\ waiting = {} /\ withdrawn = {} /\ completed = {}
      /\ \A u \in Units : residents[u] = <<>>
      /\ \A u \in Units, i \in Inputs : memory[u][i] = {}
  BY DEF Init
<1>2. \A u \in Units : Holding(u) = {}
  BY <1>1 DEF Holding, Range
<1>3. Seated = {} /\ Candidates = {}
  BY <1>1, <1>2 DEF Seated, IsResident, Candidates, Startable, NoDecode
<1>4. LiveInputsFit
  <2> SUFFICES ASSUME RoomIsAsked(config), NEW u \in Units
               PROVE  BitsOf(LiveInputs(u)) <= config.capacityBits
    BY DEF LiveInputsFit
  <2>1. LiveInputs(u) = {}
    BY <1>2 DEF LiveInputs, LiveResidents
  <2>2. BitsOf({}) = 0
    <3>1. Cardinality({}) = 0
      BY FS_EmptySet
    <3>2. UNION {{i} \X (1 .. Bits[i]) : i \in {}} = {}
      OBVIOUS
    <3> QED
      BY <3>1, <3>2 DEF BitsOf
  <2> QED
    BY <1>1, <2>1, <2>2, BitsFacts
<1> QED
  BY <1>1, <1>3, <1>4 DEF RoomInv, ReadersMatch, ReadsAtHome, BatchesMerge, NoneWaitsForFree

\* Every step keeps the room.
LEMMA NextKeepsRoom ==
    ASSUME IInv, InputsInv, RoomInv, [Next]_vars
    PROVE  RoomInv'
<1>1. ASSUME NEW r \in Requests, Enqueue(r)
      PROVE  RoomInv'
  BY <1>1, CallShrinks, ShrinksKeepsRoom
<1>2. ASSUME NEW i \in Inputs, ReleaseWindow(i) \/ Withdraw(i) \/ CancelStrong(i)
      PROVE  RoomInv'
  BY <1>2, CallShrinks, ShrinksKeepsRoom
<1>3. ASSUME NEW d \in completed, Read(d)
      PROVE  RoomInv'
  BY <1>3, ReadShrinks, ShrinksKeepsRoom
<1>4. ASSUME DeliveryEnds
      PROVE  RoomInv'
  BY <1>4, AfterEndShrinks, ShrinksKeepsRoom
<1>5. ASSUME NEW d \in Candidates, DispatchToCompute(d)
      PROVE  RoomInv'
  BY <1>5, DispatchKeepsRoom DEF DispatchToCompute
<1>6. ASSUME NEW d \in Candidates, NEW u \in Units, DispatchToStage(d, u)
      PROVE  RoomInv'
  BY <1>6, DispatchKeepsRoom DEF DispatchToStage
<1>7. ASSUME NEW r \in taking, TakeBack(r)
      PROVE  RoomInv'
  BY <1>7, TakeBackShrinks, ShrinksKeepsRoom
<1>8. ASSUME NEW d \in asking, Ask(d)
      PROVE  RoomInv'
  BY <1>8, AskGains, GainsKeepRoom
<1>9. ASSUME NEW r \in inFlight, Land(r)
      PROVE  RoomInv'
  BY <1>9, LandGains, GainsKeepRoom
<1>10. ASSUME NEW d \in started, DecodeEnds(d)
       PROVE  RoomInv'
  BY <1>10, DecodeEndsShrinks, ShrinksKeepsRoom
<1>11. ASSUME NEW d \in walking, WalkEnds(d)
       PROVE  RoomInv'
  BY <1>11, AfterEndShrinks, ShrinksKeepsRoom
<1>12. ASSUME DispatchEnds
       PROVE  RoomInv'
  BY <1>12, DispatchEndsKeepsRoom
<1>13. ASSUME UNCHANGED vars
       PROVE  RoomInv'
  <2>1. PICK u \in Units : TRUE
    BY PoolFacts DEF IInv, QueueTypes
  <2>2. MemoryGains(u, {})
    BY <1>13, NothingGained DEF vars, staging
  <2>3. Gains(u, {}) /\ dispatching' = dispatching /\ taking' = taking
    BY <1>13, <2>2 DEF Gains, vars, queue, compute, staging, ends
  <2> QED
    BY <2>1, <2>3, GainsKeepRoom
<1>14. HalfAsked \subseteq Requests
  BY DEF HalfAsked
<1> QED
  BY <1>1, <1>2, <1>3, <1>4, <1>5, <1>6, <1>7, <1>8, <1>9, <1>10, <1>11, <1>12, <1>13, <1>14
     DEF Next, Calls, Continues, Events, Dispatch

\* Two live decodes fill a unit.
LEMMA TwoAreAll ==
    ASSUME ComputeInv, NEW u \in Units, Cardinality(LiveResidents(u)) > 1
    PROVE  Holding(u) = LiveResidents(u)
<1>1. residents[u] \in Seq(Decodes) /\ Len(residents[u]) <= 2
  BY DEF ComputeInv, ComputeTypes, InputSlotCount
<1>2. Len(residents[u]) \in Nat /\ DOMAIN residents[u] = 1 .. Len(residents[u])
  BY <1>1, LenProperties
<1>3. LiveResidents(u) \subseteq Holding(u)
  BY DEF LiveResidents
<1>4. PICK d \in LiveResidents(u), e \in LiveResidents(u) : d # e
  <2> SUFFICES ASSUME \A d, e \in LiveResidents(u) : d = e
               PROVE  Cardinality(LiveResidents(u)) \in {0, 1}
    BY <1>1
  <2>1. LiveResidents(u) = {} \/ \E d : LiveResidents(u) = {d}
    OBVIOUS
  <2> QED
    BY <2>1, FS_EmptySet, FS_Singleton
<1>5. PICK j \in DOMAIN residents[u], k \in DOMAIN residents[u] :
        d = residents[u][j] /\ e = residents[u][k]
  BY <1>3 DEF Holding, Range
<1>6. j # k
  BY <1>4, <1>5
<1>7. \A l \in DOMAIN residents[u] : l = j \/ l = k
  BY <1>1, <1>2, <1>6
<1>8. Holding(u) \subseteq {d, e}
  BY <1>5, <1>7 DEF Holding, Range
<1> QED
  BY <1>3, <1>8

\* The room in the units' memories is always in order: what live residents read
\* fits, and outside a call no job waits for compute that is free or for a slot
\* with room.
THEOREM RoomIsInOrder == Spec => []RoomInv
<1>1. Init => RoomInv
  BY InitHasRoom
<1>2. IInv /\ InputsInv /\ RoomInv /\ [Next]_vars => RoomInv'
  BY NextKeepsRoom
<1> QED
  BY <1>1, <1>2, PoolIsInOrder, InputsAreInOrder, PTL DEF Spec

\* No compute idles: what a unit holds goes on, and what is free, or has room
\* on the way, has no job left to take it, whichever call freed the one or
\* brought the other (decode_dispatch.py: every call that adds work or frees a
\* unit runs the loop).  It asks that each input fit an empty unit: for one that
\* does not, what lands could make room where there was none.
THEOREM ComputeAlwaysMoves == Spec => [](EachInputFits(config) => ComputeMoves)
<1>1. IInv /\ RoomInv => (EachInputFits(config) => ComputeMoves)
  BY InvariantMoves
     DEF RoomInv, NoneWaitsForFree, ComputeMoves, WorkConserving, AtRest, Callable, Returned
<1> QED
  BY <1>1, PoolIsInOrder, RoomIsInOrder, PTL

\* Two live decodes share a unit only while its memory has room for all they
\* read, what is still crossing the link included (DecoderUnit.has_room): where
\* each input is asked for one by one and a unit is given back with it, or
\* where the memory has room for all of them.
THEOREM BothInputsAlwaysFit ==
    Spec => [](RoomIsAsked(config) \/ AllInputsFit(config) => BothInputsFit)
<1> DEFINE OnLink(u) == {i \in Inputs :
                /\ memory[u][i] = {}
                /\ \E r \in inFlight : InputOf[r] = i /\ \E d \in Holding(u) : r \in d}
<1>1. ASSUME IInv, InputsInv, RoomInv, RoomIsAsked(config) \/ AllInputsFit(config),
             NEW u \in Units, Cardinality(LiveResidents(u)) > 1
      PROVE  Occupied(u) + BitsOf(OnLink(u)) <= config.capacityBits
  <2> USE DEF IInv
  <2>1. config \in Settings
    BY <1>1 DEF QueueTypes
  <2>2. Stored(u) \in SUBSET Inputs /\ OnLink(u) \in SUBSET Inputs
        /\ Stored(u) \cap OnLink(u) = {}
    BY DEF Stored
  <2>3. Occupied(u) = BitsOf(Stored(u))
    BY DEF Occupied, Stored
  <2> DEFINE all == Stored(u) \cup OnLink(u)
  <2>4. all \in SUBSET Inputs
    BY <2>2
  <2>5. CASE RoomIsAsked(config)
    <3>1. Holding(u) = LiveResidents(u)
      BY <1>1, TwoAreAll
    <3>2. all \subseteq LiveInputs(u)
      <4> SUFFICES ASSUME NEW i \in all
                   PROVE  i \in LiveInputs(u)
        OBVIOUS
      <4>1. i \in Inputs
        BY <2>4
      <4>2. PICK r : InputOf[r] = i /\ \E d \in Holding(u) : r \in d
        <5>1. CASE i \in Stored(u)
          <6>1. PICK r : r \in memory[u][i]
            BY <5>1 DEF Stored
          <6>2. InputOf[r] = i
            BY <1>1, <4>1, <6>1 DEF RoomInv, ReadersMatch
          <6>3. PICK x \in Holding(u) \cup {delivering} : r \in x
            BY <1>1, <4>1, <6>1 DEF InputsInv, MemoryInv, MemoryOnlyForResidents
          <6>4. CASE x = delivering
            <7>1. x \in completed
              BY <1>1, <6>3, <6>4 DEF EndTypes, NoDecode
            <7>2. x \cap memory[u][i] # {}
              BY <6>1, <6>3
            <7>3. KindOf(x) = "window"
              BY <1>1, <4>1, <7>1, <7>2 DEF InputsInv, MemoryInv, CompletedReadsEnd
            <7>4. x \in Seated
              BY <1>1, <2>5, <6>4, <7>1, <7>3 DEF AfterStart, RoomIsAsked
            <7>5. x \in Holding(u)
              BY <1>1, <4>1, <6>1, <6>3, <7>4 DEF RoomInv, ReadsAtHome
            <7> QED
              BY <6>2, <6>3, <7>5
          <6> QED
            BY <6>2, <6>3, <6>4
        <5>2. CASE i \in OnLink(u)
          BY <5>2
        <5> QED
          BY <5>1, <5>2
      <4>3. PICK d \in LiveResidents(u) : r \in d
        BY <3>1, <4>2
      <4> QED
        BY <4>2, <4>3 DEF LiveInputs, InputsOf
    <3>3. LiveInputs(u) \in SUBSET Inputs
      <4>1. \A e \in LiveResidents(u) : e \in Decodes
        BY <1>1, SeatedFacts DEF LiveResidents
      <4> QED
        BY <2>1, <4>1, SingleFacts DEF LiveInputs
    <3> HIDE DEF all
    <3>4. BitsOf(all) <= BitsOf(LiveInputs(u))
      BY <2>1, <2>4, <3>2, <3>3, BitsOrder
    <3>5. BitsOf(all) \in Nat /\ BitsOf(LiveInputs(u)) \in Nat /\ config.capacityBits \in Nat
      BY <2>1, <2>4, <3>3, BitsFacts
    <3>6. BitsOf(LiveInputs(u)) <= config.capacityBits
      BY <1>1, <2>5 DEF RoomInv, LiveInputsFit
    <3>7. BitsOf(all) <= config.capacityBits
      BY <3>4, <3>5, <3>6
    <3> QED
      BY <2>1, <2>2, <2>3, <3>7, BitsOrder DEF all
  <2>6. CASE AllInputsFit(config)
    <3>1. BitsOf(Inputs) <= config.capacityBits
      BY <2>1, <2>6, BitsFacts DEF AllInputsFit, BitsOf, Bits, Inputs
    <3> HIDE DEF all
    <3>2. BitsOf(all) <= BitsOf(Inputs)
      BY <2>1, <2>4, BitsOrder
    <3>3. BitsOf(all) \in Nat /\ BitsOf(Inputs) \in Nat /\ config.capacityBits \in Nat
      BY <2>1, <2>4, BitsFacts
    <3>4. BitsOf(all) <= config.capacityBits
      BY <3>1, <3>2, <3>3
    <3> QED
      BY <2>1, <2>2, <2>3, <3>4, BitsOrder DEF all
  <2> QED
    BY <1>1, <2>5, <2>6
<1>2. IInv /\ InputsInv /\ RoomInv
        => (RoomIsAsked(config) \/ AllInputsFit(config) => BothInputsFit)
  BY <1>1 DEF BothInputsFit
<1> QED
  BY <1>2, PoolIsInOrder, InputsAreInOrder, RoomIsInOrder, PTL
=============================================================================
