---------------------------- MODULE DecoderPool -----------------------------
(***************************************************************************)
(* One decoder manager and its pool (decsim/decoders): the ready queue,     *)
(* the dispatch loop, the units with their input slots, memory and compute, *)
(* the staging of inputs over the link, the execution slots of a shared     *)
(* device, the decodes and the ways a request is taken back.                *)
(*                                                                         *)
(* A decode is named by the set of requests it serves: one, or several when *)
(* the queue merges strong requests into a batch.  Time is abstracted to    *)
(* event order, and with it the scheduler's order and the least-work-left   *)
(* ranking: any startable request may come first, and a request that could  *)
(* only be staged may wait unless every unit has room.                      *)
(***************************************************************************)
EXTENDS Integers, Sequences, FiniteSets, FiniteSetsExt, SequencesExt

(* The pools a run is about, each a record of what its plan fixes:          *)
(*   requests, units                                                        *)
(*   kind          "window", "strong" or "external", by request             *)
(*   inputOf       the rounds a request reads; companions share theirs      *)
(*   bits          the size of an input                                     *)
(*   capacityBits  unit_memory.bits                                         *)
(*   slotCount     device.slot_count; as many as units for no device        *)
(*   blocksUnit    result_blocks_unit                                       *)
(*   asksAtOnce    dispatch_cycles is zero                                  *)
(*   mergesStrong  bulk_strong, or a batching row, on a strong pool         *)
(*   decodesEach   the batching row is decode_each                          *)
(*   owes          requests whose window owes a boundary at first           *)
CONSTANT Settings

(* Only forced-class companions, one attempt of one window, share an input. *)
ASSUME RequestsAssumption ==
    \A c \in Settings :
        /\ IsFiniteSet(c.requests) /\ IsFiniteSet(DOMAIN c.bits)
        /\ c.kind \in [c.requests -> {"window", "strong", "external"}]
        /\ c.inputOf \in [c.requests -> DOMAIN c.bits]
        /\ \A i \in DOMAIN c.bits : c.bits[i] \in Nat
        /\ \A r \in c.requests : c.kind[r] = "external" => c.bits[c.inputOf[r]] = 0
        /\ \A r, s \in c.requests :
            c.inputOf[r] = c.inputOf[s] => c.kind[r] = c.kind[s]
        /\ \A r \in c.owes : r \in c.requests /\ c.kind[r] # "external"

(* An edge's target, which alone merges, decodes no window of the planner   *)
(* (graph_layout.py: "a pool is an entry pool or a target, never both").    *)
ASSUME PoolAssumption ==
    \A c \in Settings :
        /\ c.units # {} /\ IsFiniteSet(c.units)
        /\ c.capacityBits \in Nat /\ c.slotCount \in Nat \ {0}
        /\ {c.blocksUnit, c.asksAtOnce, c.mergesStrong, c.decodesEach} \subseteq BOOLEAN
        /\ c.decodesEach => c.mergesStrong
        /\ c.mergesStrong => \A r, s \in c.requests :
            c.kind[r] = "strong" /\ c.inputOf[r] = c.inputOf[s] => r = s
        /\ c.mergesStrong => \A r \in c.requests : c.kind[r] # "window"

VARIABLES
    config,             \* the pool
    submitted, waiting, blocked, live,  \* requests: the queue and the ledger
    taking,             \* requests the call under way still takes back
    residents,          \* the decodes holding a unit's input slots
    holder,             \* the decode holding a unit's compute
    free,               \* the units whose compute is in the pool
    asking,             \* dispatched decodes whose input is not asked for yet
    missing,            \* requests of a decode whose input has not landed
    inFlight,           \* requests whose transfer is on the link
    awaited,            \* awaited_by_input: the landings in flight
    memory,             \* the readers of each input a unit's memory holds
    held,               \* requests whose rounds the source store holds
    running, device_queue,              \* the device's execution slots
    started, ended, completed, withdrawn, walking,  \* decodes
    dispatching,        \* the dispatch loop is under way
    delivering          \* the decode whose result is being delivered

queue   == <<submitted, waiting, blocked, live>>
compute == <<residents, holder, free, running, device_queue, started>>
staging == <<missing, inFlight, awaited, memory, held>>
ends    == <<ended, completed, withdrawn, walking>>
vars == <<config, queue, taking, compute, asking, staging, ends, dispatching,
          delivering>>

Requests == config.requests
Kind == config.kind
Inputs == DOMAIN config.bits
InputOf == config.inputOf
Bits == config.bits
Units == config.units

Decodes == (SUBSET Requests) \ {{}}
NoDecode == {}
InputSlotCount == 2     \* INPUT_SLOT_COUNT

TypeOK ==
    /\ submitted \subseteq Requests /\ waiting \subseteq submitted
    /\ blocked \subseteq Requests /\ live \subseteq submitted
    /\ taking \subseteq submitted \ live
    /\ \A u \in Units :
        /\ Len(residents[u]) <= InputSlotCount
        /\ \A i \in DOMAIN residents[u] : residents[u][i] \in Decodes
    /\ holder \in [Units -> Decodes \cup {NoDecode}]
    /\ \A i \in DOMAIN free : free[i] \in Units
    /\ asking \subseteq Decodes
    /\ missing \subseteq submitted /\ inFlight \subseteq missing
    /\ awaited \subseteq Units \X Inputs
    /\ memory \in [Units -> [Inputs -> SUBSET submitted]]
    /\ held \subseteq submitted
    /\ running \subseteq started /\ started \subseteq Decodes
    /\ \A i \in DOMAIN device_queue : device_queue[i] \in Decodes
    /\ ended \subseteq started /\ completed \subseteq ended
    /\ withdrawn \subseteq Decodes \ completed /\ walking \subseteq completed
    /\ dispatching \in BOOLEAN
    /\ delivering \in completed \cup {NoDecode}

Init ==
    /\ config \in Settings
    /\ submitted = {} /\ waiting = {} /\ blocked = config.owes /\ live = {}
    /\ taking = {}
    /\ residents = [u \in Units |-> <<>>]
    /\ holder = [u \in Units |-> NoDecode]
    /\ free = SetToSeq(Units)
    /\ asking = {} /\ missing = {} /\ inFlight = {} /\ awaited = {}
    /\ memory = [u \in Units |-> [i \in Inputs |-> {}]]
    /\ held = {}
    /\ running = {} /\ device_queue = <<>>
    /\ started = {} /\ ended = {} /\ completed = {} /\ withdrawn = {}
    /\ walking = {}
    /\ dispatching = FALSE /\ delivering = NoDecode

-----------------------------------------------------------------------------
(* What a decode is and where it stands. *)

IsBatch(d) == Cardinality(d) > 1
KindOf(d) == Kind[CHOOSE r \in d : TRUE]
InputsOf(d) == {InputOf[r] : r \in d}

Holding(u) == Range(residents[u])
IsResident(d) == \E u \in Units : d \in Holding(u)
UnitOf(d) == CHOOSE u \in Units : d \in Holding(u)

IsPastStart(d, begun) == d \in withdrawn \cup completed \cup begun
InputLanded(d) == d \notin asking /\ d \cap missing = {}

LiveResidents(u) == Holding(u) \ (withdrawn \cup completed)

(* A batch reads under its own key, which no memory ever holds. *)
Holds(u, d) == ~IsBatch(d) /\ \A i \in InputsOf(d) : memory[u][i] # {}
InputIsOn(u, d) ==
    Holds(u, d) \/ (~IsBatch(d) /\ \A i \in InputsOf(d) : <<u, i>> \in awaited)

(* Every bit of these inputs, each told apart by its input. *)
BitsOf(inputs) == Cardinality(UNION {{i} \X (1 .. Bits[i]) : i \in inputs})
Occupied(u) == BitsOf({i \in Inputs : memory[u][i] # {}})

(* payload_bits is zero from the landing on, until a decode_each batch      *)
(* starts and gives each member its landed rounds to read.                  *)
CarriesPayload(r, d) ==
    \/ \A u \in Units : r \notin memory[u][InputOf[r]]
    \/ config.decodesEach /\ d \in started

(* memory_demand: a batch stores what its members still live carry. *)
Demanded(d) ==
    IF IsBatch(d) THEN InputsOf({r \in d \cap live : CarriesPayload(r, d)})
                  ELSE InputsOf(d)
Arriving(u, readers) ==
    BitsOf(UNION {Demanded(d) : d \in {e \in readers : ~Holds(u, e)}})

(* A variant that counts only what the memory holds already. *)
HasRoomNow(u, d) ==
    /\ Len(residents[u]) < InputSlotCount
    /\ \/ Holds(u, d)
       \/ LiveResidents(u) = {}
       \/ Occupied(u) + Arriving(u, {d}) <= config.capacityBits

HasRoom(u, d) ==
    /\ Len(residents[u]) < InputSlotCount
    /\ \/ Holds(u, d)
       \/ LiveResidents(u) = {}
       \/ Occupied(u) + Arriving(u, LiveResidents(u) \cup {d}) <= config.capacityBits

-----------------------------------------------------------------------------
(* The input slots, the memory and the store's holds. *)

WithoutReaders(R) ==
    [u \in Units |-> [i \in Inputs |-> memory[u][i] \ R]]

(* release: the reads and the store's holds of these requests go. *)
Release(R) ==
    /\ memory' = WithoutReaders(R)
    /\ held' = held \ R

(* _cancel_held_inputs: a member of a batch has no unit, so _drop_awaited   *)
(* keeps the entry of its landing.                                          *)
CancelInputs(d, u) ==
    /\ Release(d)
    /\ missing' = missing \ d
    /\ inFlight' = inFlight \ d
    /\ awaited' = IF IsBatch(d) THEN awaited
                  ELSE awaited \ ({u} \X InputsOf(d))

-----------------------------------------------------------------------------
(* The compute: the units' holders and the device's slots. *)

(* begin, for the one decode of D or none: it takes a slot or waits for one. *)
BeginFrom(D, run, slots, begun) ==
    LET starts == {d \in D : Cardinality(run) < config.slotCount}
    IN  /\ running' = run \cup starts
        /\ started' = begun \cup starts
        /\ device_queue' = IF starts = D THEN slots
                           ELSE Append(slots, CHOOSE d \in D : TRUE)

(* The places in rest of the decodes that may still start, and of those     *)
(* whose input has landed.                                                  *)
Unstarted(rest, begun) == {i \in DOMAIN rest : ~IsPastStart(rest[i], begun)}
Ready(rest, begun) == {i \in Unstarted(rest, begun) : InputLanded(rest[i])}
Oldest(rest, places) == rest[Min(places)]

(* A variant that offers free compute only to an input already landed. *)
PassComputeToLanded(u, rest, run, slots, begun) ==
    LET ready == Oldest(rest, Ready(rest, begun))
    IN  IF Ready(rest, begun) # {}
        THEN /\ holder' = [holder EXCEPT ![u] = ready]
             /\ BeginFrom({ready}, run, slots, begun)
             /\ UNCHANGED free
        ELSE /\ holder' = [holder EXCEPT ![u] = NoDecode]
             /\ free' = Append(free, u)
             /\ BeginFrom({}, run, slots, begun)

(* A variant that gives the unit back and keeps its holder. *)
PassComputeKeepingHolder(u, rest, run, slots, begun) ==
    LET ready == Oldest(rest, Ready(rest, begun))
    IN  IF Ready(rest, begun) # {}
        THEN /\ holder' = [holder EXCEPT ![u] = ready]
             /\ BeginFrom({ready}, run, slots, begun)
             /\ UNCHANGED free
        ELSE /\ UNCHANGED holder
             /\ free' = Append(free, u)
             /\ BeginFrom({}, run, slots, begun)

(* _offer_compute: to the oldest landed resident, else reserved for the     *)
(* oldest one still landing, else back to the pool.                         *)
PassCompute(u, rest, run, slots, begun) ==
    LET ready   == Oldest(rest, Ready(rest, begun))
        landing == Oldest(rest, Unstarted(rest, begun))
    IN  IF Ready(rest, begun) # {}
        THEN /\ holder' = [holder EXCEPT ![u] = ready]
             /\ BeginFrom({ready}, run, slots, begun)
             /\ UNCHANGED free
        ELSE IF Unstarted(rest, begun) # {}
        THEN /\ holder' = [holder EXCEPT ![u] = landing]
             /\ BeginFrom({}, run, slots, begun)
             /\ UNCHANGED free
        ELSE /\ holder' = [holder EXCEPT ![u] = NoDecode]
             /\ free' = Append(free, u)
             /\ BeginFrom({}, run, slots, begun)

Others(u, d) == RemoveFirst(residents[u], d)

(* DecodeService.free: the device starts the oldest decode waiting for the  *)
(* slot given back before the unit's own compute is offered.                *)
Free(d) ==
    LET u     == UnitOf(d)
        kept  == running \ {d}
        wakes == device_queue # <<>> /\ Cardinality(kept) < config.slotCount
        woken == IF wakes THEN {Head(device_queue)} ELSE {}
        slots == IF wakes THEN Tail(device_queue) ELSE device_queue
    IN  /\ residents' = [residents EXCEPT ![u] = Others(u, d)]
        /\ IF holder[u] \in {d, NoDecode}
           THEN PassCompute(u, Others(u, d), kept \cup woken, slots, started \cup woken)
           ELSE /\ BeginFrom({}, kept \cup woken, slots, started \cup woken)
                /\ UNCHANGED <<holder, free>>

(* DecodeService.evict, after the inputs are cancelled. *)
Evict(d, u) ==
    LET slots == RemoveFirst(device_queue, d)
    IN  /\ residents' = [residents EXCEPT ![u] = Others(u, d)]
        /\ IF holder[u] = d
           THEN PassCompute(u, Others(u, d), running, slots, started)
           ELSE /\ device_queue' = slots
                /\ UNCHANGED <<holder, free, running, started>>

-----------------------------------------------------------------------------
(* Calls from the window side: any time the manager is not in a call. *)

AskedAll == config.asksAtOnce => asking = {}
Returned == ~dispatching /\ taking = {} /\ AskedAll

(* The requests of one attempt are enqueued one after the other. *)
HalfAsked == {r \in Requests \ submitted : \E s \in submitted : InputOf[s] = InputOf[r]}

Callable == Returned /\ HalfAsked = {}
AtRest == Callable /\ delivering = NoDecode

Enqueue(r) ==
    /\ Returned
    /\ r \notin submitted
    /\ HalfAsked = {} \/ r \in HalfAsked
    /\ submitted' = submitted \cup {r}
    /\ waiting' = waiting \cup {r}
    /\ live' = live \cup {r}
    /\ held' = IF Kind[r] = "external" THEN held ELSE held \cup {r}
    /\ dispatching' = TRUE
    /\ UNCHANGED <<config, blocked, taking, compute, asking, missing, inFlight, awaited,
                   memory, ends, delivering>>

(* The window's last boundary arrived. *)
ReleaseWindow(i) ==
    /\ Callable
    /\ \E r \in blocked : InputOf[r] = i
    /\ blocked' = {r \in blocked : InputOf[r] # i}
    /\ dispatching' = TRUE
    /\ UNCHANGED <<config, submitted, waiting, live, taking, compute, asking, staging,
                   ends, delivering>>

LiveOn(i, kind) == {r \in live : InputOf[r] = i /\ Kind[r] = kind}

(* withdraw_window: the whole weak attempt, none of it started. *)
Withdraw(i) ==
    /\ Callable
    /\ LiveOn(i, "window") # {}
    /\ \A r \in Requests : InputOf[r] = i => {r} \notin started
    /\ taking' = LiveOn(i, "window")
    /\ live' = live \ taking'
    /\ UNCHANGED <<config, submitted, waiting, blocked, compute, asking, staging, ends,
                   dispatching, delivering>>

(* cancel_strong: wherever the destination's requests are. *)
CancelStrong(i) ==
    /\ Callable
    /\ LiveOn(i, "strong") # {}
    /\ taking' = LiveOn(i, "strong")
    /\ live' = live \ taking'
    /\ UNCHANGED <<config, submitted, waiting, blocked, compute, asking, staging, ends,
                   dispatching, delivering>>

(* A variant that forgets to run the dispatch loop. *)
ReadQuietly(d) ==
    /\ config.blocksUnit /\ Callable
    /\ d \in completed /\ KindOf(d) = "window" /\ IsResident(d)
    /\ Free(d)
    /\ UNCHANGED <<config, queue, taking, asking, staging, ends, delivering, dispatching>>

(* read_result: a unit that blocks on its result is free once it is read. *)
Read(d) ==
    /\ config.blocksUnit /\ Callable
    /\ d \in completed /\ KindOf(d) = "window" /\ IsResident(d)
    /\ Free(d)
    /\ dispatching' = TRUE
    /\ UNCHANGED <<config, queue, taking, asking, staging, ends, delivering>>

-----------------------------------------------------------------------------
(* One request of the call is taken back, in whatever state it is. *)

HasSurvivors(d) == d \cap live # {}

(* A variant that keeps the store's hold of a request that leaves the queue. *)
TakeBackQueuedHeld(r) ==
    /\ r \in waiting
    /\ waiting' = waiting \ {r}
    /\ dispatching' = (taking' = {})
    /\ UNCHANGED <<config, compute, staging, withdrawn>>

TakeBackQueued(r) ==
    /\ r \in waiting
    /\ waiting' = waiting \ {r}
    /\ Release({r})
    /\ dispatching' = (taking' = {})
    /\ UNCHANGED <<config, compute, missing, inFlight, awaited, withdrawn>>

(* The batch goes on and the member rides with it. *)
TakeBackStagedMember(d) ==
    /\ d \notin started /\ HasSurvivors(d)
    /\ dispatching' = (taking' = {})
    /\ UNCHANGED <<config, waiting, compute, staging, withdrawn>>

TakeBackStaged(d) ==
    /\ d \notin started /\ ~HasSurvivors(d)
    /\ withdrawn' = withdrawn \cup {d}
    /\ CancelInputs(d, UnitOf(d))
    /\ Evict(d, UnitOf(d))
    /\ dispatching' = (taking' = {})
    /\ UNCHANGED waiting

TakeBackRunningMember(r, d) ==
    /\ d \in started /\ HasSurvivors(d)
    /\ Release({r})
    /\ dispatching' = (taking' = {})
    /\ UNCHANGED <<config, waiting, compute, missing, inFlight, awaited, withdrawn>>

(* abort: the dispatch loop runs before the call takes the next request. *)
TakeBackRunning(d) ==
    /\ d \in started /\ ~HasSurvivors(d)
    /\ withdrawn' = withdrawn \cup {d}
    /\ CancelInputs(d, UnitOf(d))
    /\ Free(d)
    /\ dispatching' = TRUE
    /\ UNCHANGED waiting

TakeBack(r) ==
    /\ r \in taking /\ ~dispatching /\ AskedAll
    /\ taking' = taking \ {r}
    /\ \/ TakeBackQueued(r)
       \/ \E u \in Units : \E d \in Holding(u) :
            /\ r \in d
            /\ \/ TakeBackStagedMember(d) \/ TakeBackStaged(d)
               \/ TakeBackRunningMember(r, d) \/ TakeBackRunning(d)
    /\ UNCHANGED <<config, submitted, blocked, live, asking, ended, completed, walking,
                   delivering>>

-----------------------------------------------------------------------------
(* The dispatch loop. *)

Startable == waiting \ blocked

(* A queue that merges makes one batch of every startable request. *)
Candidates ==
    IF config.mergesStrong THEN {Startable} \ {NoDecode} ELSE {{r} : r \in Startable}

(* The places in the free list of the units that have room for d. *)
FreeWithRoom(d) == {i \in DOMAIN free : HasRoom(free[i], d)}

(* The first free unit that has the input or awaits it, else the first. *)
FreeUnitFor(d) ==
    LET near == {i \in FreeWithRoom(d) : InputIsOn(free[i], d)}
    IN  IF near # {} THEN free[Min(near)] ELSE free[Min(FreeWithRoom(d))]

Admit(d, u) ==
    /\ waiting' = waiting \ d
    /\ residents' = [residents EXCEPT ![u] = Append(@, d)]
    /\ asking' = asking \cup {d}
    /\ UNCHANGED <<config, submitted, blocked, live, taking, running, device_queue,
                   started, staging, ends, dispatching, delivering>>

DispatchToCompute(d) ==
    /\ dispatching /\ AskedAll
    /\ FreeWithRoom(d) # {}
    /\ LET u == FreeUnitFor(d)
       IN  /\ free' = RemoveFirst(free, u)
           /\ holder' = [holder EXCEPT ![u] = d]
           /\ Admit(d, u)

DispatchToStage(d, u) ==
    /\ dispatching /\ AskedAll
    /\ FreeWithRoom(d) = {}
    /\ KindOf(d) # "external"
    /\ HasRoom(u, d)
    /\ Admit(d, u)
    /\ UNCHANGED <<config, free, holder>>

(* Some unit has the least work left, and the job waits only if that one    *)
(* has no room for it (_freeing_first).                                     *)
MayWait(d) ==
    /\ FreeWithRoom(d) = {}
    /\ KindOf(d) = "external" \/ \E u \in Units : ~HasRoom(u, d)

DispatchEnds ==
    /\ dispatching /\ AskedAll
    /\ \A d \in Candidates : MayWait(d)
    /\ dispatching' = FALSE
    /\ UNCHANGED <<config, queue, taking, compute, asking, staging, ends, delivering>>

Dispatch ==
    \/ \E d \in Candidates : DispatchToCompute(d)
    \/ \E d \in Candidates, u \in Units : DispatchToStage(d, u)
    \/ DispatchEnds

-----------------------------------------------------------------------------
(* The inputs. *)

(* _input_landed, on the decodes D whose last input landed on u. *)
LandOn(u, D) ==
    /\ BeginFrom(D \cap {holder[u]}, running, device_queue, started)
    /\ UNCHANGED <<config, residents, holder, free>>

ReadersAdded(u, R) ==
    [memory EXCEPT ![u] = [i \in Inputs |-> @[i] \cup {r \in R : InputOf[r] = i}]]

AskWithdrawn(d) ==
    /\ d \in withdrawn
    /\ UNCHANGED <<config, compute, staging>>

(* _stage_input: each request reads rounds that are here, joins a landing   *)
(* on its way, or sends; a request without input lands at once.             *)
AskForInput(d) ==
    LET u       == UnitOf(d)
        asked   == IF IsBatch(d) THEN d \cap live ELSE d
        reads   == {r \in asked : memory[u][InputOf[r]] # {}}
        joins   == {r \in asked : <<u, InputOf[r]>> \in awaited}
        atOnce  == reads \cup {r \in asked : Kind[r] = "external"}
        sends   == asked \ (atOnce \cup joins)
    IN  /\ d \notin withdrawn
        /\ memory' = ReadersAdded(u, atOnce)
        /\ held' = held \ atOnce
        /\ missing' = missing \cup (asked \ atOnce)
        /\ inFlight' = inFlight \cup sends
        /\ awaited' = awaited \cup ({u} \X InputsOf(sends))
        /\ LandOn(u, IF asked = atOnce THEN {d} ELSE {})

Ask(d) ==
    /\ d \in asking
    /\ config.asksAtOnce \/ AtRest
    /\ asking' = asking \ {d}
    /\ AskWithdrawn(d) \/ AskForInput(d)
    /\ UNCHANGED <<config, queue, taking, ends, dispatching, delivering>>

(* The transfer of r lands on u, and every request that joined it reads.    *)
Land(r) ==
    LET d      == CHOOSE e \in UNION {Holding(u) : u \in Units} : r \in e
        u      == UnitOf(d)
        joined == {s \in missing \ inFlight :
                     InputOf[s] = InputOf[r] /\ {s} \in Holding(u)}
        lands  == joined \cup {r}
        whole  == {e \in Holding(u) : e \cap lands # {} /\ e \cap missing \subseteq lands}
    IN  /\ AtRest
        /\ r \in inFlight
        /\ inFlight' = inFlight \ {r}
        /\ missing' = missing \ lands
        /\ awaited' = awaited \ {<<u, InputOf[r]>>}
        /\ memory' = ReadersAdded(u, lands)
        /\ held' = held \ lands
        /\ LandOn(u, whole)
        /\ UNCHANGED <<queue, taking, asking, ends, dispatching, delivering>>

-----------------------------------------------------------------------------
(* The decode's end. *)

(* The answer of a decode stopped while running: nothing is left to settle. *)
AbortedEnds(d) ==
    /\ d \in withdrawn
    /\ dispatching' = TRUE
    /\ UNCHANGED <<config, live, compute, memory, held, completed, delivering>>

(* The window side reads the result while the input and the unit are held. *)
WindowDecodeEnds(d) ==
    /\ d \notin withdrawn /\ KindOf(d) = "window"
    /\ completed' = completed \cup {d}
    /\ live' = live \ d
    /\ delivering' = d
    /\ UNCHANGED <<config, compute, memory, held, dispatching>>

(* A variant that releases only the members still live. *)
OtherDecodeEndsForLive(d) ==
    /\ d \notin withdrawn /\ KindOf(d) # "window"
    /\ completed' = completed \cup {d}
    /\ live' = live \ d
    /\ Release(d \cap live)
    /\ Free(d)
    /\ delivering' = d
    /\ UNCHANGED dispatching

(* A strong or an external decode gives everything back first. *)
OtherDecodeEnds(d) ==
    /\ d \notin withdrawn /\ KindOf(d) # "window"
    /\ completed' = completed \cup {d}
    /\ live' = live \ d
    /\ Release(d)
    /\ Free(d)
    /\ delivering' = d
    /\ UNCHANGED dispatching

DecodeEnds(d) ==
    /\ AtRest
    /\ d \in started \ ended
    /\ ended' = ended \cup {d}
    /\ AbortedEnds(d) \/ WindowDecodeEnds(d) \/ OtherDecodeEnds(d)
    /\ UNCHANGED <<config, submitted, waiting, blocked, taking, asking, missing,
                   inFlight, awaited, withdrawn, walking>>

(* After the delivery a window's decode gives back its unit, unless the     *)
(* result blocks it or a confidence walk runs on it, and its input.         *)
DeliveryEnds ==
    /\ Callable /\ delivering # NoDecode
    /\ IF KindOf(delivering) = "window"
       THEN /\ Release(delivering)
            /\ \/ config.blocksUnit /\ UNCHANGED <<compute, walking>>
               \/ ~config.blocksUnit /\ Free(delivering) /\ UNCHANGED walking
               \/ /\ ~config.blocksUnit
                  /\ walking' = walking \cup {delivering}
                  /\ UNCHANGED compute
       ELSE UNCHANGED <<compute, memory, held, walking>>
    /\ delivering' = NoDecode
    /\ dispatching' = TRUE
    /\ UNCHANGED <<config, queue, taking, asking, missing, inFlight, awaited, ended,
                   completed, withdrawn>>

WalkEnds(d) ==
    /\ AtRest
    /\ d \in walking
    /\ walking' = walking \ {d}
    /\ Free(d)
    /\ dispatching' = TRUE
    /\ UNCHANGED <<config, queue, taking, asking, staging, ended, completed, withdrawn,
                   delivering>>

-----------------------------------------------------------------------------
Calls ==
    \/ \E r \in Requests \ HalfAsked : Enqueue(r)
    \/ \E i \in Inputs : ReleaseWindow(i) \/ Withdraw(i) \/ CancelStrong(i)
    \/ \E d \in completed : Read(d)

Continues ==
    \/ DeliveryEnds \/ Dispatch
    \/ \E r \in taking : TakeBack(r)
    \/ \E r \in HalfAsked : Enqueue(r)

Events ==
    \/ \E d \in asking : Ask(d)
    \/ \E r \in inFlight : Land(r)
    \/ \E d \in started : DecodeEnds(d)
    \/ \E d \in walking : WalkEnds(d)

Next == Calls \/ Continues \/ Events

Spec == Init /\ [][Next]_vars

(* A call runs to its end, the engine runs queued events until none is      *)
(* left, and the window side reads every result in the bounded cycles its   *)
(* verdict is priced at, a companion the confidence join holds at once.     *)
Fairness ==
    /\ WF_vars(Continues)
    /\ WF_vars(Events)
    /\ WF_vars(\E d \in completed : Read(d))

FairSpec == Spec /\ Fairness

-----------------------------------------------------------------------------
(* What the theorems ask of a pool.  Each input fits an empty unit: one     *)
(* that does not raises at its deposit (DecoderMemory._check_capacity).     *)
EachInputFits(c) == \A i \in DOMAIN c.bits : c.bits[i] <= c.capacityBits

(* Room is asked of each decode by the input it will have, and a unit is    *)
(* given back with its input: no batch, whose room is recounted, and no     *)
(* unit that blocks on its result.                                          *)
RoomIsAsked(c) == EachInputFits(c) /\ ~c.mergesStrong /\ ~c.blocksUnit

(* Or the memory has room for every input at once.                          *)
AllInputsFit(c) ==
    Cardinality(UNION {{i} \X (1 .. c.bits[i]) : i \in DOMAIN c.bits}) <= c.capacityBits

-----------------------------------------------------------------------------
(* The pool's list of free compute is exactly the units no decode holds,    *)
(* each once, and a holder keeps a slot of its unit: no decode ends, walk,  *)
(* eviction or offer loses a unit or gives it twice (pool.release in        *)
(* _offer_compute against claim).                                           *)
UnitsAccounted ==
    /\ \A i, j \in DOMAIN free : free[i] = free[j] => i = j
    /\ \A u \in Units :
        /\ (\E i \in DOMAIN free : free[i] = u) <=> holder[u] = NoDecode
        /\ holder[u] # NoDecode => holder[u] \in Holding(u)

(* Compute is never held by a decode that will not go on: its input is      *)
(* coming, it waits for a device slot, runs, is walked on or its result is  *)
(* not taken yet.  So no resident waits for compute for ever, and an input  *)
(* never lands on a free unit (the assertion in _input_landed).             *)
HeldComputeMoves ==
    \A u \in Units :
        /\ Holding(u) # {} => holder[u] # NoDecode
        /\ LET d == holder[u]
           IN  d # NoDecode =>
                /\ d \notin withdrawn
                /\ \/ ~InputLanded(d)
                   \/ \E i \in DOMAIN device_queue : device_queue[i] = d
                   \/ d \in started \ ended
                   \/ d \in walking \cup {delivering}
                   \/ config.blocksUnit /\ d \in completed

(* Outside a call no job that could take free compute, or be staged on      *)
(* whichever unit has the least work left, is left in the queue             *)
(* (decode_dispatch.py: every call that adds work or frees a unit runs the  *)
(* loop).                                                                   *)
WorkConserving ==
    AtRest => \A d \in Candidates : MayWait(d)

(* No compute idles: what a unit holds goes on, and what is free has no job *)
(* to take it, whichever call freed the one or brought the other.           *)
ComputeMoves == HeldComputeMoves /\ WorkConserving

(* The device's slots are those of the decodes started and still on their   *)
(* unit, never more than it has, and a decode waits only while all are      *)
(* taken, with its input landed and its unit's compute held                 *)
(* (ExecutionSlots.take, give_back and withdraw).                           *)
SlotsAccounted ==
    /\ running = {d \in started : IsResident(d)}
    /\ Cardinality(running) <= config.slotCount
    /\ device_queue # <<>> => Cardinality(running) = config.slotCount
    /\ \A i \in DOMAIN device_queue :
        LET d == device_queue[i]
        IN  /\ IsResident(d) /\ InputLanded(d)
            /\ holder[UnitOf(d)] = d
            /\ ~IsPastStart(d, started)

(* Compute is given out and taken back once, on the units and on the device *)
(* they share, whichever of a decode's end, walk, eviction or cancel does   *)
(* it; and every variable keeps its type.                                   *)
ComputeAccounted == TypeOK /\ UnitsAccounted /\ SlotsAccounted

(* Two live jobs share a unit only while its memory holds both inputs, what *)
(* is still crossing the link included (DecoderUnit.has_room: "A second     *)
(* resident joins only if the memory holds both inputs").                   *)
BothInputsFit ==
    \A u \in Units :
        Cardinality(LiveResidents(u)) > 1 =>
            Occupied(u) + BitsOf({i \in Inputs :
                /\ memory[u][i] = {}
                /\ \E r \in inFlight : InputOf[r] = i /\ \E d \in Holding(u) : r \in d})
            <= config.capacityBits

(* A unit's memory keeps rounds only for the decodes on the unit, however a *)
(* request was served or taken back (check_decode_work_settled: "decoder    *)
(* memory still holding rounds"), and for the result being delivered: a     *)
(* unit that blocks on it is free once it is read, its input after the call.*)
MemoryOnlyForResidents ==
    \A u \in Units, i \in Inputs :
        \A r \in memory[u][i] : \E d \in Holding(u) \cup {delivering} : r \in d

(* The source store keeps a request's rounds exactly until they land in a   *)
(* unit or the request is taken back: dropped earlier a transfer would read *)
(* evicted rounds, later the buffer would fill (input_hold).                *)
StoreHoldsUntilLanded ==
    LET unlanded == waiting \cup missing \cup UNION (asking \ withdrawn)
    IN  /\ \A r \in unlanded : Kind[r] # "external" => r \in held
        /\ \A r \in held :
            r \in unlanded \/ (r \notin live /\ \E u \in Units, d \in Decodes :
                                                    d \in Holding(u) /\ r \in d)

(* A running decode has every input it still decodes in its own unit's      *)
(* memory, as its reader, until it ends: no cancel of a companion and no    *)
(* shared landing takes it away (DecoderMemory.take, release).              *)
RunningHasInput ==
    \A d \in running \ completed :
        \A r \in d \cap live : r \in memory[UnitOf(d)][InputOf[r]]

(* A unit's memory follows its residents: it keeps rounds for no other      *)
(* decode, and keeps those a running decode reads until it ends.            *)
MemoryFollowsResidents == MemoryOnlyForResidents /\ RunningHasInput

(* Every request whose window owes no boundary is served or taken back.     *)
EveryRequestSettles ==
    \A r \in UNION {c.requests : c \in Settings} :
        (r \in live /\ r \notin blocked) ~> r \notin live
=============================================================================
