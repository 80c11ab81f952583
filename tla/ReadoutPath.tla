---------------------------- MODULE ReadoutPath ----------------------------
(***************************************************************************)
(* The rounds of a run from their emission to the end of their hold in a   *)
(* store.  A round takes a place in the packing stage, or waits for one in *)
(* the packing line; its fragments are packed; rounds of one stream leave  *)
(* in order.  It is written into its stream's store, and copied to each    *)
(* other store a window reads it from, or waits in the held line until all *)
(* have room.  Once written it is published to the windows, whose holds    *)
(* keep it stored until their decode has its input (controller/            *)
(* round_assembly.py, syndrome_round_sender.py, round_transmission.py,     *)
(* round_destinations.py, syndrome_buffer/, windows/round_retention.py).   *)
(*                                                                         *)
(* An edge leads from an entry store to the landing store of a stronger    *)
(* pool.  A window that may be decoded again keeps its rounds in both.  A  *)
(* redo, asked for by its verdict or planned before it, is submitted once  *)
(* its rounds are stored where they land; it is held until then, and those *)
(* missing cross in a region (escalation/strong_redecode.py,               *)
(* strong_window_shapes.py, pending_strong_windows.py).                    *)
(*                                                                         *)
(* A bounded store that can never take the head of the held line stops the *)
(* run.  A setting may run on past that stop, so that what was announced   *)
(* can be compared with what happens.  The stores are the written ones and *)
(* the windows planned ahead, kept on their entry pool; a decode unit is   *)
(* always free, and time is the order of the engine's events.  A window    *)
(* decoded again gives its boundary out with its redo's answer.            *)
(***************************************************************************)
EXTENDS Naturals, Sequences, FiniteSets, SequencesExt, FiniteSetsExt

CONSTANT Settings   \* the runs: what is emitted, which windows read it, sizes

\* emission: the rounds, a round is its stream and its index, in the order
\* the QPU emits them; memory: those that only time a feedback; bits: their
\* widths; own: each stream's entry store; capacity: each store's bits;
\* ports: a store's write ports; places: the packing stage's bound; windows:
\* each window's stream, the rounds it reads and the windows whose boundary
\* it waits for; runsOn: the model goes on past a stop; edges: the landing
\* store of an entry store's escalations; redo: the rounds the redo of a
\* window reads, of those that may have one; rescues: those a deadline may
\* have planned before the verdict; cancels: a keep cancels the redo.
ASSUME SettingsAssumption ==
    \A c \in Settings :
        /\ c.emission \in Seq((DOMAIN c.own) \X (Nat \ {0}))
        /\ IsInjective(c.emission)
        /\ c.bits \in [Range(c.emission) -> Nat \ {0}]
        /\ \A s \in DOMAIN c.own : c.own[s] \in DOMAIN c.capacity
        /\ \A s \in DOMAIN c.capacity : c.capacity[s] \in Nat
        /\ c.ports \in Nat \ {0} /\ c.places \in Nat \ {0}
        /\ \A w \in DOMAIN c.windows :
            /\ c.windows[w].stream \in DOMAIN c.own
            /\ c.windows[w].reads \subseteq Range(c.emission) \ c.memory
            /\ c.windows[w].deps \subseteq DOMAIN c.windows
        /\ DOMAIN c.edges \subseteq Range(c.own)
        /\ Range(c.edges) \subseteq DOMAIN c.capacity \ Range(c.own)
        /\ \A w \in DOMAIN c.redo :
            /\ c.redo[w] \subseteq c.windows[w].reads
            /\ c.own[c.windows[w].stream] \in DOMAIN c.edges
        /\ c.rescues \subseteq DOMAIN c.redo

VARIABLES
    config,       \* the run's settings
    emitted,      \* how many rounds the QPU emitted
    whole,        \* rounds whose fragments all arrived
    packingLine,  \* the line in front of the packing stage
    inAssembly,   \* context_by_identity: the rounds in the stage's workspace
    expected,     \* expected_by_stream: emitted and not retired
    packing,      \* rounds whose packing time runs
    packed,       \* is_ready: packed, waiting for their stream's turn
    forming,      \* retired, in their detection event time
    heldRounds,   \* the line in front of the stores
    onRoute,      \* per store, the writes on their way, room reserved
    inFlight,     \* the transmitter's count of rounds on their route
    leaving,      \* "round publication complete" events queued
    outgoing,     \* memory rounds being read out to the decoder side
    stored,       \* per store, the rounds it keeps
    published,    \* rounds the windows were told of
    phase,        \* each window's hold and decode
    redo,         \* each window's redo on its edge
    crossing,     \* per entry store, the regions on the edge out of it
    stopped       \* _stop_at_a_knot raised

stage  == <<emitted, whole, packingLine, inAssembly, expected, packing, packed,
            forming>>
path   == <<heldRounds, onRoute, inFlight, stopped>>
ends   == <<leaving, outgoing>>
redos  == <<redo, crossing>>
reads  == <<stored, published, phase, redos>>
vars == <<config, stage, path, ends, reads>>

-----------------------------------------------------------------------------
(* The settings and what follows from the state *)

Rounds == Range(config.emission)
Stores == DOMAIN config.capacity
Windows == DOMAIN config.windows
Reads(w) == config.windows[w].reads
Deps(w) == config.windows[w].deps
StoreOf(w) == config.own[config.windows[w].stream]
OwnStore(r) == config.own[r[1]]
EntryStores == Range(config.own)
Edges == DOMAIN config.edges
MayRedo(w) == w \in DOMAIN config.redo
Stream(w) == config.windows[w].stream
Landing(w) == config.edges[StoreOf(w)]
\* the bits are counted one by one: a sum that proofs can take apart
Bits(rounds) == Cardinality(UNION {{r} \X (1 .. config.bits[r]) : r \in rounds})

\* the window's WindowReads or DecoderInputHold is live
IsHolding(w) == phase[w] \in {"reading", "requested"}
\* its PotentialStrong is live, or its redo's DecoderInputHold
IsHoldingForRedo(w) ==
    /\ MayRedo(w)
    /\ \/ redo[w] \in {"none", "held"} /\ phase[w] # "decoded"
       \/ redo[w] = "asked"
HeldIn(s) ==
    UNION {Reads(w) : w \in {x \in Windows :
        \/ IsHolding(x) /\ StoreOf(x) = s
        \/ IsHoldingForRedo(x) /\ s \in {StoreOf(x), Landing(x)}}}

\* stores_for: a round's own, and each other that holds it
Sides == [r \in Rounds |->
            {OwnStore(r)} \cup {s \in EntryStores : r \in HeldIn(s)}]

\* RoundsInFlight.count
Count == Cardinality(inAssembly) + Len(heldRounds) + inFlight

\* note_arrival: the round and every one before it in its stream
HasArrived(r) == \A i \in 1..r[2] : <<r[1], i>> \in published

\* a plausible slip: the copies are not waited for
IsReadyAtHome(w) == \A r \in Reads(w) : HasArrived(r)
\* is_data_complete and copied_reads_landed
IsReady(w) ==
    \A r \in Reads(w) :
        /\ HasArrived(r)
        /\ OwnStore(r) = StoreOf(w) \/ r \in stored[StoreOf(w)]

\* the boundaries the job waits for are in
MayTakeInput(w) ==
    phase[w] = "requested" /\ \A d \in Deps(w) : phase[d] = "decoded"

\* read_keys_for_bounds: the rounds of a stream first, then the others
IsReadBefore(stream, x, y) ==
    IF x[1] = y[1] THEN x[2] < y[2] ELSE x[1] = stream
InReadOrder(stream, rounds) ==
    CHOOSE q \in SetToSeqs(rounds) :
        \A i, j \in DOMAIN q : IsReadBefore(stream, q[i], q[j]) => i < j

-----------------------------------------------------------------------------
(* Room in the stores, and the knot *)

\* a plausible slip: the writes on their way are not counted
FitsWithoutWrites(kept, route, s) == Bits(kept[s]) <= config.capacity[s]
\* has_room: what is stored and what is reserved fit
Fits(kept, route, s) ==
    Bits(kept[s]) + Bits(Range(route[s])) <= config.capacity[s]

\* _send: the rounds' writes, to their own store and the copies' stores
Sent(rounds, route, sides) ==
    [s \in Stores |-> route[s] \o
        FlattenSeq([i \in DOMAIN rounds |->
                        IF s \in sides[rounds[i]] THEN <<rounds[i]>> ELSE <<>>])]

\* a plausible slip: only the windows that read a round in the line
KeptReading(s) ==
    {w \in Windows : /\ StoreOf(w) = s
                     /\ phase[w] = "reading"
                     /\ Reads(w) \cap Range(heldRounds) # {}}
\* a plausible slip: every live hold
KeptByAll(s) == {w \in Windows : StoreOf(w) = s /\ IsHolding(w)}
\* _holders_kept_waiting: the window reads at once a round in the line, or
\* its decode waits for the read of a window that does
KeptWaiting(s) ==
    LET here == {w \in Windows : StoreOf(w) = s}
        reading == {w \in here :
            /\ phase[w] = "reading"
            /\ \E r \in Reads(w) \cap Range(heldRounds) :
                    r[1] = config.windows[w].stream}
    IN  reading \cup {w \in here : /\ phase[w] = "requested"
                                   /\ Deps(w) \cap reading # {}}

\* the store whose has_room refuses the head, its own asked first
RefusedBy(r) ==
    LET full == {s \in Sides[r] : ~Fits(stored, Sent(<<r>>, onRoute, Sides), s)}
    IN  IF OwnStore(r) \in full THEN OwnStore(r) ELSE CHOOSE s \in full : TRUE

\* _stop_at_a_knot: the head and what is kept until it enters do not fit
IsKnot ==
    /\ heldRounds # <<>>
    /\ LET s == RefusedBy(Head(heldRounds))
           kept == UNION {Reads(w) : w \in KeptWaiting(s)}
       IN  Bits({Head(heldRounds)})
             + Bits(kept \cap (stored[s] \cup Range(onRoute[s])))
           > config.capacity[s]

\* HeldRounds.retry, after every action: rounds enter from the head while
\* all their stores have room, and a refused head looks for a knot
RetryHeld(line, route, flying) ==
    LET entering == Max({0} \cup {n \in 1..Len(line) :
            LET sent == Sent(SubSeq(line, 1, n), route, Sides')
            IN  \A s \in EntryStores : Fits(stored', sent, s)})
    IN  /\ heldRounds' = SubSeq(line, entering + 1, Len(line))
        /\ onRoute' = Sent(SubSeq(line, 1, entering), route, Sides')
        /\ inFlight' = flying + entering
        /\ stopped' = (stopped \/ IsKnot')

-----------------------------------------------------------------------------
(* The packing stage *)

\* RoundsInFlight.has_room
FreePlaces(flying) ==
    config.places - (Cardinality(inAssembly) + Len(heldRounds) + flying)

\* _enter: rounds take places, and those that are whole are packed now
Enter(rounds, arrived) ==
    /\ inAssembly' = inAssembly \cup rounds
    /\ packing' = packing \cup (rounds \cap arrived)

\* packing_line.retry: a place was freed
RetryPacking(flying) ==
    LET entering == Max({0} \cup {n \in 1..Len(packingLine) :
                                    n <= FreePlaces(flying)})
    IN  /\ packingLine' = SubSeq(packingLine, entering + 1, Len(packingLine))
        /\ Enter(Range(SubSeq(packingLine, 1, entering)), whole)

Init ==
    /\ config \in Settings
    /\ emitted = 0
    /\ whole = {}
    /\ packingLine = <<>>
    /\ inAssembly = {}
    /\ expected = {}
    /\ packing = {}
    /\ packed = {}
    /\ forming = <<>>
    /\ heldRounds = <<>>
    /\ onRoute = [s \in Stores |-> <<>>]
    /\ inFlight = 0
    /\ leaving = 0
    /\ outgoing = {}
    /\ stored = [s \in Stores |-> {}]
    /\ published = {}
    /\ phase = [w \in Windows |-> "reading"]
    /\ redo = [w \in Windows |-> "none"]
    /\ crossing = [e \in Edges |-> <<>>]
    /\ stopped = FALSE

\* expect_round: the QPU emitted the next round
ExpectRound ==
    /\ emitted < Len(config.emission)
    /\ emitted' = emitted + 1
    /\ LET r == config.emission[emitted + 1]
       IN  /\ expected' = expected \cup {r}
           /\ IF packingLine = <<>> /\ FreePlaces(inFlight) > 0
              THEN Enter({r}, whole) /\ UNCHANGED packingLine
              ELSE /\ packingLine' = Append(packingLine, r)
                   /\ UNCHANGED <<inAssembly, packing>>
    /\ UNCHANGED <<whole, packed, forming, path, ends, reads>>

\* add: the round's last fragment arrives, in any order over the readout
Add(r) ==
    /\ r \in {config.emission[i] : i \in 1..emitted} \ whole
    /\ whole' = whole \cup {r}
    /\ packing' = IF r \in inAssembly THEN packing \cup {r} ELSE packing
    /\ UNCHANGED <<emitted, packingLine, inAssembly, expected, packed, forming,
                   path, ends, reads>>

\* _release_ready_rounds: the rounds of r's stream retired now, in order
Retired(r, ready) ==
    {x \in expected : /\ x[1] = r[1]
                      /\ \A y \in expected :
                            y[1] = r[1] /\ y[2] <= x[2] => y \in ready}

\* _finish_packing
FinishPacking(r) ==
    /\ r \in packing
    /\ LET ready == packed \cup {r}
           now == Retired(r, ready)
       IN  /\ packed' = ready \ now
           /\ expected' = expected \ now
           /\ forming' = forming \o InReadOrder(r[1], now)
    /\ packing' = packing \ {r}
    /\ UNCHANGED <<emitted, whole, packingLine, inAssembly, path, ends, reads>>

\* _hand_on and admit: the round joins the line, and enters if it is first
\* and finds room
HandOn ==
    /\ forming # <<>>
    /\ forming' = Tail(forming)
    /\ inAssembly' = inAssembly \ {Head(forming)}
    /\ UNCHANGED <<emitted, whole, packingLine, expected, packing, packed,
                   ends, reads>>
    /\ RetryHeld(Append(heldRounds, Head(forming)), onRoute, inFlight)

-----------------------------------------------------------------------------
(* Redos and the regions that carry their rounds *)

\* is_round_coming: on its way to the landing store over an edge
Coming(l) ==
    UNION {UNION {Range(region) : region \in Range(crossing[e])} :
           e \in {x \in Edges : config.edges[x] = l}}

\* submit_if_stored_data_releases: the held redos indexed under the stream
\* whose rounds are all stored are submitted
Woken(stream, kept) ==
    [w \in Windows |->
        IF /\ redo[w] = "held"
           /\ Stream(w) = stream
           /\ config.redo[w] \subseteq kept[Landing(w)]
        THEN "asked" ELSE redo[w]]

\* shape.plan, then _hold and _carry_missing_rounds: a redo with its rounds
\* stored is submitted, else it is held and the rounds not coming yet leave
Plan(w) ==
    LET lacking == config.redo[w] \ stored[Landing(w)]
        sent == lacking \ Coming(Landing(w))
    IN  /\ redo' = IF lacking = {} THEN [redo EXCEPT ![w] = "asked"]
                   ELSE [Woken(Stream(w), stored) EXCEPT ![w] = "held"]
        /\ crossing' =
                IF sent = {} THEN crossing
                ELSE [crossing EXCEPT
                        ![StoreOf(w)] = Append(@, InReadOrder(Stream(w), sent))]

\* a landing store once the first n rounds of the region landed: a round no
\* hold names is freed as it lands
LandedAt(l, region, n) ==
    [stored EXCEPT ![l] = @ \cup (Range(SubSeq(region, 1, n)) \cap HeldIn(l))]

\* has_stream: the stream was delivered and no live hold names it
IsClosed(l, stream) ==
    /\ \A w \in Windows : Stream(w) = stream => phase[w] = "decoded"
    /\ \A r \in HeldIn(l) : r[1] # stream

\* receive_region and _land_formed: the rounds land one after the other, and
\* each wakes the redos of its stream
LandRegion(e) ==
    /\ crossing[e] # <<>>
    /\ crossing' = [crossing EXCEPT ![e] = Tail(@)]
    /\ LET l == config.edges[e]
           region == Head(crossing[e])
       IN  /\ stored' = LandedAt(l, region, Len(region))
           /\ redo' = [w \in Windows |->
                IF \E n \in DOMAIN region :
                    Woken(region[n][1], LandedAt(l, region, n))[w] = "asked"
                THEN "asked" ELSE redo[w]]
    /\ UNCHANGED <<stage, path, ends, published, phase>>

\* _rescue: the deadline of a decode that owes no boundary has its redo
\* planned before the verdict
Rescue(w) ==
    /\ w \in config.rescues
    /\ redo[w] = "none"
    /\ MayTakeInput(w) \/ phase[w] = "decoding"
    /\ Plan(w)
    /\ UNCHANGED <<stage, path, ends, stored, published, phase>>

\* release_hold: the rounds of the window no hold names any more go
Release(w) ==
    stored' = [s \in Stores |-> stored[s] \ (Reads(w) \ HeldIn(s)')]

-----------------------------------------------------------------------------
(* The write, and the way out *)

\* accept_packed_round, then release_round_if_unheld
StoredAt(s, r) ==
    [stored EXCEPT ![s] = IF r \in HeldIn(s) THEN @ \cup {r} ELSE @]

\* request_if_ready of the windows a landing wakes: bind_input_hold
WakeWindows ==
    phase' = [w \in Windows |->
                IF phase[w] = "reading" /\ IsReady(w)' THEN "requested"
                ELSE phase[w]]

\* _finish_write: the round is stored and the windows hear of it
FinishWrite(s, r) ==
    /\ r \notin config.memory
    /\ s = OwnStore(r)
    /\ stored' = StoredAt(s, r)
    /\ published' = published \cup {r}
    /\ WakeWindows
    /\ redo' = Woken(r[1], stored')
    /\ leaving' = leaving + 1
    /\ UNCHANGED <<outgoing, crossing>>

\* _finish_copy: a copy is stored, its own store publishes it
FinishCopy(s, r) ==
    /\ s # OwnStore(r)
    /\ stored' = StoredAt(s, r)
    /\ UNCHANGED published
    /\ WakeWindows
    /\ UNCHANGED <<ends, redos>>

\* _send_memory_round_on: it takes its slot and leaves by the store's port
SendMemoryRoundOn(s, r) ==
    /\ r \in config.memory
    /\ stored' = [stored EXCEPT ![s] = @ \cup {r}]
    /\ outgoing' = outgoing \cup {r}
    /\ UNCHANGED <<published, phase, leaving, redos>>

\* a write completes; on several ports a narrow one may pass a wide one, and
\* a memory round passes those the receiver forms
Write(s) ==
    \E i \in DOMAIN onRoute[s] :
        /\ i <= config.ports \/ onRoute[s][i] \in config.memory
        /\ \/ FinishWrite(s, onRoute[s][i])
           \/ FinishCopy(s, onRoute[s][i])
           \/ SendMemoryRoundOn(s, onRoute[s][i])
        /\ UNCHANGED stage
        /\ RetryHeld(heldRounds, [onRoute EXCEPT ![s] = RemoveAt(@, i)], inFlight)

\* _leave: the event after the publication frees the round's place
Leave ==
    /\ leaving > 0
    /\ leaving' = leaving - 1
    /\ inFlight' = inFlight - 1
    /\ RetryPacking(inFlight - 1)
    /\ UNCHANGED <<emitted, whole, expected, packed, forming, heldRounds,
                   onRoute, stopped, outgoing, reads>>

\* _free_memory_round and _deliver_feedback_memory
DeliverMemory(r) ==
    /\ r \in outgoing
    /\ outgoing' = outgoing \ {r}
    /\ stored' = [stored EXCEPT ![OwnStore(r)] = @ \ {r}]
    /\ RetryPacking(inFlight - 1)
    /\ UNCHANGED <<emitted, whole, expected, packed, forming, leaving,
                   published, phase, redos>>
    /\ RetryHeld(heldRounds, onRoute, inFlight - 1)

\* _land: the decode has its input, its hold ends
TakeInput(w) ==
    /\ MayTakeInput(w)
    /\ phase' = [phase EXCEPT ![w] = "decoding"]
    /\ UNCHANGED <<stage, ends, published, redos>>
    /\ Release(w)
    /\ RetryHeld(heldRounds, onRoute, inFlight)

\* on_keep and note_window_committed: the result is kept, the boundary goes
\* out, and a redo is dropped, cancelled, or left to run out
Keep(w) ==
    /\ phase' = [phase EXCEPT ![w] = "decoded"]
    /\ redo' = [redo EXCEPT ![w] =
                IF @ = "none" \/ (@ \in {"asked", "landed"} /\ ~config.cancels)
                THEN @ ELSE "over"]
    /\ Release(w)
    /\ UNCHANGED crossing

\* escalate: the redo is planned, or the one planned before is selected
Escalate(w) ==
    /\ MayRedo(w)
    /\ phase' = [phase EXCEPT ![w] = "escalated"]
    /\ IF redo[w] = "none" THEN Plan(w) ELSE UNCHANGED redos
    /\ UNCHANGED stored

\* _apply_verdict
EndDecode(w) ==
    /\ phase[w] = "decoding"
    /\ Keep(w) \/ Escalate(w)
    /\ UNCHANGED <<stage, ends, published>>
    /\ RetryHeld(heldRounds, onRoute, inFlight)

\* hold_strong_input's release: the redo has its input, and both stores let
\* its rounds go
TakeRedoInput(w) ==
    /\ redo[w] = "asked"
    /\ redo' = [redo EXCEPT ![w] = "landed"]
    /\ UNCHANGED <<stage, ends, published, phase, crossing>>
    /\ Release(w)
    /\ RetryHeld(heldRounds, onRoute, inFlight)

\* the redo's answer is the window's; one that ran out is dropped
EndRedo(w) ==
    /\ redo[w] = "landed"
    /\ phase[w] \in {"escalated", "decoded"}
    /\ redo' = [redo EXCEPT ![w] = "over"]
    /\ phase' = [phase EXCEPT ![w] = "decoded"]
    /\ UNCHANGED <<stage, path, ends, stored, published, crossing>>

-----------------------------------------------------------------------------
Next ==
    /\ stopped => config.runsOn
    /\ UNCHANGED config
    /\ \/ ExpectRound
       \/ \E r \in Rounds : Add(r) \/ FinishPacking(r) \/ DeliverMemory(r)
       \/ HandOn
       \/ \E s \in Stores : Write(s)
       \/ Leave
       \/ \E e \in Edges : LandRegion(e)
       \/ \E w \in Windows : \/ TakeInput(w) \/ EndDecode(w) \/ Rescue(w)
                            \/ TakeRedoInput(w) \/ EndRedo(w)

Spec == Init /\ [][Next]_vars

\* the engine runs every event it queued, and decodes end
FairSpec == Spec /\ WF_vars(Next)

-----------------------------------------------------------------------------
(* Safety *)

\* The type of every variable.
TypeOK ==
    /\ config \in Settings
    /\ emitted \in 0..Len(config.emission)
    /\ whole \subseteq Rounds
    /\ packingLine \in Seq(Rounds)
    /\ inAssembly \subseteq Rounds
    /\ expected \subseteq Rounds
    /\ packing \subseteq inAssembly
    /\ packed \subseteq inAssembly
    /\ forming \in Seq(inAssembly)
    /\ heldRounds \in Seq(Rounds)
    /\ onRoute \in [Stores -> Seq(Rounds)]
    /\ inFlight \in Nat
    /\ leaving \in Nat
    /\ outgoing \subseteq config.memory
    /\ stored \in [Stores -> SUBSET Rounds]
    /\ published \subseteq Rounds
    /\ phase \in [Windows -> {"reading", "requested", "decoding", "escalated",
                             "decoded"}]
    /\ redo \in [Windows -> {"none", "held", "asked", "landed", "over"}]
    /\ crossing \in [Edges -> Seq(Seq(Rounds))]
    /\ stopped \in BOOLEAN

\* An escalation cannot wait for room, so the settings size a landing store
\* (reserve_region): it can take all that the redos landing there read.
LandingsFit(c) ==
    \A s \in DOMAIN c.capacity \ Range(c.own) :
        LET landing == {w \in DOMAIN c.windows :
                            w \in DOMAIN c.redo /\ c.edges[c.own[c.windows[w].stream]] = s}
            read == UNION {c.redo[w] : w \in landing}
        IN  Cardinality(UNION {{r} \X (1 .. c.bits[r]) : r \in read}) <= c.capacity[s]

\* A bounded store always has the room it promised: no write, copy or memory
\* round that was sent finds it full (accept_packed_round would raise).
StoresKeepTheirPromise ==
    \A s \in Stores :
        Bits(stored[s]) + Bits(Range(onRoute[s])) <= config.capacity[s]

\* The packing stage never holds more rounds than its bound, and a round
\* waits in front of it only while it is full: no exit forgets the line.
NoPlaceIsForgotten ==
    /\ Count <= config.places
    /\ packingLine # <<>> => Count = config.places

\* A region asked for no room and finds it as it lands, round after round
\* (accept_packed_round would raise), and no round is carried a second time,
\* by its edge or by another.
RegionsFindRoom ==
    \A e \in Edges :
        LET l == config.edges[e]
        IN  \A i \in DOMAIN crossing[e] :
            /\ Range(crossing[e][i]) \cap stored[l] = {}
            /\ \A j \in 1..(i - 1) :
                Range(crossing[e][i]) \cap Range(crossing[e][j]) = {}
            /\ i = 1 => \A n \in DOMAIN crossing[e][i] :
                LET r == crossing[e][i][n]
                IN  \/ IsClosed(l, r[1])
                    \/ Bits(LandedAt(l, crossing[e][i], n - 1)[l])
                         + config.bits[r] <= config.capacity[l]

\* The bounded stages of the path, stores and packing stage alike, hold no
\* more than they have room for, an escalation's regions included, and keep
\* no round out that has room; and every variable keeps its type.
BoundedStagesKeepTheirRoom ==
    TypeOK /\ StoresKeepTheirPromise /\ RegionsFindRoom /\ NoPlaceIsForgotten

\* A window that was asked for finds every round it reads in its own store,
\* another pool's copies too, until its decode has its input.  One that may
\* still escalate finds what its redo reads where a region is carried from,
\* and a redo finds it where it landed, or on its way there once it is held.
RequestedInputIsStored ==
    \A w \in Windows :
        /\ phase[w] = "requested" => Reads(w) \subseteq stored[StoreOf(w)]
        /\ MayRedo(w) =>
            /\ /\ phase[w] \notin {"reading", "decoded"}
               /\ redo[w] \notin {"landed", "over"}
               => config.redo[w] \subseteq stored[StoreOf(w)]
            /\ redo[w] = "held" =>
                config.redo[w] \subseteq stored[Landing(w)] \cup Coming(Landing(w))
            /\ redo[w] = "asked" => config.redo[w] \subseteq stored[Landing(w)]

\* The stop is never wrong: once it came, the head of the held line would
\* have waited for ever.
StopsOnlyAtAKnot ==
    [][stopped => heldRounds' # <<>> /\ Head(heldRounds') = Head(heldRounds)]_vars

\* A redo is held only while a round it reads is not stored: the landing of
\* the last one submits it (strong_redecode.py:326).
HeldLeavesOnceStored ==
    \A w \in Windows :
        redo[w] = "held" => ~(config.redo[w] \subseteq stored[Landing(w)])

-----------------------------------------------------------------------------
(* Liveness *)

\* Every window is decoded and the stores end empty with nothing on an edge
\* (check_settled), or the run stops at a knot: the lines, the bounds and the
\* holds never leave the run waiting on itself, and no hold or landing leaks.
IsSettled ==
    /\ \A w \in Windows : phase[w] = "decoded"
    /\ \A s \in Stores : stored[s] = {}
    /\ \A e \in Edges : crossing[e] = <<>>
EveryWindowDecodes == <>(stopped \/ IsSettled)

=============================================================================
