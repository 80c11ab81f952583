--------------------------- MODULE ProgramExecution ---------------------------
(***************************************************************************)
(* The execution of a program, from its first operation to its last:      *)
(*                                                                         *)
(*   ExecutionRuntime   which operation may start, and when               *)
(*   OperationIssuer    an admitted operation becomes one QPU command      *)
(*   FeedbackStreams,   the runs of rounds that operations share, and the *)
(*   PatchStreams       regions in which a waiting patch keeps measuring  *)
(*   IdleRoundAccounting  the rounds of the patches nobody operates on    *)
(*   QPUDevice          the cycle clock that reads the rounds out         *)
(*                                                                         *)
(* These parts call one another within one event of the engine, so a step *)
(* of this module is one event: the whole chain of calls it makes.  The   *)
(* machine is the record "run", a handler is an operator from one machine *)
(* to the next, and an action pops the event the engine runs next.        *)
(*                                                                         *)
(* Time is the QEC cycle.  The engine is either on a cycle's edge, where  *)
(* the events due run by priority and then in the order they were         *)
(* scheduled, or between two edges.  What comes from outside (a decision  *)
(* that releases an operation, a magic state) comes between two edges or  *)
(* on one, before or after the events due there, and before the rounds of *)
(* the protected streams, which are read out last.                        *)
(*                                                                         *)
(* A patch is a name.  What a round reads is left out: a round is its     *)
(* number in its stream.  Left out with it: a readout's own departure     *)
(* delay, the operation that only finalizes a stream's last round, and    *)
(* the windows' answer to a closed boundary.                              *)
(***************************************************************************)
EXTENDS Integers, Sequences, FiniteSets, SequencesExt

CONSTANT
    Programs    \* the programs executed; one is loaded

VARIABLES
    config,     \* the program that is loaded
    run         \* the machine that executes it

vars == <<config, run>>

-----------------------------------------------------------------------------
(* The program *)

None == 0       \* no operation, no stream, no tick
Unset == -1     \* no offset, no boundary

\* One operation of a program that says nothing special.
PlainOperation ==
    [patches |-> {}, rounds |-> 1, predecessors |-> {}, blockedBy |-> None,
     startRound |-> 0, needsState |-> FALSE, emits |-> TRUE,
     isDiscard |-> FALSE, stream |-> None, offset |-> Unset]

Operations == DOMAIN config.operations
Streams == DOMAIN config.streams          \* stream -> its owner's patches
Regions == DOMAIN config.regions          \* stream -> first and last operation
Patches == Range(config.patches)

Op(o) == config.operations[o]
InProgramOrder(S) == SetToSortSeq(S, <)
Successors(o) == {n \in Operations : o \in Op(n).predecessors}
FeedbackSources == {Op(o).blockedBy : o \in Operations} \ {None}
RegionsStartingAt(o) == {s \in Regions : config.regions[s].first = o}
RegionsEndingAt(o) == {s \in Regions : config.regions[s].last = o}
FollowsLives == config.lives # <<>>       \* stream -> its life's operations
LivesOf(o) == {s \in Streams : o \in Range(config.lives[s])}
LivesEndedBy(o) == {s \in Streams : Last(config.lives[s]) = o}

-----------------------------------------------------------------------------
(* The machine *)

Event(kind, of) == [kind |-> kind, of |-> of]
Crossing == Event("crossing", None)
Binding(stream, offset) == [stream |-> stream, offset |-> offset]

NewStream ==
    [next |-> 0, region |-> FALSE, edge |-> None, open |-> FALSE,
     closing |-> FALSE, last |-> None, sealed |-> FALSE, length |-> Unset,
     pending |-> None, split |-> FALSE, readOut |-> <<>>]

NewIdleCount ==
    [unclaimed |-> 0, charged |-> 0, uncharged |-> 0,
     relayed |-> 0, inJobs |-> 0, inWindows |-> 0]

\* A program's declared segments are bound as it is loaded.
LoadedMachine ==
    [cycle |-> 0, phase |-> "loaded", agenda |-> <<>>, coming |-> <<>>,
     rounds |-> <<>>, releases |-> <<>>,
     scheduled |-> {}, requested |-> {}, ready |-> {}, started |-> {},
     finished |-> {}, released |-> {}, asking |-> <<>>, stock |-> 0,
     holder |-> [p \in Patches |-> None],
     commands |-> <<>>, running |-> <<>>,
     idle |-> [p \in Patches |-> None], prepared |-> {},
     lastEmitted |-> 0, isFinished |-> FALSE,
     live |-> [s \in Streams |-> NewStream],
     bindings |-> [o \in Operations |->
        IF Op(o).offset # Unset THEN Binding(Op(o).stream, Op(o).offset)
                                ELSE Binding(None, Unset)],
     streamOf |-> [p \in Patches |-> None],
     idleCount |-> [p \in Patches |-> NewIdleCount],
     promised |-> [o \in Operations |-> Unset],
     startedAt |-> [o \in Operations |-> Unset],
     expected |-> {}, readouts |-> [p \in Patches |-> 0],
     isBroken |-> FALSE]

\* An assertion of the code, or an error it raises, ends the run.
Require(m, holds) == [m EXCEPT !.isBroken = @ \/ ~holds]

IsOnEdge(m) == m.phase \in {"edge", "rounds"}
Set(f, S, value) == [x \in DOMAIN f |-> IF x \in S THEN value ELSE f[x]]
Add(f, S) == [x \in DOMAIN f |-> IF x \in S THEN f[x] + 1 ELSE f[x]]
ChangeStreams(m, S, New(_)) ==
    [m EXCEPT !.live = [s \in Streams |-> IF s \in S THEN New(@[s]) ELSE @[s]]]

-----------------------------------------------------------------------------
(* The clock's next edge: what is scheduled there *)

\* On an edge a command starts at once, between two edges on the next one.
NextBoundary(m) == IF IsOnEdge(m) THEN m.cycle ELSE m.cycle + 1

Scheduled(events, e) == IF Contains(events, e) THEN events ELSE Append(events, e)

\* A variant: a command always waits for the next edge.
ScheduleNextCrossing(m) == [m EXCEPT !.coming = Scheduled(@, Crossing)]

ScheduleCrossing(m) ==
    IF IsOnEdge(m) THEN [m EXCEPT !.agenda = Scheduled(@, Crossing)]
                   ELSE [m EXCEPT !.coming = Scheduled(@, Crossing)]

-----------------------------------------------------------------------------
(* The streams: who holds which, and the protected regions *)

ProtectedStreams(m) == {s \in Regions : m.live[s].region}
ProtectedPatches(m) == UNION {config.streams[s] : s \in ProtectedStreams(m)}
OpenPatches(m) ==
    UNION {config.streams[s] : s \in {t \in ProtectedStreams(m) : m.live[t].open}}

\* A released operation is not held: its pulse is armed as it is released.
BlocksStart(m, o) ==
    LET active == Op(o).patches \cap ProtectedPatches(m) IN
    \/ \E s \in RegionsStartingAt(o) : active \cap config.streams[s] # {}
    \/ active # {} /\ Op(o).blockedBy = None /\ ~ active \subseteq OpenPatches(m)

\* The stream an operation was bound to, or else the one it declares.
DeclaredStream(m, o) ==
    IF m.bindings[o].stream # None THEN m.bindings[o]
                                   ELSE Binding(Op(o).stream, Op(o).offset)

\* The protected streams a feedback source reads its rounds from.
ProtectedFeedbackStreams(m, o) ==
    IF o \in FeedbackSources /\ ~ FollowsLives
    THEN RegionsStartingAt(o) \cup
         {s \in ProtectedStreams(m) : Op(o).patches \cap config.streams[s] # {}}
    ELSE {}

FeedsOneStream(m, o) ==
    LET streams == ProtectedFeedbackStreams(m, o)
        declared == DeclaredStream(m, o) IN
    /\ Cardinality(streams) <= 1
    /\ \A s \in streams : /\ declared.stream \in {None, s}
                          /\ declared.offset \in {Unset, m.live[s].next}

\* On an edge that edge's round is taken to be out, so either way the
\* stream's next round is the next edge's.
ScheduleNextBoundary(m, s) ==
    [m EXCEPT !.live[s].edge = m.cycle + 1,
              !.coming = Append(@, Event("boundary", s))]

ActivateRegions(m, o) ==
    LET starting == RegionsStartingAt(o)
        taken == UNION {config.streams[s] : s \in starting}
        protected == taken \cup (Op(o).patches \cap ProtectedPatches(m))
        mayActivate ==
            /\ protected # {} => ~ Op(o).emits
            /\ taken \cap ProtectedPatches(m) = {}
            /\ \A s, t \in starting : s # t => config.streams[s] \cap config.streams[t] = {} IN
    FoldLeft(LAMBDA n, s : ScheduleNextBoundary([n EXCEPT !.live[s].region = TRUE], s),
             Require(m, mayActivate), InProgramOrder(starting))

\* A segment at a declared offset takes its rounds as it is issued.
ReserveStreamRounds(m, o) ==
    LET declared == DeclaredStream(m, o)
        s == declared.stream
        end == declared.offset + Op(o).rounds IN
    IF s = None \/ declared.offset = Unset THEN m
    ELSE [Require(m, declared.offset >= m.live[s].next)
            EXCEPT !.live[s].next = IF end > @ THEN end ELSE @,
                   !.live[s].pending = o]

EndHolds(m, streams) ==
    [m EXCEPT !.streamOf = [p \in Patches |-> IF @[p] \in streams THEN None ELSE @[p]]]

\* An operation that claims a part of a stream's patches ends its hold.
ReleaseSplitGroups(m, patches) ==
    LET split == {s \in Streams : /\ \E p \in patches : m.streamOf[p] = s
                                  /\ ~ config.streams[s] \subseteq patches} IN
    ChangeStreams(EndHolds(m, split), split, LAMBDA live : [live EXCEPT !.split = TRUE])

\* A segment's patches hold its stream; another operation's hold none, and
\* what they held has run its last segment.
HoldPatches(m, o, s) ==
    LET patches == Op(o).patches
        left == {m.streamOf[p] : p \in patches} IN
    IF s # None
    THEN [m EXCEPT !.streamOf = Set(@, patches, s), !.live[s].split = FALSE]
    ELSE [ChangeStreams(m, left, LAMBDA live : [live EXCEPT !.pending = None])
            EXCEPT !.streamOf = IF Op(o).emits THEN Set(@, patches, None) ELSE @]

\* The operation is issued: its regions open and it is given its rounds.
BeginOutside(m, o) ==
    HoldPatches(ReleaseSplitGroups(
                    ReserveStreamRounds(ActivateRegions(m, o), o), Op(o).patches),
                o, DeclaredStream(m, o).stream)

BeginInside(m, o, s) ==
    HoldPatches(ReleaseSplitGroups(
                    ActivateRegions(Require(m, FeedsOneStream(m, o)), o), Op(o).patches),
                o, s)

Begin(m, o) ==
    LET fed == ProtectedFeedbackStreams(m, o) IN
    IF FollowsLives THEN m
    ELSE IF fed = {} THEN BeginOutside(m, o)
    ELSE BeginInside(m, o, CHOOSE s \in fed : TRUE)

\* A variant: the rounds of the segment bound are not reserved.
BindWithoutRounds(m, o) ==
    LET declared == DeclaredStream(m, o) IN
    IF declared.stream = None \/ declared.offset # Unset THEN m
    ELSE [m EXCEPT !.bindings[o] = Binding(declared.stream, m.live[declared.stream].next),
                   !.live[declared.stream].pending = None]

\* The operation starts: what declares no offset is bound to its stream's
\* next round.
BindAtStart(m, o) ==
    LET fed == ProtectedFeedbackStreams(m, o)
        declared == DeclaredStream(m, o) IN
    IF fed # {}
    THEN LET s == CHOOSE f \in fed : TRUE IN
         [Require(m, FeedsOneStream(m, o))
            EXCEPT !.bindings[o] = Binding(s, m.live[s].next)]
    ELSE IF declared.stream = None \/ declared.offset # Unset THEN m
    ELSE [m EXCEPT !.bindings[o] = Binding(declared.stream, m.live[declared.stream].next),
                   !.live[declared.stream].next = @ + Op(o).rounds,
                   !.live[declared.stream].pending = None]

\* The segments a body emits through: one per life, or its one binding.
Segments(m, o) ==
    IF FollowsLives
    THEN {Binding(s, m.live[s].next) : s \in IF Op(o).emits THEN LivesOf(o) ELSE {}}
    ELSE IF m.bindings[o].stream # None THEN {m.bindings[o]} ELSE {}

\* In a run that follows its patches' lives a segment takes its rounds as
\* it starts, and the patches measure in their lives from now on.
EnterLives(m, o) ==
    [ChangeStreams(m, {g.stream : g \in Segments(m, o)},
                   LAMBDA live : [live EXCEPT !.next = @ + Op(o).rounds])
       EXCEPT !.streamOf = [p \in Patches |->
            LET here == {s \in LivesOf(o) : p \in config.streams[s]} IN
            IF here # {} THEN CHOOSE s \in here : TRUE ELSE @[p]]]

Seal(m, streams) ==
    ChangeStreams(m, streams,
        LAMBDA live : [live EXCEPT !.sealed = TRUE, !.length = live.next])

\* A body finished: the regions it ends close on this boundary; a discard
\* ends its patches' lives.
RequestCloses(m, o) ==
    LET ending == RegionsEndingAt(o)
        ended == IF Op(o).isDiscard THEN LivesEndedBy(o) ELSE {}
        onBoundary == \A s \in ending : m.live[s].region /\ m.live[s].edge = m.cycle IN
    IF FollowsLives
    THEN Seal(EndHolds(m, ended), ended)
    ELSE ChangeStreams(Require(m, onBoundary), ending,
                       LAMBDA live : [live EXCEPT !.closing = TRUE])

\* A variant: the streams are left open as the program ends.
SealNothing(m) == m

SealFinishedStreams(m) ==
    Seal(m, IF FollowsLives THEN {s \in Streams : ~ m.live[s].sealed}
                            ELSE Streams \ Regions)

-----------------------------------------------------------------------------
(* The runtime: which operation starts *)

IsAdmissible(m, o) ==
    /\ Op(o).predecessors \subseteq m.finished
    /\ o \in m.scheduled
    /\ o \notin m.requested

\* The command waits at the QPU for its boundary, which the runtime hears.
IssueOperation(m, o) ==
    LET mayIssue == ~ (Op(o).rounds = 0 /\ Op(o).emits) IN
    ScheduleCrossing([Begin(Require(m, mayIssue), o) EXCEPT
                        !.commands = Append(@, o),
                        !.promised[o] = NextBoundary(m)])

MaybeBegin(m, o) ==
    LET mayBegin == /\ o \notin m.started
                    /\ o \in m.ready
                    /\ Op(o).blockedBy = None \/ o \in m.released
                    /\ ~ BlocksStart(m, o) IN
    IF mayBegin THEN IssueOperation([m EXCEPT !.started = @ \cup {o}], o) ELSE m

StateBecameReady(m, o) == MaybeBegin([m EXCEPT !.ready = @ \cup {o}], o)

RetryReadyOperations(m) == FoldLeft(MaybeBegin, m, InProgramOrder(m.ready))

\* The patches are claimed and the magic state is asked for; a factory with
\* a state in stock hands it over within the call.
Claim(m, o) ==
    LET patches == Op(o).patches IN
    [Require(m, \A p \in patches : m.holder[p] = None)
       EXCEPT !.holder = Set(@, patches, o), !.requested = @ \cup {o}]

AskForState(m, o) ==
    IF Op(o).needsState /\ m.stock = 0 THEN [m EXCEPT !.asking = Append(@, o)]
    ELSE StateBecameReady(
            [m EXCEPT !.stock = IF Op(o).needsState THEN @ - 1 ELSE @], o)

AttemptStart(m, o) == IF IsAdmissible(m, o) THEN AskForState(Claim(m, o), o) ELSE m

ReleaseScheduled(m, o) == AttemptStart([m EXCEPT !.scheduled = @ \cup {o}], o)

IsComplete(m) == m.finished = Operations

-----------------------------------------------------------------------------
(* The idle rounds: what each costs the decoders *)

\* One idle job decodes the rounds that none decoded yet.
SubmitIdleDecode(count) ==
    [count EXCEPT !.charged = @ + count.uncharged,
                  !.inJobs = @ + count.uncharged,
                  !.uncharged = 0]

\* A round that extends no stream is the policy's: under SeparateDecodeJobs
\* each full commit region of them is a job.
SubmitIfDue(count) ==
    IF count.uncharged = config.commit THEN SubmitIdleDecode(count) ELSE count

RelayIdleRound(count) ==
    LET charged == IF config.areJobs
                   THEN SubmitIfDue([count EXCEPT !.uncharged = @ + 1]) ELSE count IN
    [charged EXCEPT !.unclaimed = @ + 1, !.relayed = @ + 1]

\* A variant: the rounds after the last full region are charged to no job.
LeaveIdlePeriod(count) == count

EndIdlePeriod(count) == IF config.areJobs THEN SubmitIdleDecode(count) ELSE count

\* The windows of the operation that starts read what no job decoded.
ClaimIdleRounds(count) ==
    [count EXCEPT !.inWindows = @ + count.unclaimed - count.charged,
                  !.unclaimed = 0, !.charged = 0]

StartOnItsPatches(m, o) ==
    [m EXCEPT !.idleCount = [p \in Patches |->
        IF p \in Op(o).patches THEN ClaimIdleRounds(EndIdlePeriod(@[p])) ELSE @[p]]]

EndEveryIdlePeriod(m) ==
    [m EXCEPT !.idleCount = [p \in Patches |-> EndIdlePeriod(@[p])]]

\* The stream the patch continues while it idles after the operation.
StreamHeldAfter(m, o, p) ==
    LET s == IF m.bindings[o].stream # None THEN m.bindings[o].stream
                                            ELSE m.streamOf[p] IN
    IF s = None \/ (~ FollowsLives /\ (m.live[s].sealed \/ m.live[s].pending \notin {None, o}))
    THEN None ELSE s

IsPastSource(m, s) == s \in DOMAIN config.sourceLimit /\ m.live[s].next >= config.sourceLimit[s]

IsGroupIdle(m, o, s) == \A p \in config.streams[s] : m.idle[p] = o

\* The stream's next round is read out on all its patches.
EmitStreamRound(m, s) ==
    [m EXCEPT !.live[s].next = @ + 1,
              !.live[s].last = m.cycle,
              !.live[s].readOut = Append(@, m.live[s].next + 1),
              !.readouts = Add(@, config.streams[s])]

RelayRound(m, p) ==
    [m EXCEPT !.readouts = Add(@, {p}), !.idleCount[p] = RelayIdleRound(@)]

\* A variant: each idle patch of a group continues the stream.
EmitIdleRoundPerPatch(m, p) ==
    LET s == StreamHeldAfter(m, m.idle[p], p) IN
    IF p \in ProtectedPatches(m) THEN m
    ELSE IF s = None THEN RelayRound(m, p)
    ELSE EmitStreamRound(m, s)

EmitIdleRound(m, p) ==
    LET o == m.idle[p]
        s == StreamHeldAfter(m, o, p) IN
    IF p \in ProtectedPatches(m) THEN m
    ELSE IF s = None THEN RelayRound(m, p)
    ELSE IF FollowsLives THEN EmitStreamRound(m, s)
    ELSE IF m.live[s].last = m.cycle THEN m
    ELSE IF IsPastSource(m, s) THEN RelayRound(m, p)
    ELSE IF IsGroupIdle(m, o, s) THEN EmitStreamRound(m, s)
    ELSE RelayRound(Require(m, m.live[s].split), p)

-----------------------------------------------------------------------------
(* The clock: one cycle's rounds, then the commands that wait *)

EmitIdleRounds(m) ==
    FoldLeft(EmitIdleRound, m, SelectSeq(config.patches, LAMBDA p : m.idle[p] # None))

\* The runtime hears the end of a body: its patches are free, its regions
\* close, its successors may start, and the last one ends the program.
ReleaseClaim(m, o) ==
    LET isRunning == /\ o \in m.started /\ o \notin m.finished
                     /\ \A p \in Op(o).patches : m.holder[p] = o IN
    [Require(m, isRunning) EXCEPT !.finished = @ \cup {o},
                                  !.holder = Set(@, Op(o).patches, None)]

ReleaseSuccessors(m, o) == FoldLeft(AttemptStart, m, InProgramOrder(Successors(o)))

EndIfComplete(m) ==
    IF IsComplete(m)
    THEN [EndEveryIdlePeriod(SealFinishedStreams(m)) EXCEPT !.isFinished = TRUE]
    ELSE m

BodyDone(m, o) ==
    EndIfComplete(ReleaseSuccessors(RequestCloses(ReleaseClaim(m, o), o), o))

\* The prepared patches idle; a discard's are measured no more.
FinishCommand(m, o) ==
    LET patches == Op(o).patches
        left == {p \in patches \cap m.prepared : m.idle[p] = None} IN
    BodyDone(IF Op(o).isDiscard THEN [m EXCEPT !.prepared = @ \ patches]
                                ELSE [m EXCEPT !.idle = Set(@, left, o)], o)

EmitBodyRound(m, body) ==
    LET emitted == {g \in body.segments : Op(body.op).emits}
        streams == {g.stream : g \in emitted}
        at(s) == (CHOOSE g \in emitted : g.stream = s).offset + body.count IN
    IF ~ Op(body.op).emits THEN m
    ELSE [m EXCEPT !.readouts = Add(@, Op(body.op).patches),
                   !.live = [s \in Streams |->
                        IF s \in streams THEN [@[s] EXCEPT !.readOut = Append(@, at(s))]
                                         ELSE @[s]]]

CountRound(m, body) ==
    IF body.count = Op(body.op).rounds
    THEN FinishCommand([m EXCEPT !.running = SelectSeq(@, LAMBDA b : b.op # body.op)],
                       body.op)
    ELSE [m EXCEPT !.running =
            [i \in DOMAIN @ |-> IF @[i].op = body.op THEN body ELSE @[i]]]

EmitOperationRound(m, running) ==
    LET body == [running EXCEPT !.count = @ + 1] IN
    CountRound(EmitBodyRound(m, body), body)

EmitOperationRounds(m) == FoldLeft(EmitOperationRound, m, m.running)

\* The patches are the operation's from here: they idle no more.
TakePatches(m, o) ==
    LET patches == Op(o).patches IN
    [m EXCEPT !.idle = Set(@, patches, None),
              !.prepared = IF Op(o).rounds > 0 THEN @ \cup patches ELSE @,
              !.startedAt[o] = m.cycle]

Bind(m, o) == IF FollowsLives THEN EnterLives(m, o) ELSE BindAtStart(m, o)

RunBody(m, o, segments) ==
    IF Op(o).rounds = 0 THEN FinishCommand(m, o)
    ELSE [m EXCEPT !.running =
            Append(@, [op |-> o, count |-> 0, segments |-> segments])]

StartCommand(m, o) ==
    LET bound == TakePatches(Bind(StartOnItsPatches(m, o), o), o) IN
    RunBody(bound, o, Segments(IF FollowsLives THEN m ELSE bound, o))

StartWaitingCommands(m) == FoldLeft(StartCommand, [m EXCEPT !.commands = <<>>], m.commands)

\* The ended cycle's rounds are read out once.
EmitRounds(m) ==
    IF m.cycle > m.lastEmitted
    THEN EmitOperationRounds(EmitIdleRounds([m EXCEPT !.lastEmitted = m.cycle]))
    ELSE m

StopIdlePatches(m) ==
    IF m.isFinished THEN [m EXCEPT !.idle = Set(@, Patches, None)] ELSE m

GoOn(m) ==
    LET isLive == \/ m.running # <<>> \/ m.commands # <<>>
                  \/ \E p \in Patches : m.idle[p] # None IN
    IF isLive THEN [m EXCEPT !.coming = Scheduled(@, Crossing)] ELSE m

\* One boundary.  A command issued on it later brings it about again.
CrossBoundary(m) == GoOn(StopIdlePatches(StartWaitingCommands(EmitRounds(m))))

-----------------------------------------------------------------------------
(* The protected cycle: the boundary, the round, the release *)

OpenBoundary(m, s) ==
    LET live == m.live[s]
        isDue == live.region /\ live.edge = m.cycle /\ ~ live.open
        opened == [Require(m, isDue) EXCEPT !.live[s].open = TRUE] IN
    [RetryReadyOperations(opened) EXCEPT !.rounds = Append(@, s)]

\* The round is read out; the last one seals the stream.
EmitRound(m, s) ==
    LET live == m.live[s]
        emitted == [EmitStreamRound(Require(m, live.region /\ live.open), s)
                      EXCEPT !.live[s].open = FALSE] IN
    IF live.closing
    THEN [Seal(emitted, {s}) EXCEPT !.live[s].edge = None, !.releases = Append(@, s)]
    ELSE ScheduleNextBoundary(emitted, s)

ReleaseRegion(m, s) ==
    LET live == m.live[s]
        isLast == live.region /\ live.closing /\ live.edge = None /\ live.last = m.cycle IN
    RetryReadyOperations([Require(m, isLast)
        EXCEPT !.live[s].region = FALSE, !.live[s].closing = FALSE, !.live[s].last = None])

-----------------------------------------------------------------------------
(* The events *)

\* The operations whose scheduled start is an edge's tick.  They are the
\* first events of that edge: they were scheduled as the program started.
ScheduledStarts(tick) ==
    LET due == {o \in Operations : Op(o).startRound = tick} IN
    [i \in 1 .. Cardinality(due) |-> Event("start", InProgramOrder(due)[i])]

\* What is measured in the cycle that ends at the next edge: the idle
\* patches, those of a body that emits, and those of a protected region.
MeasuredPatches(m) ==
    {p \in Patches : m.idle[p] # None} \cup ProtectedPatches(m) \cup
    UNION {Op(body.op).patches : body \in {b \in Range(m.running) : Op(b.op).emits}}

Init ==
    /\ config \in Programs
    /\ run = LoadedMachine

\* At tick 0, before anything is due: the roots start.
Start ==
    /\ run.phase = "loaded"
    /\ LET due == {o \in Operations : Op(o).startRound = 0}
           released == [run EXCEPT !.phase = "edge", !.scheduled = due] IN
       run' = FoldLeft(AttemptStart, released, InProgramOrder(Operations))
    /\ UNCHANGED config

Runs(kind) ==
    /\ run.phase # "loaded"
    /\ run.agenda # <<>>
    /\ Head(run.agenda).kind = kind
    /\ UNCHANGED config

Due == Head(run.agenda).of
Popped == [run EXCEPT !.agenda = Tail(@)]

ScheduledStart ==
    /\ Runs("start")
    /\ run' = ReleaseScheduled(Popped, Due)

CycleBoundary ==
    /\ Runs("crossing")
    /\ run' = CrossBoundary(Popped)

ProtectedBoundary ==
    /\ Runs("boundary")
    /\ run' = OpenBoundary(Popped, Due)

ProtectedRound ==
    /\ IsOnEdge(run)
    /\ run.agenda = <<>>
    /\ run.rounds # <<>>
    /\ run' = EmitRound([run EXCEPT !.rounds = Tail(@), !.phase = "rounds"],
                        Head(run.rounds))
    /\ UNCHANGED config

ProtectedRelease ==
    /\ IsOnEdge(run)
    /\ run.agenda = <<>>
    /\ run.rounds = <<>>
    /\ run.releases # <<>>
    /\ run' = ReleaseRegion([run EXCEPT !.releases = Tail(@)], Head(run.releases))
    /\ UNCHANGED config

\* Nothing more is due at this tick.
LeaveEdge ==
    /\ IsOnEdge(run)
    /\ run.agenda = <<>>
    /\ run.rounds = <<>>
    /\ run.releases = <<>>
    /\ run' = [run EXCEPT !.phase = "between"]
    /\ UNCHANGED config

-----------------------------------------------------------------------------
(* What comes from outside *)

\* A decision lands between two edges, or on one where the program says so,
\* before the rounds that are read out last.
MayLand == run.phase = "between" \/ (run.phase = "edge" /\ config.landsOnEdges)

\* The blocker has run, and a source that reads a protected stream has had
\* its rounds read out; what decoding then takes is open.
MayDecide(o) ==
    LET blocker == Op(o).blockedBy
        bound == run.bindings[blocker]
        rounds == IF Op(blocker).rounds = 0 THEN 1 ELSE Op(blocker).rounds IN
    /\ blocker # None
    /\ o \notin run.released
    /\ blocker \in run.finished
    /\ bound.stream # None => Len(run.live[bound.stream].readOut) >= bound.offset + rounds

OnDecision(o) ==
    /\ MayLand
    /\ MayDecide(o)
    /\ run' = MaybeBegin([run EXCEPT !.released = @ \cup {o}], o)
    /\ UNCHANGED config

\* The factory serves the oldest request, or keeps one state in stock.
StateArrives ==
    /\ run.phase \in {"edge", "between"}
    /\ IF run.asking # <<>>
       THEN run' = StateBecameReady([run EXCEPT !.asking = Tail(@)], Head(run.asking))
       ELSE /\ run.stock < config.stock
            /\ run' = [run EXCEPT !.stock = @ + 1]
    /\ UNCHANGED config

\* What comes from outside comes by the program's horizon.
IsAwaited == (\E o \in Operations : MayDecide(o)) \/ run.asking # <<>>

NextEdge ==
    /\ run.phase = "between"
    /\ run.coming # <<>> \/ \E o \in Operations : Op(o).startRound > run.cycle
    /\ run.cycle < config.horizon \/ ~ IsAwaited
    /\ run' = [run EXCEPT !.phase = "edge",
                          !.cycle = @ + 1,
                          !.agenda = ScheduledStarts(run.cycle + 1) \o run.coming,
                          !.coming = <<>>,
                          !.expected = MeasuredPatches(run),
                          !.readouts = Set(@, Patches, 0)]
    /\ UNCHANGED config

\* The program is over once it is complete and nothing is scheduled.
IsOver == run.phase = "between" /\ IsComplete(run) /\ run.coming = <<>>

Rests ==
    /\ IsOver
    /\ UNCHANGED vars

Next ==
    \/ Start
    \/ ScheduledStart
    \/ CycleBoundary
    \/ ProtectedBoundary
    \/ ProtectedRound
    \/ ProtectedRelease
    \/ LeaveEdge
    \/ \E o \in Operations : OnDecision(o)
    \/ StateArrives
    \/ NextEdge
    \/ Rests

\* The engine runs events as long as there is one, which is the weak fairness
\* of Next: a step is possible in every state in which the program is not
\* over.  It is written without ENABLED, whose evaluation repeats a step's
\* chain of calls at each of its uses.
EngineRuns == []<>IsOver \/ []<><<Next>>_vars

Spec == Init /\ [][Next]_vars /\ EngineRuns

-----------------------------------------------------------------------------
(* Properties *)

TypeOK ==
    /\ config \in Programs
    /\ run.cycle \in Nat
    /\ run.phase \in {"loaded", "edge", "rounds", "between"}
    /\ run.finished \subseteq run.started
    /\ run.started \subseteq run.ready
    /\ run.ready \subseteq run.requested
    /\ run.requested \subseteq Operations
    /\ run.holder \in [Patches -> Operations \cup {None}]
    /\ run.idle \in [Patches -> Operations \cup {None}]
    /\ run.streamOf \in [Patches -> Streams \cup {None}]
    /\ \A s \in Streams : run.live[s].next \in Nat /\ run.live[s].edge \in Nat

\* No assertion of the streams, the issuer or the runtime fails and none of
\* their errors is raised: no boundary opens off its edge, no region ends
\* off its boundary, no stream's rounds are reserved twice, no idle group
\* is continued in part, no patch is claimed by two operations.  And every
\* part of the machine keeps its type.
NothingBreaks == TypeOK /\ ~ run.isBroken

\* One syndrome round per cycle on every live patch: when an edge is over,
\* a patch that was measured in the cycle it ends was read out once, and no
\* patch was read out twice.
OneRoundPerCycle ==
    run.phase = "between" =>
        \A p \in Patches : /\ run.readouts[p] <= 1
                           /\ p \in run.expected => run.readouts[p] = 1

\* The rounds read out of a stream are 1, 2, 3 ...: its segments, its idle
\* rounds and its protected rounds never repeat a number or leave one out.
\* The length its seal gives the windows is the rounds that were read out.
StreamsAreUncut ==
    \A s \in Streams :
        LET live == run.live[s] IN
        /\ \A n \in DOMAIN live.readOut : live.readOut[n] = n
        /\ live.sealed => live.length = Len(live.readOut)

\* The runtime was told the boundary an operation starts on as its command
\* was queued, and the operation starts on that boundary.
StartsWhenPromised ==
    \A o \in run.started :
        LET promised == run.promised[o] IN
        \/ run.startedAt[o] = promised
        \/ /\ run.startedAt[o] = Unset
           /\ run.cycle < promised \/ (run.cycle = promised /\ IsOnEdge(run))

\* The streams, the issuer and the runtime agree at every step: nothing they
\* assert of one another fails, and what one was promised the other does.
PartsKeepTheirPromises == NothingBreaks /\ StartsWhenPromised

\* An idle round that is the policy's is decoded at most once, by an idle
\* job or by the windows of the operation that claims it; when the program
\* is complete no round the idle jobs are to decode is left.
IdleRoundsAreDecodedOnce ==
    \A p \in Patches :
        LET count == run.idleCount[p]
            decoded == count.inJobs + count.inWindows IN
        /\ decoded <= count.relayed
        /\ IsComplete(run) /\ config.areJobs => decoded = count.relayed

\* Every operation ends, every protected region is released, every stream
\* is sealed and the clock comes to rest.
EveryProgramEnds ==
    <>[](/\ IsOver
         /\ ProtectedStreams(run) = {}
         /\ \A s \in Streams : run.live[s].sealed)

=============================================================================
