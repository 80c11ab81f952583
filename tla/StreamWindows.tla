---------------------------- MODULE StreamWindows ----------------------------
(***************************************************************************)
(* Which windows a growing stream has, and what links them: the windows    *)
(* are laid while rounds arrive, operations are bound, boundaries close    *)
(* and the stream ends (windows/window_manager.py, window_planner.py,      *)
(* region_layout.py, region_streams.py, schemes/sliding_streams.py,        *)
(* round_tracker.py, window_release.py).                                   *)
(*                                                                         *)
(*   the sliding row   windows of at most F rounds that read B more; each  *)
(*                     edge of a segment cuts; a stream of known length is *)
(*                     planned whole and planned again after a cut         *)
(*   the region row    windows of at most F rounds that read the next      *)
(*                     region; the edges of coupled segments cut, and a    *)
(*                     reader's window reads the region it is coupled to   *)
(*   planned runs      every operation is a stream of known length whose   *)
(*                     windows a scheme lays before the run (parallel,     *)
(*                     sandwich, sliding, or one window); what a window    *)
(*                     reads past the end comes from the operations after  *)
(*                     it, from memory rounds, or not at all               *)
(*                                                                         *)
(* A window's decode, its strong redo and its way to the frame are one     *)
(* step each here; WindowChain and EscalationChain follow them, and the    *)
(* windows a strong region absorbs are left out.  Boundaries are followed  *)
(* by version and finality, not by value.                                  *)
(***************************************************************************)
EXTENDS Integers, Sequences, FiniteSets, SequencesExt, FiniteSetsExt

CONSTANTS
    Settings,           \* the runs considered; one is run
    KeptFinalWindows,   \* final windows kept behind the final prefix
    LetGoEvery          \* windows that become final between lettings-go

\* scheme is "live" where the streams grow, or the row that plans a run.
\* regions tells the region row from the sliding row; limit is a stream's
\* declared length, 0 when it has none; before are the operations whose last
\* boundaries a planned one reads, ends those whose tail is closed by the
\* measurement another waits for; policy is the boundary row of a run
\* whose results may be revised, "final" in a run that revises none; bodies
\* are bound in the program's order, each once the results of after are in.
ASSUME SettingsAssumption ==
    /\ KeptFinalWindows \in Nat /\ LetGoEvery \in Nat \ {0}
    /\ \A g \in Settings :
        /\ g.streams \subseteq Nat /\ IsFiniteSet(g.streams)
        /\ g.commit \in [g.streams -> Nat \ {0}]
        /\ g.limit \in [g.streams -> Nat]
        /\ g.idle \in [g.streams -> Nat]
        /\ g.buffer \in Nat
        /\ {g.regions, g.flush, g.folds} \subseteq BOOLEAN
        /\ g.policy \in {"final", "held", "checked"}
        /\ g.scheme \in {"live", "sliding", "naive", "parallel", "sandwich"}
        /\ g.before \in [g.streams -> SUBSET g.streams]
        /\ g.ends \subseteq g.streams
        /\ \A b \in Range(g.bodies) :
            /\ b.streams \subseteq g.streams
            /\ b.rounds \in Nat \ {0}
            /\ b.couplings \subseteq b.streams \X b.streams
            /\ b.closes \in BOOLEAN
            /\ b.after \subseteq g.streams

VARIABLES
    setting,    \* the run's settings and program
    bound,      \* how many of the program's bodies are bound
    stream,     \* what is known of each stream
    windows,    \* the windows laid, by stream and index
    couplings,  \* reads_by_region and readers_by_region, as pairs
    mail,       \* boundaries on their hops
    forgotten   \* windows whose boundary record is gone

vars == <<setting, bound, stream, windows, couplings, mail, forgotten>>

-----------------------------------------------------------------------------
(* The rounds a stream is cut into *)

Streams == setting.streams
IsFinite(s) == setting.limit[s] > 0 /\ ~ setting.regions
IsPlanned == setting.scheme # "live"

\* _last_round_of: a stride on, at the first cut, or at the end
RegionEnd(st, s, first) ==
    Min({first + setting.commit[s] - 1} \cup {c \in st.cuts : c >= first}
            \cup ({st.sealed, setting.limit[s]} \ {0}))

\* FixedBuffer and NextRegionBuffer
BufferEnd(st, s, last) ==
    IF ~ setting.regions THEN last + setting.buffer
    ELSE IF last \in {st.sealed, setting.limit[s]} THEN last
    ELSE RegionEnd(st, s, last + 1)

\* RegionStream._geometry; sts are the streams as they are known
Geometry(sts, cps, s, first) ==
    LET last == RegionEnd(sts[s], s, first) IN
    [from |-> first, lo |-> first, hi |-> last,
     buf |-> BufferEnd(sts[s], s, last),
     reads |-> {[stream |-> c.read[1],
                 last |-> RegionEnd(sts[c.read[1]], c.read[1], c.read[2])] :
                    c \in {d \in cps : d.reader = <<s, first>>}}]

Planned(first, last, reach) ==
    [from |-> first, lo |-> first, hi |-> last, buf |-> reach, reads |-> {}]
ReadingFrom(first, g) == [g EXCEPT !.from = first]

\* SlidingWindowScheme.plan_operation over the rounds after one round
FlushPlan(s, before, n) ==
    LET F == setting.commit[s]
        tail[lo \in Nat] ==
            IF n - lo + 1 < 2 * F + setting.buffer
            THEN <<Planned(lo, n, n)>>
            ELSE <<Planned(lo, lo + F - 1, lo + F - 1 + setting.buffer)>>
                    \o tail[lo + F]
    IN  tail[before + 1]
LookaheadPlan(s, before, n) ==
    LET F == setting.commit[s]
        tail[lo \in Nat] ==
            LET last == Min({lo + F - 1, n}) IN
            IF lo > n THEN <<>>
            ELSE <<Planned(lo, last, last + setting.buffer)>> \o tail[last + 1]
    IN  tail[before + 1]
PlanAfter(s, before, n) ==
    IF setting.flush THEN FlushPlan(s, before, n) ELSE LookaheadPlan(s, before, n)

\* FiniteStream._replan_after: no cut lies ahead of the newest one, so the
\* rest is one stretch
Replanned(plan, s, laid, cut) ==
    LET past == {i \in laid + 1 .. Len(plan) : plan[i].hi > cut}
        next == IF past = {} THEN Len(plan) + 1 ELSE Min(past)
        straddler == IF past # {} /\ plan[next].lo <= cut
                     THEN <<Planned(plan[next].lo, cut, cut + setting.buffer)>>
                     ELSE <<>>
    IN  IF \/ cut >= setting.limit[s]
           \/ past # {} /\ plan[next].lo = cut + 1
        THEN plan
        ELSE SubSeq(plan, 1, next - 1) \o straddler
                \o PlanAfter(s, cut, setting.limit[s])

\* _BlockLayout: blocks of one kind read F rounds on both sides of what they
\* commit, the blocks between them commit up to 3 F rounds and read no others
ParallelPlan(s, n) ==
    LET F == setting.commit[s]
        tail[lo \in Nat] ==
            LET hi == Min({lo + (IF lo = 1 THEN 2 ELSE 1) * F - 1, n})
                Outer(last, reach) ==
                    ReadingFrom(Max({1, lo - F}), Planned(lo, last, reach))
            IN  IF n - hi <= F THEN <<Outer(n, n)>>
                ELSE <<Outer(hi, Min({hi + F, n}))>> \o
                     IF n - hi <= 3 * F THEN <<Planned(hi + 1, n, n)>>
                     ELSE <<Planned(hi + 1, hi + 3 * F, hi + 3 * F)>>
                            \o tail[hi + 3 * F + 1]
    IN  tail[1]

\* _TanCores: cores every F rounds that read B rounds on both sides, with a
\* seam of one round between each pair
SandwichPlan(s, n) ==
    LET F == setting.commit[s]
        B == setting.buffer
        width == F + 2 * B
        cores == IF n <= width THEN 1 ELSE (n - width + F - 1) \div F + 1
        Core(c) == ReadingFrom(1 + c * F, Planned(
                        IF c = 0 THEN 1 ELSE 1 + c * F + B,
                        IF c = cores - 1 THEN n ELSE B + F - 1 + c * F,
                        Min({n, c * F + width})))
        Seam(c) == Planned(B + F + c * F, B + F + c * F, B + F + c * F)
    IN  [i \in 1 .. 2 * cores - 1 |->
            IF i % 2 = 1 THEN Core((i - 1) \div 2) ELSE Seam(i \div 2 - 1)]

\* plan_operation of the setting's scheme
SchemePlan(s) ==
    LET n == setting.limit[s] IN
    CASE setting.scheme = "parallel" -> ParallelPlan(s, n)
      [] setting.scheme = "sandwich" -> SandwichPlan(s, n)
      [] setting.scheme = "naive" -> <<Planned(1, n, n)>>
      [] OTHER -> PlanAfter(s, 0, n)

\* the windows of its plan the i-th waits for: the one before, or of the rows
\* with blocks between others, those on both sides
IsSerial == setting.scheme \in {"sliding", "naive"}
InternalSources(plan, i) ==
    DOMAIN plan \cap (IF IsSerial THEN {i - 1}
                      ELSE IF i % 2 = 0 THEN {i - 1, i + 1} ELSE {})
EntriesOf(plan) == {i \in DOMAIN plan : InternalSources(plan, i) = {}}
ExitsOf(plan) ==
    {i \in DOMAIN plan : \A j \in DOMAIN plan : i \notin InternalSources(plan, j)}

-----------------------------------------------------------------------------
(* The windows and what links them *)

\* state is "open", "asked", "committed", "settled" once its final boundary
\* left, "final" once its result is in the frame.  owed is deps_remaining;
\* version, released and the state are the courier's record of it;
\* provisional is provisional_sources_by_window.
NewWindow(g) ==
    [from |-> g.from, lo |-> g.lo, hi |-> g.hi, buf |-> g.buf, reads |-> g.reads,
     state |-> "open", owed |-> 0, dependents |-> {}, released |-> {},
     version |-> 0, provisional |-> {}]

ShippedFinal(w) == w.state \in {"settled", "final"}
Of(ws, s) == {k \in DOMAIN ws : k[1] = s}
Laid(ws, s) == Cardinality(Of(ws, s))

\* the windows on those of the regions that have begun
KeysOn(ws, regions) == {k \in DOMAIN ws : <<k[1], ws[k].lo>> \in regions}
ReadersOf(cps, region) == {c.reader : c \in {d \in cps : d.read = region}}
ReadBy(cps, region) == {c.read : c \in {d \in cps : d.reader = region}}

\* StreamLayout.begun: the geometries whose commit began and have no window
Begun(ws, sts, cps, s, known) ==
    LET st == sts[s]
        laid == Laid(ws, s)
        from[lo \in Nat] ==
            IF lo > known THEN <<>>
            ELSE <<Geometry(sts, cps, s, lo)>>
                    \o from[RegionEnd(st, s, lo) + 1]
    IN  IF IsFinite(s)
        THEN SelectSeq(SubSeq(st.plan, laid + 1, Len(st.plan)),
                       LAMBDA g : g.lo <= known)
        ELSE from[IF laid = 0 THEN 1
                  ELSE RegionEnd(st, s, ws[<<s, laid>>].lo) + 1]

\* _admit_stream_window: the window joins its stream, waits for the window
\* before it unless that one's boundary left already, and for its readers
Lay(ws, cps, s, g) ==
    LET index == Laid(ws, s) + 1
        region == <<s, g.lo>>
        previous == {<<s, index - 1>>} \cap DOMAIN ws
        merged == {k \in previous : ws[k].version > 0}
        readers == ReadersOf(cps, region)
        sources == KeysOn(ws, readers) \cup (previous \ merged)
        added == [NewWindow(g) EXCEPT
            !.owed = Cardinality(readers) + Cardinality(previous \ merged),
            !.dependents = KeysOn(ws, ReadBy(cps, region)),
            !.provisional = {k \in merged : ~ ShippedFinal(ws[k])}]
    IN  (<<s, index>> :> added)
        @@ [k \in sources |-> [ws[k] EXCEPT !.dependents = @ \cup {<<s, index>>}]]
        @@ ws

\* grow_stream
Grown(ws, sts, cps, s, known) ==
    FoldLeft(LAMBDA acc, g : Lay(acc, cps, s, g), ws,
             Begun(ws, sts, cps, s, known))

Relay(w, g) == [w EXCEPT !.hi = g.hi, !.buf = g.buf, !.reads = g.reads]
\* A variant that lays the last window again only.
RelaidLast(ws, sts, cps, s) ==
    [k \in {j \in Of(ws, s) : /\ ~ IsFinite(s) /\ ws[j].state = "open"
                              /\ j[2] = Laid(ws, s)} |->
        Relay(ws[k], Geometry(sts, cps, s, ws[k].lo))] @@ ws
\* RegionStream.relay: each open window is laid on its region as it is now
Relaid(ws, sts, cps, s) ==
    [k \in {j \in Of(ws, s) : ~ IsFinite(s) /\ ws[j].state = "open"} |->
        Relay(ws[k], Geometry(sts, cps, s, ws[k].lo))] @@ ws

\* FiniteStream._clip: the windows across the cut commit through it
Clipped(ws, s, cut) ==
    [k \in {j \in Of(ws, s) : ws[j].lo <= cut /\ cut < ws[j].hi} |->
        [ws[k] EXCEPT !.hi = cut, !.buf = cut + setting.buffer]] @@ ws

\* the windows whose boundary a planned window is given: those of its own
\* plan, and every last one of the operations before
PlannedSources(plans, k) ==
    {<<k[1], i>> : i \in InternalSources(plans[k[1]], k[2])} \cup
    UNION {{<<p, i>> : i \in ExitsOf(plans[p])} :
        p \in IF k[2] \in EntriesOf(plans[k[1]]) THEN setting.before[k[1]]
              ELSE {}}

\* _materialize_execution_plan
PlannedWindows(plans) ==
    LET keys == UNION {{s} \X DOMAIN plans[s] : s \in Streams} IN
    [k \in keys |->
        [NewWindow(plans[k[1]][k[2]]) EXCEPT
            !.owed = Cardinality(PlannedSources(plans, k)),
            !.dependents = {d \in keys : k \in PlannedSources(plans, d)}]]

-----------------------------------------------------------------------------
(* Readiness *)

\* _overflow_is_satisfied: by one operation after it, by memory rounds, or
\* by nothing once every operation after it has ended
OverflowIsIn(sts, s, rounds) ==
    LET after == {t \in Streams : s \in setting.before[t]} IN
    \/ \A t \in after : sts[t].arrived >= setting.limit[t]
    \/ \E t \in after : sts[t].arrived >= rounds
    \/ sts[s].memory >= rounds

\* data_complete with effective_round_count_for_window: a sealed or declared
\* length and a closed boundary in the buffer end what is waited for
IsComplete(sts, s, w) ==
    LET st == sts[s]
        count == IF st.sealed > 0 THEN st.sealed
                 ELSE IF setting.limit[s] > 0 THEN setting.limit[s]
                 ELSE w.buf
        closed == {b \in st.closed : w.hi <= b /\ b < w.buf}
        rounds == Min({count} \cup closed)
    IN  /\ st.arrived >= Min({w.buf, rounds})
        /\ w.buf <= rounds \/ closed # {} \/ OverflowIsIn(sts, s, w.buf - rounds)
        /\ \A r \in w.reads : sts[r.stream].arrived >= r.last

\* request_if_ready of each window
Asked(ws, sts, keys) ==
    [k \in {j \in keys : ws[j].state = "open" /\ IsComplete(sts, j[1], ws[j])} |->
        [ws[k] EXCEPT !.state = "asked"]] @@ ws

\* check_windows_of_stream: up to the last that has begun (start_floors_of)
BegunKeys(ws, sts, s) ==
    {k \in Of(ws, s) :
        \E j \in Of(ws, s) : j[2] >= k[2] /\ ws[j].from <= sts[s].arrived}

\* A variant that looks at the newest region only.
NewestReaders(ws, sts, cps, s) ==
    UNION {KeysOn(ws, ReadersOf(cps, <<s, ws[k].lo>>)) :
            k \in {j \in BegunKeys(ws, sts, s) : sts[s].arrived <= ws[j].hi}}
\* _wake_readers: the readers of each region the new rounds fall in
WokenReaders(ws, sts, cps, s) ==
    UNION {KeysOn(ws, ReadersOf(cps, <<s, ws[k].lo>>)) :
            k \in {j \in BegunKeys(ws, sts, s) :
                    stream[s].arrived + 1 <= ws[j].hi}}

-----------------------------------------------------------------------------
(* The start, and the steps of the program *)

NewStream(s) ==
    [next |-> 0, arrived |-> 0, past |-> {}, memory |-> 0,
     idle |-> setting.idle[s], cuts |-> {},
     closed |-> IF s \in setting.ends THEN {setting.limit[s]} ELSE {},
     sealed |-> IF IsPlanned THEN setting.limit[s] ELSE 0, closing |-> FALSE,
     plan |-> IF IsFinite(s) THEN SchemePlan(s) ELSE <<>>,
     gone |-> 0, dropped |-> 0]

Init ==
    /\ setting \in Settings
    /\ bound = 0
    /\ stream = [s \in Streams |-> NewStream(s)]
    /\ windows = IF IsPlanned
                 THEN PlannedWindows([s \in Streams |-> SchemePlan(s)])
                 ELSE <<>>
    /\ couplings = {} /\ mail = {} /\ forgotten = {}

\* RegionLayout.couple: region by region, at the same offset
Coupled(body) ==
    UNION {{[reader |-> <<p[1], stream[p[1]].next + o + 1>>,
             read |-> <<p[2], stream[p[2]].next + o + 1>>] :
                o \in {q \in 0 .. body.rounds - 1 :
                        q % setting.commit[p[1]] = 0}} :
            p \in body.couplings}

BoundStreams(body) ==
    [s \in body.streams |->
        LET st == stream[s]
            end == st.next + body.rounds
            laid == Laid(windows, s)
        IN  [st EXCEPT
                !.next = end,
                !.closing = body.closes,
                !.cuts = IF ~ setting.regions \/ body.couplings # {}
                         THEN @ \cup {st.next, end} ELSE @,
                !.plan = IF ~ IsFinite(s) THEN @
                         ELSE Replanned(Replanned(@, s, laid, st.next),
                                        s, laid, end)]] @@ stream

\* the windows of the body's streams after its cuts, one stream's at a time
Recut(body, sts, cps) ==
    FoldLeft(LAMBDA ws, s :
                IF IsFinite(s)
                THEN Clipped(Clipped(ws, s, stream[s].next), s, sts[s].next)
                ELSE Relaid(ws, sts, cps, s),
             windows, SetToSortSeq(body.streams, <))

\* bind_stream_operation of each stream, then couple_segments: the edges of
\* the body's rounds cut, and a coupling's windows are looked at again
Bind ==
    /\ ~ IsPlanned /\ bound < Len(setting.bodies)
    /\ LET body == setting.bodies[bound + 1]
           sts == BoundStreams(body)
           cps == couplings \cup Coupled(body)
           ws == Recut(body, sts, cps)
           keys == UNION {BegunKeys(ws, sts, s) : s \in body.streams}
       IN  /\ \A s \in body.streams :
                stream[s].sealed = 0 /\ ~ stream[s].closing
           /\ bound' = bound + 1
           /\ stream' = sts
           /\ couplings' = cps
           /\ windows' = IF body.couplings = {} THEN ws
                         ELSE Asked(ws, sts, keys)
    /\ UNCHANGED <<setting, mail, forgotten>>

\* a planned operation starts once the results it waits for are in; what its
\* patches measure from here on may arrive
StartOperation ==
    /\ IsPlanned /\ bound < Len(setting.bodies)
    /\ LET body == setting.bodies[bound + 1] IN
        /\ \A t \in body.after : \A k \in Of(windows, t) : windows[k].state = "final"
        /\ stream' = [s \in body.streams |->
                        [stream[s] EXCEPT !.next = setting.limit[s]]] @@ stream
    /\ bound' = bound + 1
    /\ UNCHANGED <<setting, windows, couplings, mail, forgotten>>

\* accept_feedback_memory_round: an idle patch of the operation measured last
MemoryRound(s) ==
    /\ IsPlanned /\ stream[s].idle > 0 /\ stream[s].next > 0
    /\ LET sts == [stream EXCEPT ![s].memory = @ + 1, ![s].idle = @ - 1] IN
        /\ stream' = sts
        /\ windows' = Asked(windows, sts, BegunKeys(windows, sts, s))
    /\ UNCHANGED <<setting, bound, couplings, mail, forgotten>>

\* extend_live_stream: an idle patch's cycle is the stream's next round
IdleRound(s) ==
    /\ stream[s].idle > 0 /\ stream[s].sealed = 0 /\ ~ stream[s].closing
    /\ stream[s].next > 0
    /\ setting.limit[s] > 0 => stream[s].next < setting.limit[s]
    /\ stream' = [stream EXCEPT ![s].next = @ + 1, ![s].idle = @ - 1]
    /\ UNCHANGED <<setting, bound, windows, couplings, mail, forgotten>>

\* close_stream_boundary at the end of the body bound last.  Its last round
\* leaves the device with the same event.
CloseBoundary(s) ==
    /\ stream[s].closing
    /\ LET count == stream[s].next
           sts == [stream EXCEPT ![s].closing = FALSE,
                                 ![s].cuts = @ \cup {count},
                                 ![s].closed = @ \cup {count}]
           grown == Grown(windows, stream, couplings, s, count)
           ws == Relaid(grown, sts, couplings, s)
       IN  /\ stream' = sts
           /\ windows' = Asked(ws, sts, BegunKeys(ws, sts, s))
    /\ UNCHANGED <<setting, bound, couplings, mail, forgotten>>

-----------------------------------------------------------------------------
(* Rounds arrive, and the stream ends *)

\* the stream with the round counted: one past a gap waits for it
Counted(st, r) ==
    IF r > st.arrived + 1 THEN [st EXCEPT !.past = @ \cup {r}]
    ELSE LET n == CHOOSE m \in r .. r + Cardinality(st.past) :
                    /\ r + 1 .. m \subseteq st.past
                    /\ m + 1 \notin st.past
         IN  [st EXCEPT !.arrived = n, !.past = @ \ (r .. n)]

\* seal_stream: the windows to the end are laid, the tail is closed
Ended(sts, s, count) ==
    [sts EXCEPT ![s].sealed = count, ![s].cuts = @ \cup {count}]
EndedWindows(ws, sts, s, count) ==
    LET ended == Ended(sts, s, count)
    IN  Relaid(Grown(ws, ended, couplings, s, count), ended, couplings, s)

\* accept_window_input and accept_room_round: the round is counted, the
\* stream grows, and ends at its declared length; then its windows, those of
\* the operations before it and the readers of its new rounds are looked at
RoundArrives(s, r) ==
    /\ r \in (stream[s].arrived + 1 .. stream[s].next) \ stream[s].past
    /\ r <= stream[s].arrived + 2
    /\ stream[s].closing => r < stream[s].next
    /\ LET one == [stream EXCEPT ![s] = Counted(@, r)]
           known == one[s].arrived
           ends == ~ IsPlanned /\ setting.limit[s] > 0 /\ known >= setting.limit[s]
           sts == IF ends THEN Ended(one, s, setting.limit[s]) ELSE one
           grown == IF stream[s].sealed > 0 THEN windows
                    ELSE Grown(windows, one, couplings, s, known)
           ws == IF ends THEN EndedWindows(grown, one, s, setting.limit[s])
                 ELSE grown
       IN  /\ stream' = sts
           /\ windows' = Asked(ws, sts,
                    (UNION {BegunKeys(ws, sts, t) : t \in {s} \cup setting.before[s]})
                        \cup WokenReaders(ws, sts, couplings, s))
    /\ UNCHANGED <<setting, bound, couplings, mail, forgotten>>

\* a discard, or the end of the workload; rounds may still be on their way
Seal(s) ==
    /\ stream[s].sealed = 0 /\ setting.limit[s] = 0 /\ ~ stream[s].closing
    /\ \A b \in bound + 1 .. Len(setting.bodies) :
            s \notin setting.bodies[b].streams
    /\ LET count == stream[s].next
           sts == Ended(stream, s, count)
           ws == EndedWindows(windows, stream, s, count)
       IN  /\ stream' = sts
           /\ windows' = Asked(ws, sts, BegunKeys(ws, sts, s))
    /\ UNCHANGED <<setting, bound, couplings, mail, forgotten>>

-----------------------------------------------------------------------------
(* Commits, boundaries, the frame *)

\* A variant that ships to the windows no boundary of it has reached.
ShipsOnce(k, state) ==
    /\ windows' = [windows EXCEPT ![k].state = state, ![k].version = @ + 1]
    /\ mail' = mail \cup {[source |-> k, to |-> d,
                           version |-> windows[k].version + 1] :
                            d \in windows[k].dependents \ windows[k].released}
\* hand_on and ship_held, to the dependents the window has now
Ships(k, state) ==
    /\ windows' = [windows EXCEPT ![k].state = state, ![k].version = @ + 1]
    /\ mail' = mail \cup {[source |-> k, to |-> d,
                           version |-> windows[k].version + 1] :
                            d \in windows[k].dependents}

\* a decode that may start ends, and no later result revises it
CommitFinal(k) ==
    /\ windows[k].state = "asked" /\ windows[k].owed = 0
    /\ windows[k].provisional = {}
    /\ Ships(k, "settled")
    /\ UNCHANGED <<setting, bound, stream, couplings, forgotten>>

\* it ends and waits: for the strong result, or for a guess to be checked
CommitProvisional(k) ==
    /\ windows[k].state = "asked" /\ windows[k].owed = 0
    /\ \/ /\ setting.policy = "checked"
          /\ Ships(k, "committed")
       \/ /\ setting.policy = "held"
          /\ windows' = [windows EXCEPT ![k].state = "committed"]
          /\ UNCHANGED mail
    /\ UNCHANGED <<setting, bound, stream, couplings, forgotten>>

\* the result is final
Settle(k) ==
    /\ windows[k].state = "committed" /\ windows[k].provisional = {}
    /\ Ships(k, "settled")
    /\ UNCHANGED <<setting, bound, stream, couplings, forgotten>>

\* _forget_if_let_go: none of its deliveries is in flight
ForgetsSettled(letGo) ==
    forgotten' = forgotten \cup
                    {k \in letGo : \A m \in mail' : m.source # k}

\* _receive_boundary: the latest version releases its edge once and may
\* leave its source unconfirmed; then the window is looked at
BoundaryLands(m) ==
    /\ mail' = mail \ {m}
    /\ LET source == windows[m.source]
           isNew == m.to \notin source.released
           before == windows[m.to].provisional \ {m.source}
           landed == [windows EXCEPT
                ![m.source].released = @ \cup {m.to},
                ![m.to].owed = IF isNew THEN @ - 1 ELSE @,
                ![m.to].provisional =
                    IF ShippedFinal(source) THEN before
                    ELSE before \cup {m.source}]
           ws == IF m.version = source.version THEN landed ELSE windows
       IN  windows' = Asked(ws, stream, {m.to})
    /\ ForgetsSettled({m.source} \cap
                        ({m.source[1]} \X (1 .. stream[m.source[1]].gone)))
    /\ UNCHANGED <<setting, bound, stream, couplings>>

\* _partners_of: the windows on the regions coupled to the window's own
Partners(s, i) ==
    LET region == <<s, windows[<<s, i>>].lo>> IN
    KeysOn(windows, ReadersOf(couplings, region) \cup ReadBy(couplings, region))

\* A variant that drops a region whose partner's window is kept.
DroppedAlone(s, gone) ==
    Max({stream[s].dropped} \cup
        {n \in 1 .. Laid(windows, s) - 1 : n <= gone[s]})
\* _drop_let_go: from the front, while each region's window is gone and its
\* partners' windows are gone; the last region begun stays
Dropped(s, gone) ==
    Max({stream[s].dropped} \cup
        {n \in 1 .. Laid(windows, s) - 1 :
            \A i \in stream[s].dropped + 1 .. n :
                /\ i <= gone[s]
                /\ \A k \in Partners(s, i) : k[2] <= gone[k[1]]})

\* RegionLayout.let_go_before: the stream, then the streams coupled to the
\* regions it came to, drop theirs
LetGo(s, gone) ==
    LET last == Min({Dropped(s, gone) + 1, gone[s], Laid(windows, s) - 1})
        drops == {s} \cup {k[1] : k \in UNION {Partners(s, i) :
                                i \in stream[s].dropped + 1 .. last}}
    IN  [t \in Streams |->
            [stream[t] EXCEPT !.gone = gone[t],
                !.dropped = IF setting.regions /\ t \in drops
                            THEN Dropped(t, gone) ELSE @]]

\* WindowRelease.window_final when the result is in the frame
BecomesFinal(k) ==
    /\ windows[k].state = "settled"
    /\ windows' = [windows EXCEPT ![k].state = "final"]
    /\ UNCHANGED mail
    /\ LET s == k[1]
           prefix == Cardinality({n \in 1 .. Laid(windows, s) :
                \A i \in 1 .. n : windows[<<s, i>>].state = "final" \/ i = k[2]})
           first == Min({prefix, k[2] - 1}) - KeptFinalWindows
       IN  IF setting.folds /\ first - stream[s].gone >= LetGoEvery
           THEN /\ stream' = LetGo(s, [t \in Streams |->
                                IF t = s THEN first ELSE stream[t].gone])
                /\ ForgetsSettled({s} \X (1 .. first))
           ELSE UNCHANGED <<stream, forgotten>>
    /\ UNCHANGED <<setting, bound, couplings>>

\* every stream has ended, and every window is final
IsOver ==
    /\ bound = Len(setting.bodies) /\ mail = {}
    /\ \A s \in Streams :
        /\ stream[s].sealed > 0 /\ stream[s].arrived = stream[s].sealed
        /\ \A i \in 1 .. Laid(windows, s) : windows[<<s, i>>].state = "final"
Rests == IsOver /\ UNCHANGED vars

Next ==
    \/ Bind
    \/ StartOperation
    \/ \E s \in Streams :
        \/ IdleRound(s)
        \/ MemoryRound(s)
        \/ CloseBoundary(s)
        \/ \E r \in stream[s].arrived + 1 .. stream[s].next : RoundArrives(s, r)
        \/ Seal(s)
    \/ \E k \in DOMAIN windows :
        \/ CommitFinal(k)
        \/ CommitProvisional(k)
        \/ Settle(k)
        \/ BecomesFinal(k)
    \/ \E m \in mail : BoundaryLands(m)
    \/ Rests

Spec == Init /\ [][Next]_vars

-----------------------------------------------------------------------------
(* Properties *)

\* the windows whose boundary goes to the window
Sources(k) == {j \in DOMAIN windows : k \in windows[j].dependents}

\* What each variable may hold.
States == {"open", "asked", "committed", "settled", "final"}
TypeOK ==
    /\ setting \in Settings /\ bound \in 0 .. Len(setting.bodies)
    /\ \A s \in Streams :
        /\ stream[s].arrived <= stream[s].next
        /\ stream[s].dropped <= stream[s].gone
        /\ \A i \in 1 .. Laid(windows, s) :
            LET w == windows[<<s, i>>] IN
            /\ 1 <= w.from /\ w.from <= w.lo /\ w.lo <= w.hi /\ w.hi <= w.buf
            /\ w.state \in States /\ w.owed \in Nat
            /\ w.dependents \cup w.released \cup w.provisional
                    \subseteq DOMAIN windows
    /\ \A c \in couplings : c.reader[1] # c.read[1]
    /\ \A m \in mail : m.source # m.to
    /\ forgotten \subseteq DOMAIN windows

\* The rounds the stream's windows and the plan past them commit, in order.
Extents(s) ==
    LET rest == IF IsFinite(s) THEN Laid(windows, s) + 1 .. Len(stream[s].plan)
                ELSE {}
        of(i) == IF i <= Laid(windows, s) THEN windows[<<s, i>>]
                 ELSE stream[s].plan[i]
    IN  [i \in 1 .. Laid(windows, s) + Cardinality(rest) |-> <<of(i).lo, of(i).hi>>]

\* Each stream's windows, and the plan past them, commit each round once, no
\* window commits across a cut of its stream, and each is the geometry its
\* stream has now, whenever it was laid: a window laid before an edge of a
\* segment is known is clipped or laid again, and one already decoded needs
\* no change.  A window reads up to what the window of its stream whose
\* boundary it waits for commits.  And every variable keeps its type.
WindowsFollowTheCuts ==
    /\ TypeOK
    /\ \A s \in Streams : \A i \in DOMAIN Extents(s) :
        LET extent == Extents(s)[i] IN
        /\ extent[1] = IF i = 1 THEN 1 ELSE Extents(s)[i - 1][2] + 1
        /\ \A c \in stream[s].cuts : ~ (extent[1] <= c /\ c < extent[2])
        /\ i = Len(Extents(s)) /\ IsFinite(s) => extent[2] = setting.limit[s]
    /\ \A k \in DOMAIN windows : ~ IsFinite(k[1]) =>
        windows[k] = Relay(windows[k],
                           Geometry(stream, couplings, k[1], windows[k].lo))
    /\ \A k \in DOMAIN windows : \A j \in Sources(k) : j[1] = k[1] =>
        /\ windows[k].from <= windows[j].hi + 1
        /\ windows[j].lo <= windows[k].buf + 1

\* A window is asked for by the step that makes its rounds complete: no step
\* that moves a window, ends a buffer or brings a round leaves one behind.
\* The exception is a window that reads no buffer and was cut to the rounds
\* that had arrived: binding a segment asks for no decode, and the next
\* round does.
NoReadyWindowIsPassedBy ==
    \A k \in DOMAIN windows :
        LET w == windows[k] IN
        (w.state = "open" /\ IsComplete(stream, k[1], w)) =>
            /\ setting.buffer = 0
            /\ w.hi = stream[k[1]].arrived
            /\ stream[k[1]].arrived < stream[k[1]].next

\* the source's newest boundary is on its way to the window
IsComing(j, k) ==
    [source |-> j, to |-> k, version |-> windows[j].version] \in mail

\* What a window waits for reaches it.  It counts an edge for each source
\* whose boundary has not reached it and for each reader of its region that
\* has no window yet; and each source it counts, or whose provisional
\* boundary it holds, will ship to it or has its newest boundary on the way.
BoundariesReachTheirWindows ==
    \A k \in DOMAIN windows :
        LET w == windows[k]
            readers == ReadersOf(couplings, <<k[1], w.lo>>)
            begun == KeysOn(windows, readers)
            waiting == {j \in Sources(k) : k \notin windows[j].released}
        IN  /\ w.owed = Cardinality(waiting)
                            + Cardinality(readers) - Cardinality(begun)
            /\ begun \subseteq Sources(k)
            /\ \A j \in waiting \cup w.provisional :
                \/ ~ ShippedFinal(windows[j]) /\ j \in Sources(k)
                \/ IsComing(j, k)

\* "A window that read the provisional boundary checks it then": once its
\* source's result is final, the final boundary is on its way to it.
ProvisionalReadsAreChecked ==
    \A k \in DOMAIN windows : \A j \in windows[k].provisional :
        ShippedFinal(windows[j]) => IsComing(j, k)

\* What is let go is not read again: no boundary is on its way to a window
\* let go, or from one whose record is forgotten; and a region is dropped
\* only once no window can be laid or linked against it.
NothingLetGoIsRead ==
    /\ \A m \in mail :
        /\ m.source \notin forgotten
        /\ m.to[2] > stream[m.to[1]].gone
    /\ \A s \in Streams :
        /\ stream[s].gone < Laid(windows, s) \/ stream[s].gone = 0
        /\ \A i \in 1 .. stream[s].dropped :
            LET region == <<s, windows[<<s, i>>].lo>>
                partners == ReadersOf(couplings, region)
                            \cup ReadBy(couplings, region)
            IN  \A p \in partners :
                    \E j \in 1 .. stream[p[1]].gone : windows[<<p[1], j>>].lo = p[2]
=============================================================================
