---------------------------- MODULE WindowChain ----------------------------
(***************************************************************************)
(* The windows of a run's streams, from the request of their decode to the *)
(* final correction in the Pauli frame.  A window reads the boundaries its *)
(* dependencies commit.  Its decode gets a verdict: kept, its result is    *)
(* final; escalated, the strong tier decodes the window again.  Under the  *)
(* held boundary row a boundary leaves once it is final.  Under the        *)
(* checked row it leaves at the provisional commit too, a window decodes   *)
(* on it as a guess, and the guess is checked when the final one lands:    *)
(* the same, and the result stands; changed, and the window is decoded     *)
(* again (windows/input_checks.py, window_boundaries.py,                   *)
(* window_commits.py, decode_requests.py, operation_results.py,            *)
(* confidence/gap_join.py, pauli_frame/pauli_frame.py).                    *)
(*                                                                         *)
(* A boundary is one value of Boundaries; a decode's boundary, its verdict *)
(* and the answering solve are free choices.  Time is the order of the     *)
(* engine's events: links, unit waits and priced cycles only delay them.   *)
(***************************************************************************)
EXTENDS Naturals, FiniteSets

CONSTANTS
    Layouts,        \* the layouts of a run's windows and their settings
    Boundaries,     \* the values a boundary takes
    NoBoundary      \* a dependency that sent none yet, a window with no result

\* A layout numbers its windows in order within their stream.  deps names the
\* boundaries each window reads, pin the face its redo is pinned on; checked
\* is TRUE for the checked boundary row, FALSE for the held one; bestStatus
\* is TRUE for the best_status replace rule, FALSE for latest; solves is the
\* forced-class solves of an attempt, joined by the gap; segments are the
\* windows at whose end an awaited stream segment ends.
ASSUME ChainAssumption ==
    /\ NoBoundary \notin Boundaries
    /\ \A l \in Layouts :
        /\ l.windows \subseteq Nat
        /\ IsFiniteSet(l.windows)
        /\ l.deps \in [l.windows -> SUBSET l.windows]
        /\ \A w \in l.windows : \A d \in l.deps[w] : d < w
        /\ \A w \in l.windows : l.pin[w] \subseteq l.deps[w]
        /\ l.checked \in BOOLEAN /\ l.bestStatus \in BOOLEAN
        /\ l.solves \in Nat \ {0}
        /\ l.segments \subseteq l.windows

VARIABLES
    layout,      \* the run's layout, fixed by its settings
    solves,      \* the window's attempt: its forced-class solves
    verdict,     \* the joined answer whose verdict is being priced, if any
    boundaryIn,  \* what landed from each dependency (Window.boundary_in)
    record,      \* the courier's record of what each window shipped
    flying,      \* boundary deliveries on their hops
    provisional, \* provisional_sources_by_window
    read,        \* read_by_window: what a decode on a guess read
    stale,       \* stale_windows
    waiting,     \* waiting_by_window: the verdict a guess settles later
    revision,    \* the first revision of a window that is not final
    strong,      \* the strong redo of an escalated window
    home,        \* the final result on its way to the frame
    writes,      \* corrections the frame accepted per window
    committed,   \* Window.committed
    final,       \* Window.published_request_key, as the result it names
    prefix,      \* committed_round_count_by_stream, as windows
    released,    \* segment_results_sent
    delivered    \* finished_operation_ids

decoding == <<solves, verdict>>
courier  == <<boundaryIn, record, flying>>
checks   == <<provisional, read, stale, waiting>>
answers  == <<revision, strong, home, writes>>
results  == <<committed, final, prefix, released, delivered>>
vars == <<layout, decoding, courier, checks, answers, results>>

-----------------------------------------------------------------------------
(* Data: the layout, and what the windows exchange *)

Windows == layout.windows
StreamOf == layout.stream
Deps == layout.deps
PinOf == layout.pin
Checked == layout.checked
BestStatus == layout.bestStatus
Solves == layout.solves
Segments == layout.segments

Nothing == [none |-> TRUE]
Streams == {StreamOf[w] : w \in Windows}
WindowsOf(s) == {w \in Windows : StreamOf[w] = s}

\* a decode's answer: the boundaries it read and the one it commits
Result(reads, boundary) == [reads |-> reads, boundary |-> boundary]

\* one solve of an attempt
Solve(phase, result) == [phase |-> phase, result |-> result]
Phases == {"unasked", "queued", "running", "held", "joined"}
Attempt(phase) == [i \in 1..Solves |-> Solve(phase, Nothing)]

\* the shipped boundary is final once none is kept to ship after it
IsFinal(w) == record[w].version > 0 /\ ~record[w].held

\* deps_remaining is zero: each dependency's edge was released
IsUnblocked(w) == \A d \in Deps[w] : boundaryIn[w][d] # NoBoundary

\* the dependents the default interaction selects
Dependents(w) == {x \in Windows : w \in Deps[x]}

\* delivery.is_current: the latest version its source shipped
IsCurrent(m) == m.version = record[m.source].version

\* operation_results.is_awaiting_final
AwaitsFinal(w) == w \in committed /\ final[w] = Nothing

-----------------------------------------------------------------------------
(* Parts several handlers share *)

\* hand_on: a final boundary ships; a provisional one too when it is checked
\* again, and is kept until the final one
Ships(isFinal) == isFinal \/ Checked
RecordAfter(w, value, isFinal) ==
    [record EXCEPT ![w] =
        [version |-> IF Ships(isFinal) THEN @.version + 1 ELSE @.version,
         committed |-> IF Ships(isFinal) THEN value ELSE @.committed,
         held |-> ~isFinal]]
\* a plausible slip: a window whose boundary was sent sends no other
DeliveriesOfTheFirst(w, value, isFinal) ==
    IF Ships(isFinal) /\ record[w].version = 0
    THEN {[source |-> w, to |-> x, version |-> 1, boundary |-> value] :
            x \in Dependents(w)}
    ELSE {}
\* BoundaryCourier.send: one delivery to each dependent, of a new version
Deliveries(w, value, isFinal) ==
    IF Ships(isFinal)
    THEN {[source |-> w, to |-> x, version |-> record[w].version + 1,
           boundary |-> value] : x \in Dependents(w)}
    ELSE {}

\* RedoWindow.plan: the past face is pinned on what its source committed
PlansRedo(w) ==
    strong' = [strong EXCEPT ![w] =
        [phase |-> "pinning",
         reads |-> [d \in PinOf[w] |-> record[d].committed]]]

\* committed_prefix_round_count: the windows committed unbroken
CommittedPrefix(done, s) ==
    {w \in WindowsOf(s) : \A x \in WindowsOf(s) : x <= w => x \in done}

\* a plausible slip: a commit that is not final yet is not waited for
SegmentIsCommitted(w) == w \in prefix[StreamOf[w]]

\* _is_segment_final: its end is committed, no result may change it
SegmentIsFinal(w) ==
    /\ w \in prefix[StreamOf[w]]
    /\ \A x \in WindowsOf(StreamOf[w]) : x <= w => ~AwaitsFinal(x)

\* release_committed_segments of the stream
ReleasesSegments(s) ==
    released' = released \cup
                    {w \in Segments : StreamOf[w] = s /\ SegmentIsFinal(w)'}

\* _update_committed_round_count: the prefix grows, its segments are tried
NotesCommitted(w) ==
    LET grown == CommittedPrefix(committed', StreamOf[w])
    IN  /\ prefix' = [prefix EXCEPT ![StreamOf[w]] = grown]
        /\ IF grown = prefix[StreamOf[w]]
           THEN UNCHANGED released
           ELSE ReleasesSegments(StreamOf[w])

\* deliver_if_final: every window of the stream is committed and final
Delivers(w) ==
    delivered' = IF \A x \in WindowsOf(StreamOf[w]) :
                        x \in committed' /\ final'[x] # Nothing
                 THEN delivered \cup {StreamOf[w]}
                 ELSE delivered

\* requester.request: every solve of a fresh attempt is queued
Asks(w) == solves' = [solves EXCEPT ![w] = Attempt("queued")]

\* WindowCommitter.commit of a first revision that is not final
CommitsProvisionally(w, result) ==
    /\ UNCHANGED <<home, writes, final, delivered>>
    /\ committed' = committed \cup {w}
    /\ NotesCommitted(w)
    /\ record' = RecordAfter(w, result.boundary, FALSE)
    /\ revision' = [revision EXCEPT ![w] = result]

\* a plausible slip: the boundary that left provisionally stays the word
KeepsWithoutShipping(w, result) ==
    /\ record' = IF record[w].version = 0
                 THEN RecordAfter(w, result.boundary, TRUE) ELSE record
    /\ home' = [home EXCEPT ![w] = [result |-> result, isLater |-> FALSE]]
    /\ revision' = [revision EXCEPT ![w] = Nothing]
    /\ UNCHANGED <<strong, writes, results>>
\* _settle on a keep: the final boundary leaves, the result goes home
Keeps(w, result) ==
    /\ record' = RecordAfter(w, result.boundary, TRUE)
    /\ home' = [home EXCEPT ![w] = [result |-> result, isLater |-> FALSE]]
    /\ revision' = [revision EXCEPT ![w] = Nothing]
    /\ UNCHANGED <<strong, writes, results>>

-----------------------------------------------------------------------------
Init ==
    /\ layout \in Layouts
    /\ solves = [w \in Windows |-> Attempt("unasked")]
    /\ verdict = [w \in Windows |-> Nothing]
    /\ boundaryIn = [w \in Windows |-> [d \in Deps[w] |-> NoBoundary]]
    /\ record = [w \in Windows |->
                    [version |-> 0, committed |-> NoBoundary, held |-> FALSE]]
    /\ flying = {}
    /\ provisional = [w \in Windows |-> {}]
    /\ read = [w \in Windows |-> Nothing]
    /\ stale = {}
    /\ waiting = [w \in Windows |-> Nothing]
    /\ revision = [w \in Windows |-> Nothing]
    /\ strong = [w \in Windows |-> Nothing]
    /\ home = [w \in Windows |-> Nothing]
    /\ writes = [w \in Windows |-> 0]
    /\ committed = {}
    /\ final = [w \in Windows |-> Nothing]
    /\ prefix = [s \in Streams |-> {}]
    /\ released = {}
    /\ delivered = {}

-----------------------------------------------------------------------------
(* A window's decode *)

\* request_if_ready: the window's rounds are readable in its store
Request(w) ==
    /\ solves[w] = Attempt("unasked")
    /\ Asks(w)
    /\ UNCHANGED <<verdict, courier, checks, answers, results>>

\* note_read: a read with a source not final is noted, once per attempt
NotesRead(w) == provisional[w] # {} /\ read[w] = Nothing
\* a plausible slip: each solve of an attempt starts a clean input
StartSolveAfresh(w, i) ==
    /\ solves[w][i].phase = "queued"
    /\ IsUnblocked(w)
    /\ solves' = [solves EXCEPT ![w][i] =
                    Solve("running", Result(boundaryIn[w], NoBoundary))]
    /\ read' = IF NotesRead(w)
               THEN [read EXCEPT ![w] = [state |-> boundaryIn[w],
                                         unconfirmed |-> provisional[w]]]
               ELSE read
    /\ stale' = stale \ {w}
    /\ UNCHANGED <<verdict, courier, provisional, waiting, answers, results>>
\* mask_input: a solve starts on what the window holds
StartSolve(w, i) ==
    /\ solves[w][i].phase = "queued"
    /\ IsUnblocked(w)
    /\ solves' = [solves EXCEPT ![w][i] =
                    Solve("running", Result(boundaryIn[w], NoBoundary))]
    /\ read' = IF NotesRead(w)
               THEN [read EXCEPT ![w] = [state |-> boundaryIn[w],
                                         unconfirmed |-> provisional[w]]]
               ELSE read
    /\ UNCHANGED <<verdict, courier, provisional, stale, waiting, answers,
                   results>>

\* accept_result: a solve waits for the attempt's others
HoldSolve(w, i) ==
    /\ solves[w][i].phase = "running"
    /\ \E j \in 1..Solves \ {i} : solves[w][j].phase # "held"
    /\ \E b \in Boundaries :
        solves' = [solves EXCEPT ![w][i].phase = "held",
                                 ![w][i].result.boundary = b]
    /\ UNCHANGED <<verdict, courier, checks, answers, results>>

\* _join: the last solve is in; the lightest answers, and its verdict is
\* priced on the edge's clock
JoinSolves(w, i) ==
    /\ solves[w][i].phase = "running"
    /\ \A j \in 1..Solves \ {i} : solves[w][j].phase = "held"
    /\ \E b \in Boundaries, v \in {"KEEP", "ESCALATE"}, answer \in 1..Solves :
        LET last == Result(solves[w][i].result.reads, b)
        IN  verdict' = [verdict EXCEPT ![w] =
                [word |-> v,
                 result |-> IF answer = i THEN last
                            ELSE solves[w][answer].result]]
    /\ solves' = [solves EXCEPT ![w] = Attempt("joined")]
    /\ UNCHANGED <<courier, checks, answers, results>>

-----------------------------------------------------------------------------
(* The verdict, on the input as it stands when it is applied *)

\* a plausible slip: a guess is taken for a final input
InputOfUnchecked(w) == IF w \in stale THEN "stale" ELSE "final"

\* InputChecks.take_result
InputOf(w) ==
    CASE w \in stale -> "stale"
      [] w \notin stale /\ read[w] # Nothing /\ read[w].unconfirmed # {}
            -> "provisional"
      [] OTHER -> "final"

\* _drop_stale_result: the window is decoded again on what it holds now
DropStale(w) ==
    /\ InputOf(w) = "stale"
    /\ stale' = stale \ {w}
    /\ read' = [read EXCEPT ![w] = Nothing]
    /\ Asks(w)
    /\ UNCHANGED <<courier, provisional, waiting, answers, results>>

\* _commit_on_a_guess: commit now, settle when the input is final
CommitOnAGuess(w, v) ==
    /\ InputOf(w) = "provisional"
    /\ CommitsProvisionally(w, v.result)
    /\ flying' = flying \cup Deliveries(w, v.result.boundary, FALSE)
    /\ waiting' = [waiting EXCEPT ![w] = v]
    /\ UNCHANGED <<solves, boundaryIn, provisional, read, stale, strong>>

\* _settle on a final input: keep, or escalate and commit provisionally
Settle(w, v) ==
    /\ InputOf(w) = "final"
    /\ read' = [read EXCEPT ![w] = Nothing]
    /\ \/ /\ v.word = "KEEP"
          /\ Keeps(w, v.result)
          /\ flying' = flying \cup Deliveries(w, v.result.boundary, TRUE)
       \/ /\ v.word = "ESCALATE"
          /\ PlansRedo(w)
          /\ CommitsProvisionally(w, v.result)
          /\ flying' = flying \cup Deliveries(w, v.result.boundary, FALSE)
    /\ UNCHANGED <<solves, boundaryIn, provisional, stale, waiting>>

\* _apply_verdict
GiveVerdict(w) ==
    /\ verdict[w] # Nothing
    /\ verdict' = [verdict EXCEPT ![w] = Nothing]
    /\ \/ DropStale(w)
       \/ CommitOnAGuess(w, verdict[w])
       \/ Settle(w, verdict[w])

-----------------------------------------------------------------------------
(* A boundary lands *)

\* _receive_boundary of a version a later one superseded: dropped
LandLate(m) ==
    /\ m \in flying
    /\ ~IsCurrent(m)
    /\ flying' = flying \ {m}
    /\ UNCHANGED <<decoding, boundaryIn, record, checks, answers, results>>

\* _land and _note_landing: the boundary replaces its source's contribution
Merges(m) ==
    /\ m \in flying
    /\ IsCurrent(m)
    /\ boundaryIn' = [boundaryIn EXCEPT ![m.to][m.source] = m.boundary]
    /\ provisional' = [provisional EXCEPT ![m.to] =
            IF IsFinal(m.source) THEN @ \ {m.source} ELSE @ \cup {m.source}]

\* same_boundary: whether a read is of what the window holds now
Unchanged(w, held) == read[w].state = held[w]

\* a plausible slip: one final boundary confirms the whole guess
SureAfterOne(w, d) == {}
\* unconfirmed_sources once d's final boundary agreed with the read
StillUnsure(w, d) == read[w].unconfirmed \ {d}

\* a landing no decode's read is settled by: none is kept, or it is one of
\* several the read is not sure of, or it is not final
LandQuietly(m) ==
    /\ Merges(m)
    /\ flying' = flying \ {m}
    /\ \/ read[m.to] = Nothing /\ UNCHANGED read
       \/ /\ read[m.to] # Nothing
          /\ Unchanged(m.to, boundaryIn')
          /\ IF IsFinal(m.source)
             THEN read' = [read EXCEPT ![m.to].unconfirmed =
                                StillUnsure(m.to, m.source)]
             ELSE UNCHANGED read
          /\ waiting[m.to] # Nothing => read'[m.to].unconfirmed # {}
    /\ UNCHANGED <<decoding, record, stale, waiting, answers, results>>

\* _make_stale: the decode that read is dropped when its result comes, or
\* the window that committed on the guess is decoded again now
LandChanged(m) ==
    /\ Merges(m)
    /\ flying' = flying \ {m}
    /\ read[m.to] # Nothing
    /\ ~Unchanged(m.to, boundaryIn')
    /\ read' = [read EXCEPT ![m.to] = Nothing]
    /\ IF waiting[m.to] = Nothing
       THEN /\ stale' = stale \cup {m.to}
            /\ UNCHANGED <<solves, waiting>>
       ELSE /\ waiting' = [waiting EXCEPT ![m.to] = Nothing]
            /\ Asks(m.to)
            /\ UNCHANGED stale
    /\ UNCHANGED <<verdict, record, answers, results>>

\* _confirm and _settle_the_guess: the committed guess was right, so its
\* verdict is acted on
LandConfirms(m) ==
    LET w == m.to
        v == waiting[w]
    IN
    /\ Merges(m)
    /\ read[w] # Nothing
    /\ Unchanged(w, boundaryIn')
    /\ IsFinal(m.source)
    /\ m.source \in read[w].unconfirmed
    /\ StillUnsure(w, m.source) = {}
    /\ v # Nothing
    /\ waiting' = [waiting EXCEPT ![w] = Nothing]
    /\ read' = [read EXCEPT ![w] = Nothing]
    /\ \/ /\ v.word = "KEEP"
          /\ Keeps(w, v.result)
          /\ flying' = (flying \ {m}) \cup Deliveries(w, v.result.boundary, TRUE)
       \/ /\ v.word = "ESCALATE"
          /\ PlansRedo(w)
          /\ flying' = flying \ {m}
          /\ UNCHANGED <<record, revision, home, writes, results>>
    /\ UNCHANGED <<decoding, stale>>

-----------------------------------------------------------------------------
(* The strong redo, and the way home *)

\* _pin_delivered: the redo owes no boundary, so it may start
LandPin(w) ==
    /\ strong[w] # Nothing
    /\ strong[w].phase = "pinning"
    /\ strong' = [strong EXCEPT ![w].phase = "running"]
    /\ UNCHANGED <<decoding, courier, checks, revision, home, writes, results>>

\* the revision the edge's replace rule picks: the redo, or a better first
Picks(w, redo) ==
    IF BestStatus /\ revision[w] # Nothing THEN {redo, revision[w]} ELSE {redo}

\* _commit_final_revision and publish_strong: the held boundary leaves, the
\* picked revision goes home
EndStrong(w) ==
    /\ strong[w] # Nothing
    /\ strong[w].phase = "running"
    /\ strong' = [strong EXCEPT ![w] = Nothing]
    /\ \E b \in Boundaries :
       \E chosen \in Picks(w, Result(strong[w].reads, b)) :
        /\ home' = [home EXCEPT ![w] = [result |-> chosen, isLater |-> TRUE]]
        /\ IF record[w].held
           THEN /\ record' = RecordAfter(w, chosen.boundary, TRUE)
                /\ flying' = flying \cup Deliveries(w, chosen.boundary, TRUE)
           ELSE UNCHANGED <<record, flying>>
    /\ revision' = [revision EXCEPT ![w] = Nothing]
    /\ UNCHANGED <<decoding, boundaryIn, checks, writes, results>>

\* the frame takes the correction; a first revision commits its window, a
\* later one finishes it (_commit_the_final_result, finish_strong)
LandHome(w) ==
    /\ home[w] # Nothing
    /\ home' = [home EXCEPT ![w] = Nothing]
    /\ writes' = [writes EXCEPT ![w] = @ + 1]
    /\ final' = [final EXCEPT ![w] = home[w].result]
    /\ committed' = committed \cup {w}
    /\ IF home[w].isLater
       THEN UNCHANGED prefix /\ ReleasesSegments(StreamOf[w])
       ELSE NotesCommitted(w)
    /\ Delivers(w)
    /\ UNCHANGED <<decoding, courier, checks, revision, strong>>

-----------------------------------------------------------------------------
LandBoundary(m) ==
    LandLate(m) \/ LandQuietly(m) \/ LandChanged(m) \/ LandConfirms(m)

Decode(w) ==
    \/ Request(w)
    \/ \E i \in 1..Solves : StartSolve(w, i) \/ HoldSolve(w, i) \/ JoinSolves(w, i)
    \/ GiveVerdict(w)

Next ==
    /\ UNCHANGED layout
    /\ \/ \E w \in Windows : Decode(w) \/ LandPin(w) \/ EndStrong(w) \/ LandHome(w)
       \/ \E m \in flying : LandBoundary(m)

Spec == Init /\ [][Next]_vars

\* the engine runs every event it queued, links deliver, decodes end, and
\* every round of the run is measured and stored
FairSpec == Spec /\ WF_vars(Next)

-----------------------------------------------------------------------------
MaybeBoundary == Boundaries \cup {NoBoundary}
ReadsOver(windows) == UNION {[D -> MaybeBoundary] : D \in SUBSET windows}
Results == [reads : ReadsOver(Windows), boundary : Boundaries]
Begun == [reads : ReadsOver(Windows), boundary : {NoBoundary}]
VerdictsGiven == [word : {"KEEP", "ESCALATE"}, result : Results]

\* The type of every variable.
TypeOK ==
    /\ layout \in Layouts
    /\ solves \in [Windows -> [1..Solves -> [phase : Phases,
                                 result : Results \cup Begun \cup {Nothing}]]]
    /\ verdict \in [Windows -> VerdictsGiven \cup {Nothing}]
    /\ boundaryIn \in [Windows -> ReadsOver(Windows)]
    /\ \A w \in Windows : DOMAIN boundaryIn[w] = Deps[w]
    /\ record \in [Windows -> [version : Nat, committed : MaybeBoundary,
                               held : BOOLEAN]]
    /\ flying \subseteq [source : Windows, to : Windows, version : Nat,
                         boundary : Boundaries]
    /\ provisional \in [Windows -> SUBSET Windows]
    /\ read \in [Windows -> [state : ReadsOver(Windows),
                             unconfirmed : SUBSET Windows] \cup {Nothing}]
    /\ stale \subseteq Windows
    /\ waiting \in [Windows -> VerdictsGiven \cup {Nothing}]
    /\ revision \in [Windows -> Results \cup {Nothing}]
    /\ strong \in [Windows -> [phase : {"pinning", "running"},
                               reads : ReadsOver(Windows)] \cup {Nothing}]
    /\ home \in [Windows -> [result : Results, isLater : BOOLEAN]
                                \cup {Nothing}]
    /\ writes \in [Windows -> Nat]
    /\ committed \subseteq Windows
    /\ final \in [Windows -> Results \cup {Nothing}]
    /\ prefix \in [Streams -> SUBSET Windows]
    /\ released \subseteq Segments
    /\ delivered \subseteq Streams

-----------------------------------------------------------------------------
(* Safety *)

\* The answer a window will have for good, from the moment it leaves for the
\* frame.
AnswerOf(w) ==
    IF home[w] # Nothing THEN home[w].result ELSE final[w]

Serial == INSTANCE SerialWindows WITH answer <- [w \in Windows |-> AnswerOf(w)]

\* Windows that commit on guesses, are decoded again and escalate still give
\* the answers a serial run would: one per window, on its dependencies' final
\* boundaries (test_checked_boundaries_commit_what_held_ones_do).
ImplementsSerial == Serial!Spec

\* A result that leaves for the frame is the boundary its dependents are told
\* is final, so the frame and the chain never disagree on a window.
FrameMatchesChain ==
    \A w \in Windows :
        IF AnswerOf(w) # Nothing
        THEN IsFinal(w) /\ record[w].committed = AnswerOf(w).boundary
        ELSE ~IsFinal(w)

\* The frame takes one correction per window: commit_correction refuses a
\* second with an error.
OneWritePerWindow ==
    \A w \in Windows :
        /\ writes[w] <= 1
        /\ home[w] # Nothing => writes[w] = 0

\* A decode that read something other than the window now holds is known to
\* be stale before its verdict is applied, in any of its solves.
AnswersInHand(w) ==
    {solves[w][i].result : i \in {j \in 1..Solves :
                                    solves[w][j].phase \in {"running", "held"}}}
    \cup (IF verdict[w] # Nothing THEN {verdict[w].result} ELSE {})
WrongReadsAreKnown ==
    \A w \in Windows : \A r \in AnswersInHand(w) :
        r.reads # boundaryIn[w] => w \in stale

\* The redo of an escalated window is pinned on a face that is final, though
\* the window may have been escalated from a guess.
RedoPinsFinalFaces ==
    \A w \in Windows : strong[w] # Nothing =>
        \A d \in PinOf[w] : IsFinal(d) /\ strong[w].reads[d] = record[d].committed

\* A segment or operation delivered to the conditional release holds windows
\* that are all final: no later decode changes an outcome already used.
DeliveredIsFinal ==
    /\ \A w \in released : \A x \in WindowsOf(StreamOf[w]) :
        x <= w => x \in committed /\ final[x] # Nothing
    /\ \A s \in delivered : \A x \in WindowsOf(s) : final[x] # Nothing

\* Under the held row, where a window commits only once it is final, a segment
\* is released as soon as its windows are: no commit is left to do it later.
HeldSegmentsReleased ==
    ~Checked => \A w \in Segments : SegmentIsFinal(w) => w \in released

\* What leaves a stream for the conditional release leaves once it is final:
\* not before under any row, and under the held row not later either.
SegmentsLeaveOnceFinal == DeliveredIsFinal /\ HeldSegmentsReleased

-----------------------------------------------------------------------------
(* Liveness *)

\* Every window gets its final answer and every stream its result: no window
\* waits on a window that waits on it.
EveryStreamDelivers == <>(delivered = Streams)

=============================================================================
