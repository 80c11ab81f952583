------------------------- MODULE WindowChainProofs --------------------------
(***************************************************************************)
(* Whatever windows commit on guesses, are decoded again and escalate, the *)
(* answers are those of a serial run: WindowChain implements SerialWindows *)
(* for every layout, under both boundary rows, with any number of solves   *)
(* in an attempt.                                                          *)
(*                                                                         *)
(* The properties are not inductive by themselves. A window is at one      *)
(* stage at a time (OneStage) and keeps its boundary back until its answer *)
(* (BoundaryIsHeld), so a boundary is made final once, and what landed and *)
(* is not provisional is final for good (LandedIsFinal). A decode in hand  *)
(* whose input was sure from the start has nothing provisional, and a read *)
(* on a guess is of what the window holds and unsure of exactly what is    *)
(* provisional (ReadsAreNoted). So a verdict that is acted on was read on  *)
(* final boundaries, and the answer is one a serial run gives.             *)
(*                                                                         *)
(* What a stream hands to the conditional release needs a second invariant *)
(* beside the first (SegmentInv): the counted prefix is the committed one  *)
(* after every commit, and under the held row nothing provisional exists,  *)
(* so that a window commits in the step that makes it final or was redone. *)
(***************************************************************************)
EXTENDS WindowChain, TLAPS

-----------------------------------------------------------------------------
(* The inductive invariant *)

\* No solve of the window's attempt is queued, running or held.
AttemptIsOver(w) == solves[w] = Attempt("joined")

\* A window is asked, judged, waits on its guess, is redone or is answered.
OneStage(w) ==
    /\ verdict[w] # Nothing => AttemptIsOver(w)
    /\ waiting[w] # Nothing => AttemptIsOver(w) /\ verdict[w] = Nothing
    /\ strong[w] # Nothing =>
        AttemptIsOver(w) /\ verdict[w] = Nothing /\ waiting[w] = Nothing
    /\ AnswerOf(w) # Nothing =>
        /\ AttemptIsOver(w) /\ verdict[w] = Nothing
        /\ waiting[w] = Nothing /\ strong[w] = Nothing

\* A window committed for now keeps its boundary until its answer, and the
\* answer's boundary is final.
BoundaryIsHeld(w) ==
    /\ waiting[w] # Nothing \/ strong[w] # Nothing => record[w].held
    /\ IF AnswerOf(w) # Nothing
       THEN IsFinal(w) /\ record[w].committed = AnswerOf(w).boundary
       ELSE ~IsFinal(w)

\* The frame was written once for a window that is final, else not yet.
WritesAreFinal(w) ==
    /\ writes[w] = IF final[w] = Nothing THEN 0 ELSE 1
    /\ home[w] # Nothing => final[w] = Nothing

\* The order of a window's stages.
StageOf(w) == OneStage(w) /\ BoundaryIsHeld(w) /\ WritesAreFinal(w)
StageInv == \A w \in Windows : StageOf(w)

\* A delivery carries a version its source shipped, and the latest version
\* carries the boundary its source committed.
DeliveriesAreShipped ==
    \A m \in flying :
        /\ m.source \in Deps[m.to]
        /\ m.version <= record[m.source].version
        /\ IsCurrent(m) => m.boundary = record[m.source].committed

\* What landed and is not provisional is its source's final boundary.
LandedIsFinal(w) ==
    \A d \in Deps[w] :
        boundaryIn[w][d] # NoBoundary /\ d \notin provisional[w] =>
            IsFinal(d) /\ boundaryIn[w][d] = record[d].committed

\* The window has started a solve whose verdict is not applied yet.
HasStarted(w, i) == solves[w][i].phase \in {"running", "held"}
IsInHand(w) == verdict[w] # Nothing \/ \E i \in 1..Solves : HasStarted(w, i)

\* A window that decodes has all its boundaries, and it was sure of them or
\* noted what it read and what it was not sure of.
ReadsAreNoted(w) ==
    /\ IsInHand(w) => IsUnblocked(w)
    /\ IsInHand(w) /\ w \notin stale /\ read[w] = Nothing => provisional[w] = {}
    /\ read[w] # Nothing =>
        /\ IsUnblocked(w)
        /\ read[w].state = boundaryIn[w]
        /\ read[w].unconfirmed = provisional[w]

\* A solve that runs has read its boundaries, one that is held has answered.
SolvesAreComplete ==
    \A w \in Windows : \A i \in 1..Solves :
        /\ solves[w][i].phase = "running" => solves[w][i].result \in Begun
        /\ solves[w][i].phase = "held" => solves[w][i].result \in Results

\* What is in hand read what the window holds, or is known to be stale.
InHandIsCurrent(w) ==
    w \notin stale =>
        /\ verdict[w] # Nothing => verdict[w].result.reads = boundaryIn[w]
        /\ \A i \in 1..Solves :
            HasStarted(w, i) => solves[w][i].result.reads = boundaryIn[w]

\* A guess that waits read what the window holds, and is its revision.
WaitingIsCurrent(w) ==
    waiting[w] # Nothing =>
        /\ read[w] # Nothing
        /\ waiting[w].result.reads = boundaryIn[w]
        /\ revision[w] = waiting[w].result

\* A window is redone on final boundaries, which its first revision read.
RedoIsSure(w) ==
    strong[w] # Nothing =>
        /\ IsUnblocked(w)
        /\ provisional[w] = {}
        /\ strong[w].reads = [d \in PinOf[w] |-> record[d].committed]
        /\ revision[w] # Nothing => revision[w].reads = boundaryIn[w]

\* What a window read, and what its reads are worth.
ReadOf(w) ==
    /\ LandedIsFinal(w) /\ ReadsAreNoted(w) /\ InHandIsCurrent(w)
    /\ WaitingIsCurrent(w) /\ RedoIsSure(w)
ReadInv == \A w \in Windows : ReadOf(w)

IInv ==
    TypeOK /\ SolvesAreComplete /\ StageInv /\ DeliveriesAreShipped /\ ReadInv

-----------------------------------------------------------------------------
(* Facts about the layout and the data *)

\* What a layout fixes, and that a step keeps it.
LEMMA LayoutFacts ==
    ASSUME layout \in Layouts
    PROVE  /\ Deps \in [Windows -> SUBSET Windows]
           /\ \A w \in Windows : PinOf[w] \subseteq Deps[w]
           /\ Solves \in Nat \ {0}
           /\ Segments \subseteq Windows
           /\ Checked \in BOOLEAN
           /\ NoBoundary \notin Boundaries
  BY ChainAssumption DEF Windows, Deps, PinOf, Solves, Segments, Checked

LEMMA LayoutKept ==
    ASSUME layout' = layout
    PROVE  /\ Windows' = Windows /\ Deps' = Deps /\ PinOf' = PinOf
           /\ StreamOf' = StreamOf /\ Solves' = Solves
           /\ Segments' = Segments /\ Streams' = Streams
           /\ Checked' = Checked /\ BestStatus' = BestStatus
           /\ Results' = Results /\ Begun' = Begun
           /\ VerdictsGiven' = VerdictsGiven
           /\ ReadsOver(Windows)' = ReadsOver(Windows)
           /\ \A s : WindowsOf(s)' = WindowsOf(s)
           /\ \A p : Attempt(p)' = Attempt(p)
           /\ \A w : Dependents(w)' = Dependents(w)
  BY DEF Windows, Deps, PinOf, StreamOf, Solves, Segments, Streams, Checked,
         BestStatus, Results, Begun, VerdictsGiven, ReadsOver, MaybeBoundary,
         WindowsOf, Attempt, Dependents

\* A map from some windows to boundaries is a possible read.
LEMMA ReadsOverFacts ==
    ASSUME NEW D \in SUBSET Windows
    PROVE  \A f \in [D -> MaybeBoundary] : f \in ReadsOver(Windows)
  BY DEF ReadsOver

LEMMA ReadsOverElim ==
    ASSUME NEW f \in ReadsOver(Windows)
    PROVE  f \in [DOMAIN f -> MaybeBoundary] /\ DOMAIN f \in SUBSET Windows
  BY DEF ReadsOver

\* A result, a verdict or a redo is not the absence of one.
LEMMA SomethingFacts ==
    /\ Nothing \notin Results /\ Nothing \notin Begun
    /\ Nothing \notin VerdictsGiven
    /\ \A r, l : [result |-> r, isLater |-> l] # Nothing
    /\ \A p, r : [phase |-> p, reads |-> r] # Nothing
    /\ \A s, u : [state |-> s, unconfirmed |-> u] # Nothing
    /\ \A r, b : Result(r, b) # Nothing
  BY DEF Nothing, Results, Begun, VerdictsGiven, Result

\* The set an attempt is in.
Attempts == [1..Solves -> [phase : Phases, result : Results \cup Begun \cup {Nothing}]]

LEMMA AttemptFacts ==
    ASSUME layout \in Layouts
    PROVE  /\ \A p \in Phases : Attempt(p) \in Attempts
           /\ \A p, i : i \in 1..Solves => Attempt(p)[i] = Solve(p, Nothing)
           /\ \A p, q : Attempt(p) = Attempt(q) => p = q
  BY LayoutFacts DEF Attempt, Attempts, Solve

\* Every boundary in, a read of them is a map to boundaries.
LEMMA BoundaryInTyped ==
    ASSUME TypeOK, NEW w \in Windows
    PROVE  /\ boundaryIn[w] \in [Deps[w] -> MaybeBoundary]
           /\ boundaryIn[w] \in ReadsOver(Windows)
           /\ Deps[w] \subseteq Windows
  <1>1. boundaryIn[w] \in ReadsOver(Windows) /\ DOMAIN boundaryIn[w] = Deps[w]
    BY DEF TypeOK
  <1>2. QED
    BY <1>1, ReadsOverElim

\* What a commit leaves in the courier's record, and sends.
LEMMA RecordAfterFacts ==
    ASSUME TypeOK, NEW w \in Windows, NEW value \in Boundaries, NEW isFinal \in BOOLEAN
    PROVE  LET after == RecordAfter(w, value, isFinal)
           IN  /\ after \in [Windows -> [version : Nat, committed : MaybeBoundary,
                                         held : BOOLEAN]]
               /\ \A x \in Windows : x # w => after[x] = record[x]
               /\ after[w].held = ~isFinal
               /\ Ships(isFinal) => /\ after[w].version = record[w].version + 1
                                    /\ after[w].committed = value
               /\ ~Ships(isFinal) => /\ after[w].version = record[w].version
                                     /\ after[w].committed = record[w].committed
  BY LayoutFacts DEF RecordAfter, Ships, TypeOK, MaybeBoundary

LEMMA DeliveriesFacts ==
    ASSUME TypeOK, NEW w \in Windows, NEW value \in Boundaries, NEW isFinal \in BOOLEAN
    PROVE  /\ Deliveries(w, value, isFinal) \subseteq
                [source : Windows, to : Windows, version : Nat, boundary : Boundaries]
           /\ \A m \in Deliveries(w, value, isFinal) :
                /\ Ships(isFinal)
                /\ m.source = w /\ w \in Deps[m.to]
                /\ m.version = record[w].version + 1
                /\ m.boundary = value
           /\ Ships(isFinal) => \A x \in Dependents(w) :
                \E m \in Deliveries(w, value, isFinal) : m.to = x
  <1>1. CASE Ships(isFinal)
    <2>1. Deliveries(w, value, isFinal) =
            {[source |-> w, to |-> x, version |-> record[w].version + 1,
              boundary |-> value] : x \in Dependents(w)}
      BY <1>1 DEF Deliveries
    <2>2. record[w].version + 1 \in Nat
      BY DEF TypeOK
    <2>3. \A x \in Dependents(w) : x \in Windows /\ w \in Deps[x]
      BY DEF Dependents
    <2>4. ASSUME NEW x \in Dependents(w)
          PROVE  [source |-> w, to |-> x, version |-> record[w].version + 1,
                  boundary |-> value]
                 \in [source : Windows, to : Windows, version : Nat,
                      boundary : Boundaries]
      BY <2>2, <2>3, <2>4
    <2>5. Deliveries(w, value, isFinal) \subseteq
                [source : Windows, to : Windows, version : Nat, boundary : Boundaries]
      BY <2>1, <2>4
    <2>6. \A m \in Deliveries(w, value, isFinal) :
                /\ m.source = w /\ w \in Deps[m.to]
                /\ m.version = record[w].version + 1
                /\ m.boundary = value
      BY <2>1, <2>3
    <2>7. \A x \in Dependents(w) :
                \E m \in Deliveries(w, value, isFinal) : m.to = x
      <3>1. TAKE x \in Dependents(w)
      <3>2. [source |-> w, to |-> x, version |-> record[w].version + 1,
             boundary |-> value] \in Deliveries(w, value, isFinal)
        BY <2>1
      <3>3. QED
        BY <3>2
    <2>8. QED
      BY <1>1, <2>5, <2>6, <2>7
  <1>2. CASE ~Ships(isFinal)
    BY <1>2 DEF Deliveries
  <1>3. QED
    BY <1>1, <1>2

-----------------------------------------------------------------------------
(* Type correctness *)

LEMMA InitTyped == Init => TypeOK
  <1> SUFFICES ASSUME Init PROVE TypeOK
    OBVIOUS
  <1>1. layout \in Layouts
    BY DEF Init
  <1>2. solves \in [Windows -> Attempts]
    BY <1>1, AttemptFacts DEF Init, Phases
  <1>3. boundaryIn \in [Windows -> ReadsOver(Windows)]
    <2>1. ASSUME NEW w \in Windows
          PROVE  [d \in Deps[w] |-> NoBoundary] \in ReadsOver(Windows)
      <3>1. Deps[w] \in SUBSET Windows
        BY <1>1, LayoutFacts
      <3>2. [d \in Deps[w] |-> NoBoundary] \in [Deps[w] -> MaybeBoundary]
        BY DEF MaybeBoundary
      <3>3. QED
        BY <3>1, <3>2, ReadsOverFacts
    <2>2. QED
      BY <2>1 DEF Init
  <1>4. \A w \in Windows : DOMAIN boundaryIn[w] = Deps[w]
    BY DEF Init
  <1>5. record \in [Windows -> [version : Nat, committed : MaybeBoundary,
                                held : BOOLEAN]]
    BY DEF Init, MaybeBoundary
  <1>6. QED
    BY <1>1, <1>2, <1>3, <1>4, <1>5 DEF Init, TypeOK, Attempts

\* The committed prefix and the released segments after a commit.
LEMMA NotesCommittedTyped ==
    ASSUME TypeOK, layout' = layout, NEW w \in Windows, NotesCommitted(w)
    PROVE  prefix' \in [Streams -> SUBSET Windows] /\ released' \subseteq Segments
  <1>1. CommittedPrefix(committed', StreamOf[w]) \subseteq Windows
    BY DEF CommittedPrefix, WindowsOf
  <1>2. prefix' \in [Streams -> SUBSET Windows]
    BY <1>1 DEF NotesCommitted, TypeOK, Streams
  <1>3. released' \subseteq Segments
    BY DEF NotesCommitted, ReleasesSegments, TypeOK
  <1>4. QED
    BY <1>2, <1>3

LEMMA DeliversTyped ==
    ASSUME TypeOK, NEW w \in Windows, Delivers(w)
    PROVE  delivered' \subseteq Streams
  BY DEF Delivers, TypeOK, Streams

\* What a provisional commit does to the answers and the results.
LEMMA CommitsProvisionallyTyped ==
    ASSUME TypeOK, layout' = layout, NEW w \in Windows, NEW result \in Results,
           CommitsProvisionally(w, result)
    PROVE  /\ UNCHANGED <<home, writes, final, delivered>>
           /\ committed' \subseteq Windows
           /\ prefix' \in [Streams -> SUBSET Windows]
           /\ released' \subseteq Segments
           /\ record' \in [Windows -> [version : Nat, committed : MaybeBoundary,
                                       held : BOOLEAN]]
           /\ revision' \in [Windows -> Results \cup {Nothing}]
  <1>1. result.boundary \in Boundaries
    BY DEF Results
  <1>2. committed' \subseteq Windows
    BY DEF CommitsProvisionally, TypeOK
  <1>3. prefix' \in [Streams -> SUBSET Windows] /\ released' \subseteq Segments
    BY NotesCommittedTyped DEF CommitsProvisionally
  <1>4. record' \in [Windows -> [version : Nat, committed : MaybeBoundary,
                                 held : BOOLEAN]]
    BY <1>1, RecordAfterFacts DEF CommitsProvisionally
  <1>5. revision' \in [Windows -> Results \cup {Nothing}]
    BY DEF CommitsProvisionally, TypeOK
  <1>6. QED
    BY <1>2, <1>3, <1>4, <1>5 DEF CommitsProvisionally

\* What a keep does to them.
LEMMA KeepsTyped ==
    ASSUME TypeOK, layout' = layout, NEW w \in Windows, NEW result \in Results,
           Keeps(w, result)
    PROVE  /\ UNCHANGED <<strong, writes, results>>
           /\ record' \in [Windows -> [version : Nat, committed : MaybeBoundary,
                                       held : BOOLEAN]]
           /\ home' \in [Windows -> [result : Results, isLater : BOOLEAN]
                                        \cup {Nothing}]
           /\ revision' \in [Windows -> Results \cup {Nothing}]
  <1>1. result.boundary \in Boundaries
    BY DEF Results
  <1>2. record' \in [Windows -> [version : Nat, committed : MaybeBoundary,
                                 held : BOOLEAN]]
    BY <1>1, RecordAfterFacts DEF Keeps
  <1>3. home' \in [Windows -> [result : Results, isLater : BOOLEAN]
                                        \cup {Nothing}]
    BY DEF Keeps, TypeOK
  <1>4. QED
    BY <1>2, <1>3 DEF Keeps, TypeOK

LEMMA PlansRedoTyped ==
    ASSUME TypeOK, NEW w \in Windows, PlansRedo(w)
    PROVE  strong' \in [Windows -> [phase : {"pinning", "running"},
                                    reads : ReadsOver(Windows)] \cup {Nothing}]
  <1>1. PinOf[w] \in SUBSET Windows
    BY LayoutFacts DEF TypeOK
  <1>2. [d \in PinOf[w] |-> record[d].committed] \in [PinOf[w] -> MaybeBoundary]
    BY <1>1 DEF TypeOK
  <1>3. [d \in PinOf[w] |-> record[d].committed] \in ReadsOver(Windows)
    BY <1>1, <1>2, ReadsOverFacts
  <1>4. QED
    BY <1>3 DEF PlansRedo, TypeOK

\* Every variable a step leaves alone keeps its type.
LEMMA RequestTyped ==
    ASSUME TypeOK, layout' = layout, NEW w \in Windows, Request(w)
    PROVE  TypeOK'
  <1>1. Attempt("queued") \in Attempts
    BY AttemptFacts DEF TypeOK, Phases
  <1>2. solves' \in [Windows -> Attempts]
    BY <1>1 DEF Request, Asks, TypeOK, Attempts
  <1>3. QED
    BY <1>2, LayoutKept
    DEF Request, TypeOK, Attempts, courier, checks, answers, results, MaybeBoundary

LEMMA StartSolveTyped ==
    ASSUME TypeOK, layout' = layout, NEW w \in Windows, NEW i \in 1..Solves,
           StartSolve(w, i)
    PROVE  TypeOK'
  <1>1. Result(boundaryIn[w], NoBoundary) \in Begun
    BY BoundaryInTyped DEF Result, Begun
  <1>2. Solve("running", Result(boundaryIn[w], NoBoundary))
          \in [phase : Phases, result : Results \cup Begun \cup {Nothing}]
    BY <1>1 DEF Solve, Phases
  <1>3. solves' \in [Windows -> Attempts]
    BY <1>2 DEF StartSolve, TypeOK, Attempts
  <1>4. read' \in [Windows -> [state : ReadsOver(Windows),
                              unconfirmed : SUBSET Windows] \cup {Nothing}]
    BY BoundaryInTyped DEF StartSolve, TypeOK
  <1>5. QED
    BY <1>3, <1>4, LayoutKept
    DEF StartSolve, TypeOK, Attempts, courier, answers, results, MaybeBoundary

LEMMA SolveTyped ==
    ASSUME TypeOK, NEW w \in Windows, NEW i \in 1..Solves
    PROVE  solves[w][i] \in [phase : Phases, result : Results \cup Begun \cup {Nothing}]
  <1>1. solves \in [Windows -> [1..Solves -> [phase : Phases,
                                 result : Results \cup Begun \cup {Nothing}]]]
    BY DEF TypeOK
  <1>2. QED
    BY <1>1

\* A held solve has answered on what it read.
LEMMA HoldSolveFacts ==
    ASSUME TypeOK, SolvesAreComplete,
           NEW w \in Windows, NEW i \in 1..Solves, HoldSolve(w, i)
    PROVE  \E r \in Results :
            /\ r.reads = solves[w][i].result.reads
            /\ solves' = [solves EXCEPT ![w] =
                            [solves[w] EXCEPT ![i] = Solve("held", r)]]
  <1>1. PICK b \in Boundaries :
            solves' = [solves EXCEPT ![w][i].phase = "held",
                                     ![w][i].result.boundary = b]
    BY DEF HoldSolve
  <1> DEFINE r == Result(solves[w][i].result.reads, b)
             asked == [solves EXCEPT ![w] =
                        [solves[w] EXCEPT ![i] = Solve("held", solves[w][i].result)]]
  <1>2. solves[w][i].result \in Begun
    BY DEF HoldSolve, SolvesAreComplete
  <1>3. r \in Results /\ r.reads = solves[w][i].result.reads
    BY <1>2 DEF Begun, Results, Result
  <1>4. [solves EXCEPT ![w][i].phase = "held"] = asked
    <2>1. solves[w][i] \in [phase : Phases, result : Results \cup Begun \cup {Nothing}]
      BY SolveTyped
    <2>2. [solves[w][i] EXCEPT !.phase = "held"] = Solve("held", solves[w][i].result)
      BY <2>1 DEF Solve
    <2>3. QED
      BY <2>2
  <1>5. solves' = [asked EXCEPT ![w][i].result.boundary = b]
    BY <1>1, <1>4
  <1>6. [solves[w][i].result EXCEPT !.boundary = b] = r
    BY <1>2 DEF Begun, Result
  <1>7. w \in DOMAIN solves /\ i \in DOMAIN solves[w]
    BY DEF TypeOK
  <1>8. asked[w][i] = Solve("held", solves[w][i].result)
    BY <1>7
  <1>9. [asked[w][i] EXCEPT !.result.boundary = b] = Solve("held", r)
    BY <1>6, <1>8 DEF Solve
  <1>10. [asked EXCEPT ![w][i].result.boundary = b] =
            [asked EXCEPT ![w] = [asked[w] EXCEPT ![i] = Solve("held", r)]]
    BY <1>7, <1>9
  <1>11. [asked EXCEPT ![w] = [asked[w] EXCEPT ![i] = Solve("held", r)]]
            = [solves EXCEPT ![w] = [solves[w] EXCEPT ![i] = Solve("held", r)]]
    BY <1>7
  <1>12. QED
    BY <1>3, <1>5, <1>10, <1>11

\* A solve that starts or is held leaves the others.
LEMMA StartSolvePoints ==
    ASSUME TypeOK, NEW w \in Windows, NEW i \in 1..Solves, StartSolve(w, i)
    PROVE  \A x \in Windows : \A j \in 1..Solves :
                solves'[x][j] = IF x = w /\ j = i
                                THEN Solve("running", Result(boundaryIn[w], NoBoundary))
                                ELSE solves[x][j]
  <1> DEFINE s == Solve("running", Result(boundaryIn[w], NoBoundary))
  <1>1. solves \in [Windows -> [1..Solves -> [phase : Phases,
                                 result : Results \cup Begun \cup {Nothing}]]]
    BY DEF TypeOK
  <1>2. solves' = [solves EXCEPT ![w] = [solves[w] EXCEPT ![i] = s]]
    BY DEF StartSolve
  <1> HIDE DEF s
  <1>3. solves'[w] = [solves[w] EXCEPT ![i] = s]
        /\ \A x \in Windows : x # w => solves'[x] = solves[x]
    BY <1>1, <1>2
  <1>4. \A j \in 1..Solves : solves'[w][j] = IF j = i THEN s ELSE solves[w][j]
    BY <1>1, <1>3
  <1>5. QED
    BY <1>3, <1>4 DEF s

LEMMA HoldSolvePoints ==
    ASSUME TypeOK, SolvesAreComplete,
           NEW w \in Windows, NEW i \in 1..Solves, HoldSolve(w, i)
    PROVE  \E r \in Results :
            /\ r.reads = solves[w][i].result.reads
            /\ \A x \in Windows : \A j \in 1..Solves :
                solves'[x][j] = IF x = w /\ j = i THEN Solve("held", r)
                                ELSE solves[x][j]
  <1>1. solves \in [Windows -> [1..Solves -> [phase : Phases,
                                 result : Results \cup Begun \cup {Nothing}]]]
    BY DEF TypeOK
  <1>2. PICK r \in Results :
            /\ r.reads = solves[w][i].result.reads
            /\ solves' = [solves EXCEPT ![w] =
                            [solves[w] EXCEPT ![i] = Solve("held", r)]]
    BY HoldSolveFacts
  <1>3. solves'[w] = [solves[w] EXCEPT ![i] = Solve("held", r)]
        /\ \A x \in Windows : x # w => solves'[x] = solves[x]
    BY <1>1, <1>2
  <1>4. \A j \in 1..Solves :
            solves'[w][j] = IF j = i THEN Solve("held", r) ELSE solves[w][j]
    BY <1>1, <1>3
  <1>5. QED
    BY <1>2, <1>3, <1>4

LEMMA HoldSolveTyped ==
    ASSUME TypeOK, layout' = layout, SolvesAreComplete,
           NEW w \in Windows, NEW i \in 1..Solves, HoldSolve(w, i)
    PROVE  TypeOK'
  <1>1. PICK r \in Results :
            solves' = [solves EXCEPT ![w] =
                            [solves[w] EXCEPT ![i] = Solve("held", r)]]
    BY HoldSolveFacts
  <1>2. solves' \in [Windows -> Attempts]
    BY <1>1 DEF TypeOK, Attempts, Phases, Solve
  <1>3. QED
    BY <1>2, LayoutKept
    DEF HoldSolve, TypeOK, Attempts, courier, checks, answers, results, MaybeBoundary

LEMMA JoinSolvesTyped ==
    ASSUME TypeOK, layout' = layout, SolvesAreComplete,
           NEW w \in Windows, NEW i \in 1..Solves, JoinSolves(w, i)
    PROVE  TypeOK'
  <1>1. PICK b \in Boundaries, v \in {"KEEP", "ESCALATE"}, answer \in 1..Solves :
            verdict' = [verdict EXCEPT ![w] =
                [word |-> v,
                 result |-> IF answer = i
                            THEN Result(solves[w][i].result.reads, b)
                            ELSE solves[w][answer].result]]
    BY DEF JoinSolves
  <1>2. Result(solves[w][i].result.reads, b) \in Results
    BY DEF JoinSolves, SolvesAreComplete, Begun, Results, Result
  <1>3. answer # i => solves[w][answer].result \in Results
    BY DEF JoinSolves, SolvesAreComplete
  <1>4. verdict' \in [Windows -> VerdictsGiven \cup {Nothing}]
    BY <1>1, <1>2, <1>3 DEF TypeOK, VerdictsGiven
  <1>5. Attempt("joined") \in Attempts
    BY AttemptFacts DEF TypeOK, Phases
  <1>6. solves' \in [Windows -> Attempts]
    BY <1>5 DEF JoinSolves, TypeOK, Attempts
  <1>7. QED
    BY <1>4, <1>6, LayoutKept
    DEF JoinSolves, TypeOK, Attempts, courier, checks, answers, results, MaybeBoundary

\* What a final commit, and a provisional one, leave in it.
Finalized(w, value) ==
    [record EXCEPT ![w] = [version |-> record[w].version + 1,
                           committed |-> value, held |-> FALSE]]
HeldBack(w, value) ==
    [record EXCEPT ![w] =
        [version |-> IF Checked THEN record[w].version + 1 ELSE record[w].version,
         committed |-> IF Checked THEN value ELSE record[w].committed,
         held |-> TRUE]]

LEMMA KeepsFinalizes ==
    ASSUME TypeOK, NEW w \in Windows, NEW result, Keeps(w, result)
    PROVE  record' = Finalized(w, result.boundary)
  BY DEF Keeps, RecordAfter, Ships, Finalized, TypeOK

LEMMA CommitHoldsBack ==
    ASSUME TypeOK, NEW w \in Windows, NEW result, CommitsProvisionally(w, result)
    PROVE  record' = HeldBack(w, result.boundary)
  BY DEF CommitsProvisionally, RecordAfter, Ships, HeldBack, TypeOK

LEMMA FinalizedFacts ==
    ASSUME TypeOK, NEW w \in Windows, NEW value \in Boundaries,
           record' = Finalized(w, value)
    PROVE  /\ \A x \in Windows : x # w => record'[x] = record[x]
           /\ ~record'[w].held
           /\ record'[w].version = record[w].version + 1
           /\ record'[w].version > 0
           /\ record'[w].committed = value
           /\ record[w].version \in Nat
  <1>1. record[w].version \in Nat /\ w \in DOMAIN record
    BY DEF TypeOK
  <1>2. record'[w] = [version |-> record[w].version + 1, committed |-> value,
                      held |-> FALSE]
    BY <1>1 DEF Finalized
  <1>3. \A x \in Windows : x # w => record'[x] = record[x]
    BY DEF Finalized, TypeOK
  <1>4. QED
    BY <1>1, <1>2, <1>3

LEMMA HeldBackFacts ==
    ASSUME TypeOK, NEW w \in Windows, NEW value \in Boundaries,
           record' = HeldBack(w, value)
    PROVE  /\ \A x \in Windows : x # w => record'[x] = record[x]
           /\ record'[w].held
           /\ Checked => /\ record'[w].version = record[w].version + 1
                         /\ record'[w].committed = value
           /\ ~Checked => /\ record'[w].version = record[w].version
                          /\ record'[w].committed = record[w].committed
           /\ record[w].version \in Nat
  <1>1. record[w].version \in Nat /\ w \in DOMAIN record
    BY DEF TypeOK
  <1>2. record'[w] =
            [version |-> IF Checked THEN record[w].version + 1 ELSE record[w].version,
             committed |-> IF Checked THEN value ELSE record[w].committed,
             held |-> TRUE]
    BY <1>1 DEF HeldBack
  <1>3. \A x \in Windows : x # w => record'[x] = record[x]
    BY DEF HeldBack, TypeOK
  <1>4. QED
    BY <1>1, <1>2, <1>3

LEMMA RecordTyped ==
    ASSUME TypeOK, NEW w \in Windows, NEW value \in Boundaries, NEW isFinal \in BOOLEAN
    PROVE  RecordAfter(w, value, isFinal) \in
                [Windows -> [version : Nat, committed : MaybeBoundary,
                             held : BOOLEAN]]
  BY RecordAfterFacts

LEMMA FlyingTyped ==
    ASSUME TypeOK, NEW w \in Windows, NEW value \in Boundaries, NEW isFinal \in BOOLEAN
    PROVE  flying \cup Deliveries(w, value, isFinal) \subseteq
                [source : Windows, to : Windows, version : Nat, boundary : Boundaries]
  <1>1. flying \subseteq [source : Windows, to : Windows, version : Nat,
                          boundary : Boundaries]
    BY DEF TypeOK
  <1>2. Deliveries(w, value, isFinal) \subseteq
                [source : Windows, to : Windows, version : Nat, boundary : Boundaries]
    BY DeliveriesFacts
  <1>3. QED
    BY <1>1, <1>2

LEMMA VerdictTyped ==
    ASSUME TypeOK, NEW w \in Windows, verdict[w] # Nothing
    PROVE  /\ verdict[w] \in VerdictsGiven
           /\ verdict[w].result \in Results
           /\ verdict[w].result.boundary \in Boundaries
           /\ verdict[w].word \in {"KEEP", "ESCALATE"}
  BY DEF TypeOK, VerdictsGiven, Results

LEMMA WaitingTyped ==
    ASSUME TypeOK, NEW w \in Windows, waiting[w] # Nothing
    PROVE  /\ waiting[w] \in VerdictsGiven
           /\ waiting[w].result \in Results
           /\ waiting[w].result.boundary \in Boundaries
           /\ waiting[w].word \in {"KEEP", "ESCALATE"}
  BY DEF TypeOK, VerdictsGiven, Results

LEMMA DropStaleTyped ==
    ASSUME TypeOK, layout' = layout, NEW w \in Windows, DropStale(w),
           verdict' = [verdict EXCEPT ![w] = Nothing]
    PROVE  TypeOK'
  <1>1. Attempt("queued") \in Attempts
    BY AttemptFacts DEF TypeOK, Phases
  <1>2. solves' \in [Windows -> Attempts]
    BY <1>1 DEF DropStale, Asks, TypeOK, Attempts
  <1>3. /\ verdict' \in [Windows -> VerdictsGiven \cup {Nothing}]
        /\ read' \in [Windows -> [state : ReadsOver(Windows),
                                  unconfirmed : SUBSET Windows] \cup {Nothing}]
        /\ stale' \subseteq Windows
    BY DEF DropStale, TypeOK
  <1>4. QED
    BY <1>2, <1>3, LayoutKept
    DEF DropStale, TypeOK, Attempts, courier, answers, results, MaybeBoundary

LEMMA CommitOnAGuessTyped ==
    ASSUME TypeOK, layout' = layout, NEW w \in Windows, verdict[w] # Nothing,
           CommitOnAGuess(w, verdict[w]),
           verdict' = [verdict EXCEPT ![w] = Nothing]
    PROVE  TypeOK'
  <1>1. verdict[w] \in VerdictsGiven /\ verdict[w].result \in Results
        /\ verdict[w].result.boundary \in Boundaries
    BY VerdictTyped
  <1>2. /\ UNCHANGED <<home, writes, final, delivered>>
        /\ committed' \subseteq Windows
        /\ prefix' \in [Streams -> SUBSET Windows]
        /\ released' \subseteq Segments
        /\ record' \in [Windows -> [version : Nat, committed : MaybeBoundary,
                                    held : BOOLEAN]]
        /\ revision' \in [Windows -> Results \cup {Nothing}]
    BY <1>1, CommitsProvisionallyTyped DEF CommitOnAGuess
  <1>3. flying' \subseteq [source : Windows, to : Windows, version : Nat,
                           boundary : Boundaries]
    BY <1>1, FlyingTyped DEF CommitOnAGuess
  <1>4. waiting' \in [Windows -> VerdictsGiven \cup {Nothing}]
        /\ verdict' \in [Windows -> VerdictsGiven \cup {Nothing}]
    BY <1>1 DEF CommitOnAGuess, TypeOK
  <1>5. UNCHANGED <<solves, boundaryIn, provisional, read, stale, strong>>
    BY DEF CommitOnAGuess
  <1>6. QED
    BY <1>2, <1>3, <1>4, <1>5, LayoutKept DEF TypeOK, MaybeBoundary

LEMMA SettleTyped ==
    ASSUME TypeOK, layout' = layout, NEW w \in Windows, verdict[w] # Nothing,
           Settle(w, verdict[w]),
           verdict' = [verdict EXCEPT ![w] = Nothing]
    PROVE  TypeOK'
  <1>1. verdict[w] \in VerdictsGiven /\ verdict[w].result \in Results
        /\ verdict[w].result.boundary \in Boundaries
    BY VerdictTyped
  <1>2. /\ verdict' \in [Windows -> VerdictsGiven \cup {Nothing}]
        /\ read' \in [Windows -> [state : ReadsOver(Windows),
                                  unconfirmed : SUBSET Windows] \cup {Nothing}]
        /\ UNCHANGED <<solves, boundaryIn, provisional, stale, waiting>>
    BY DEF Settle, TypeOK
  <1>3. CASE Keeps(w, verdict[w].result)
             /\ flying' = flying \cup Deliveries(w, verdict[w].result.boundary, TRUE)
    <2>1. /\ UNCHANGED <<strong, writes, results>>
          /\ record' \in [Windows -> [version : Nat, committed : MaybeBoundary,
                                       held : BOOLEAN]]
          /\ home' \in [Windows -> [result : Results, isLater : BOOLEAN]
                                        \cup {Nothing}]
          /\ revision' \in [Windows -> Results \cup {Nothing}]
      BY <1>1, <1>3, KeepsTyped
    <2>2. flying' \subseteq [source : Windows, to : Windows, version : Nat,
                             boundary : Boundaries]
      BY <1>1, <1>3, FlyingTyped
    <2>3. QED
      BY <1>2, <2>1, <2>2, LayoutKept DEF TypeOK, results, MaybeBoundary
  <1>4. CASE PlansRedo(w) /\ CommitsProvisionally(w, verdict[w].result)
             /\ flying' = flying \cup Deliveries(w, verdict[w].result.boundary, FALSE)
    <2>1. /\ UNCHANGED <<home, writes, final, delivered>>
          /\ committed' \subseteq Windows
          /\ prefix' \in [Streams -> SUBSET Windows]
          /\ released' \subseteq Segments
          /\ record' \in [Windows -> [version : Nat, committed : MaybeBoundary,
                                      held : BOOLEAN]]
          /\ revision' \in [Windows -> Results \cup {Nothing}]
      BY <1>1, <1>4, CommitsProvisionallyTyped
    <2>2. flying' \subseteq [source : Windows, to : Windows, version : Nat,
                             boundary : Boundaries]
      BY <1>1, <1>4, FlyingTyped
    <2>3. strong' \in [Windows -> [phase : {"pinning", "running"},
                                   reads : ReadsOver(Windows)] \cup {Nothing}]
      BY <1>4, PlansRedoTyped
    <2>4. QED
      BY <1>2, <2>1, <2>2, <2>3, LayoutKept DEF TypeOK, MaybeBoundary
  <1>5. QED
    BY <1>3, <1>4 DEF Settle

LEMMA MessageTyped ==
    ASSUME TypeOK, NEW m \in flying
    PROVE  /\ m.source \in Windows /\ m.to \in Windows
           /\ m.version \in Nat /\ m.boundary \in Boundaries
  BY DEF TypeOK

\* What landing does to the window it lands on, and to no other.
LEMMA MergesFacts ==
    ASSUME TypeOK, NEW m \in flying, Merges(m)
    PROVE  /\ IsCurrent(m)
           /\ boundaryIn' \in [Windows -> ReadsOver(Windows)]
           /\ \A w \in Windows : DOMAIN boundaryIn'[w] = Deps[w]
           /\ \A w \in Windows : \A d \in Deps[w] :
                boundaryIn'[w][d] = IF w = m.to /\ d = m.source THEN m.boundary
                                    ELSE boundaryIn[w][d]
           /\ \A w \in Windows : w # m.to => boundaryIn'[w] = boundaryIn[w]
           /\ provisional' \in [Windows -> SUBSET Windows]
           /\ provisional'[m.to] = IF IsFinal(m.source)
                                   THEN provisional[m.to] \ {m.source}
                                   ELSE provisional[m.to] \cup {m.source}
           /\ \A w \in Windows : w # m.to => provisional'[w] = provisional[w]
  <1>1. /\ m.source \in Windows /\ m.to \in Windows
        /\ m.boundary \in Boundaries
    BY MessageTyped
  <1>2. boundaryIn[m.to] \in [Deps[m.to] -> MaybeBoundary]
        /\ Deps[m.to] \in SUBSET Windows
    BY <1>1, BoundaryInTyped
  <1> DEFINE landed == [boundaryIn[m.to] EXCEPT ![m.source] = m.boundary]
  <1>3. landed \in [Deps[m.to] -> MaybeBoundary]
    BY <1>1, <1>2 DEF MaybeBoundary
  <1>4. landed \in ReadsOver(Windows)
    BY <1>2, <1>3, ReadsOverFacts
  <1>5. boundaryIn \in [Windows -> ReadsOver(Windows)]
        /\ \A w \in Windows : DOMAIN boundaryIn[w] = Deps[w]
        /\ provisional \in [Windows -> SUBSET Windows]
    BY DEF TypeOK
  <1>6. boundaryIn' = [boundaryIn EXCEPT ![m.to] = landed]
    BY DEF Merges
  <1>7. boundaryIn'[m.to] = landed
        /\ \A w \in Windows : w # m.to => boundaryIn'[w] = boundaryIn[w]
    BY <1>1, <1>5, <1>6
  <1>8. boundaryIn' \in [Windows -> ReadsOver(Windows)]
    BY <1>1, <1>4, <1>5, <1>6
  <1>9. DOMAIN landed = Deps[m.to]
    BY <1>3
  <1>10. \A w \in Windows : DOMAIN boundaryIn'[w] = Deps[w]
    BY <1>5, <1>7, <1>9
  <1>11. \A d \in Deps[m.to] :
            landed[d] = IF d = m.source THEN m.boundary ELSE boundaryIn[m.to][d]
    BY <1>2
  <1>12. \A w \in Windows : \A d \in Deps[w] :
            boundaryIn'[w][d] = IF w = m.to /\ d = m.source THEN m.boundary
                                ELSE boundaryIn[w][d]
    BY <1>7, <1>11
  <1>13. /\ provisional' \in [Windows -> SUBSET Windows]
         /\ provisional'[m.to] = IF IsFinal(m.source)
                                   THEN provisional[m.to] \ {m.source}
                                   ELSE provisional[m.to] \cup {m.source}
         /\ \A w \in Windows : w # m.to => provisional'[w] = provisional[w]
    BY <1>1, <1>5 DEF Merges
  <1>14. QED
    BY <1>7, <1>8, <1>10, <1>12, <1>13 DEF Merges

LEMMA MergedOthers ==
    ASSUME TypeOK, NEW m \in flying, Merges(m)
    PROVE  \A x \in Windows \ {m.to} : /\ boundaryIn'[x] = boundaryIn[x]
                                        /\ provisional'[x] = provisional[x]
  BY MergesFacts

LEMMA LandLateTyped ==
    ASSUME TypeOK, layout' = layout, NEW m \in flying, LandLate(m)
    PROVE  TypeOK'
  <1>1. flying' \subseteq [source : Windows, to : Windows, version : Nat,
                           boundary : Boundaries]
    BY DEF LandLate, TypeOK
  <1>2. QED
    BY <1>1, LayoutKept
    DEF LandLate, TypeOK, decoding, checks, answers, results, MaybeBoundary

LEMMA ReadTyped ==
    ASSUME TypeOK, NEW w \in Windows, read[w] # Nothing
    PROVE  read[w] \in [state : ReadsOver(Windows), unconfirmed : SUBSET Windows]
  BY DEF TypeOK

LEMMA LandQuietlyTyped ==
    ASSUME TypeOK, layout' = layout, NEW m \in flying, LandQuietly(m)
    PROVE  TypeOK'
  <1>1. m.to \in Windows
    BY MessageTyped
  <1>2. flying' \subseteq [source : Windows, to : Windows, version : Nat,
                           boundary : Boundaries]
    BY DEF LandQuietly, TypeOK
  <1>3. read' \in [Windows -> [state : ReadsOver(Windows),
                              unconfirmed : SUBSET Windows] \cup {Nothing}]
    <2>1. read \in [Windows -> [state : ReadsOver(Windows),
                              unconfirmed : SUBSET Windows] \cup {Nothing}]
      BY DEF TypeOK
    <2>2. CASE read' = read
      BY <2>1, <2>2
    <2>3. CASE /\ read[m.to] # Nothing
               /\ read' = [read EXCEPT ![m.to].unconfirmed =
                                StillUnsure(m.to, m.source)]
      <3>1. read[m.to] \in [state : ReadsOver(Windows), unconfirmed : SUBSET Windows]
        BY <1>1, <2>3, ReadTyped
      <3>2. StillUnsure(m.to, m.source) \in SUBSET Windows
        BY <3>1 DEF StillUnsure
      <3>3. [read[m.to] EXCEPT !.unconfirmed = StillUnsure(m.to, m.source)]
                \in [state : ReadsOver(Windows), unconfirmed : SUBSET Windows]
        BY <3>1, <3>2
      <3>4. QED
        BY <1>1, <2>1, <2>3, <3>3
    <2>4. QED
      BY <2>2, <2>3 DEF LandQuietly
  <1>4. Merges(m) /\ UNCHANGED <<decoding, record, stale, waiting, answers, results>>
    BY DEF LandQuietly
  <1>5. QED
    BY <1>2, <1>3, <1>4, MergesFacts, LayoutKept
    DEF TypeOK, decoding, answers, results, MaybeBoundary

LEMMA LandChangedTyped ==
    ASSUME TypeOK, layout' = layout, NEW m \in flying, LandChanged(m)
    PROVE  TypeOK'
  <1>1. m.to \in Windows
    BY MessageTyped
  <1>2. /\ flying' \subseteq [source : Windows, to : Windows, version : Nat,
                              boundary : Boundaries]
        /\ read' \in [Windows -> [state : ReadsOver(Windows),
                                  unconfirmed : SUBSET Windows] \cup {Nothing}]
    BY DEF LandChanged, TypeOK
  <1>3. Attempt("queued") \in Attempts
    BY AttemptFacts DEF TypeOK, Phases
  <1>4. /\ solves' \in [Windows -> Attempts]
        /\ stale' \subseteq Windows
        /\ waiting' \in [Windows -> VerdictsGiven \cup {Nothing}]
    <2>1. CASE waiting[m.to] = Nothing
      BY <1>1, <2>1 DEF LandChanged, TypeOK, Attempts
    <2>2. CASE waiting[m.to] # Nothing
      <3>1. solves' \in [Windows -> Attempts]
        BY <1>1, <1>3, <2>2 DEF LandChanged, Asks, TypeOK, Attempts
      <3>2. QED
        BY <1>1, <2>2, <3>1 DEF LandChanged, TypeOK
    <2>3. QED
      BY <2>1, <2>2
  <1>5. Merges(m) /\ UNCHANGED <<verdict, record, answers, results>>
    BY DEF LandChanged
  <1>6. QED
    BY <1>2, <1>4, <1>5, MergesFacts, LayoutKept
    DEF TypeOK, Attempts, answers, results, MaybeBoundary

LEMMA LandConfirmsTyped ==
    ASSUME TypeOK, layout' = layout, NEW m \in flying, LandConfirms(m)
    PROVE  TypeOK'
  <1> DEFINE w == m.to
             v == waiting[w]
  <1>1. w \in Windows
    BY MessageTyped
  <1>2. v \in VerdictsGiven /\ v.result \in Results /\ v.result.boundary \in Boundaries
    BY <1>1, WaitingTyped DEF LandConfirms
  <1>3. /\ waiting' \in [Windows -> VerdictsGiven \cup {Nothing}]
        /\ read' \in [Windows -> [state : ReadsOver(Windows),
                                  unconfirmed : SUBSET Windows] \cup {Nothing}]
    BY DEF LandConfirms, TypeOK
  <1>4. Merges(m) /\ UNCHANGED <<decoding, stale>>
    BY DEF LandConfirms
  <1>5. CASE /\ Keeps(w, v.result)
             /\ flying' = (flying \ {m}) \cup Deliveries(w, v.result.boundary, TRUE)
    <2>1. /\ UNCHANGED <<strong, writes, results>>
          /\ record' \in [Windows -> [version : Nat, committed : MaybeBoundary,
                                       held : BOOLEAN]]
          /\ home' \in [Windows -> [result : Results, isLater : BOOLEAN]
                                        \cup {Nothing}]
          /\ revision' \in [Windows -> Results \cup {Nothing}]
      BY <1>1, <1>2, <1>5, KeepsTyped
    <2>2. flying' \subseteq [source : Windows, to : Windows, version : Nat,
                             boundary : Boundaries]
      BY <1>1, <1>2, <1>5, FlyingTyped
    <2>3. QED
      BY <1>3, <1>4, <2>1, <2>2, MergesFacts, LayoutKept
      DEF TypeOK, decoding, results, MaybeBoundary
  <1>6. CASE /\ PlansRedo(w)
             /\ flying' = flying \ {m}
             /\ UNCHANGED <<record, revision, home, writes, results>>
    <2>1. strong' \in [Windows -> [phase : {"pinning", "running"},
                                   reads : ReadsOver(Windows)] \cup {Nothing}]
      BY <1>1, <1>6, PlansRedoTyped
    <2>2. flying' \subseteq [source : Windows, to : Windows, version : Nat,
                             boundary : Boundaries]
      BY <1>6 DEF TypeOK
    <2>3. QED
      BY <1>3, <1>4, <1>6, <2>1, <2>2, MergesFacts, LayoutKept
      DEF TypeOK, decoding, results, MaybeBoundary
  <1>7. QED
    BY <1>5, <1>6 DEF LandConfirms

LEMMA LandPinTyped ==
    ASSUME TypeOK, layout' = layout, NEW w \in Windows, LandPin(w)
    PROVE  TypeOK'
  <1>1. strong[w] \in [phase : {"pinning", "running"}, reads : ReadsOver(Windows)]
    BY DEF LandPin, TypeOK
  <1>2. [strong[w] EXCEPT !.phase = "running"]
            \in [phase : {"pinning", "running"}, reads : ReadsOver(Windows)]
    BY <1>1
  <1>3. strong' \in [Windows -> [phase : {"pinning", "running"},
                                 reads : ReadsOver(Windows)] \cup {Nothing}]
    BY <1>2 DEF LandPin, TypeOK
  <1>4. QED
    BY <1>3, LayoutKept
    DEF LandPin, TypeOK, decoding, courier, checks, results, MaybeBoundary

\* The revision that goes home is the redo's or the first.
LEMMA PicksTyped ==
    ASSUME TypeOK, NEW w \in Windows, strong[w] # Nothing, NEW b \in Boundaries,
           NEW chosen \in Picks(w, Result(strong[w].reads, b))
    PROVE  /\ chosen \in Results
           /\ \/ chosen = Result(strong[w].reads, b)
              \/ revision[w] # Nothing /\ chosen = revision[w]
  <1>1. strong[w].reads \in ReadsOver(Windows)
    BY DEF TypeOK
  <1>2. Result(strong[w].reads, b) \in Results
    BY <1>1 DEF Result, Results
  <1>3. \/ chosen = Result(strong[w].reads, b)
        \/ revision[w] # Nothing /\ chosen = revision[w]
    BY DEF Picks
  <1>4. revision[w] # Nothing => revision[w] \in Results
    BY DEF TypeOK
  <1>5. QED
    BY <1>2, <1>3, <1>4

LEMMA EndStrongTyped ==
    ASSUME TypeOK, layout' = layout, NEW w \in Windows, EndStrong(w)
    PROVE  TypeOK'
  <1>1. PICK chosen \in Results :
            /\ home' = [home EXCEPT ![w] = [result |-> chosen, isLater |-> TRUE]]
            /\ IF record[w].held
               THEN /\ record' = RecordAfter(w, chosen.boundary, TRUE)
                    /\ flying' = flying \cup Deliveries(w, chosen.boundary, TRUE)
               ELSE UNCHANGED <<record, flying>>
    BY PicksTyped DEF EndStrong
  <1>2. chosen \in Results
    BY <1>1
  <1>3. chosen.boundary \in Boundaries
    BY <1>2 DEF Results
  <1>4. /\ record' \in [Windows -> [version : Nat, committed : MaybeBoundary,
                                    held : BOOLEAN]]
        /\ flying' \subseteq [source : Windows, to : Windows, version : Nat,
                              boundary : Boundaries]
    <2>1. CASE record[w].held
      <3>1. record' \in [Windows -> [version : Nat, committed : MaybeBoundary,
                                     held : BOOLEAN]]
        <4>1. record' = RecordAfter(w, chosen.boundary, TRUE)
          BY <1>1, <2>1
        <4>2. QED
          BY <1>3, <4>1, RecordTyped
      <3>2. flying' \subseteq [source : Windows, to : Windows, version : Nat,
                               boundary : Boundaries]
        BY <1>1, <1>3, <2>1, FlyingTyped
      <3>3. QED
        BY <3>1, <3>2
    <2>2. CASE ~record[w].held
      BY <1>1, <2>2 DEF TypeOK
    <2>3. QED
      BY <2>1, <2>2
  <1>5. /\ home' \in [Windows -> [result : Results, isLater : BOOLEAN]
                                     \cup {Nothing}]
        /\ strong' \in [Windows -> [phase : {"pinning", "running"},
                                    reads : ReadsOver(Windows)] \cup {Nothing}]
        /\ revision' \in [Windows -> Results \cup {Nothing}]
    BY <1>1, <1>2 DEF EndStrong, TypeOK
  <1>6. QED
    BY <1>4, <1>5, LayoutKept
    DEF EndStrong, TypeOK, decoding, checks, results, MaybeBoundary

LEMMA LandHomeTyped ==
    ASSUME TypeOK, layout' = layout, NEW w \in Windows, LandHome(w)
    PROVE  TypeOK'
  <1>1. home[w].result \in Results
    BY DEF LandHome, TypeOK
  <1>2. /\ home' \in [Windows -> [result : Results, isLater : BOOLEAN]
                                     \cup {Nothing}]
        /\ writes' \in [Windows -> Nat]
        /\ final' \in [Windows -> Results \cup {Nothing}]
        /\ committed' \subseteq Windows
    BY <1>1 DEF LandHome, TypeOK
  <1>3. prefix' \in [Streams -> SUBSET Windows] /\ released' \subseteq Segments
    <2>1. CASE home[w].isLater
      BY <2>1 DEF LandHome, ReleasesSegments, TypeOK
    <2>2. CASE ~home[w].isLater
      BY <2>2, NotesCommittedTyped DEF LandHome
    <2>3. QED
      BY <2>1, <2>2
  <1>4. delivered' \subseteq Streams
    BY DeliversTyped DEF LandHome
  <1>5. QED
    BY <1>2, <1>3, <1>4, LayoutKept
    DEF LandHome, TypeOK, decoding, courier, checks, MaybeBoundary

LEMMA NextTyped ==
    ASSUME TypeOK, SolvesAreComplete, [Next]_vars
    PROVE  TypeOK'
  <1>1. CASE UNCHANGED vars
    BY <1>1, LayoutKept
    DEF vars, decoding, courier, checks, answers, results, TypeOK, MaybeBoundary
  <1>2. CASE Next
    <2>1. layout' = layout
      BY <1>2 DEF Next
    <2>2. ASSUME NEW w \in Windows, Decode(w)
          PROVE  TypeOK'
      BY <2>1, <2>2, RequestTyped, StartSolveTyped, HoldSolveTyped,
         JoinSolvesTyped, DropStaleTyped, CommitOnAGuessTyped, SettleTyped
      DEF Decode, GiveVerdict
    <2>3. ASSUME NEW w \in Windows, LandPin(w) \/ EndStrong(w) \/ LandHome(w)
          PROVE  TypeOK'
      BY <2>1, <2>3, LandPinTyped, EndStrongTyped, LandHomeTyped
    <2>4. ASSUME NEW m \in flying, LandBoundary(m)
          PROVE  TypeOK'
      BY <2>1, <2>4, LandLateTyped, LandQuietlyTyped, LandChangedTyped,
         LandConfirmsTyped DEF LandBoundary
    <2>5. QED
      BY <1>2, <2>2, <2>3, <2>4 DEF Next
  <1>3. QED
    BY <1>1, <1>2

\* An attempt that is asked again or over holds no answer.
LEMMA AttemptComplete ==
    ASSUME TypeOK, layout' = layout, SolvesAreComplete, NEW w \in Windows,
           NEW p \in {"queued", "joined"},
           solves' = [solves EXCEPT ![w] = Attempt(p)]
    PROVE  SolvesAreComplete'
  <1>1. \A i \in 1..Solves : Attempt(p)[i].phase = p
    BY DEF Attempt, Solve
  <1>2. \A i \in 1..Solves : solves'[w][i].phase = p
    <2>1. solves'[w] = Attempt(p)
      BY DEF TypeOK
    <2>2. QED
      BY <1>1, <2>1
  <1>3. \A x \in Windows : x # w => solves'[x] = solves[x]
    BY DEF TypeOK
  <1>4. QED
    BY <1>2, <1>3, LayoutKept DEF SolvesAreComplete

LEMMA SolvesStayComplete ==
    ASSUME TypeOK, SolvesAreComplete, [Next]_vars
    PROVE  SolvesAreComplete'
  <1>1. layout' = layout
    BY DEF Next, vars
  <1>2. CASE solves' = solves
    BY <1>1, <1>2, LayoutKept DEF SolvesAreComplete
  <1>3. ASSUME NEW w \in Windows, Asks(w)
        PROVE  SolvesAreComplete'
    BY <1>1, <1>3, AttemptComplete DEF Asks
  <1>4. ASSUME NEW w \in Windows, NEW i \in 1..Solves, StartSolve(w, i)
        PROVE  SolvesAreComplete'
    <2>1. Result(boundaryIn[w], NoBoundary) \in Begun
      BY BoundaryInTyped DEF Result, Begun
    <2>3. \A x \in Windows : \A j \in 1..Solves :
            solves'[x][j] = IF x = w /\ j = i
                            THEN Solve("running", Result(boundaryIn[w], NoBoundary))
                            ELSE solves[x][j]
      BY <1>4, StartSolvePoints
    <2>4. QED
      BY <1>1, <2>1, <2>3, LayoutKept DEF SolvesAreComplete, Solve
  <1>5. ASSUME NEW w \in Windows, NEW i \in 1..Solves, HoldSolve(w, i)
        PROVE  SolvesAreComplete'
    <2>1. PICK r \in Results :
            \A x \in Windows : \A j \in 1..Solves :
                solves'[x][j] = IF x = w /\ j = i THEN Solve("held", r)
                                ELSE solves[x][j]
      BY <1>5, HoldSolvePoints
    <2>2. QED
      BY <1>1, <2>1, LayoutKept DEF SolvesAreComplete, Solve
  <1>6. ASSUME NEW w \in Windows, NEW i \in 1..Solves, JoinSolves(w, i)
        PROVE  SolvesAreComplete'
    BY <1>1, <1>6, AttemptComplete DEF JoinSolves
  <1>7. ASSUME NEW w \in Windows, GiveVerdict(w)
        PROVE  solves' = solves \/ Asks(w)
    BY <1>7 DEF GiveVerdict, DropStale, CommitOnAGuess, Settle
  <1>8. ASSUME NEW w \in Windows, LandPin(w) \/ EndStrong(w) \/ LandHome(w)
        PROVE  solves' = solves
    BY <1>8 DEF LandPin, EndStrong, LandHome, decoding
  <1>9. ASSUME NEW m \in flying, LandBoundary(m)
        PROVE  solves' = solves \/ Asks(m.to)
    BY <1>9 DEF LandBoundary, LandLate, LandQuietly, LandChanged, LandConfirms,
                decoding
  <1>10. ASSUME NEW w \in Windows, Request(w)
         PROVE  Asks(w)
    BY <1>10 DEF Request
  <1>11. ASSUME NEW m \in flying
         PROVE  m.to \in Windows
    BY MessageTyped
  <1>12. CASE UNCHANGED vars
    BY <1>2, <1>12 DEF vars, decoding
  <1>13. QED
    BY <1>2, <1>3, <1>4, <1>5, <1>6, <1>7, <1>8, <1>9, <1>10, <1>11, <1>12
    DEF Next, Decode

-----------------------------------------------------------------------------
(* A window is at one stage at a time *)

\* A window's stage is what these variables say of it.
StageAt(w) == <<solves[w], verdict[w], waiting[w], strong[w], home[w], final[w],
                writes[w], record[w]>>

LEMMA StageOfOthers ==
    ASSUME layout' = layout, StageInv, NEW w \in Windows,
           \A x \in Windows \ {w} : StageAt(x)' = StageAt(x),
           StageOf(w)'
    PROVE  StageInv'
  <1>1. ASSUME NEW x \in Windows, x # w
        PROVE  StageOf(x)'
    <2>1. /\ solves'[x] = solves[x] /\ verdict'[x] = verdict[x]
          /\ waiting'[x] = waiting[x] /\ strong'[x] = strong[x]
          /\ home'[x] = home[x] /\ final'[x] = final[x]
          /\ writes'[x] = writes[x] /\ record'[x] = record[x]
      BY <1>1 DEF StageAt
    <2>2. StageOf(x) /\ Attempt("joined")' = Attempt("joined")
      BY <1>1, LayoutKept DEF StageInv
    <2>3. AttemptIsOver(x)' = AttemptIsOver(x) /\ AnswerOf(x)' = AnswerOf(x)
          /\ IsFinal(x)' = IsFinal(x)
      BY <2>1, <2>2 DEF AttemptIsOver, AnswerOf, IsFinal
    <2>4. OneStage(x)'
      BY <2>1, <2>2, <2>3 DEF StageOf, OneStage
    <2>5. BoundaryIsHeld(x)'
      BY <2>1, <2>2, <2>3 DEF StageOf, BoundaryIsHeld
    <2>6. WritesAreFinal(x)'
      BY <2>1, <2>2 DEF StageOf, WritesAreFinal
    <2>7. QED
      BY <2>4, <2>5, <2>6 DEF StageOf
  <1>2. QED
    BY <1>1, LayoutKept DEF StageInv

\* A step that leaves these variables alone leaves every stage.
LEMMA StageOfAll ==
    ASSUME layout' = layout, StageInv,
           UNCHANGED <<solves, verdict, waiting, strong, home, final, writes, record>>
    PROVE  StageInv'
  <1>1. ASSUME NEW w \in Windows
        PROVE  StageOf(w)'
    <2>1. StageOf(w) /\ Attempt("joined")' = Attempt("joined")
      BY LayoutKept DEF StageInv
    <2>2. AttemptIsOver(w)' = AttemptIsOver(w) /\ AnswerOf(w)' = AnswerOf(w)
          /\ IsFinal(w)' = IsFinal(w)
      BY <2>1 DEF AttemptIsOver, AnswerOf, IsFinal
    <2>3. QED
      BY <2>1, <2>2 DEF StageOf, OneStage, BoundaryIsHeld, WritesAreFinal
  <1>2. QED
    BY <1>1, LayoutKept DEF StageInv

\* A window with a solve to come has nothing later.
LEMMA AskedFacts ==
    ASSUME TypeOK, StageInv, NEW w \in Windows, ~AttemptIsOver(w)
    PROVE  /\ verdict[w] = Nothing /\ waiting[w] = Nothing
           /\ strong[w] = Nothing /\ AnswerOf(w) = Nothing
  BY DEF StageInv, StageOf, OneStage

LEMMA UnjoinedFacts ==
    ASSUME NEW w \in Windows, NEW i \in 1..Solves, solves[w][i].phase # "joined"
    PROVE  ~AttemptIsOver(w)
  <1>1. Attempt("joined")[i].phase = "joined"
    BY DEF Attempt, Solve
  <1>2. QED
    BY <1>1 DEF AttemptIsOver

\* An answer that is not there yet is neither on its way nor final.
LEMMA AnswerFacts ==
    ASSUME TypeOK, NEW w \in Windows
    PROVE  /\ AnswerOf(w) = Nothing <=> home[w] = Nothing /\ final[w] = Nothing
           /\ home[w] # Nothing => home[w].result \in Results
           /\ AnswerOf(w) \in Results \cup {Nothing}
  <1>1. home[w] # Nothing => home[w].result \in Results /\ home[w].result # Nothing
    BY SomethingFacts DEF TypeOK
  <1>2. final[w] \in Results \cup {Nothing}
    BY DEF TypeOK
  <1>3. QED
    BY <1>1, <1>2 DEF AnswerOf

\* A window whose solves alone change stays as asked as it was.
LEMMA AskingStage ==
    ASSUME TypeOK, layout' = layout, StageInv, NEW w \in Windows,
           ~AttemptIsOver(w),
           \A x \in Windows \ {w} : solves'[x] = solves[x],
           UNCHANGED <<verdict, waiting, strong, home, final, writes, record>>
    PROVE  StageInv'
  <1>1. /\ verdict[w] = Nothing /\ waiting[w] = Nothing
        /\ strong[w] = Nothing /\ AnswerOf(w) = Nothing
    BY AskedFacts
  <1>2. AnswerOf(w)' = AnswerOf(w) /\ IsFinal(w)' = IsFinal(w)
    BY DEF AnswerOf, IsFinal
  <1>3. StageOf(w)
    BY DEF StageInv
  <1>4. StageOf(w)'
    BY <1>1, <1>2, <1>3 DEF StageOf, OneStage, BoundaryIsHeld, WritesAreFinal
  <1>5. \A x \in Windows \ {w} : StageAt(x)' = StageAt(x)
    BY DEF StageAt
  <1>6. QED
    BY <1>4, <1>5, StageOfOthers

LEMMA RequestStage ==
    ASSUME TypeOK, layout' = layout, StageInv, NEW w \in Windows, Request(w)
    PROVE  StageInv'
  <1>1. ~AttemptIsOver(w)
    BY AttemptFacts DEF Request, AttemptIsOver, TypeOK
  <1>2. \A x \in Windows \ {w} : solves'[x] = solves[x]
    BY DEF Request, Asks, TypeOK
  <1>3. UNCHANGED <<verdict, waiting, strong, home, final, writes, record>>
    BY DEF Request, courier, checks, answers, results
  <1>4. QED
    BY <1>1, <1>2, <1>3, AskingStage

LEMMA StartSolveStage ==
    ASSUME TypeOK, layout' = layout, StageInv, NEW w \in Windows,
           NEW i \in 1..Solves, StartSolve(w, i)
    PROVE  StageInv'
  <1>1. ~AttemptIsOver(w)
    BY UnjoinedFacts DEF StartSolve
  <1>2. \A x \in Windows \ {w} : solves'[x] = solves[x]
    BY DEF StartSolve, TypeOK
  <1>3. UNCHANGED <<verdict, waiting, strong, home, final, writes, record>>
    BY DEF StartSolve, courier, answers, results
  <1>4. QED
    BY <1>1, <1>2, <1>3, AskingStage

LEMMA HoldSolveStage ==
    ASSUME TypeOK, layout' = layout, SolvesAreComplete, StageInv, NEW w \in Windows,
           NEW i \in 1..Solves, HoldSolve(w, i)
    PROVE  StageInv'
  <1>1. ~AttemptIsOver(w)
    BY UnjoinedFacts DEF HoldSolve
  <1>2. \A x \in Windows \ {w} : solves'[x] = solves[x]
    <2>1. PICK r \in Results :
            solves' = [solves EXCEPT ![w] =
                            [solves[w] EXCEPT ![i] = Solve("held", r)]]
      BY HoldSolveFacts
    <2>2. QED
      BY <2>1 DEF TypeOK
  <1>3. UNCHANGED <<verdict, waiting, strong, home, final, writes, record>>
    BY DEF HoldSolve, courier, checks, answers, results
  <1>4. QED
    BY <1>1, <1>2, <1>3, AskingStage

LEMMA JoinSolvesStage ==
    ASSUME TypeOK, layout' = layout, StageInv, NEW w \in Windows,
           NEW i \in 1..Solves, JoinSolves(w, i)
    PROVE  StageInv'
  <1>1. ~AttemptIsOver(w)
    BY UnjoinedFacts DEF JoinSolves
  <1>2. /\ verdict[w] = Nothing /\ waiting[w] = Nothing
        /\ strong[w] = Nothing /\ AnswerOf(w) = Nothing
    BY <1>1, AskedFacts
  <1>3. UNCHANGED <<waiting, strong, home, final, writes, record>>
    BY DEF JoinSolves, courier, checks, answers, results
  <1>4. AttemptIsOver(w)'
    BY LayoutKept DEF JoinSolves, AttemptIsOver, TypeOK
  <1>5. AnswerOf(w)' = AnswerOf(w) /\ IsFinal(w)' = IsFinal(w)
    BY <1>3 DEF AnswerOf, IsFinal
  <1>6. StageOf(w)
    BY DEF StageInv
  <1>7. StageOf(w)'
    BY <1>2, <1>3, <1>4, <1>5, <1>6
    DEF StageOf, OneStage, BoundaryIsHeld, WritesAreFinal
  <1>8. \A x \in Windows \ {w} : StageAt(x)' = StageAt(x)
    BY <1>3 DEF StageAt, JoinSolves, TypeOK
  <1>9. QED
    BY <1>7, <1>8, StageOfOthers

\* What a verdict to apply says of its window.
LEMMA JudgedFacts ==
    ASSUME TypeOK, StageInv, NEW w \in Windows, verdict[w] # Nothing
    PROVE  /\ AttemptIsOver(w) /\ waiting[w] = Nothing /\ strong[w] = Nothing
           /\ AnswerOf(w) = Nothing /\ ~IsFinal(w)
           /\ home[w] = Nothing /\ final[w] = Nothing /\ writes[w] = 0
  <1>1. StageOf(w)
    BY DEF StageInv
  <1>2. /\ AttemptIsOver(w) /\ waiting[w] = Nothing /\ strong[w] = Nothing
        /\ AnswerOf(w) = Nothing /\ ~IsFinal(w)
    BY <1>1 DEF StageOf, OneStage, BoundaryIsHeld
  <1>3. home[w] = Nothing /\ final[w] = Nothing
    BY <1>2, AnswerFacts
  <1>4. QED
    BY <1>1, <1>2, <1>3 DEF StageOf, WritesAreFinal

LEMMA WaitingFacts ==
    ASSUME TypeOK, StageInv, NEW w \in Windows, waiting[w] # Nothing
    PROVE  /\ AttemptIsOver(w) /\ verdict[w] = Nothing /\ strong[w] = Nothing
           /\ AnswerOf(w) = Nothing /\ ~IsFinal(w) /\ record[w].held
           /\ home[w] = Nothing /\ final[w] = Nothing /\ writes[w] = 0
  <1>1. StageOf(w)
    BY DEF StageInv
  <1>2. /\ AttemptIsOver(w) /\ verdict[w] = Nothing /\ strong[w] = Nothing
        /\ AnswerOf(w) = Nothing /\ ~IsFinal(w) /\ record[w].held
    BY <1>1 DEF StageOf, OneStage, BoundaryIsHeld
  <1>3. home[w] = Nothing /\ final[w] = Nothing
    BY <1>2, AnswerFacts
  <1>4. QED
    BY <1>1, <1>2, <1>3 DEF StageOf, WritesAreFinal

LEMMA RedoneFacts ==
    ASSUME TypeOK, StageInv, NEW w \in Windows, strong[w] # Nothing
    PROVE  /\ AttemptIsOver(w) /\ verdict[w] = Nothing /\ waiting[w] = Nothing
           /\ AnswerOf(w) = Nothing /\ ~IsFinal(w) /\ record[w].held
           /\ home[w] = Nothing /\ final[w] = Nothing /\ writes[w] = 0
  <1>1. StageOf(w)
    BY DEF StageInv
  <1>2. /\ AttemptIsOver(w) /\ verdict[w] = Nothing /\ waiting[w] = Nothing
        /\ AnswerOf(w) = Nothing /\ ~IsFinal(w) /\ record[w].held
    BY <1>1 DEF StageOf, OneStage, BoundaryIsHeld
  <1>3. home[w] = Nothing /\ final[w] = Nothing
    BY <1>2, AnswerFacts
  <1>4. QED
    BY <1>1, <1>2, <1>3 DEF StageOf, WritesAreFinal

\* A window committed for now is held and not answered.
LEMMA HeldStage ==
    ASSUME layout' = layout, NEW w \in Windows,
           AttemptIsOver(w), solves'[w] = solves[w], verdict'[w] = Nothing,
           waiting'[w] = Nothing \/ strong'[w] = Nothing,
           AnswerOf(w) = Nothing, home[w] = Nothing, final[w] = Nothing,
           home'[w] = home[w], final'[w] = final[w], writes[w] = 0,
           writes'[w] = writes[w], record'[w].held
    PROVE  StageOf(w)'
  <1>1. AttemptIsOver(w)'
    BY LayoutKept DEF AttemptIsOver
  <1>2. AnswerOf(w)' = Nothing
    BY DEF AnswerOf
  <1>3. OneStage(w)'
    BY <1>1, <1>2 DEF OneStage
  <1>4. BoundaryIsHeld(w)'
    BY <1>2 DEF BoundaryIsHeld, IsFinal
  <1>5. WritesAreFinal(w)'
    BY DEF WritesAreFinal
  <1>6. QED
    BY <1>3, <1>4, <1>5 DEF StageOf

\* A window whose result leaves for the frame has made its boundary final.
LEMMA AnsweredStage ==
    ASSUME TypeOK, layout' = layout, NEW w \in Windows, NEW result \in Results,
           NEW later \in BOOLEAN,
           AttemptIsOver(w), solves'[w] = solves[w], verdict'[w] = Nothing,
           waiting'[w] = Nothing, strong'[w] = Nothing,
           home'[w] = [result |-> result, isLater |-> later],
           final[w] = Nothing, final'[w] = final[w],
           writes[w] = 0, writes'[w] = writes[w],
           record' = Finalized(w, result.boundary)
    PROVE  StageOf(w)'
  <1>1. AttemptIsOver(w)'
    BY LayoutKept DEF AttemptIsOver
  <1>2. home'[w] # Nothing
    BY SomethingFacts
  <1>3. AnswerOf(w)' = result
    BY <1>2 DEF AnswerOf
  <1>4. result.boundary \in Boundaries
    BY DEF Results
  <1>5. record'[w].version > 0
        /\ record'[w].committed = result.boundary
        /\ ~record'[w].held
    BY <1>4, FinalizedFacts
  <1>6. IsFinal(w)'
    BY <1>5 DEF IsFinal
  <1>7. result # Nothing
    BY SomethingFacts
  <1>8. OneStage(w)'
    BY <1>1 DEF OneStage
  <1>9. BoundaryIsHeld(w)'
    BY <1>3, <1>5, <1>6, <1>7 DEF BoundaryIsHeld
  <1>10. WritesAreFinal(w)'
    BY DEF WritesAreFinal
  <1>11. QED
    BY <1>8, <1>9, <1>10 DEF StageOf

LEMMA DropStaleStage ==
    ASSUME TypeOK, layout' = layout, StageInv, NEW w \in Windows,
           verdict[w] # Nothing, DropStale(w),
           verdict' = [verdict EXCEPT ![w] = Nothing]
    PROVE  StageInv'
  <1>1. /\ waiting[w] = Nothing /\ strong[w] = Nothing
        /\ AnswerOf(w) = Nothing /\ ~IsFinal(w)
        /\ home[w] = Nothing /\ final[w] = Nothing /\ writes[w] = 0
    BY JudgedFacts
  <1>2. UNCHANGED <<waiting, strong, home, final, writes, record>>
    BY DEF DropStale, courier, answers, results
  <1>3. /\ verdict'[w] = Nothing
        /\ \A x \in Windows \ {w} : verdict'[x] = verdict[x] /\ solves'[x] = solves[x]
    BY DEF DropStale, Asks, TypeOK
  <1>4. AnswerOf(w)' = Nothing /\ ~IsFinal(w)'
    BY <1>1, <1>2 DEF AnswerOf, IsFinal
  <1>5. StageOf(w)'
    BY <1>1, <1>2, <1>3, <1>4
    DEF StageOf, OneStage, BoundaryIsHeld, WritesAreFinal
  <1>6. \A x \in Windows \ {w} : StageAt(x)' = StageAt(x)
    BY <1>2, <1>3 DEF StageAt
  <1>7. QED
    BY <1>5, <1>6, StageOfOthers

LEMMA CommitOnAGuessStage ==
    ASSUME TypeOK, layout' = layout, StageInv, NEW w \in Windows,
           verdict[w] # Nothing, CommitOnAGuess(w, verdict[w]),
           verdict' = [verdict EXCEPT ![w] = Nothing]
    PROVE  StageInv'
  <1>1. /\ AttemptIsOver(w) /\ waiting[w] = Nothing /\ strong[w] = Nothing
        /\ AnswerOf(w) = Nothing /\ home[w] = Nothing /\ final[w] = Nothing
        /\ writes[w] = 0
    BY JudgedFacts
  <1>2. verdict[w].result.boundary \in Boundaries
    BY VerdictTyped
  <1>3. UNCHANGED <<solves, strong, home, final, writes>>
    BY DEF CommitOnAGuess, CommitsProvisionally
  <1>4. record' = HeldBack(w, verdict[w].result.boundary)
    BY CommitHoldsBack DEF CommitOnAGuess
  <1>5. record'[w].held /\ \A x \in Windows \ {w} : record'[x] = record[x]
    BY <1>2, <1>4, HeldBackFacts
  <1>6. /\ verdict'[w] = Nothing
        /\ \A x \in Windows \ {w} :
             verdict'[x] = verdict[x] /\ waiting'[x] = waiting[x]
    BY DEF CommitOnAGuess, TypeOK
  <1>7. StageOf(w)'
    BY <1>1, <1>3, <1>5, <1>6, HeldStage
  <1>8. \A x \in Windows \ {w} : StageAt(x)' = StageAt(x)
    BY <1>3, <1>5, <1>6 DEF StageAt
  <1>9. QED
    BY <1>7, <1>8, StageOfOthers

LEMMA SettleStage ==
    ASSUME TypeOK, layout' = layout, StageInv, NEW w \in Windows,
           verdict[w] # Nothing, Settle(w, verdict[w]),
           verdict' = [verdict EXCEPT ![w] = Nothing]
    PROVE  StageInv'
  <1>1. /\ AttemptIsOver(w) /\ waiting[w] = Nothing /\ strong[w] = Nothing
        /\ AnswerOf(w) = Nothing /\ home[w] = Nothing /\ final[w] = Nothing
        /\ writes[w] = 0
    BY JudgedFacts
  <1>2. /\ verdict[w].result \in Results
        /\ verdict[w].result.boundary \in Boundaries
    BY VerdictTyped
  <1>3. /\ verdict'[w] = Nothing
        /\ \A x \in Windows \ {w} : verdict'[x] = verdict[x]
        /\ UNCHANGED <<solves, waiting>>
    BY DEF Settle, TypeOK
  <1>4. CASE Keeps(w, verdict[w].result)
    <2>1. record' = Finalized(w, verdict[w].result.boundary)
          /\ UNCHANGED <<strong, final, writes>>
      BY <1>4, KeepsFinalizes DEF Keeps, results
    <2>2. \A x \in Windows \ {w} : record'[x] = record[x]
      BY <1>2, <2>1, FinalizedFacts
    <2>3. home'[w] = [result |-> verdict[w].result, isLater |-> FALSE]
          /\ \A x \in Windows \ {w} : home'[x] = home[x]
      BY <1>4 DEF Keeps, TypeOK
    <2>4. StageOf(w)'
      BY <1>1, <1>2, <1>3, <2>1, <2>3, AnsweredStage
    <2>5. \A x \in Windows \ {w} : StageAt(x)' = StageAt(x)
      BY <1>3, <2>1, <2>2, <2>3 DEF StageAt
    <2>6. QED
      BY <2>4, <2>5, StageOfOthers
  <1>5. CASE PlansRedo(w) /\ CommitsProvisionally(w, verdict[w].result)
    <2>1. record' = HeldBack(w, verdict[w].result.boundary)
          /\ UNCHANGED <<home, final, writes>>
      BY <1>5, CommitHoldsBack DEF CommitsProvisionally
    <2>2. record'[w].held /\ \A x \in Windows \ {w} : record'[x] = record[x]
      BY <1>2, <2>1, HeldBackFacts
    <2>3. \A x \in Windows \ {w} : strong'[x] = strong[x]
      BY <1>5 DEF PlansRedo, TypeOK
    <2>4. StageOf(w)'
      BY <1>1, <1>3, <2>1, <2>2, HeldStage
    <2>5. \A x \in Windows \ {w} : StageAt(x)' = StageAt(x)
      BY <1>3, <2>1, <2>2, <2>3 DEF StageAt
    <2>6. QED
      BY <2>4, <2>5, StageOfOthers
  <1>6. QED
    BY <1>4, <1>5 DEF Settle

LEMMA LandChangedStage ==
    ASSUME TypeOK, layout' = layout, StageInv, NEW m \in flying, LandChanged(m)
    PROVE  StageInv'
  <1> DEFINE w == m.to
  <1>1. w \in Windows
    BY MessageTyped
  <1>2. UNCHANGED <<verdict, strong, home, final, writes, record>>
    BY DEF LandChanged, answers, results
  <1>3. CASE waiting[w] = Nothing
    <2>1. UNCHANGED <<solves, waiting>>
      BY <1>3 DEF LandChanged
    <2>2. QED
      BY <1>2, <2>1, StageOfAll
  <1>4. CASE waiting[w] # Nothing
    <2>1. /\ verdict[w] = Nothing /\ strong[w] = Nothing
          /\ AnswerOf(w) = Nothing /\ ~IsFinal(w)
          /\ home[w] = Nothing /\ final[w] = Nothing /\ writes[w] = 0
      BY <1>1, <1>4, WaitingFacts
    <2>2. /\ waiting'[w] = Nothing
          /\ \A x \in Windows \ {w} : waiting'[x] = waiting[x] /\ solves'[x] = solves[x]
      BY <1>1, <1>4 DEF LandChanged, Asks, TypeOK
    <2>3. AnswerOf(w)' = Nothing /\ ~IsFinal(w)'
      BY <1>2, <2>1 DEF AnswerOf, IsFinal
    <2>4. StageOf(w)'
      BY <1>2, <2>1, <2>2, <2>3
      DEF StageOf, OneStage, BoundaryIsHeld, WritesAreFinal
    <2>5. \A x \in Windows \ {w} : StageAt(x)' = StageAt(x)
      BY <1>2, <2>2 DEF StageAt
    <2>6. QED
      BY <1>1, <2>4, <2>5, StageOfOthers
  <1>5. QED
    BY <1>3, <1>4

LEMMA LandConfirmsStage ==
    ASSUME TypeOK, layout' = layout, StageInv, NEW m \in flying, LandConfirms(m)
    PROVE  StageInv'
  <1> DEFINE w == m.to
             v == waiting[w]
  <1>1. w \in Windows
    BY MessageTyped
  <1>2. v # Nothing /\ UNCHANGED <<solves, verdict>>
    BY DEF LandConfirms, decoding
  <1>3. v.result \in Results /\ v.result.boundary \in Boundaries
    BY <1>1, <1>2, WaitingTyped
  <1>4. /\ AttemptIsOver(w) /\ verdict[w] = Nothing /\ strong[w] = Nothing
        /\ AnswerOf(w) = Nothing /\ record[w].held
        /\ home[w] = Nothing /\ final[w] = Nothing /\ writes[w] = 0
    BY <1>1, <1>2, WaitingFacts
  <1>5. /\ waiting'[w] = Nothing
        /\ \A x \in Windows \ {w} : waiting'[x] = waiting[x]
    BY <1>1 DEF LandConfirms, TypeOK
  <1>6. CASE Keeps(w, v.result)
    <2>1. record' = Finalized(w, v.result.boundary)
          /\ UNCHANGED <<strong, final, writes>>
      BY <1>1, <1>6, KeepsFinalizes DEF Keeps, results
    <2>2. \A x \in Windows \ {w} : record'[x] = record[x]
      BY <1>1, <1>3, <2>1, FinalizedFacts
    <2>3. home'[w] = [result |-> v.result, isLater |-> FALSE]
          /\ \A x \in Windows \ {w} : home'[x] = home[x]
      BY <1>1, <1>6 DEF Keeps, TypeOK
    <2>4. StageOf(w)'
      BY <1>1, <1>2, <1>3, <1>4, <1>5, <2>1, <2>3, AnsweredStage
    <2>5. \A x \in Windows \ {w} : StageAt(x)' = StageAt(x)
      BY <1>2, <1>5, <2>1, <2>2, <2>3 DEF StageAt
    <2>6. QED
      BY <1>1, <2>4, <2>5, StageOfOthers
  <1>7. CASE PlansRedo(w) /\ UNCHANGED <<record, revision, home, writes, results>>
    <2>1. UNCHANGED <<record, home, writes, final>>
      BY <1>7 DEF results
    <2>2. \A x \in Windows \ {w} : strong'[x] = strong[x]
      BY <1>1, <1>7 DEF PlansRedo, TypeOK
    <2>3. StageOf(w)'
      BY <1>1, <1>2, <1>4, <1>5, <2>1, HeldStage
    <2>4. \A x \in Windows \ {w} : StageAt(x)' = StageAt(x)
      BY <1>2, <1>5, <2>1, <2>2 DEF StageAt
    <2>5. QED
      BY <1>1, <2>3, <2>4, StageOfOthers
  <1>8. QED
    BY <1>6, <1>7 DEF LandConfirms

LEMMA LandPinStage ==
    ASSUME TypeOK, layout' = layout, StageInv, NEW w \in Windows, LandPin(w)
    PROVE  StageInv'
  <1>1. UNCHANGED <<solves, verdict, waiting, home, final, writes, record>>
    BY DEF LandPin, decoding, courier, checks, results
  <1>2. /\ AttemptIsOver(w) /\ verdict[w] = Nothing /\ waiting[w] = Nothing
        /\ AnswerOf(w) = Nothing /\ record[w].held
        /\ home[w] = Nothing /\ final[w] = Nothing /\ writes[w] = 0
    BY RedoneFacts DEF LandPin
  <1>3. \A x \in Windows \ {w} : strong'[x] = strong[x]
    BY DEF LandPin, TypeOK
  <1>4. StageOf(w)'
    BY <1>1, <1>2, HeldStage
  <1>5. \A x \in Windows \ {w} : StageAt(x)' = StageAt(x)
    BY <1>1, <1>3 DEF StageAt
  <1>6. QED
    BY <1>4, <1>5, StageOfOthers

\* The redo ends with a result, whose boundary is made final.
LEMMA EndStrongFacts ==
    ASSUME TypeOK, StageInv, NEW w \in Windows, EndStrong(w)
    PROVE  \E b \in Boundaries, chosen \in Results :
            /\ \/ chosen = Result(strong[w].reads, b)
               \/ revision[w] # Nothing /\ chosen = revision[w]
            /\ home' = [home EXCEPT ![w] = [result |-> chosen, isLater |-> TRUE]]
            /\ record' = Finalized(w, chosen.boundary)
            /\ flying' = flying \cup
                            {[source |-> w, to |-> x, version |-> record[w].version + 1,
                              boundary |-> chosen.boundary] : x \in Dependents(w)}
  <1>1. record[w].held /\ strong[w] # Nothing
    BY RedoneFacts DEF EndStrong
  <1>2. PICK b \in Boundaries :
          \E chosen \in Picks(w, Result(strong[w].reads, b)) :
            /\ home' = [home EXCEPT ![w] = [result |-> chosen, isLater |-> TRUE]]
            /\ record' = Finalized(w, chosen.boundary)
            /\ flying' = flying \cup
                            {[source |-> w, to |-> x, version |-> record[w].version + 1,
                              boundary |-> chosen.boundary] : x \in Dependents(w)}
    <2>1. PICK b \in Boundaries :
            \E chosen \in Picks(w, Result(strong[w].reads, b)) :
                /\ home' = [home EXCEPT ![w] = [result |-> chosen, isLater |-> TRUE]]
                /\ record' = RecordAfter(w, chosen.boundary, TRUE)
                /\ flying' = flying \cup Deliveries(w, chosen.boundary, TRUE)
      BY <1>1 DEF EndStrong
    <2>2. \A value : RecordAfter(w, value, TRUE) = Finalized(w, value)
      BY DEF RecordAfter, Ships, Finalized, TypeOK
    <2>3. \A value : Deliveries(w, value, TRUE) =
            {[source |-> w, to |-> x, version |-> record[w].version + 1,
              boundary |-> value] : x \in Dependents(w)}
      BY DEF Deliveries, Ships
    <2>4. QED
      BY <2>1, <2>2, <2>3
  <1>3. PICK chosen \in Picks(w, Result(strong[w].reads, b)) :
            /\ home' = [home EXCEPT ![w] = [result |-> chosen, isLater |-> TRUE]]
            /\ record' = Finalized(w, chosen.boundary)
            /\ flying' = flying \cup
                            {[source |-> w, to |-> x, version |-> record[w].version + 1,
                              boundary |-> chosen.boundary] : x \in Dependents(w)}
    BY <1>2
  <1>4. /\ chosen \in Results
        /\ \/ chosen = Result(strong[w].reads, b)
           \/ revision[w] # Nothing /\ chosen = revision[w]
    BY <1>1, PicksTyped
  <1>5. QED
    BY <1>3, <1>4

LEMMA EndStrongStage ==
    ASSUME TypeOK, layout' = layout, StageInv, NEW w \in Windows, EndStrong(w)
    PROVE  StageInv'
  <1>1. PICK chosen \in Results :
            /\ home' = [home EXCEPT ![w] = [result |-> chosen, isLater |-> TRUE]]
            /\ record' = Finalized(w, chosen.boundary)
    BY EndStrongFacts
  <1>2. chosen.boundary \in Boundaries
    BY DEF Results
  <1>3. UNCHANGED <<solves, verdict, waiting, final, writes>>
    BY DEF EndStrong, decoding, checks, results
  <1>4. /\ AttemptIsOver(w) /\ verdict[w] = Nothing /\ waiting[w] = Nothing
        /\ home[w] = Nothing /\ final[w] = Nothing /\ writes[w] = 0
    BY RedoneFacts DEF EndStrong
  <1>5. /\ strong'[w] = Nothing
        /\ \A x \in Windows \ {w} : strong'[x] = strong[x]
    BY DEF EndStrong, TypeOK
  <1>6. /\ home'[w] = [result |-> chosen, isLater |-> TRUE]
        /\ \A x \in Windows \ {w} : home'[x] = home[x]
    BY <1>1 DEF TypeOK
  <1>7. \A x \in Windows \ {w} : record'[x] = record[x]
    BY <1>1, <1>2, FinalizedFacts
  <1>8. StageOf(w)'
    BY <1>1, <1>3, <1>4, <1>5, <1>6, AnsweredStage
  <1>9. \A x \in Windows \ {w} : StageAt(x)' = StageAt(x)
    BY <1>3, <1>5, <1>6, <1>7 DEF StageAt
  <1>10. QED
    BY <1>8, <1>9, StageOfOthers

LEMMA LandHomeStage ==
    ASSUME TypeOK, layout' = layout, StageInv, NEW w \in Windows, LandHome(w)
    PROVE  StageInv'
  <1>1. UNCHANGED <<solves, verdict, waiting, strong, record>>
    BY DEF LandHome, decoding, courier, checks
  <1>2. /\ home'[w] = Nothing /\ final'[w] = home[w].result
        /\ writes'[w] = writes[w] + 1
        /\ \A x \in Windows \ {w} : /\ home'[x] = home[x] /\ final'[x] = final[x]
                                    /\ writes'[x] = writes[x]
    BY DEF LandHome, TypeOK
  <1>3. home[w] # Nothing
    BY DEF LandHome
  <1>4. home[w].result \in Results /\ home[w].result # Nothing
    BY <1>3, AnswerFacts, SomethingFacts
  <1>5. StageOf(w)
    BY DEF StageInv
  <1>6. writes[w] = 0
    BY <1>3, <1>5 DEF StageOf, WritesAreFinal
  <1>7. AnswerOf(w)' = AnswerOf(w) /\ AnswerOf(w) # Nothing
    BY <1>2, <1>3, <1>4 DEF AnswerOf
  <1>8. AttemptIsOver(w)' = AttemptIsOver(w) /\ IsFinal(w)' = IsFinal(w)
    BY <1>1, LayoutKept DEF AttemptIsOver, IsFinal
  <1>9. OneStage(w)' /\ BoundaryIsHeld(w)'
    BY <1>1, <1>5, <1>7, <1>8 DEF StageOf, OneStage, BoundaryIsHeld
  <1>10. WritesAreFinal(w)'
    BY <1>2, <1>4, <1>6 DEF WritesAreFinal
  <1>11. \A x \in Windows \ {w} : StageAt(x)' = StageAt(x)
    BY <1>1, <1>2 DEF StageAt
  <1>12. QED
    BY <1>9, <1>10, <1>11, StageOfOthers DEF StageOf

LEMMA NextStage ==
    ASSUME TypeOK, SolvesAreComplete, StageInv, [Next]_vars
    PROVE  StageInv'
  <1>1. layout' = layout
    BY DEF Next, vars
  <1>2. CASE UNCHANGED vars
    BY <1>1, <1>2, StageOfAll DEF vars, decoding, courier, checks, answers, results
  <1>3. ASSUME NEW w \in Windows, Decode(w)
        PROVE  StageInv'
    BY <1>1, <1>3, RequestStage, StartSolveStage, HoldSolveStage, JoinSolvesStage,
       DropStaleStage, CommitOnAGuessStage, SettleStage DEF Decode, GiveVerdict
  <1>4. ASSUME NEW w \in Windows, LandPin(w) \/ EndStrong(w) \/ LandHome(w)
        PROVE  StageInv'
    BY <1>1, <1>4, LandPinStage, EndStrongStage, LandHomeStage
  <1>5. ASSUME NEW m \in flying, LandLate(m) \/ LandQuietly(m)
        PROVE  StageInv'
    BY <1>1, <1>5, StageOfAll
    DEF LandLate, LandQuietly, decoding, checks, answers, results
  <1>6. ASSUME NEW m \in flying, LandBoundary(m)
        PROVE  StageInv'
    BY <1>1, <1>5, <1>6, LandChangedStage, LandConfirmsStage DEF LandBoundary
  <1>7. QED
    BY <1>2, <1>3, <1>4, <1>6 DEF Next

LEMMA InitStage == Init => StageInv
  <1> SUFFICES ASSUME Init, NEW w \in Windows PROVE StageOf(w)
    BY DEF StageInv
  <1>1. /\ verdict[w] = Nothing /\ waiting[w] = Nothing /\ strong[w] = Nothing
        /\ home[w] = Nothing /\ final[w] = Nothing /\ writes[w] = 0
        /\ record[w].version = 0
    BY DEF Init
  <1>2. AnswerOf(w) = Nothing /\ ~IsFinal(w)
    BY <1>1 DEF AnswerOf, IsFinal
  <1>3. QED
    BY <1>1, <1>2 DEF StageOf, OneStage, BoundaryIsHeld, WritesAreFinal

LEMMA InitComplete == Init => SolvesAreComplete
  <1> SUFFICES ASSUME Init, NEW w \in Windows, NEW i \in 1..Solves
               PROVE  solves[w][i].phase = "unasked"
    BY DEF SolvesAreComplete
  <1>1. solves[w] = Attempt("unasked")
    BY DEF Init
  <1>2. QED
    BY <1>1 DEF Attempt, Solve

-----------------------------------------------------------------------------
(* What is delivered is what its source shipped *)

\* A delivery names a source, and versions are counted.
LEMMA ShippedFacts ==
    ASSUME TypeOK, DeliveriesAreShipped, NEW m \in flying
    PROVE  /\ m.source \in Windows /\ m.to \in Windows
           /\ m.source \in Deps[m.to] /\ m.source # m.to
           /\ m.version \in Nat /\ record[m.source].version \in Nat
           /\ m.version <= record[m.source].version
           /\ IsCurrent(m) => m.boundary = record[m.source].committed
           /\ m.boundary \in Boundaries /\ m.boundary # NoBoundary
  <1>1. /\ m.source \in Windows /\ m.to \in Windows
        /\ m.version \in Nat /\ m.boundary \in Boundaries
    BY MessageTyped
  <1>2. /\ m.source \in Deps[m.to]
        /\ m.version <= record[m.source].version
        /\ IsCurrent(m) => m.boundary = record[m.source].committed
    BY DEF DeliveriesAreShipped
  <1>3. record[m.source].version \in Nat
    BY <1>1 DEF TypeOK
  <1>4. m.source # m.to /\ NoBoundary \notin Boundaries
    <2>1. layout \in Layouts
      BY DEF TypeOK
    <2>2. m.source < m.to /\ m.to \in Nat
      BY <1>1, <1>2, <2>1, ChainAssumption DEF Windows, Deps
    <2>3. QED
      BY <2>1, <2>2, <1>1, ChainAssumption DEF Windows
  <1>5. QED
    BY <1>1, <1>2, <1>3, <1>4

\* Deliveries of what the records hold stay so while they arrive.
LEMMA FewerShipped ==
    ASSUME layout' = layout, DeliveriesAreShipped,
           flying' \subseteq flying, record' = record
    PROVE  DeliveriesAreShipped'
  BY LayoutKept DEF DeliveriesAreShipped, IsCurrent

\* Sent of a window: what a commit puts on the hops.
Sent(w, value) ==
    {[source |-> w, to |-> x, version |-> record[w].version + 1,
      boundary |-> value] : x \in Dependents(w)}

LEMMA SentShipped ==
    ASSUME TypeOK, layout' = layout, DeliveriesAreShipped, NEW w \in Windows,
           NEW value,
           \A x \in Windows : x # w => record'[x] = record[x],
           record'[w].version = record[w].version + 1,
           record'[w].committed = value,
           flying' \subseteq flying \cup Sent(w, value)
    PROVE  DeliveriesAreShipped'
  <1> SUFFICES ASSUME NEW m \in flying'
               PROVE  /\ m.source \in Deps[m.to]
                      /\ m.version <= record'[m.source].version
                      /\ m.version = record'[m.source].version =>
                            m.boundary = record'[m.source].committed
    BY LayoutKept DEF DeliveriesAreShipped, IsCurrent
  <1>1. CASE m \in flying
    <2>1. /\ m.source \in Windows /\ m.source \in Deps[m.to]
          /\ m.version \in Nat /\ record[m.source].version \in Nat
          /\ m.version <= record[m.source].version
          /\ IsCurrent(m) => m.boundary = record[m.source].committed
      BY <1>1, ShippedFacts
    <2>2. CASE m.source = w
      BY <2>1, <2>2
    <2>3. CASE m.source # w
      BY <2>1, <2>3 DEF IsCurrent
    <2>4. QED
      BY <2>2, <2>3
  <1>2. CASE m \in Sent(w, value)
    <2>1. /\ m.source = w /\ w \in Deps[m.to]
          /\ m.version = record[w].version + 1 /\ m.boundary = value
      BY <1>2 DEF Sent, Dependents
    <2>2. record[w].version \in Nat
      BY DEF TypeOK
    <2>3. QED
      BY <2>1, <2>2
  <1>3. QED
    BY <1>1, <1>2

\* A final commit ships, a provisional one ships under the checked row.
LEMMA FinalizedShipped ==
    ASSUME TypeOK, layout' = layout, DeliveriesAreShipped, NEW w \in Windows,
           NEW value \in Boundaries, record' = Finalized(w, value),
           flying' \subseteq flying \cup Sent(w, value)
    PROVE  DeliveriesAreShipped'
  BY FinalizedFacts, SentShipped

LEMMA HeldBackShipped ==
    ASSUME TypeOK, layout' = layout, DeliveriesAreShipped, NEW w \in Windows,
           NEW value \in Boundaries, record' = HeldBack(w, value),
           flying' = IF Checked THEN flying \cup Sent(w, value) ELSE flying
    PROVE  DeliveriesAreShipped'
  <1>1. /\ \A x \in Windows : x # w => record'[x] = record[x]
        /\ Checked => /\ record'[w].version = record[w].version + 1
                      /\ record'[w].committed = value
        /\ ~Checked => /\ record'[w].version = record[w].version
                       /\ record'[w].committed = record[w].committed
    BY HeldBackFacts
  <1>2. CASE Checked
    BY <1>1, <1>2, SentShipped
  <1>3. CASE ~Checked
    <2>1. flying' = flying
      BY <1>3
    <2>2. \A x \in Windows : record'[x].version = record[x].version
                             /\ record'[x].committed = record[x].committed
      BY <1>1, <1>3
    <2>3. \A m \in flying : m.source \in Windows
      BY MessageTyped
    <2>4. QED
      BY <2>1, <2>2, <2>3, LayoutKept DEF DeliveriesAreShipped, IsCurrent
  <1>4. QED
    BY <1>2, <1>3

LEMMA FinalDeliveries ==
    \A w, value : Deliveries(w, value, TRUE) = Sent(w, value)
  BY DEF Deliveries, Ships, Sent

LEMMA ProvisionalDeliveries ==
    \A w, value : flying \cup Deliveries(w, value, FALSE)
                    = IF Checked THEN flying \cup Sent(w, value) ELSE flying
  BY DEF Deliveries, Ships, Sent

LEMMA NextShipped ==
    ASSUME TypeOK, SolvesAreComplete, StageInv, DeliveriesAreShipped, [Next]_vars
    PROVE  DeliveriesAreShipped'
  <1>1. layout' = layout
    BY DEF Next, vars
  <1>2. CASE UNCHANGED vars
    BY <1>1, <1>2, FewerShipped DEF vars, courier
  <1>3. ASSUME NEW w \in Windows,
               Request(w) \/ LandPin(w) \/ LandHome(w) \/ DropStale(w)
               \/ \E i \in 1..Solves :
                    StartSolve(w, i) \/ HoldSolve(w, i) \/ JoinSolves(w, i)
        PROVE  DeliveriesAreShipped'
    <2>1. UNCHANGED <<flying, record>>
      BY <1>3 DEF Request, LandPin, LandHome, DropStale, StartSolve, HoldSolve,
                  JoinSolves, courier
    <2>2. QED
      BY <1>1, <2>1, FewerShipped
  <1>4. ASSUME NEW w \in Windows, verdict[w] # Nothing, CommitOnAGuess(w, verdict[w])
        PROVE  DeliveriesAreShipped'
    <2>1. verdict[w].result.boundary \in Boundaries
      BY <1>4, VerdictTyped
    <2>2. record' = HeldBack(w, verdict[w].result.boundary)
      BY <1>4, CommitHoldsBack DEF CommitOnAGuess
    <2>3. flying' = flying \cup Deliveries(w, verdict[w].result.boundary, FALSE)
      BY <1>4 DEF CommitOnAGuess
    <2>4. flying' = IF Checked THEN flying \cup Sent(w, verdict[w].result.boundary)
                    ELSE flying
      BY <2>3, ProvisionalDeliveries
    <2>5. QED
      BY <1>1, <2>1, <2>2, <2>4, HeldBackShipped
  <1>5. ASSUME NEW w \in Windows, verdict[w] # Nothing, Settle(w, verdict[w])
        PROVE  DeliveriesAreShipped'
    <2>1. verdict[w].result.boundary \in Boundaries
      BY <1>5, VerdictTyped
    <2>2. CASE /\ Keeps(w, verdict[w].result)
               /\ flying' = flying \cup Deliveries(w, verdict[w].result.boundary, TRUE)
      <3>1. record' = Finalized(w, verdict[w].result.boundary)
        BY <2>2, KeepsFinalizes
      <3>2. flying' = flying \cup Sent(w, verdict[w].result.boundary)
        BY <2>2, FinalDeliveries
      <3>3. QED
        BY <1>1, <2>1, <3>1, <3>2, FinalizedShipped
    <2>3. CASE /\ CommitsProvisionally(w, verdict[w].result)
               /\ flying' = flying \cup Deliveries(w, verdict[w].result.boundary, FALSE)
      <3>1. record' = HeldBack(w, verdict[w].result.boundary)
        BY <2>3, CommitHoldsBack
      <3>2. flying' = IF Checked THEN flying \cup Sent(w, verdict[w].result.boundary)
                      ELSE flying
        BY <2>3, ProvisionalDeliveries
      <3>3. QED
        BY <1>1, <2>1, <3>1, <3>2, HeldBackShipped
    <2>4. QED
      BY <1>5, <2>2, <2>3 DEF Settle
  <1>6. ASSUME NEW w \in Windows, EndStrong(w)
        PROVE  DeliveriesAreShipped'
    <2>1. PICK chosen \in Results :
            /\ record' = Finalized(w, chosen.boundary)
            /\ flying' = flying \cup Sent(w, chosen.boundary)
      BY <1>6, EndStrongFacts DEF Sent
    <2>2. chosen.boundary \in Boundaries
      BY DEF Results
    <2>3. QED
      BY <1>1, <2>1, <2>2, FinalizedShipped
  <1>7. ASSUME NEW m \in flying, LandLate(m) \/ LandQuietly(m) \/ LandChanged(m)
        PROVE  DeliveriesAreShipped'
    <2>1. flying' \subseteq flying /\ record' = record
      BY <1>7 DEF LandLate, LandQuietly, LandChanged
    <2>2. QED
      BY <1>1, <2>1, FewerShipped
  <1>8. ASSUME NEW m \in flying, LandConfirms(m)
        PROVE  DeliveriesAreShipped'
    <2> DEFINE w == m.to
               v == waiting[w]
    <2>1. w \in Windows /\ v # Nothing
      BY <1>8, MessageTyped DEF LandConfirms
    <2>2. v.result.boundary \in Boundaries
      BY <2>1, WaitingTyped
    <2>3. CASE /\ Keeps(w, v.result)
               /\ flying' = (flying \ {m}) \cup Deliveries(w, v.result.boundary, TRUE)
      <3>1. record' = Finalized(w, v.result.boundary)
        BY <2>1, <2>3, KeepsFinalizes
      <3>2. flying' \subseteq flying \cup Sent(w, v.result.boundary)
        BY <2>3, FinalDeliveries
      <3>3. QED
        BY <1>1, <2>1, <2>2, <3>1, <3>2, FinalizedShipped
    <2>4. CASE flying' = flying \ {m} /\ record' = record
      BY <1>1, <2>4, FewerShipped
    <2>5. QED
      BY <1>8, <2>3, <2>4 DEF LandConfirms
  <1>9. QED
    BY <1>2, <1>3, <1>4, <1>5, <1>6, <1>7, <1>8
    DEF Next, Decode, GiveVerdict, LandBoundary

-----------------------------------------------------------------------------
(* A verdict that is acted on was read on final boundaries *)

\* No final boundary's record changes, and nothing else does at a window.
FinalKept == \A x \in Windows : record'[x] = record[x] \/ ~IsFinal(x)
ReadAt(w) == <<solves[w], verdict[w], boundaryIn[w], provisional[w], read[w],
               waiting[w], strong[w], revision[w]>>

\* What landed final stays so.
LEMMA LandedStays ==
    ASSUME TypeOK, layout' = layout, FinalKept, NEW w \in Windows,
           LandedIsFinal(w),
           boundaryIn'[w] = boundaryIn[w], provisional'[w] = provisional[w]
    PROVE  LandedIsFinal(w)'
  <1>1. Deps[w] \subseteq Windows /\ Deps' = Deps
    BY LayoutFacts, LayoutKept DEF TypeOK
  <1>2. SUFFICES ASSUME NEW d \in Deps[w], boundaryIn[w][d] # NoBoundary,
                        d \notin provisional[w]
                 PROVE  IsFinal(d)' /\ boundaryIn[w][d] = record'[d].committed
    BY <1>1 DEF LandedIsFinal
  <1>3. IsFinal(d) /\ boundaryIn[w][d] = record[d].committed
    BY <1>2 DEF LandedIsFinal
  <1>4. record'[d] = record[d]
    BY <1>1, <1>2, <1>3 DEF FinalKept
  <1>5. QED
    BY <1>3, <1>4 DEF IsFinal

\* A window that has every boundary and doubts none holds final ones.
LEMMA SureFacts ==
    ASSUME TypeOK, NEW w \in Windows, LandedIsFinal(w), IsUnblocked(w),
           provisional[w] = {}
    PROVE  \A d \in Deps[w] :
            d \in Windows /\ IsFinal(d) /\ boundaryIn[w][d] = record[d].committed
  <1>1. Deps[w] \subseteq Windows
    BY LayoutFacts DEF TypeOK
  <1>2. QED
    BY <1>1 DEF LandedIsFinal, IsUnblocked

\* So a redo stays pinned on them.
LEMMA RedoStays ==
    ASSUME TypeOK, layout' = layout, FinalKept, NEW w \in Windows,
           LandedIsFinal(w), RedoIsSure(w),
           boundaryIn'[w] = boundaryIn[w], provisional'[w] = provisional[w],
           strong'[w] # Nothing =>
                strong[w] # Nothing /\ strong'[w].reads = strong[w].reads,
           revision'[w] = revision[w]
    PROVE  RedoIsSure(w)'
  <1>1. SUFFICES ASSUME strong'[w] # Nothing
                 PROVE  /\ IsUnblocked(w)'
                        /\ provisional'[w] = {}
                        /\ strong'[w].reads =
                                [d \in PinOf[w] |-> record'[d].committed]
                        /\ revision'[w] # Nothing =>
                                revision'[w].reads = boundaryIn'[w]
    BY LayoutKept DEF RedoIsSure
  <1>2. /\ IsUnblocked(w) /\ provisional[w] = {}
        /\ strong[w].reads = [d \in PinOf[w] |-> record[d].committed]
        /\ revision[w] # Nothing => revision[w].reads = boundaryIn[w]
    BY <1>1 DEF RedoIsSure
  <1>3. IsUnblocked(w)'
    BY <1>2, LayoutKept DEF IsUnblocked
  <1>4. \A d \in PinOf[w] : d \in Windows /\ IsFinal(d)
    <2>1. PinOf[w] \subseteq Deps[w]
      BY LayoutFacts DEF TypeOK
    <2>2. QED
      BY <1>2, <2>1, SureFacts
  <1>5. \A d \in PinOf[w] : record'[d] = record[d]
    BY <1>4 DEF FinalKept
  <1>6. strong'[w].reads = [d \in PinOf[w] |-> record'[d].committed]
    BY <1>1, <1>2, <1>5
  <1>7. QED
    BY <1>2, <1>3, <1>6

\* The other windows read what they read.
LEMMA ReadOfOthers ==
    ASSUME TypeOK, layout' = layout, FinalKept, ReadInv, NEW w \in Windows,
           \A x \in Windows \ {w} : ReadAt(x)' = ReadAt(x),
           \A x \in Windows \ {w} : x \in stale' <=> x \in stale,
           ReadOf(w)'
    PROVE  ReadInv'
  <1>1. ASSUME NEW x \in Windows, x # w
        PROVE  ReadOf(x)'
    <2>1. /\ solves'[x] = solves[x] /\ verdict'[x] = verdict[x]
          /\ boundaryIn'[x] = boundaryIn[x] /\ provisional'[x] = provisional[x]
          /\ read'[x] = read[x] /\ waiting'[x] = waiting[x]
          /\ strong'[x] = strong[x] /\ revision'[x] = revision[x]
          /\ x \in stale' <=> x \in stale
      BY <1>1 DEF ReadAt
    <2>2. ReadOf(x)
      BY DEF ReadInv
    <2>3. LandedIsFinal(x)'
      BY <2>1, <2>2, LandedStays DEF ReadOf
    <2>4. RedoIsSure(x)'
      BY <2>1, <2>2, RedoStays DEF ReadOf
    <2>5. IsUnblocked(x)' = IsUnblocked(x) /\ Solves' = Solves
      BY <2>1, LayoutKept DEF IsUnblocked
    <2>6. IsInHand(x)' <=> IsInHand(x)
      BY <2>1, <2>5 DEF IsInHand, HasStarted
    <2>7. ReadsAreNoted(x)'
      BY <2>1, <2>2, <2>5, <2>6 DEF ReadOf, ReadsAreNoted
    <2>8. InHandIsCurrent(x)'
      BY <2>1, <2>2, <2>5 DEF ReadOf, InHandIsCurrent, HasStarted
    <2>9. WaitingIsCurrent(x)'
      BY <2>1, <2>2 DEF ReadOf, WaitingIsCurrent
    <2>10. QED
      BY <2>3, <2>4, <2>7, <2>8, <2>9 DEF ReadOf
  <1>2. QED
    BY <1>1, LayoutKept DEF ReadInv

\* A step that touches none of this keeps it all.
LEMMA ReadOfAll ==
    ASSUME TypeOK, layout' = layout, FinalKept, ReadInv,
           UNCHANGED <<solves, verdict, boundaryIn, provisional, read, stale,
                       waiting, strong, revision>>
    PROVE  ReadInv'
  <1>1. ASSUME NEW w \in Windows
        PROVE  ReadOf(w)'
    <2>1. ReadOf(w)
      BY DEF ReadInv
    <2>2. LandedIsFinal(w)'
      BY <2>1, LandedStays DEF ReadOf
    <2>3. RedoIsSure(w)'
      BY <2>1, RedoStays DEF ReadOf
    <2>4. IsUnblocked(w)' = IsUnblocked(w) /\ Solves' = Solves
      BY LayoutKept DEF IsUnblocked
    <2>5. IsInHand(w)' <=> IsInHand(w)
      BY <2>4 DEF IsInHand, HasStarted
    <2>6. ReadsAreNoted(w)'
      BY <2>1, <2>4, <2>5 DEF ReadOf, ReadsAreNoted
    <2>7. InHandIsCurrent(w)'
      BY <2>1, <2>4 DEF ReadOf, InHandIsCurrent, HasStarted
    <2>8. WaitingIsCurrent(w)'
      BY <2>1 DEF ReadOf, WaitingIsCurrent
    <2>9. QED
      BY <2>2, <2>3, <2>6, <2>7, <2>8 DEF ReadOf
  <1>2. QED
    BY <1>1, LayoutKept DEF ReadInv

\* An attempt asked again, or over and judged, holds nothing in hand.
LEMMA NothingInHand ==
    ASSUME layout' = layout, NEW w \in Windows, NEW p \in {"queued", "joined"},
           solves'[w] = Attempt(p), verdict'[w] = Nothing
    PROVE  ~IsInHand(w)' /\ InHandIsCurrent(w)'
  <1>1. \A i \in 1..Solves : Attempt(p)[i].phase = p
    BY DEF Attempt, Solve
  <1>2. \A i \in 1..Solves : ~HasStarted(w, i)'
    BY <1>1 DEF HasStarted
  <1>3. Solves' = Solves
    BY LayoutKept
  <1>4. QED
    BY <1>2, <1>3 DEF IsInHand, InHandIsCurrent

LEMMA RequestReads ==
    ASSUME TypeOK, layout' = layout, StageInv, ReadInv, NEW w \in Windows, Request(w)
    PROVE  ReadInv'
  <1>1. ~AttemptIsOver(w)
    BY AttemptFacts DEF Request, AttemptIsOver, TypeOK
  <1>2. /\ verdict[w] = Nothing /\ waiting[w] = Nothing /\ strong[w] = Nothing
    BY <1>1, AskedFacts
  <1>3. UNCHANGED <<verdict, boundaryIn, provisional, read, stale, waiting, strong,
                    revision, record>>
    BY DEF Request, courier, checks, answers
  <1>4. /\ solves'[w] = Attempt("queued")
        /\ \A x \in Windows \ {w} : solves'[x] = solves[x]
    BY DEF Request, Asks, TypeOK
  <1>5. FinalKept
    BY <1>3 DEF FinalKept
  <1>6. ReadOf(w)
    BY DEF ReadInv
  <1>7. ~IsInHand(w)' /\ InHandIsCurrent(w)'
    BY <1>2, <1>3, <1>4, NothingInHand
  <1>8. LandedIsFinal(w)'
    BY <1>3, <1>5, <1>6, LandedStays DEF ReadOf
  <1>9. IsUnblocked(w)' = IsUnblocked(w)
    BY <1>3, LayoutKept DEF IsUnblocked
  <1>10. ReadsAreNoted(w)'
    BY <1>3, <1>6, <1>7, <1>9 DEF ReadOf, ReadsAreNoted
  <1>11. WaitingIsCurrent(w)' /\ RedoIsSure(w)'
    BY <1>2, <1>3 DEF WaitingIsCurrent, RedoIsSure
  <1>12. \A x \in Windows \ {w} : ReadAt(x)' = ReadAt(x)
    BY <1>3, <1>4 DEF ReadAt
  <1>13. ReadOf(w)'
    BY <1>7, <1>8, <1>10, <1>11 DEF ReadOf
  <1>14. QED
    BY <1>3, <1>5, <1>12, <1>13, ReadOfOthers

LEMMA StartSolveReads ==
    ASSUME TypeOK, layout' = layout, StageInv, ReadInv, NEW w \in Windows,
           NEW i \in 1..Solves, StartSolve(w, i)
    PROVE  ReadInv'
  <1>1. ~AttemptIsOver(w)
    BY UnjoinedFacts DEF StartSolve
  <1>2. /\ verdict[w] = Nothing /\ waiting[w] = Nothing /\ strong[w] = Nothing
    BY <1>1, AskedFacts
  <1>3. UNCHANGED <<verdict, boundaryIn, provisional, stale, waiting, strong,
                    revision, record>>
    BY DEF StartSolve, courier, answers
  <1>4. \A x \in Windows : \A j \in 1..Solves :
            solves'[x][j] = IF x = w /\ j = i
                            THEN Solve("running", Result(boundaryIn[w], NoBoundary))
                            ELSE solves[x][j]
    BY StartSolvePoints
  <1>5. \A x \in Windows \ {w} : solves'[x] = solves[x] /\ read'[x] = read[x]
    BY DEF StartSolve, TypeOK
  <1>6. FinalKept
    BY <1>3 DEF FinalKept
  <1>7. ReadOf(w)
    BY DEF ReadInv
  <1>8. LandedIsFinal(w)'
    BY <1>3, <1>6, <1>7, LandedStays DEF ReadOf
  <1>9. IsUnblocked(w) /\ IsUnblocked(w)'
    BY <1>3, LayoutKept DEF StartSolve, IsUnblocked
  <1>10. read'[w] = IF provisional[w] # {} /\ read[w] = Nothing
                    THEN [state |-> boundaryIn[w], unconfirmed |-> provisional[w]]
                    ELSE read[w]
    BY DEF StartSolve, NotesRead, TypeOK
  <1>11. ReadsAreNoted(w)'
    <2>1. CASE provisional[w] # {} /\ read[w] = Nothing
      BY <1>3, <1>9, <1>10, <2>1, SomethingFacts DEF ReadsAreNoted
    <2>2. CASE ~(provisional[w] # {} /\ read[w] = Nothing)
      BY <1>3, <1>7, <1>9, <1>10, <2>2 DEF ReadOf, ReadsAreNoted
    <2>3. QED
      BY <2>1, <2>2
  <1>12. InHandIsCurrent(w)'
    <2>1. SUFFICES ASSUME w \notin stale, NEW j \in 1..Solves, HasStarted(w, j)'
                   PROVE  solves'[w][j].result.reads = boundaryIn[w]
      BY <1>2, <1>3, LayoutKept DEF InHandIsCurrent
    <2>2. CASE j = i
      BY <1>4, <2>2 DEF Solve, Result
    <2>3. CASE j # i
      BY <1>4, <1>7, <2>1, <2>3 DEF ReadOf, InHandIsCurrent, HasStarted
    <2>4. QED
      BY <2>2, <2>3
  <1>13. WaitingIsCurrent(w)' /\ RedoIsSure(w)'
    BY <1>2, <1>3 DEF WaitingIsCurrent, RedoIsSure
  <1>14. \A x \in Windows \ {w} : ReadAt(x)' = ReadAt(x)
    BY <1>3, <1>5 DEF ReadAt
  <1>15. ReadOf(w)'
    BY <1>8, <1>11, <1>12, <1>13 DEF ReadOf
  <1>16. QED
    BY <1>3, <1>6, <1>14, <1>15, ReadOfOthers

LEMMA HoldSolveReads ==
    ASSUME TypeOK, layout' = layout, SolvesAreComplete, StageInv, ReadInv,
           NEW w \in Windows, NEW i \in 1..Solves, HoldSolve(w, i)
    PROVE  ReadInv'
  <1>1. ~AttemptIsOver(w)
    BY UnjoinedFacts DEF HoldSolve
  <1>2. /\ verdict[w] = Nothing /\ waiting[w] = Nothing /\ strong[w] = Nothing
    BY <1>1, AskedFacts
  <1>3. UNCHANGED <<verdict, boundaryIn, provisional, read, stale, waiting, strong,
                    revision, record>>
    BY DEF HoldSolve, courier, checks, answers
  <1>4. PICK r \in Results :
            /\ r.reads = solves[w][i].result.reads
            /\ \A x \in Windows : \A j \in 1..Solves :
                solves'[x][j] = IF x = w /\ j = i THEN Solve("held", r)
                                ELSE solves[x][j]
    BY HoldSolvePoints
  <1>5. \A x \in Windows \ {w} : solves'[x] = solves[x]
    <2>1. PICK s \in Results :
            solves' = [solves EXCEPT ![w] =
                            [solves[w] EXCEPT ![i] = Solve("held", s)]]
      BY HoldSolveFacts
    <2>2. QED
      BY <2>1 DEF TypeOK
  <1>6. FinalKept
    BY <1>3 DEF FinalKept
  <1>7. ReadOf(w)
    BY DEF ReadInv
  <1>8. HasStarted(w, i) /\ IsInHand(w)
    BY DEF HoldSolve, HasStarted, IsInHand
  <1>9. \A j \in 1..Solves :
            /\ HasStarted(w, j)' <=> HasStarted(w, j)
            /\ solves'[w][j].result.reads = solves[w][j].result.reads
    <2>1. TAKE j \in 1..Solves
    <2>2. CASE j = i
      BY <1>4, <1>8, <2>2 DEF HasStarted, Solve
    <2>3. CASE j # i
      BY <1>4, <2>3 DEF HasStarted
    <2>4. QED
      BY <2>2, <2>3
  <1>10. LandedIsFinal(w)'
    BY <1>3, <1>6, <1>7, LandedStays DEF ReadOf
  <1>11. IsUnblocked(w)' = IsUnblocked(w)
    BY <1>3, LayoutKept DEF IsUnblocked
  <1>12. ReadsAreNoted(w)'
    BY <1>3, <1>7, <1>8, <1>11 DEF ReadOf, ReadsAreNoted
  <1>13. InHandIsCurrent(w)'
    BY <1>2, <1>3, <1>7, <1>9, LayoutKept DEF ReadOf, InHandIsCurrent
  <1>14. WaitingIsCurrent(w)' /\ RedoIsSure(w)'
    BY <1>2, <1>3 DEF WaitingIsCurrent, RedoIsSure
  <1>15. \A x \in Windows \ {w} : ReadAt(x)' = ReadAt(x)
    BY <1>3, <1>5 DEF ReadAt
  <1>16. ReadOf(w)'
    BY <1>10, <1>12, <1>13, <1>14 DEF ReadOf
  <1>17. QED
    BY <1>3, <1>6, <1>15, <1>16, ReadOfOthers

LEMMA JoinSolvesReads ==
    ASSUME TypeOK, layout' = layout, StageInv, ReadInv,
           NEW w \in Windows, NEW i \in 1..Solves, JoinSolves(w, i)
    PROVE  ReadInv'
  <1>1. ~AttemptIsOver(w)
    BY UnjoinedFacts DEF JoinSolves
  <1>2. waiting[w] = Nothing /\ strong[w] = Nothing
    BY <1>1, AskedFacts
  <1>3. UNCHANGED <<boundaryIn, provisional, read, stale, waiting, strong,
                    revision, record>>
    BY DEF JoinSolves, courier, checks, answers
  <1>4. PICK b \in Boundaries, v \in {"KEEP", "ESCALATE"}, answer \in 1..Solves :
            verdict' = [verdict EXCEPT ![w] =
                [word |-> v,
                 result |-> IF answer = i
                            THEN Result(solves[w][i].result.reads, b)
                            ELSE solves[w][answer].result]]
    BY DEF JoinSolves
  <1>5. /\ verdict'[w].result = IF answer = i
                                THEN Result(solves[w][i].result.reads, b)
                                ELSE solves[w][answer].result
        /\ \A x \in Windows \ {w} : verdict'[x] = verdict[x]
    BY <1>4 DEF TypeOK
  <1>6. verdict'[w].result.reads = solves[w][answer].result.reads
    BY <1>5 DEF Result
  <1>7. HasStarted(w, answer) /\ IsInHand(w)
    BY DEF JoinSolves, HasStarted, IsInHand
  <1>8. /\ solves'[w] = Attempt("joined")
        /\ \A x \in Windows \ {w} : solves'[x] = solves[x]
    BY DEF JoinSolves, TypeOK
  <1>9. FinalKept
    BY <1>3 DEF FinalKept
  <1>10. ReadOf(w)
    BY DEF ReadInv
  <1>11. LandedIsFinal(w)'
    BY <1>3, <1>9, <1>10, LandedStays DEF ReadOf
  <1>12. IsUnblocked(w)' = IsUnblocked(w)
    BY <1>3, LayoutKept DEF IsUnblocked
  <1>13. ReadsAreNoted(w)'
    BY <1>3, <1>7, <1>10, <1>12 DEF ReadOf, ReadsAreNoted
  <1>14. InHandIsCurrent(w)'
    <2>1. \A j \in 1..Solves : ~HasStarted(w, j)'
      BY <1>8 DEF HasStarted, Attempt, Solve
    <2>2. w \notin stale => verdict'[w].result.reads = boundaryIn[w]
      BY <1>6, <1>7, <1>10 DEF ReadOf, InHandIsCurrent
    <2>3. QED
      BY <1>3, <2>1, <2>2, LayoutKept DEF InHandIsCurrent
  <1>15. WaitingIsCurrent(w)' /\ RedoIsSure(w)'
    BY <1>2, <1>3 DEF WaitingIsCurrent, RedoIsSure
  <1>16. \A x \in Windows \ {w} : ReadAt(x)' = ReadAt(x)
    BY <1>3, <1>5, <1>8 DEF ReadAt
  <1>17. ReadOf(w)'
    BY <1>11, <1>13, <1>14, <1>15 DEF ReadOf
  <1>18. QED
    BY <1>3, <1>9, <1>16, <1>17, ReadOfOthers

LEMMA DropStaleReads ==
    ASSUME TypeOK, layout' = layout, StageInv, ReadInv, NEW w \in Windows,
           verdict[w] # Nothing, DropStale(w),
           verdict' = [verdict EXCEPT ![w] = Nothing]
    PROVE  ReadInv'
  <1>1. waiting[w] = Nothing /\ strong[w] = Nothing
    BY JudgedFacts
  <1>2. UNCHANGED <<boundaryIn, provisional, waiting, strong, revision, record>>
    BY DEF DropStale, courier, answers
  <1>3. /\ solves'[w] = Attempt("queued") /\ verdict'[w] = Nothing
        /\ read'[w] = Nothing
        /\ \A x \in Windows \ {w} : /\ solves'[x] = solves[x]
                                    /\ verdict'[x] = verdict[x]
                                    /\ read'[x] = read[x]
                                    /\ x \in stale' <=> x \in stale
    BY DEF DropStale, Asks, TypeOK
  <1>4. FinalKept
    BY <1>2 DEF FinalKept
  <1>5. ~IsInHand(w)' /\ InHandIsCurrent(w)'
    BY <1>3, NothingInHand
  <1>6. LandedIsFinal(w)'
    BY <1>2, <1>4, LandedStays DEF ReadInv, ReadOf
  <1>7. ReadsAreNoted(w)'
    BY <1>3, <1>5 DEF ReadsAreNoted
  <1>8. WaitingIsCurrent(w)' /\ RedoIsSure(w)'
    BY <1>1, <1>2 DEF WaitingIsCurrent, RedoIsSure
  <1>9. \A x \in Windows \ {w} : ReadAt(x)' = ReadAt(x)
    BY <1>2, <1>3 DEF ReadAt
  <1>10. ReadOf(w)'
    BY <1>5, <1>6, <1>7, <1>8 DEF ReadOf
  <1>11. QED
    BY <1>3, <1>4, <1>9, <1>10, ReadOfOthers

\* A verdict in hand, on a window that is not stale.
LEMMA VerdictReads ==
    ASSUME ReadInv, NEW w \in Windows, verdict[w] # Nothing, w \notin stale
    PROVE  /\ IsUnblocked(w)
           /\ verdict[w].result.reads = boundaryIn[w]
           /\ read[w] = Nothing => provisional[w] = {}
           /\ read[w] # Nothing => read[w].unconfirmed = provisional[w]
  BY DEF ReadInv, ReadOf, ReadsAreNoted, InHandIsCurrent, IsInHand

LEMMA CommitOnAGuessReads ==
    ASSUME TypeOK, layout' = layout, StageInv, ReadInv, NEW w \in Windows,
           verdict[w] # Nothing, CommitOnAGuess(w, verdict[w]),
           verdict' = [verdict EXCEPT ![w] = Nothing]
    PROVE  ReadInv'
  <1>1. AttemptIsOver(w) /\ strong[w] = Nothing /\ ~IsFinal(w)
    BY JudgedFacts
  <1>2. w \notin stale /\ read[w] # Nothing
    BY DEF CommitOnAGuess, InputOf
  <1>3. verdict[w].result.reads = boundaryIn[w]
    BY <1>2, VerdictReads
  <1>4. UNCHANGED <<solves, boundaryIn, provisional, read, stale, strong>>
    BY DEF CommitOnAGuess
  <1>5. /\ verdict'[w] = Nothing /\ waiting'[w] = verdict[w]
        /\ revision'[w] = verdict[w].result
        /\ \A x \in Windows \ {w} : /\ verdict'[x] = verdict[x]
                                    /\ waiting'[x] = waiting[x]
                                    /\ revision'[x] = revision[x]
    BY DEF CommitOnAGuess, CommitsProvisionally, TypeOK
  <1>6. FinalKept
    <2>1. record' = HeldBack(w, verdict[w].result.boundary)
      BY CommitHoldsBack DEF CommitOnAGuess
    <2>2. verdict[w].result.boundary \in Boundaries
      BY VerdictTyped
    <2>3. \A x \in Windows : x # w => record'[x] = record[x]
      BY <2>1, <2>2, HeldBackFacts
    <2>4. QED
      BY <1>1, <2>3 DEF FinalKept
  <1>7. ReadOf(w)
    BY DEF ReadInv
  <1>8. ~IsInHand(w)' /\ InHandIsCurrent(w)'
    BY <1>1, <1>4, <1>5, NothingInHand DEF AttemptIsOver
  <1>9. LandedIsFinal(w)'
    BY <1>4, <1>6, <1>7, LandedStays DEF ReadOf
  <1>10. IsUnblocked(w)' = IsUnblocked(w)
    BY <1>4, LayoutKept DEF IsUnblocked
  <1>11. ReadsAreNoted(w)'
    BY <1>4, <1>7, <1>8, <1>10 DEF ReadOf, ReadsAreNoted
  <1>12. WaitingIsCurrent(w)' /\ RedoIsSure(w)'
    BY <1>1, <1>2, <1>3, <1>4, <1>5 DEF WaitingIsCurrent, RedoIsSure
  <1>13. \A x \in Windows \ {w} : ReadAt(x)' = ReadAt(x)
    BY <1>4, <1>5 DEF ReadAt
  <1>14. ReadOf(w)'
    BY <1>8, <1>9, <1>11, <1>12 DEF ReadOf
  <1>15. QED
    BY <1>4, <1>6, <1>13, <1>14, ReadOfOthers

\* A redo is pinned on what its window read, when that is final for good.
LEMMA PlannedIsSure ==
    ASSUME layout' = layout, TypeOK, NEW w \in Windows, PlansRedo(w),
           \A d \in PinOf[w] : record'[d] = record[d],
           IsUnblocked(w)', provisional'[w] = {},
           revision'[w].reads = boundaryIn'[w]
    PROVE  RedoIsSure(w)'
  <1>1. strong'[w].reads = [d \in PinOf[w] |-> record[d].committed]
    BY DEF PlansRedo, TypeOK
  <1>2. strong'[w].reads = [d \in PinOf[w] |-> record'[d].committed]
    BY <1>1
  <1>3. QED
    BY <1>2, LayoutKept DEF RedoIsSure

LEMMA SettleReads ==
    ASSUME TypeOK, layout' = layout, StageInv, ReadInv, NEW w \in Windows,
           verdict[w] # Nothing, Settle(w, verdict[w]),
           verdict' = [verdict EXCEPT ![w] = Nothing]
    PROVE  ReadInv'
  <1>1. AttemptIsOver(w) /\ waiting[w] = Nothing /\ strong[w] = Nothing
        /\ ~IsFinal(w)
    BY JudgedFacts
  <1>2. verdict[w].result.boundary \in Boundaries
    BY VerdictTyped
  <1>3. w \notin stale /\ (read[w] = Nothing \/ read[w].unconfirmed = {})
    BY DEF Settle, InputOf
  <1>4. /\ IsUnblocked(w) /\ provisional[w] = {}
        /\ verdict[w].result.reads = boundaryIn[w]
    BY <1>3, VerdictReads
  <1>5. UNCHANGED <<solves, boundaryIn, provisional, stale, waiting>>
    BY DEF Settle
  <1>6. /\ verdict'[w] = Nothing /\ read'[w] = Nothing
        /\ \A x \in Windows \ {w} : verdict'[x] = verdict[x] /\ read'[x] = read[x]
    BY DEF Settle, TypeOK
  <1>7. FinalKept
    <2>1. CASE Keeps(w, verdict[w].result)
      BY <1>1, <1>2, <2>1, KeepsFinalizes, FinalizedFacts DEF FinalKept
    <2>2. CASE CommitsProvisionally(w, verdict[w].result)
      BY <1>1, <1>2, <2>2, CommitHoldsBack, HeldBackFacts DEF FinalKept
    <2>3. QED
      BY <2>1, <2>2 DEF Settle
  <1>8. ReadOf(w)
    BY DEF ReadInv
  <1>9. ~IsInHand(w)' /\ InHandIsCurrent(w)'
    BY <1>1, <1>5, <1>6, NothingInHand DEF AttemptIsOver
  <1>10. LandedIsFinal(w)'
    BY <1>5, <1>7, <1>8, LandedStays DEF ReadOf
  <1>11. ReadsAreNoted(w)' /\ WaitingIsCurrent(w)'
    BY <1>1, <1>5, <1>6, <1>9 DEF ReadsAreNoted, WaitingIsCurrent
  <1>12. /\ \A x \in Windows \ {w} : strong'[x] = strong[x] /\ revision'[x] = revision[x]
         /\ RedoIsSure(w)'
    <2>1. CASE Keeps(w, verdict[w].result)
      BY <1>1, <2>1 DEF Keeps, RedoIsSure, TypeOK
    <2>2. CASE PlansRedo(w) /\ CommitsProvisionally(w, verdict[w].result)
      <3>1. revision'[w] = verdict[w].result
            /\ \A x \in Windows \ {w} :
                    strong'[x] = strong[x] /\ revision'[x] = revision[x]
        BY <2>2 DEF PlansRedo, CommitsProvisionally, TypeOK
      <3>2. IsUnblocked(w)'
        BY <1>4, <1>5, LayoutKept DEF IsUnblocked
      <3>3. \A d \in PinOf[w] : record'[d] = record[d]
        <4>1. PinOf[w] \subseteq Deps[w]
          BY LayoutFacts DEF TypeOK
        <4>2. \A d \in Deps[w] : d \in Windows /\ IsFinal(d)
          BY <1>4, <1>8, SureFacts DEF ReadOf
        <4>3. QED
          BY <1>7, <4>1, <4>2 DEF FinalKept
      <3>4. RedoIsSure(w)'
        BY <1>4, <1>5, <2>2, <3>1, <3>2, <3>3, PlannedIsSure
      <3>5. QED
        BY <3>1, <3>4
    <2>3. QED
      BY <2>1, <2>2 DEF Settle
  <1>13. \A x \in Windows \ {w} : ReadAt(x)' = ReadAt(x)
    BY <1>5, <1>6, <1>12 DEF ReadAt
  <1>14. ReadOf(w)'
    BY <1>9, <1>10, <1>11, <1>12 DEF ReadOf
  <1>15. QED
    BY <1>5, <1>7, <1>13, <1>14, ReadOfOthers

-----------------------------------------------------------------------------
(* A boundary lands on a read *)

\* A landing keeps what landed final, and no boundary is taken back.
LEMMA MergedLands ==
    ASSUME TypeOK, layout' = layout, DeliveriesAreShipped, FinalKept, ReadInv,
           NEW m \in flying, Merges(m), record'[m.source] = record[m.source]
    PROVE  /\ LandedIsFinal(m.to)'
           /\ IsUnblocked(m.to) => IsUnblocked(m.to)'
  <1> DEFINE w == m.to
  <1>1. /\ w \in Windows /\ m.source \in Windows /\ m.source \in Deps[w]
        /\ m.boundary = record[m.source].committed /\ m.boundary # NoBoundary
    BY ShippedFacts DEF Merges
  <1>2. \A d \in Deps[w] :
            boundaryIn'[w][d] = IF d = m.source THEN m.boundary ELSE boundaryIn[w][d]
    BY <1>1, MergesFacts
  <1>3. provisional'[w] = IF IsFinal(m.source) THEN provisional[w] \ {m.source}
                          ELSE provisional[w] \cup {m.source}
    BY MergesFacts
  <1>4. Deps[w] \subseteq Windows /\ Deps' = Deps
    BY <1>1, LayoutFacts, LayoutKept DEF TypeOK
  <1>5. ASSUME NEW d \in Deps[w], boundaryIn'[w][d] # NoBoundary,
               d \notin provisional'[w]
        PROVE  IsFinal(d)' /\ boundaryIn'[w][d] = record'[d].committed
    <2>1. CASE d = m.source
      BY <1>1, <1>2, <1>3, <1>5, <2>1 DEF IsFinal
    <2>2. CASE d # m.source
      <3>1. boundaryIn[w][d] # NoBoundary /\ d \notin provisional[w]
        BY <1>2, <1>3, <1>5, <2>2
      <3>2. IsFinal(d) /\ boundaryIn[w][d] = record[d].committed
        BY <1>1, <3>1 DEF ReadInv, ReadOf, LandedIsFinal
      <3>3. record'[d] = record[d]
        BY <1>4, <3>2 DEF FinalKept
      <3>4. QED
        BY <1>2, <2>2, <3>2, <3>3 DEF IsFinal
    <2>3. QED
      BY <2>1, <2>2
  <1>6. LandedIsFinal(w)'
    BY <1>4, <1>5 DEF LandedIsFinal
  <1>7. IsUnblocked(w) => IsUnblocked(w)'
    BY <1>1, <1>2, <1>4 DEF IsUnblocked
  <1>8. QED
    BY <1>6, <1>7

\* A boundary the window held for final is the same when it lands again.
LEMMA SureLands ==
    ASSUME TypeOK, DeliveriesAreShipped, ReadInv,
           NEW m \in flying, Merges(m), IsUnblocked(m.to),
           m.source \notin provisional[m.to]
    PROVE  /\ IsFinal(m.source)
           /\ boundaryIn'[m.to] = boundaryIn[m.to]
           /\ provisional'[m.to] = provisional[m.to]
  <1> DEFINE w == m.to
  <1>1. /\ w \in Windows /\ m.source \in Deps[w]
        /\ m.boundary = record[m.source].committed
    BY ShippedFacts DEF Merges
  <1>2. IsFinal(m.source) /\ boundaryIn[w][m.source] = record[m.source].committed
    BY <1>1 DEF ReadInv, ReadOf, LandedIsFinal, IsUnblocked
  <1>3. boundaryIn[w] \in [Deps[w] -> MaybeBoundary]
    BY <1>1, BoundaryInTyped
  <1>4. boundaryIn'[w] = [boundaryIn[w] EXCEPT ![m.source] = m.boundary]
    BY <1>1 DEF Merges, TypeOK
  <1>5. boundaryIn'[w] = boundaryIn[w]
    BY <1>1, <1>2, <1>3, <1>4
  <1>6. provisional'[w] = provisional[w]
    <2>1. provisional'[w] = provisional[w] \ {m.source}
      BY <1>2, MergesFacts
    <2>2. m.source \notin provisional[w]
      OBVIOUS
    <2>3. QED
      BY <2>1, <2>2
  <1>7. QED
    BY <1>2, <1>5, <1>6

\* A redone window is sure, so nothing that lands disturbs its redo.
LEMMA RedoneLands ==
    ASSUME TypeOK, layout' = layout, DeliveriesAreShipped, ReadInv, FinalKept,
           NEW m \in flying, Merges(m),
           strong'[m.to] = strong[m.to], revision'[m.to] = revision[m.to]
    PROVE  RedoIsSure(m.to)'
  <1> DEFINE w == m.to
  <1>1. w \in Windows
    BY MessageTyped
  <1>2. CASE strong[w] = Nothing
    BY <1>2 DEF RedoIsSure
  <1>3. CASE strong[w] # Nothing
    <2>1. IsUnblocked(w) /\ provisional[w] = {}
      BY <1>1, <1>3 DEF ReadInv, ReadOf, RedoIsSure
    <2>2. boundaryIn'[w] = boundaryIn[w] /\ provisional'[w] = provisional[w]
      BY <2>1, SureLands
    <2>3. LandedIsFinal(w) /\ RedoIsSure(w)
      BY <1>1 DEF ReadInv, ReadOf
    <2>4. QED
      BY <1>1, <2>2, <2>3, RedoStays
  <1>4. QED
    BY <1>2, <1>3

LEMMA LandQuietlyReads ==
    ASSUME TypeOK, layout' = layout, StageInv, DeliveriesAreShipped, ReadInv,
           NEW m \in flying, LandQuietly(m)
    PROVE  ReadInv'
  <1> DEFINE w == m.to
  <1>1. w \in Windows
    BY MessageTyped
  <1>2. Merges(m)
        /\ UNCHANGED <<solves, verdict, record, stale, waiting, revision, strong>>
    BY DEF LandQuietly, decoding, answers
  <1>3. FinalKept
    BY <1>2 DEF FinalKept
  <1>4. LandedIsFinal(w)' /\ (IsUnblocked(w) => IsUnblocked(w)')
    BY <1>2, <1>3, MergedLands
  <1>5. ReadOf(w)
    BY <1>1 DEF ReadInv
  <1>6. RedoIsSure(w)'
    BY <1>2, <1>3, RedoneLands
  <1>7. IsInHand(w)' <=> IsInHand(w)
    BY <1>2, LayoutKept DEF IsInHand, HasStarted
  <1>8. CASE read[w] = Nothing /\ read' = read
    <2>1. IsInHand(w) /\ w \notin stale =>
            boundaryIn'[w] = boundaryIn[w] /\ provisional'[w] = {}
      <3>1. SUFFICES ASSUME IsInHand(w), w \notin stale
                     PROVE  boundaryIn'[w] = boundaryIn[w] /\ provisional'[w] = {}
        OBVIOUS
      <3>2. IsUnblocked(w) /\ provisional[w] = {}
        BY <1>5, <1>8, <3>1 DEF ReadOf, ReadsAreNoted
      <3>3. QED
        BY <1>2, <3>2, SureLands
    <2>2. ReadsAreNoted(w)'
      BY <1>2, <1>4, <1>5, <1>7, <1>8, <2>1 DEF ReadOf, ReadsAreNoted
    <2>3. InHandIsCurrent(w)'
      <3>1. SUFFICES ASSUME w \notin stale
                     PROVE  /\ verdict[w] # Nothing =>
                                 verdict[w].result.reads = boundaryIn'[w]
                            /\ \A i \in 1..Solves : HasStarted(w, i) =>
                                 solves[w][i].result.reads = boundaryIn'[w]
        BY <1>2, LayoutKept DEF InHandIsCurrent, HasStarted
      <3>2. CASE IsInHand(w)
        BY <1>5, <2>1, <3>1, <3>2 DEF ReadOf, InHandIsCurrent
      <3>3. CASE ~IsInHand(w)
        BY <3>3 DEF IsInHand
      <3>4. QED
        BY <3>2, <3>3
    <2>4. WaitingIsCurrent(w)'
      BY <1>2, <1>5, <1>8 DEF ReadOf, WaitingIsCurrent
    <2>5. ReadOf(w)'
      BY <1>4, <1>6, <2>2, <2>3, <2>4 DEF ReadOf
    <2>6. \A x \in Windows \ {w} : ReadAt(x)' = ReadAt(x)
      BY <1>2, <1>8, MergedOthers DEF ReadAt
    <2>7. QED
      BY <1>1, <1>2, <1>3, <2>5, <2>6, ReadOfOthers
  <1>9. CASE /\ read[w] # Nothing
             /\ Unchanged(w, boundaryIn')
             /\ IF IsFinal(m.source)
                THEN read' = [read EXCEPT ![w].unconfirmed = StillUnsure(w, m.source)]
                ELSE UNCHANGED read
    <2>1. /\ IsUnblocked(w) /\ read[w].state = boundaryIn[w]
          /\ read[w].unconfirmed = provisional[w]
      BY <1>5, <1>9 DEF ReadOf, ReadsAreNoted
    <2>2. boundaryIn'[w] = boundaryIn[w]
      BY <1>9, <2>1 DEF Unchanged
    <2>3. /\ read'[w] # Nothing /\ read'[w].state = boundaryIn'[w]
          /\ read'[w].unconfirmed = provisional'[w]
          /\ \A x \in Windows \ {w} : read'[x] = read[x]
      <3>1. read[w] \in [state : ReadsOver(Windows), unconfirmed : SUBSET Windows]
        BY <1>1, <1>9, ReadTyped
      <3>2. CASE IsFinal(m.source)
        <4>1. read' = [read EXCEPT ![w] =
                        [read[w] EXCEPT !.unconfirmed = read[w].unconfirmed \ {m.source}]]
          BY <1>9, <3>2 DEF StillUnsure
        <4>2. [read[w] EXCEPT !.unconfirmed = read[w].unconfirmed \ {m.source}]
                = [state |-> read[w].state,
                   unconfirmed |-> read[w].unconfirmed \ {m.source}]
          BY <3>1
        <4>3. read'[w] = [state |-> read[w].state,
                          unconfirmed |-> read[w].unconfirmed \ {m.source}]
              /\ \A x \in Windows \ {w} : read'[x] = read[x]
          BY <1>1, <4>1, <4>2 DEF TypeOK
        <4>4. provisional'[w] = provisional[w] \ {m.source}
          BY <1>2, <3>2, MergesFacts
        <4>5. QED
          BY <2>1, <2>2, <4>3, <4>4, SomethingFacts
      <3>3. CASE ~IsFinal(m.source)
        <4>1. m.source \in provisional[w]
          BY <1>2, <2>1, <3>3, SureLands
        <4>2. provisional'[w] = provisional[w] \cup {m.source}
          BY <1>2, <3>3, MergesFacts
        <4>3. provisional'[w] = provisional[w]
          BY <4>1, <4>2
        <4>4. QED
          BY <1>9, <2>1, <2>2, <3>3, <4>3
      <3>4. QED
        BY <3>2, <3>3
    <2>4. ReadsAreNoted(w)'
      BY <1>4, <2>1, <2>3 DEF ReadsAreNoted
    <2>5. InHandIsCurrent(w)'
      BY <1>2, <1>5, <2>2, LayoutKept DEF ReadOf, InHandIsCurrent, HasStarted
    <2>6. WaitingIsCurrent(w)'
      BY <1>2, <1>5, <2>2, <2>3 DEF ReadOf, WaitingIsCurrent
    <2>7. ReadOf(w)'
      BY <1>4, <1>6, <2>4, <2>5, <2>6 DEF ReadOf
    <2>8. \A x \in Windows \ {w} : ReadAt(x)' = ReadAt(x)
      BY <1>2, <2>3, MergedOthers DEF ReadAt
    <2>9. QED
      BY <1>1, <1>2, <1>3, <2>7, <2>8, ReadOfOthers
  <1>10. QED
    BY <1>8, <1>9 DEF LandQuietly

LEMMA LandChangedReads ==
    ASSUME TypeOK, layout' = layout, StageInv, DeliveriesAreShipped, ReadInv,
           NEW m \in flying, LandChanged(m)
    PROVE  ReadInv'
  <1> DEFINE w == m.to
  <1>1. w \in Windows
    BY MessageTyped
  <1>2. Merges(m) /\ read[w] # Nothing
        /\ UNCHANGED <<verdict, record, revision, strong>>
    BY DEF LandChanged, answers
  <1>3. read'[w] = Nothing /\ \A x \in Windows \ {w} : read'[x] = read[x]
    BY <1>1 DEF LandChanged, TypeOK
  <1>4. FinalKept
    BY <1>2 DEF FinalKept
  <1>5. IsUnblocked(w)
    BY <1>1, <1>2 DEF ReadInv, ReadOf, ReadsAreNoted
  <1>6. LandedIsFinal(w)' /\ IsUnblocked(w)'
    BY <1>2, <1>4, <1>5, MergedLands
  <1>7. RedoIsSure(w)'
    BY <1>2, <1>4, RedoneLands
  <1>8. CASE waiting[w] = Nothing
    <2>1. w \in stale' /\ UNCHANGED <<solves, waiting>>
          /\ \A x \in Windows \ {w} : x \in stale' <=> x \in stale
      BY <1>8 DEF LandChanged
    <2>2. ReadsAreNoted(w)' /\ InHandIsCurrent(w)' /\ WaitingIsCurrent(w)'
      BY <1>3, <1>6, <1>8, <2>1
      DEF ReadsAreNoted, InHandIsCurrent, WaitingIsCurrent
    <2>3. \A x \in Windows \ {w} : ReadAt(x)' = ReadAt(x)
      BY <1>2, <1>3, <2>1, MergedOthers DEF ReadAt
    <2>4. ReadOf(w)'
      BY <1>6, <1>7, <2>2 DEF ReadOf
    <2>5. QED
      BY <1>1, <1>4, <2>1, <2>3, <2>4, ReadOfOthers
  <1>9. CASE waiting[w] # Nothing
    <2>1. verdict[w] = Nothing
      BY <1>1, <1>9, WaitingFacts
    <2>2. /\ waiting'[w] = Nothing /\ solves'[w] = Attempt("queued")
          /\ stale' = stale
          /\ \A x \in Windows \ {w} : waiting'[x] = waiting[x] /\ solves'[x] = solves[x]
      BY <1>1, <1>9 DEF LandChanged, Asks, TypeOK
    <2>3. ~IsInHand(w)' /\ InHandIsCurrent(w)'
      BY <1>1, <1>2, <2>1, <2>2, NothingInHand
    <2>4. ReadsAreNoted(w)' /\ WaitingIsCurrent(w)'
      BY <1>3, <2>2, <2>3 DEF ReadsAreNoted, WaitingIsCurrent
    <2>5. \A x \in Windows \ {w} : ReadAt(x)' = ReadAt(x)
      BY <1>2, <1>3, <2>2, MergedOthers DEF ReadAt
    <2>6. ReadOf(w)'
      BY <1>6, <1>7, <2>3, <2>4 DEF ReadOf
    <2>7. QED
      BY <1>1, <1>4, <2>2, <2>5, <2>6, ReadOfOthers
  <1>10. QED
    BY <1>8, <1>9

\* The guess a window waited on turned out final, every part of it.
LEMMA ConfirmedFacts ==
    ASSUME TypeOK, DeliveriesAreShipped, ReadInv,
           NEW m \in flying, LandConfirms(m)
    PROVE  /\ IsUnblocked(m.to)
           /\ boundaryIn'[m.to] = boundaryIn[m.to]
           /\ provisional'[m.to] = {}
           /\ waiting[m.to].result.reads = boundaryIn[m.to]
           /\ revision[m.to] = waiting[m.to].result
  <1> DEFINE w == m.to
  <1>1. w \in Windows /\ Merges(m) /\ waiting[w] # Nothing
    BY MessageTyped DEF LandConfirms
  <1>2. /\ IsUnblocked(w) /\ read[w].state = boundaryIn[w]
        /\ read[w].unconfirmed = provisional[w]
        /\ waiting[w].result.reads = boundaryIn[w]
        /\ revision[w] = waiting[w].result
    BY <1>1 DEF ReadInv, ReadOf, ReadsAreNoted, WaitingIsCurrent
  <1>3. boundaryIn'[w] = boundaryIn[w]
    BY <1>2 DEF LandConfirms, Unchanged
  <1>4. provisional'[w] = provisional[w] \ {m.source}
    BY <1>1, MergesFacts DEF LandConfirms
  <1>5. QED
    BY <1>2, <1>3, <1>4 DEF LandConfirms, StillUnsure

LEMMA LandConfirmsReads ==
    ASSUME TypeOK, layout' = layout, StageInv, DeliveriesAreShipped, ReadInv,
           NEW m \in flying, LandConfirms(m)
    PROVE  ReadInv'
  <1> DEFINE w == m.to
             v == waiting[w]
  <1>1. w \in Windows /\ m.source # w /\ m.source \in Windows
    BY ShippedFacts
  <1>2. Merges(m) /\ v # Nothing /\ UNCHANGED <<solves, verdict, stale>>
    BY DEF LandConfirms, decoding
  <1>3. AttemptIsOver(w) /\ verdict[w] = Nothing /\ strong[w] = Nothing
        /\ ~IsFinal(w)
    BY <1>1, <1>2, WaitingFacts
  <1>4. v.result.boundary \in Boundaries
    BY <1>1, <1>2, WaitingTyped
  <1>5. /\ IsUnblocked(w) /\ boundaryIn'[w] = boundaryIn[w]
        /\ provisional'[w] = {} /\ v.result.reads = boundaryIn[w]
        /\ revision[w] = v.result
    BY ConfirmedFacts
  <1>6. /\ waiting'[w] = Nothing /\ read'[w] = Nothing
        /\ \A x \in Windows \ {w} : waiting'[x] = waiting[x] /\ read'[x] = read[x]
    BY <1>1 DEF LandConfirms, TypeOK
  <1>7. FinalKept /\ record'[m.source] = record[m.source]
    <2>1. CASE Keeps(w, v.result)
      <3>1. record' = Finalized(w, v.result.boundary)
        BY <1>1, <2>1, KeepsFinalizes
      <3>2. \A x \in Windows : x # w => record'[x] = record[x]
        BY <1>1, <1>4, <3>1, FinalizedFacts
      <3>3. QED
        BY <1>1, <1>3, <3>2 DEF FinalKept
    <2>2. CASE record' = record
      BY <2>2 DEF FinalKept
    <2>3. QED
      BY <2>1, <2>2 DEF LandConfirms
  <1>8. LandedIsFinal(w)' /\ IsUnblocked(w)'
    BY <1>2, <1>5, <1>7, MergedLands
  <1>9. ~IsInHand(w)' /\ InHandIsCurrent(w)'
    BY <1>1, <1>2, <1>3, NothingInHand DEF AttemptIsOver
  <1>10. ReadsAreNoted(w)' /\ WaitingIsCurrent(w)'
    BY <1>6, <1>9 DEF ReadsAreNoted, WaitingIsCurrent
  <1>11. /\ \A x \in Windows \ {w} : strong'[x] = strong[x] /\ revision'[x] = revision[x]
         /\ RedoIsSure(w)'
    <2>1. CASE Keeps(w, v.result)
      BY <1>1, <1>3, <2>1 DEF Keeps, RedoIsSure, TypeOK
    <2>2. CASE PlansRedo(w) /\ UNCHANGED <<record, revision, home, writes, results>>
      <3>1. \A x \in Windows \ {w} : strong'[x] = strong[x] /\ revision'[x] = revision[x]
        BY <1>1, <2>2 DEF PlansRedo, TypeOK
      <3>2. revision'[w].reads = boundaryIn'[w]
        BY <1>5, <2>2
      <3>3. RedoIsSure(w)'
        BY <1>1, <1>5, <1>8, <2>2, <3>2, PlannedIsSure
      <3>4. QED
        BY <3>1, <3>3
    <2>3. QED
      BY <2>1, <2>2 DEF LandConfirms
  <1>12. \A x \in Windows \ {w} : ReadAt(x)' = ReadAt(x)
    BY <1>2, <1>6, <1>11, MergedOthers DEF ReadAt
  <1>13. ReadOf(w)'
    BY <1>8, <1>9, <1>10, <1>11 DEF ReadOf
  <1>14. QED
    BY <1>1, <1>2, <1>7, <1>12, <1>13, ReadOfOthers

LEMMA LandPinReads ==
    ASSUME TypeOK, layout' = layout, StageInv, ReadInv, NEW w \in Windows, LandPin(w)
    PROVE  ReadInv'
  <1>1. UNCHANGED <<solves, verdict, boundaryIn, provisional, read, stale, waiting,
                    revision, record>>
    BY DEF LandPin, decoding, courier, checks
  <1>2. /\ strong[w] # Nothing /\ strong'[w].reads = strong[w].reads
        /\ \A x \in Windows \ {w} : strong'[x] = strong[x]
    <2>1. strong[w] \in [phase : {"pinning", "running"}, reads : ReadsOver(Windows)]
      BY DEF LandPin, TypeOK
    <2>2. strong'[w] = [strong[w] EXCEPT !.phase = "running"]
          /\ \A x \in Windows \ {w} : strong'[x] = strong[x]
      BY DEF LandPin, TypeOK
    <2>3. QED
      BY <2>1, <2>2 DEF LandPin
  <1>3. FinalKept
    BY <1>1 DEF FinalKept
  <1>4. ReadOf(w)
    BY DEF ReadInv
  <1>5. LandedIsFinal(w)' /\ RedoIsSure(w)'
    BY <1>1, <1>2, <1>3, <1>4, LandedStays, RedoStays DEF ReadOf
  <1>6. IsUnblocked(w)' = IsUnblocked(w) /\ Solves' = Solves
    BY <1>1, LayoutKept DEF IsUnblocked
  <1>7. IsInHand(w)' <=> IsInHand(w)
    BY <1>1, <1>6 DEF IsInHand, HasStarted
  <1>8. ReadsAreNoted(w)'
    BY <1>1, <1>4, <1>6, <1>7 DEF ReadOf, ReadsAreNoted
  <1>9. InHandIsCurrent(w)'
    BY <1>1, <1>4, <1>6 DEF ReadOf, InHandIsCurrent, HasStarted
  <1>10. WaitingIsCurrent(w)'
    BY <1>1, <1>4 DEF ReadOf, WaitingIsCurrent
  <1>11. \A x \in Windows \ {w} : ReadAt(x)' = ReadAt(x)
    BY <1>1, <1>2 DEF ReadAt
  <1>12. ReadOf(w)'
    BY <1>5, <1>8, <1>9, <1>10 DEF ReadOf
  <1>13. QED
    BY <1>1, <1>3, <1>11, <1>12, ReadOfOthers

LEMMA EndStrongReads ==
    ASSUME TypeOK, layout' = layout, StageInv, ReadInv, NEW w \in Windows, EndStrong(w)
    PROVE  ReadInv'
  <1>1. UNCHANGED <<solves, verdict, boundaryIn, provisional, read, stale, waiting>>
    BY DEF EndStrong, decoding, checks
  <1>2. waiting[w] = Nothing /\ ~IsFinal(w)
    BY RedoneFacts DEF EndStrong
  <1>3. /\ strong'[w] = Nothing
        /\ \A x \in Windows \ {w} : strong'[x] = strong[x] /\ revision'[x] = revision[x]
    BY DEF EndStrong, TypeOK
  <1>4. FinalKept
    <2>1. PICK chosen \in Results : record' = Finalized(w, chosen.boundary)
      BY EndStrongFacts
    <2>2. chosen.boundary \in Boundaries
      BY DEF Results
    <2>3. QED
      BY <1>2, <2>1, <2>2, FinalizedFacts DEF FinalKept
  <1>5. ReadOf(w)
    BY DEF ReadInv
  <1>6. LandedIsFinal(w)'
    BY <1>1, <1>4, <1>5, LandedStays DEF ReadOf
  <1>7. IsUnblocked(w)' = IsUnblocked(w) /\ Solves' = Solves
    BY <1>1, LayoutKept DEF IsUnblocked
  <1>8. IsInHand(w)' <=> IsInHand(w)
    BY <1>1, <1>7 DEF IsInHand, HasStarted
  <1>9. ReadsAreNoted(w)'
    BY <1>1, <1>5, <1>7, <1>8 DEF ReadOf, ReadsAreNoted
  <1>10. InHandIsCurrent(w)'
    BY <1>1, <1>5, <1>7 DEF ReadOf, InHandIsCurrent, HasStarted
  <1>11. WaitingIsCurrent(w)' /\ RedoIsSure(w)'
    BY <1>1, <1>2, <1>3 DEF WaitingIsCurrent, RedoIsSure
  <1>12. \A x \in Windows \ {w} : ReadAt(x)' = ReadAt(x)
    BY <1>1, <1>3 DEF ReadAt
  <1>13. ReadOf(w)'
    BY <1>6, <1>9, <1>10, <1>11 DEF ReadOf
  <1>14. QED
    BY <1>1, <1>4, <1>12, <1>13, ReadOfOthers

LEMMA NextReads ==
    ASSUME IInv, [Next]_vars
    PROVE  ReadInv'
  <1>1. /\ TypeOK /\ SolvesAreComplete /\ StageInv /\ DeliveriesAreShipped /\ ReadInv
        /\ layout' = layout
    BY DEF IInv, Next, vars
  <1>2. ASSUME UNCHANGED <<solves, verdict, boundaryIn, provisional, read, stale,
                           waiting, strong, revision, record>>
        PROVE  ReadInv'
    BY <1>1, <1>2, ReadOfAll DEF FinalKept
  <1>3. CASE UNCHANGED vars
    BY <1>2, <1>3 DEF vars, decoding, courier, checks, answers
  <1>4. ASSUME NEW w \in Windows, Decode(w)
        PROVE  ReadInv'
    BY <1>1, <1>4, RequestReads, StartSolveReads, HoldSolveReads, JoinSolvesReads,
       DropStaleReads, CommitOnAGuessReads, SettleReads DEF Decode, GiveVerdict
  <1>5. ASSUME NEW w \in Windows, LandHome(w)
        PROVE  ReadInv'
    BY <1>2, <1>5 DEF LandHome, decoding, courier, checks
  <1>6. ASSUME NEW w \in Windows, LandPin(w) \/ EndStrong(w)
        PROVE  ReadInv'
    BY <1>1, <1>6, LandPinReads, EndStrongReads
  <1>7. ASSUME NEW m \in flying, LandLate(m)
        PROVE  ReadInv'
    BY <1>2, <1>7 DEF LandLate, decoding, checks, answers
  <1>8. ASSUME NEW m \in flying, LandQuietly(m) \/ LandChanged(m) \/ LandConfirms(m)
        PROVE  ReadInv'
    BY <1>1, <1>8, LandQuietlyReads, LandChangedReads, LandConfirmsReads
  <1>9. QED
    BY <1>3, <1>4, <1>5, <1>6, <1>7, <1>8 DEF Next, LandBoundary

LEMMA InitReads == Init => DeliveriesAreShipped /\ ReadInv
  <1> SUFFICES ASSUME Init PROVE DeliveriesAreShipped /\ ReadInv
    OBVIOUS
  <1>1. DeliveriesAreShipped
    BY DEF Init, DeliveriesAreShipped
  <1>2. ASSUME NEW w \in Windows
        PROVE  ReadOf(w)
    <2>1. /\ verdict[w] = Nothing /\ read[w] = Nothing /\ waiting[w] = Nothing
          /\ strong[w] = Nothing /\ solves[w] = Attempt("unasked")
          /\ boundaryIn[w] = [d \in Deps[w] |-> NoBoundary]
      BY DEF Init
    <2>2. \A i \in 1..Solves : ~HasStarted(w, i)
      BY <2>1 DEF HasStarted, Attempt, Solve
    <2>3. LandedIsFinal(w)
      BY <2>1 DEF LandedIsFinal
    <2>4. QED
      BY <2>1, <2>2, <2>3
      DEF ReadOf, ReadsAreNoted, IsInHand, InHandIsCurrent, WaitingIsCurrent,
          RedoIsSure
  <1>3. QED
    BY <1>1, <1>2 DEF ReadInv

\* The inductive invariant holds of every run (WindowChain.Spec).
THEOREM Invariant == Spec => []IInv
  <1>1. Init => IInv
    BY InitTyped, InitComplete, InitStage, InitReads DEF IInv
  <1>2. IInv /\ [Next]_vars => IInv'
    BY NextTyped, SolvesStayComplete, NextStage, NextShipped, NextReads DEF IInv
  <1>3. QED
    BY <1>1, <1>2, PTL DEF Spec

\* Every variable keeps its type, for any layout and any boundaries.
THEOREM TypeCorrect == Spec => []TypeOK
  <1>1. IInv => TypeOK
    BY DEF IInv
  <1>2. QED
    BY <1>1, Invariant, PTL

\* The frame takes one correction per window, however often it is decoded.
THEOREM FrameIsWrittenOnce == Spec => []OneWritePerWindow
  <1>1. IInv => OneWritePerWindow
    <2> SUFFICES ASSUME IInv, NEW w \in Windows
                 PROVE  writes[w] <= 1 /\ (home[w] # Nothing => writes[w] = 0)
      BY DEF OneWritePerWindow
    <2>1. WritesAreFinal(w)
      BY DEF IInv, StageInv, StageOf
    <2>2. QED
      BY <2>1 DEF WritesAreFinal
  <1>2. QED
    BY <1>1, Invariant, PTL

\* The frame's result and the chain's final boundary are of one decode.
THEOREM FrameAndChainAgree == Spec => []FrameMatchesChain
  <1>1. IInv => FrameMatchesChain
    BY DEF IInv, StageInv, StageOf, BoundaryIsHeld, FrameMatchesChain
  <1>2. QED
    BY <1>1, Invariant, PTL

\* A decode whose reads are not what its window holds is known to be stale
\* before its verdict is applied, in whichever of its solves the reads are.
THEOREM WrongReadsAreCaught == Spec => []WrongReadsAreKnown
  <1>1. IInv => WrongReadsAreKnown
    <2> SUFFICES ASSUME IInv, NEW w \in Windows, w \notin stale,
                        NEW r \in AnswersInHand(w)
                 PROVE  r.reads = boundaryIn[w]
      BY DEF WrongReadsAreKnown
    <2>1. InHandIsCurrent(w)
      BY DEF IInv, ReadInv, ReadOf
    <2>2. CASE verdict[w] # Nothing /\ r = verdict[w].result
      BY <2>1, <2>2 DEF InHandIsCurrent
    <2>3. ASSUME NEW i \in 1..Solves, solves[w][i].phase \in {"running", "held"},
                 r = solves[w][i].result
          PROVE  r.reads = boundaryIn[w]
      BY <2>1, <2>3 DEF InHandIsCurrent, HasStarted
    <2>4. QED
      BY <2>2, <2>3 DEF AnswersInHand
  <1>2. QED
    BY <1>1, Invariant, PTL

\* The strong redo is pinned on final faces, though its window may have been
\* escalated on a guess.
THEOREM RedosArePinnedOnFinals == Spec => []RedoPinsFinalFaces
  <1>1. IInv => RedoPinsFinalFaces
    <2> SUFFICES ASSUME IInv, NEW w \in Windows, strong[w] # Nothing,
                        NEW d \in PinOf[w]
                 PROVE  IsFinal(d) /\ strong[w].reads[d] = record[d].committed
      BY DEF RedoPinsFinalFaces
    <2>1. TypeOK /\ LandedIsFinal(w) /\ RedoIsSure(w)
      BY DEF IInv, ReadInv, ReadOf
    <2>2. d \in Deps[w]
      BY <2>1, LayoutFacts DEF TypeOK
    <2>3. IsFinal(d)
      BY <2>1, <2>2, SureFacts DEF RedoIsSure
    <2>4. QED
      BY <2>1, <2>3 DEF RedoIsSure
  <1>2. QED
    BY <1>1, Invariant, PTL

-----------------------------------------------------------------------------
(* The windows answer as a serial run would *)

\* The answers the refinement maps to.
Answers == [w \in Windows |-> AnswerOf(w)]

\* An answer read on final boundaries is one a serial run gives.
LEMMA AnswersSerially ==
    ASSUME IInv, layout' = layout, NEW w \in Windows, NEW result \in Results,
           NEW later \in BOOLEAN, NEW readers \in {Deps[w], PinOf[w]},
           result.reads = [d \in readers |-> record[d].committed],
           \A d \in Deps[w] : IsFinal(d),
           AnswerOf(w) = Nothing,
           home' = [home EXCEPT ![w] = [result |-> result, isLater |-> later]],
           final' = final
    PROVE  Serial!Next
  <1>1. TypeOK /\ StageInv /\ layout \in Layouts
    BY DEF IInv, TypeOK
  <1>2. Deps[w] \subseteq Windows /\ readers \subseteq Deps[w]
    BY <1>1, LayoutFacts
  <1>3. \A d \in Deps[w] : /\ Answers[d] # Nothing
                           /\ Answers[d].boundary = record[d].committed
    BY <1>1, <1>2 DEF StageInv, StageOf, BoundaryIsHeld, Answers
  <1>4. result.reads = [d \in readers |-> Answers[d].boundary]
    BY <1>2, <1>3
  <1>5. result = [reads |-> [d \in readers |-> Answers[d].boundary],
                  boundary |-> result.boundary]
        /\ result.boundary \in Boundaries
    BY <1>4 DEF Results
  <1>6. /\ AnswerOf(w)' = result
        /\ \A x \in Windows : x # w => AnswerOf(x)' = AnswerOf(x)
    BY <1>1, SomethingFacts DEF AnswerOf, TypeOK
  <1>7. Answers' = [Answers EXCEPT ![w] = result]
    BY <1>6, LayoutKept DEF Answers
  <1>8. Answers[w] = Nothing
    BY DEF Answers
  <1>9. Serial!Answer(w, readers)
    BY <1>3, <1>5, <1>7, <1>8
    DEF Serial!Answer, Answers, Nothing, Serial!Nothing, Deps, Serial!Deps
  <1>10. QED
    BY <1>9 DEF Serial!Next, Serial!Windows, Serial!Deps, Serial!PinOf, Windows,
                Deps, PinOf

\* What a window holds is what its dependencies answered, once it is sure.
LEMMA SureReads ==
    ASSUME TypeOK, NEW w \in Windows,
           \A d \in Deps[w] : boundaryIn[w][d] = record[d].committed
    PROVE  boundaryIn[w] = [d \in Deps[w] |-> record[d].committed]
  BY BoundaryInTyped

LEMMA SettleAnswers ==
    ASSUME IInv, layout' = layout, NEW w \in Windows, verdict[w] # Nothing,
           Settle(w, verdict[w])
    PROVE  Serial!Next \/ Answers' = Answers
  <1>1. TypeOK /\ StageInv /\ ReadInv
    BY DEF IInv
  <1>2. AnswerOf(w) = Nothing
    BY <1>1, JudgedFacts
  <1>3. w \notin stale /\ (read[w] = Nothing \/ read[w].unconfirmed = {})
    BY DEF Settle, InputOf
  <1>4. /\ IsUnblocked(w) /\ provisional[w] = {}
        /\ verdict[w].result.reads = boundaryIn[w]
    BY <1>1, <1>3, VerdictReads
  <1>5. \A d \in Deps[w] : IsFinal(d) /\ boundaryIn[w][d] = record[d].committed
    BY <1>1, <1>4, SureFacts DEF ReadInv, ReadOf
  <1>6. verdict[w].result.reads = [d \in Deps[w] |-> record[d].committed]
    BY <1>1, <1>4, <1>5, SureReads
  <1>7. CASE Keeps(w, verdict[w].result)
    <2>1. /\ home' = [home EXCEPT ![w] = [result |-> verdict[w].result,
                                          isLater |-> FALSE]]
          /\ final' = final
      BY <1>7 DEF Keeps, results
    <2>2. verdict[w].result \in Results
      BY <1>1, VerdictTyped
    <2>3. QED
      BY <1>2, <1>5, <1>6, <2>1, <2>2, AnswersSerially
  <1>8. CASE CommitsProvisionally(w, verdict[w].result)
    BY <1>8, LayoutKept DEF CommitsProvisionally, Answers, AnswerOf
  <1>9. QED
    BY <1>7, <1>8 DEF Settle

LEMMA ConfirmedAnswers ==
    ASSUME IInv, layout' = layout, NEW m \in flying, LandConfirms(m)
    PROVE  Serial!Next \/ Answers' = Answers
  <1> DEFINE w == m.to
             v == waiting[w]
  <1>1. TypeOK /\ StageInv /\ DeliveriesAreShipped /\ ReadInv
    BY DEF IInv
  <1>2. w \in Windows /\ Merges(m) /\ v # Nothing
    BY <1>1, MessageTyped DEF LandConfirms
  <1>3. AnswerOf(w) = Nothing
    BY <1>1, <1>2, WaitingFacts
  <1>4. /\ IsUnblocked(w) /\ boundaryIn'[w] = boundaryIn[w]
        /\ provisional'[w] = {} /\ v.result.reads = boundaryIn[w]
    BY <1>1, ConfirmedFacts
  <1>5. ASSUME NEW d \in Deps[w]
        PROVE  IsFinal(d) /\ boundaryIn[w][d] = record[d].committed
    <2>1. CASE d = m.source
      <3>1. IsFinal(d) /\ m.boundary = record[d].committed
        BY <1>1, <1>2, <2>1, ShippedFacts DEF LandConfirms, Merges
      <3>2. boundaryIn'[w][d] = m.boundary
        BY <1>1, <1>2, <2>1, MergesFacts
      <3>3. QED
        BY <1>4, <3>1, <3>2
    <2>2. CASE d # m.source
      <3>1. provisional'[w] = provisional[w] \ {m.source}
        BY <1>1, <1>2, MergesFacts DEF LandConfirms
      <3>2. d \notin provisional[w]
        BY <1>4, <2>2, <3>1
      <3>3. QED
        BY <1>1, <1>2, <1>4, <3>2 DEF ReadInv, ReadOf, LandedIsFinal, IsUnblocked
    <2>3. QED
      BY <2>1, <2>2
  <1>6. v.result.reads = [d \in Deps[w] |-> record[d].committed]
    BY <1>1, <1>2, <1>4, <1>5, SureReads
  <1>7. CASE Keeps(w, v.result)
    <2>1. /\ home' = [home EXCEPT ![w] = [result |-> v.result, isLater |-> FALSE]]
          /\ final' = final
      BY <1>7 DEF Keeps, results
    <2>2. v.result \in Results
      BY <1>1, <1>2, WaitingTyped
    <2>3. QED
      BY <1>2, <1>3, <1>5, <1>6, <2>1, <2>2, AnswersSerially
  <1>8. CASE UNCHANGED <<record, revision, home, writes, results>>
    BY <1>8, LayoutKept DEF results, Answers, AnswerOf
  <1>9. QED
    BY <1>7, <1>8 DEF LandConfirms

LEMMA RedoAnswers ==
    ASSUME IInv, layout' = layout, NEW w \in Windows, EndStrong(w)
    PROVE  Serial!Next
  <1>1. TypeOK /\ StageInv /\ ReadInv
    BY DEF IInv
  <1>2. strong[w] # Nothing /\ final' = final
    BY DEF EndStrong, results
  <1>3. AnswerOf(w) = Nothing
    BY <1>1, <1>2, RedoneFacts
  <1>4. PICK b \in Boundaries, chosen \in Results :
            /\ \/ chosen = Result(strong[w].reads, b)
               \/ revision[w] # Nothing /\ chosen = revision[w]
            /\ home' = [home EXCEPT ![w] = [result |-> chosen, isLater |-> TRUE]]
    BY <1>1, EndStrongFacts
  <1>5. /\ IsUnblocked(w) /\ provisional[w] = {}
        /\ strong[w].reads = [d \in PinOf[w] |-> record[d].committed]
        /\ revision[w] # Nothing => revision[w].reads = boundaryIn[w]
    BY <1>1, <1>2 DEF ReadInv, ReadOf, RedoIsSure
  <1>6. \A d \in Deps[w] : IsFinal(d) /\ boundaryIn[w][d] = record[d].committed
    BY <1>1, <1>5, SureFacts DEF ReadInv, ReadOf
  <1>7. CASE chosen = Result(strong[w].reads, b)
    <2>1. chosen.reads = [d \in PinOf[w] |-> record[d].committed]
      BY <1>5, <1>7 DEF Result
    <2>2. QED
      BY <1>2, <1>3, <1>4, <1>6, <2>1, AnswersSerially
  <1>8. CASE revision[w] # Nothing /\ chosen = revision[w]
    <2>1. chosen.reads = [d \in Deps[w] |-> record[d].committed]
      BY <1>1, <1>5, <1>6, <1>8, SureReads
    <2>2. QED
      BY <1>2, <1>3, <1>4, <1>6, <2>1, AnswersSerially
  <1>9. QED
    BY <1>4, <1>7, <1>8

\* The result that goes home was the window's answer already.
LEMMA HomeAnswers ==
    ASSUME IInv, layout' = layout, NEW w \in Windows, LandHome(w)
    PROVE  Answers' = Answers
  <1>1. TypeOK
    BY DEF IInv
  <1>2. home[w] # Nothing
    BY DEF LandHome
  <1>3. /\ home'[w] = Nothing /\ final'[w] = home[w].result
        /\ \A x \in Windows \ {w} : home'[x] = home[x] /\ final'[x] = final[x]
    BY <1>1 DEF LandHome, TypeOK
  <1>4. \A x \in Windows : AnswerOf(x)' = AnswerOf(x)
    BY <1>2, <1>3 DEF AnswerOf
  <1>5. QED
    BY <1>4, LayoutKept DEF Answers

\* However windows commit on guesses, are decoded again and escalate, they
\* give the answers of a run that decodes each once on final boundaries.
THEOREM WindowsAnswerSerially == Spec => ImplementsSerial
  <1>1. Init => Serial!Init
    <2> SUFFICES ASSUME Init PROVE Serial!Init
      OBVIOUS
    <2>1. \A w \in Windows : AnswerOf(w) = Nothing
      BY DEF Init, AnswerOf
    <2>2. [w \in Windows |-> AnswerOf(w)] = [w \in Windows |-> Nothing]
      BY <2>1
    <2>3. QED
      BY <2>2 DEF Init, Serial!Init, Serial!Windows, Windows, Nothing, Serial!Nothing
  <1>2. IInv /\ [Next]_vars
            => [Serial!Next]_<<layout, [w \in Windows |-> AnswerOf(w)]>>
    <2> SUFFICES ASSUME IInv, [Next]_vars
                 PROVE  Serial!Next \/ (layout' = layout /\ Answers' = Answers)
      BY DEF Answers
    <2>1. layout' = layout
      BY DEF Next, vars
    <2>2. ASSUME UNCHANGED <<home, final>>
          PROVE  Answers' = Answers
      BY <2>1, <2>2, LayoutKept DEF Answers, AnswerOf
    <2>3. CASE UNCHANGED vars
      BY <2>1, <2>2, <2>3 DEF vars, answers, results
    <2>4. ASSUME NEW w \in Windows,
                 Request(w) \/ LandPin(w) \/ DropStale(w)
                 \/ CommitOnAGuess(w, verdict[w])
                 \/ \E i \in 1..Solves :
                        StartSolve(w, i) \/ HoldSolve(w, i) \/ JoinSolves(w, i)
          PROVE  Answers' = Answers
      <3>1. UNCHANGED <<home, final>>
        BY <2>4 DEF Request, LandPin, DropStale, CommitOnAGuess,
                    CommitsProvisionally, StartSolve, HoldSolve, JoinSolves,
                    answers, results
      <3>2. QED
        BY <2>2, <3>1
    <2>5. ASSUME NEW m \in flying, LandLate(m) \/ LandQuietly(m) \/ LandChanged(m)
          PROVE  Answers' = Answers
      <3>1. UNCHANGED <<home, final>>
        BY <2>5 DEF LandLate, LandQuietly, LandChanged, answers, results
      <3>2. QED
        BY <2>2, <3>1
    <2>6. QED
      BY <2>1, <2>3, <2>4, <2>5, SettleAnswers, ConfirmedAnswers, RedoAnswers,
         HomeAnswers DEF Next, Decode, GiveVerdict, LandBoundary
  <1>3. QED
    BY <1>1, <1>2, Invariant, PTL DEF Spec, ImplementsSerial, Serial!Spec


-----------------------------------------------------------------------------
(* Segments *)

\* Under the held row nothing provisional is ever shipped, landed or read.
NothingIsProvisional(w) ==
    ~Checked =>
        /\ provisional[w] = {} /\ read[w] = Nothing /\ waiting[w] = Nothing
        /\ record[w].version > 0 => ~record[w].held

\* A window that waits on its guess, is redone or is final is committed; under
\* the held row no other window is.
CommittedStage(w) ==
    /\ waiting[w] # Nothing \/ strong[w] # Nothing \/ final[w] # Nothing
            => w \in committed
    /\ home[w] # Nothing /\ home[w].isLater => w \in committed
    /\ ~Checked /\ w \in committed =>
        \/ strong[w] # Nothing \/ final[w] # Nothing
        \/ home[w] # Nothing /\ home[w].isLater

\* The counted prefix is the committed one, whatever commits and redos come.
PrefixIsCurrent ==
    \A s \in Streams : prefix[s] = CommittedPrefix(committed, s)

SegmentInv ==
    /\ \A m \in flying : m.version > 0
    /\ \A w \in Windows : NothingIsProvisional(w) /\ CommittedStage(w)
    /\ PrefixIsCurrent
    /\ DeliveredIsFinal /\ HeldSegmentsReleased

\* A step that takes nothing out of the courier or the results, and plans no
\* redo.
StaysPut ==
    /\ UNCHANGED <<record, home, results>>
    /\ \A w \in Windows :
        /\ waiting'[w] # Nothing => waiting[w] # Nothing
        /\ strong'[w] # Nothing <=> strong[w] # Nothing

\* A window keeps its place in the stages of a commit where nothing of it
\* changes but what StaysPut allows.
LEMMA CommittedStays ==
    ASSUME layout' = layout, NEW w \in Windows, CommittedStage(w),
           home'[w] = home[w], final'[w] = final[w],
           w \in committed' <=> w \in committed,
           waiting'[w] # Nothing => waiting[w] # Nothing,
           strong'[w] # Nothing <=> strong[w] # Nothing
    PROVE  CommittedStage(w)'
  BY LayoutKept DEF CommittedStage

\* The deliveries a commit sends are of a version of their own.
LEMMA VersionsArePositive ==
    ASSUME TypeOK, \A m \in flying : m.version > 0, NEW w \in Windows,
           NEW value \in Boundaries, NEW isFinal \in BOOLEAN,
           flying' \subseteq flying \cup Deliveries(w, value, isFinal)
    PROVE  \A m \in flying' : m.version > 0
  <1>1. \A m \in Deliveries(w, value, isFinal) : m.version = record[w].version + 1
    BY DeliveriesFacts
  <1>2. record[w].version + 1 > 0
    BY DEF TypeOK
  <1>3. QED
    BY <1>1, <1>2

\* What is kept for now under the held row is not shipped, and what is kept
\* for good is final.
LEMMA NothingProvisionalShips ==
    ASSUME TypeOK, StageInv, layout' = layout,
           \A x \in Windows : NothingIsProvisional(x),
           NEW w \in Windows, NEW value \in Boundaries, NEW isFinal \in BOOLEAN,
           ~IsFinal(w), record' = RecordAfter(w, value, isFinal),
           \A x \in Windows : /\ provisional'[x] \subseteq provisional[x]
                              /\ read'[x] # Nothing => read[x] # Nothing,
           ~Checked => \A x \in Windows : waiting'[x] = Nothing
    PROVE  \A x \in Windows : NothingIsProvisional(x)'
  <1> SUFFICES ASSUME ~Checked, NEW x \in Windows
               PROVE  /\ provisional'[x] = {} /\ read'[x] = Nothing
                      /\ waiting'[x] = Nothing
                      /\ record'[x].version > 0 => ~record'[x].held
    BY LayoutKept DEF NothingIsProvisional
  <1>1. provisional'[x] = {} /\ read'[x] = Nothing /\ waiting'[x] = Nothing
    BY DEF NothingIsProvisional
  <1>2. record'[x].version > 0 => ~record'[x].held
    <2>1. CASE x # w
      <3>1. record'[x] = record[x]
        BY <2>1, RecordAfterFacts
      <3>2. QED
        BY <3>1 DEF NothingIsProvisional
    <2>2. CASE x = w /\ isFinal
      <3>1. record'[w].held = ~isFinal
        BY RecordAfterFacts
      <3>2. QED
        BY <2>2, <3>1
    <2>3. CASE x = w /\ ~isFinal
      <3>1. record[w].version \in Nat
        BY DEF TypeOK
      <3>2. ~(record[w].version > 0)
        BY DEF NothingIsProvisional, IsFinal
      <3>3. record'[w].version = record[w].version
        BY <2>3, RecordAfterFacts DEF Ships
      <3>4. QED
        BY <2>3, <3>2, <3>3
    <2>4. QED
      BY <2>1, <2>2, <2>3
  <1>3. QED
    BY <1>1, <1>2

\* A boundary that lands under the held row is final.
LEMMA NothingProvisionalLands ==
    ASSUME TypeOK, layout' = layout, NEW m \in flying, Merges(m),
           m.version > 0, \A x \in Windows : NothingIsProvisional(x), ~Checked
    PROVE  \A x \in Windows : provisional'[x] = {}
  <1>1. m.source \in Windows /\ m.to \in Windows
    BY MessageTyped
  <1>2. IsFinal(m.source)
    BY <1>1, MergesFacts DEF NothingIsProvisional, IsFinal, IsCurrent
  <1>3. \A x \in Windows : provisional[x] = {}
    BY DEF NothingIsProvisional
  <1>4. \A x \in Windows : provisional'[x] = {}
    <2>1. provisional'[m.to] = provisional[m.to] \ {m.source}
      BY <1>2, MergesFacts
    <2>2. \A x \in Windows : x # m.to => provisional'[x] = provisional[x]
      BY MergesFacts
    <2>3. QED
      BY <1>1, <1>3, <2>1, <2>2
  <1>5. QED
    BY <1>4

-----------------------------------------------------------------------------
(* What a commit counts and releases *)

\* The committed prefix after a commit is the committed one, of every stream.
LEMMA PrefixStaysCurrent ==
    ASSUME TypeOK, layout' = layout, PrefixIsCurrent, NEW w \in Windows,
           committed' = committed \cup {w}, NotesCommitted(w)
    PROVE  PrefixIsCurrent'
  <1>1. Streams' = Streams /\ \A s : WindowsOf(s)' = WindowsOf(s)
    BY LayoutKept
  <1>2. prefix' = [prefix EXCEPT ![StreamOf[w]] =
                        CommittedPrefix(committed', StreamOf[w])]
    BY DEF NotesCommitted
  <1>3. DOMAIN prefix = Streams
    BY DEF TypeOK
  <1>4. \A s \in Streams \ {StreamOf[w]} :
            CommittedPrefix(committed', s) = CommittedPrefix(committed, s)
    BY DEF CommittedPrefix, WindowsOf
  <1>5. \A s \in Streams : prefix'[s] = CommittedPrefix(committed', s)
    BY <1>2, <1>3, <1>4 DEF PrefixIsCurrent
  <1>6. \A s : CommittedPrefix(committed, s)' = CommittedPrefix(committed', s)
    BY <1>1 DEF CommittedPrefix
  <1>7. QED
    BY <1>1, <1>5, <1>6 DEF PrefixIsCurrent

\* The prefix of a stream in which no window is newly committed stays.
LEMMA PrefixUnmoved ==
    ASSUME layout' = layout, PrefixIsCurrent, UNCHANGED <<committed, prefix>>
    PROVE  PrefixIsCurrent'
  BY LayoutKept DEF PrefixIsCurrent, CommittedPrefix

\* What was released stays final, and what is released now is.
LEMMA ReleasedIsFinal ==
    ASSUME TypeOK, layout' = layout, PrefixIsCurrent', DeliveredIsFinal,
           committed \subseteq committed',
           \A x \in Windows : final[x] # Nothing => final'[x] # Nothing,
           released' = released \/ \E s \in Streams : ReleasesSegments(s),
           delivered' = delivered \/ \E w \in Windows : Delivers(w)
    PROVE  DeliveredIsFinal'
  <1>1. /\ Segments' = Segments /\ Streams' = Streams /\ StreamOf' = StreamOf
        /\ Windows' = Windows
        /\ \A s : WindowsOf(s)' = WindowsOf(s)
    BY LayoutKept
  <1>2. Segments \subseteq Windows /\ \A x \in Windows : StreamOf[x] \in Streams
    BY LayoutFacts DEF TypeOK, Streams
  <1>3. \A s : WindowsOf(s) \subseteq Windows
    BY DEF WindowsOf
  <1>4. ASSUME NEW y \in Segments, SegmentIsFinal(y)'
        PROVE  \A x \in WindowsOf(StreamOf[y]) :
                    x <= y => x \in committed' /\ final'[x] # Nothing
    <2>1. y \in prefix'[StreamOf[y]]
      BY <1>1, <1>4 DEF SegmentIsFinal
    <2>2. prefix'[StreamOf[y]] = CommittedPrefix(committed, StreamOf[y])'
      BY <1>1, <1>2 DEF PrefixIsCurrent
    <2>3. \A x \in WindowsOf(StreamOf[y]) : x <= y => x \in committed'
      BY <1>1, <2>1, <2>2 DEF CommittedPrefix
    <2>4. \A x \in WindowsOf(StreamOf[y]) :
                x <= y => ~(x \in committed' /\ final'[x] = Nothing)
      BY <1>1, <1>4 DEF SegmentIsFinal, AwaitsFinal
    <2>5. QED
      BY <2>3, <2>4
  <1>5. ASSUME NEW y \in released', NEW x \in WindowsOf(StreamOf[y]), x <= y
        PROVE  x \in committed' /\ final'[x] # Nothing
    <2>1. CASE y \in released
      BY <1>3, <1>5, <2>1 DEF DeliveredIsFinal
    <2>2. CASE y \notin released
      <3>1. y \in Segments /\ SegmentIsFinal(y)'
        BY <2>2 DEF ReleasesSegments
      <3>2. QED
        BY <1>4, <1>5, <3>1
    <2>3. QED
      BY <2>1, <2>2
  <1>6. ASSUME NEW s \in delivered', NEW x \in WindowsOf(s)
        PROVE  final'[x] # Nothing
    <2>1. CASE s \in delivered
      BY <1>3, <1>6, <2>1 DEF DeliveredIsFinal
    <2>2. CASE s \notin delivered
      BY <1>6, <2>2 DEF Delivers
    <2>3. QED
      BY <2>1, <2>2
  <1>7. QED
    BY <1>1, <1>5, <1>6 DEF DeliveredIsFinal

\* Under the held row the segments of a stream are tried whenever one of its
\* windows is committed or final, unless that can change nothing.
LEMMA HeldStaysReleased ==
    ASSUME TypeOK, layout' = layout, HeldSegmentsReleased, PrefixIsCurrent,
           NEW w \in Windows,
           committed' = committed \cup {w},
           \A x \in Windows \ {w} : final'[x] = final[x],
           \/ ReleasesSegments(StreamOf[w])
           \/ /\ NotesCommitted(w)
              /\ w \in committed => final'[w] = final[w],
           \A s \in Streams \ {StreamOf[w]} : prefix'[s] = prefix[s]
    PROVE  HeldSegmentsReleased'
  <1> SUFFICES ASSUME ~Checked, NEW y \in Segments, SegmentIsFinal(y)'
               PROVE  y \in released'
    BY LayoutKept DEF HeldSegmentsReleased
  <1>1. /\ StreamOf' = StreamOf /\ \A s : WindowsOf(s)' = WindowsOf(s)
    BY LayoutKept
  <1>2. y \in Windows /\ StreamOf[y] \in Streams
    BY LayoutFacts DEF TypeOK, Streams
  <1>3. released \subseteq released'
    BY DEF ReleasesSegments, NotesCommitted
  <1>4. \A x \in WindowsOf(StreamOf[y]) : x <= y => ~AwaitsFinal(x)'
    BY <1>1 DEF SegmentIsFinal
  <1>5. y \in prefix'[StreamOf[y]]
    BY <1>1 DEF SegmentIsFinal
  <1>6. CASE ReleasesSegments(StreamOf[w]) /\ StreamOf[y] = StreamOf[w]
    BY <1>6 DEF ReleasesSegments
  <1>7. CASE ~(ReleasesSegments(StreamOf[w]) /\ StreamOf[y] = StreamOf[w])
    <2>1. prefix'[StreamOf[y]] = prefix[StreamOf[y]]
      <3>1. CASE StreamOf[y] # StreamOf[w]
        BY <1>2, <3>1
      <3>2. CASE StreamOf[y] = StreamOf[w]
        <4>1. /\ NotesCommitted(w) /\ ~ReleasesSegments(StreamOf[w])
          BY <1>7, <3>2
        <4>2. CommittedPrefix(committed', StreamOf[w]) = prefix[StreamOf[w]]
          BY <4>1 DEF NotesCommitted
        <4>3. QED
          BY <1>2, <3>2, <4>1, <4>2 DEF NotesCommitted, TypeOK
      <3>3. QED
        BY <3>1, <3>2
    <2>2. \A x \in WindowsOf(StreamOf[y]) : x <= y => ~AwaitsFinal(x)
      <3> SUFFICES ASSUME NEW x \in WindowsOf(StreamOf[y]), x <= y, AwaitsFinal(x)
                   PROVE  FALSE
        OBVIOUS
      <3>1. x \in Windows /\ StreamOf[x] = StreamOf[y]
        BY DEF WindowsOf
      <3>2. x \in committed /\ final[x] = Nothing
        BY DEF AwaitsFinal
      <3>3. final'[x] = final[x]
        <4>1. CASE x # w
          BY <3>1, <4>1
        <4>2. CASE x = w
          BY <1>7, <3>1, <3>2, <4>2
        <4>3. QED
          BY <4>1, <4>2
      <3>4. AwaitsFinal(x)'
        BY <3>2, <3>3 DEF AwaitsFinal
      <3>5. QED
        BY <1>4, <3>4
    <2>3. SegmentIsFinal(y)
      BY <1>5, <2>1, <2>2 DEF SegmentIsFinal
    <2>4. QED
      BY <1>3, <2>3 DEF HeldSegmentsReleased
  <1>8. QED
    BY <1>6, <1>7

\* Where nothing is committed or final anew, nothing is to be released.
LEMMA ResultsStayReleased ==
    ASSUME layout' = layout, PrefixIsCurrent, DeliveredIsFinal,
           HeldSegmentsReleased, UNCHANGED results
    PROVE  PrefixIsCurrent' /\ DeliveredIsFinal' /\ HeldSegmentsReleased'
  <1>1. UNCHANGED <<committed, final, prefix, released, delivered>>
    BY DEF results
  <1>2. /\ Segments' = Segments /\ Streams' = Streams /\ StreamOf' = StreamOf
        /\ Windows' = Windows /\ Checked' = Checked
        /\ \A s : WindowsOf(s)' = WindowsOf(s)
    BY LayoutKept
  <1>3. PrefixIsCurrent'
    BY <1>1, PrefixUnmoved
  <1>4. DeliveredIsFinal'
    BY <1>1, <1>2 DEF DeliveredIsFinal
  <1>5. HeldSegmentsReleased'
    BY <1>1, <1>2 DEF HeldSegmentsReleased, SegmentIsFinal, AwaitsFinal
  <1>6. QED
    BY <1>3, <1>4, <1>5

-----------------------------------------------------------------------------
(* The steps *)

\* A window committed for now, which was not answered: the first commit of a
\* window that was not committed, or another of one that was.
LEMMA CommittedForNow ==
    ASSUME TypeOK, layout' = layout, SegmentInv, NEW w \in Windows,
           NEW result \in Results, CommitsProvisionally(w, result)
    PROVE  /\ PrefixIsCurrent' /\ DeliveredIsFinal' /\ HeldSegmentsReleased'
           /\ committed' = committed \cup {w}
           /\ UNCHANGED <<home, final>>
  <1>1. /\ committed' = committed \cup {w} /\ NotesCommitted(w)
        /\ UNCHANGED <<home, writes, final, delivered>>
    BY DEF CommitsProvisionally
  <1>2. PrefixIsCurrent'
    BY <1>1, PrefixStaysCurrent DEF SegmentInv
  <1>3. released' = released \/ ReleasesSegments(StreamOf[w])
    BY <1>1 DEF NotesCommitted
  <1>4. StreamOf[w] \in Streams
    BY DEF Streams
  <1>5. DeliveredIsFinal'
    BY <1>1, <1>2, <1>3, <1>4, ReleasedIsFinal DEF SegmentInv
  <1>6. \A s \in Streams \ {StreamOf[w]} : prefix'[s] = prefix[s]
    BY <1>1 DEF NotesCommitted, TypeOK
  <1>7. HeldSegmentsReleased'
    BY <1>1, <1>6, HeldStaysReleased DEF SegmentInv
  <1>8. QED
    BY <1>1, <1>2, <1>5, <1>7

\* The steps of a window's solves, and the verdict on a stale one.
OnlySolves(w) ==
    \/ Request(w) \/ DropStale(w)
    \/ \E i \in 1..Solves : StartSolve(w, i) \/ HoldSolve(w, i) \/ JoinSolves(w, i)

\* A decode that is asked for, starts, ends or is joined.
LEMMA SolvesSegments ==
    ASSUME IInv, layout' = layout, SegmentInv, NEW w \in Windows,
           OnlySolves(w)
    PROVE  SegmentInv'
  <1>1. /\ UNCHANGED <<record, home, strong, waiting, provisional, flying>>
        /\ UNCHANGED results
    BY DEF OnlySolves, Request, DropStale, StartSolve, HoldSolve, JoinSolves, courier, checks,
           answers
  <1>2. \A x \in Windows : ~Checked => read'[x] = Nothing
    <2> SUFFICES ASSUME NEW x \in Windows, ~Checked
                 PROVE  read'[x] = Nothing
      OBVIOUS
    <2>1. \A y \in Windows : provisional[y] = {} /\ read[y] = Nothing
      BY DEF SegmentInv, NothingIsProvisional
    <2>2. read \in [Windows -> [state : ReadsOver(Windows),
                                unconfirmed : SUBSET Windows] \cup {Nothing}]
      BY DEF IInv, TypeOK
    <2>3. read' = read \/ read' = [read EXCEPT ![w] = Nothing]
      BY <2>1 DEF OnlySolves, Request, DropStale, StartSolve, HoldSolve, JoinSolves, NotesRead,
             checks
    <2>4. QED
      BY <2>1, <2>2, <2>3
  <1>3. /\ Windows' = Windows /\ Checked' = Checked
    BY LayoutKept
  <1>4. \A x \in Windows : NothingIsProvisional(x)'
    BY <1>1, <1>2, <1>3 DEF SegmentInv, NothingIsProvisional
  <1>5. \A x \in Windows : CommittedStage(x)'
    BY <1>1, CommittedStays DEF SegmentInv, results
  <1>6. QED
    BY <1>1, <1>3, <1>4, <1>5, ResultsStayReleased DEF SegmentInv

\* A guess is committed: never under the held row.
LEMMA CommitOnAGuessSegments ==
    ASSUME IInv, layout' = layout, SegmentInv, NEW w \in Windows,
           verdict[w] # Nothing, CommitOnAGuess(w, verdict[w])
    PROVE  SegmentInv'
  <1> DEFINE v == verdict[w]
  <1>1. TypeOK /\ StageInv /\ v \in VerdictsGiven
    BY VerdictTyped DEF IInv
  <1>2. /\ strong[w] = Nothing /\ home[w] = Nothing /\ final[w] = Nothing
        /\ ~IsFinal(w)
    BY <1>1, JudgedFacts
  <1>3. v.result \in Results /\ v.result.boundary \in Boundaries
    BY <1>1 DEF VerdictsGiven, Results
  <1>4. /\ CommitsProvisionally(w, v.result)
        /\ flying' = flying \cup Deliveries(w, v.result.boundary, FALSE)
        /\ waiting' = [waiting EXCEPT ![w] = v]
        /\ UNCHANGED <<provisional, read, strong>>
    BY DEF CommitOnAGuess
  <1>5. Checked
    <2> SUFFICES ASSUME ~Checked PROVE FALSE
      BY <1>1, LayoutFacts DEF TypeOK
    <2>1. read[w] = Nothing
      BY DEF SegmentInv, NothingIsProvisional
    <2>2. InputOf(w) # "provisional"
      BY <2>1 DEF InputOf
    <2>3. QED
      BY <2>2 DEF CommitOnAGuess
  <1>6. /\ PrefixIsCurrent' /\ DeliveredIsFinal' /\ HeldSegmentsReleased'
        /\ committed' = committed \cup {w} /\ UNCHANGED <<home, final>>
    BY <1>1, <1>3, <1>4, CommittedForNow
  <1>7. Windows' = Windows /\ Checked' = Checked
    BY LayoutKept
  <1>8. \A x \in Windows : NothingIsProvisional(x)'
    BY <1>5, <1>7 DEF NothingIsProvisional
  <1>9. ASSUME NEW x \in Windows PROVE CommittedStage(x)'
    <2>1. waiting'[x] # Nothing => waiting[x] # Nothing \/ x = w
      BY <1>1, <1>4 DEF TypeOK
    <2>2. CommittedStage(x)
      BY DEF SegmentInv
    <2>3. QED
      BY <1>4, <1>5, <1>6, <1>7, <2>1, <2>2 DEF CommittedStage
  <1>10. \A m \in flying' : m.version > 0
    BY <1>1, <1>3, <1>4, VersionsArePositive DEF SegmentInv
  <1>11. QED
    BY <1>6, <1>7, <1>8, <1>9, <1>10 DEF SegmentInv

\* A verdict on a final input is acted on.
LEMMA SettleSegments ==
    ASSUME IInv, layout' = layout, SegmentInv, NEW w \in Windows,
           verdict[w] # Nothing, Settle(w, verdict[w])
    PROVE  SegmentInv'
  <1> DEFINE v == verdict[w]
  <1>1. TypeOK /\ StageInv /\ v \in VerdictsGiven
    BY VerdictTyped DEF IInv
  <1>2. /\ strong[w] = Nothing /\ home[w] = Nothing /\ final[w] = Nothing
        /\ waiting[w] = Nothing /\ ~IsFinal(w)
    BY <1>1, JudgedFacts
  <1>3. v.result \in Results /\ v.result.boundary \in Boundaries
    BY <1>1 DEF VerdictsGiven, Results
  <1>4. /\ read' = [read EXCEPT ![w] = Nothing]
        /\ UNCHANGED <<provisional, waiting>>
    BY DEF Settle
  <1>5. Windows' = Windows /\ Checked' = Checked
    BY LayoutKept
  <1>6. /\ \A x \in Windows : /\ provisional'[x] \subseteq provisional[x]
                              /\ read'[x] # Nothing => read[x] # Nothing
        /\ ~Checked => \A x \in Windows : waiting'[x] = Nothing
    BY <1>1, <1>4 DEF TypeOK, SegmentInv, NothingIsProvisional
  <1>7. CASE Keeps(w, v.result)
             /\ flying' = flying \cup Deliveries(w, v.result.boundary, TRUE)
    <2>1. /\ record' = RecordAfter(w, v.result.boundary, TRUE)
          /\ home' = [home EXCEPT ![w] = [result |-> v.result, isLater |-> FALSE]]
          /\ strong' = strong /\ UNCHANGED results
      BY <1>7 DEF Keeps
    <2>2. \A x \in Windows : NothingIsProvisional(x)'
      BY <1>1, <1>2, <1>3, <1>6, <2>1, NothingProvisionalShips DEF SegmentInv
    <2>3. \A m \in flying' : m.version > 0
      BY <1>1, <1>3, <1>7, VersionsArePositive DEF SegmentInv
    <2>4. ASSUME NEW x \in Windows PROVE CommittedStage(x)'
      <3>1. CommittedStage(x)
        BY DEF SegmentInv
      <3>2. UNCHANGED <<committed, final>>
        BY <2>1 DEF results
      <3>3. CASE x # w
        <4>1. home'[x] = home[x]
          BY <2>1, <3>3
        <4>2. QED
          BY <1>4, <2>1, <3>1, <3>2, <4>1, CommittedStays
      <3>4. CASE x = w
        <4>1. ~home'[w].isLater
          BY <1>1, <2>1 DEF TypeOK
        <4>2. ~(~Checked /\ w \in committed)
          BY <1>2, <3>1, <3>4 DEF CommittedStage
        <4>3. QED
          BY <1>2, <1>4, <1>5, <2>1, <3>1, <3>2, <3>4, <4>1, <4>2 DEF CommittedStage
      <3>5. QED
        BY <3>3, <3>4
    <2>5. PrefixIsCurrent' /\ DeliveredIsFinal' /\ HeldSegmentsReleased'
      BY <2>1, ResultsStayReleased DEF SegmentInv
    <2>6. QED
      BY <1>5, <2>2, <2>3, <2>4, <2>5 DEF SegmentInv
  <1>8. CASE /\ PlansRedo(w) /\ CommitsProvisionally(w, v.result)
             /\ flying' = flying \cup Deliveries(w, v.result.boundary, FALSE)
    <2>1. record' = RecordAfter(w, v.result.boundary, FALSE)
      BY <1>8 DEF CommitsProvisionally
    <2>2. \A x \in Windows : NothingIsProvisional(x)'
      BY <1>1, <1>2, <1>3, <1>6, <2>1, NothingProvisionalShips DEF SegmentInv
    <2>3. \A m \in flying' : m.version > 0
      BY <1>1, <1>3, <1>8, VersionsArePositive DEF SegmentInv
    <2>4. /\ PrefixIsCurrent' /\ DeliveredIsFinal' /\ HeldSegmentsReleased'
          /\ committed' = committed \cup {w} /\ UNCHANGED <<home, final>>
      BY <1>1, <1>3, <1>8, CommittedForNow
    <2>5. ASSUME NEW x \in Windows PROVE CommittedStage(x)'
      <3>1. CommittedStage(x)
        BY DEF SegmentInv
      <3>2. strong'[w] # Nothing /\ (x # w => strong'[x] = strong[x])
        BY <1>1, <1>8, SomethingFacts DEF PlansRedo, TypeOK
      <3>3. CASE x # w
        BY <1>4, <2>4, <3>1, <3>2, <3>3, CommittedStays
      <3>4. CASE x = w
        BY <1>5, <2>4, <3>2, <3>4 DEF CommittedStage
      <3>5. QED
        BY <3>3, <3>4
    <2>6. QED
      BY <1>5, <2>2, <2>3, <2>4, <2>5 DEF SegmentInv
  <1>9. QED
    BY <1>7, <1>8 DEF Settle

\* A boundary lands on a window that acts on no verdict.
LEMMA LandsSegments ==
    ASSUME IInv, layout' = layout, SegmentInv, NEW m \in flying,
           LandLate(m) \/ LandQuietly(m) \/ LandChanged(m)
    PROVE  SegmentInv'
  <1>0. TypeOK /\ m.to \in Windows
    BY MessageTyped DEF IInv
  <1>1. /\ UNCHANGED <<record, home, strong>> /\ UNCHANGED results
        /\ flying' = flying \ {m}
    BY DEF LandLate, LandQuietly, LandChanged, answers
  <1>2. waiting' = waiting \/ waiting' = [waiting EXCEPT ![m.to] = Nothing]
    BY DEF LandLate, LandQuietly, LandChanged, checks
  <1>3. \A x \in Windows : waiting'[x] # Nothing => waiting[x] # Nothing
    BY <1>0, <1>2 DEF TypeOK
  <1>4. ASSUME ~Checked, NEW x \in Windows
        PROVE  provisional'[x] = {} /\ read'[x] = Nothing
    <2>1. \A y \in Windows : provisional[y] = {} /\ read[y] = Nothing
      BY <1>4 DEF SegmentInv, NothingIsProvisional
    <2>2. CASE LandLate(m)
      BY <2>1, <2>2 DEF LandLate, checks
    <2>3. CASE LandQuietly(m)
      <3>1. provisional'[x] = {}
        BY <1>0, <1>4, <2>3, NothingProvisionalLands DEF LandQuietly, SegmentInv
      <3>2. read' = read
        BY <1>0, <2>1, <2>3 DEF LandQuietly
      <3>3. QED
        BY <2>1, <3>1, <3>2
    <2>4. CASE LandChanged(m)
      BY <1>0, <2>1, <2>4 DEF LandChanged
    <2>5. QED
      BY <2>2, <2>3, <2>4
  <1>5. Windows' = Windows /\ Checked' = Checked
    BY LayoutKept
  <1>6. \A x \in Windows : NothingIsProvisional(x)'
    BY <1>1, <1>3, <1>4, <1>5 DEF SegmentInv, NothingIsProvisional
  <1>7. \A x \in Windows : CommittedStage(x)'
    BY <1>1, <1>3, CommittedStays DEF SegmentInv, results
  <1>8. QED
    BY <1>1, <1>5, <1>6, <1>7, ResultsStayReleased DEF SegmentInv

\* A guess is confirmed, and its verdict acted on: never under the held row.
LEMMA LandConfirmsSegments ==
    ASSUME IInv, layout' = layout, SegmentInv, NEW m \in flying, LandConfirms(m)
    PROVE  SegmentInv'
  <1> DEFINE w == m.to
             v == waiting[w]
  <1>1. TypeOK /\ StageInv /\ w \in Windows /\ v # Nothing
    BY MessageTyped DEF IInv, LandConfirms
  <1>2. v \in VerdictsGiven
    BY <1>1, WaitingTyped
  <1>3. v.result \in Results /\ v.result.boundary \in Boundaries
    BY <1>2 DEF VerdictsGiven, Results
  <1>4. Checked
    BY <1>1, LayoutFacts DEF TypeOK, SegmentInv, NothingIsProvisional
  <1>5. Windows' = Windows /\ Checked' = Checked
    BY LayoutKept
  <1>6. \A x \in Windows : NothingIsProvisional(x)'
    BY <1>4, <1>5 DEF NothingIsProvisional
  <1>7. waiting' = [waiting EXCEPT ![w] = Nothing]
    BY DEF LandConfirms
  <1>8. w \in committed
    BY <1>1 DEF SegmentInv, CommittedStage
  <1>9. CASE Keeps(w, v.result)
             /\ flying' = (flying \ {m}) \cup Deliveries(w, v.result.boundary, TRUE)
    <2>1. /\ home' = [home EXCEPT ![w] = [result |-> v.result, isLater |-> FALSE]]
          /\ strong' = strong /\ UNCHANGED results
      BY <1>9 DEF Keeps
    <2>2. \A n \in flying' : n.version > 0
      BY <1>1, <1>3, <1>9, VersionsArePositive DEF SegmentInv
    <2>3. ASSUME NEW x \in Windows PROVE CommittedStage(x)'
      <3>1. CommittedStage(x) /\ UNCHANGED <<committed, final>>
        BY <2>1 DEF SegmentInv, results
      <3>2. home'[x] = IF x = w THEN [result |-> v.result, isLater |-> FALSE]
                       ELSE home[x]
        BY <1>1, <2>1 DEF TypeOK
      <3>3. waiting'[x] # Nothing => waiting[x] # Nothing
        BY <1>1, <1>7 DEF TypeOK
      <3>4. QED
        BY <1>4, <1>5, <1>8, <2>1, <3>1, <3>2, <3>3 DEF CommittedStage
    <2>4. PrefixIsCurrent' /\ DeliveredIsFinal' /\ HeldSegmentsReleased'
      BY <2>1, ResultsStayReleased DEF SegmentInv
    <2>5. QED
      BY <1>5, <1>6, <2>2, <2>3, <2>4 DEF SegmentInv
  <1>10. CASE /\ PlansRedo(w) /\ flying' = flying \ {m}
              /\ UNCHANGED <<record, revision, home, writes, results>>
    <2>1. ASSUME NEW x \in Windows PROVE CommittedStage(x)'
      <3>1. CommittedStage(x) /\ UNCHANGED <<committed, final, home>>
        BY <1>10 DEF SegmentInv, results
      <3>2. x # w => strong'[x] = strong[x]
        BY <1>1, <1>10 DEF PlansRedo, TypeOK
      <3>3. waiting'[x] # Nothing => waiting[x] # Nothing
        BY <1>1, <1>7 DEF TypeOK
      <3>4. QED
        BY <1>4, <1>5, <1>8, <3>1, <3>2, <3>3 DEF CommittedStage
    <2>2. PrefixIsCurrent' /\ DeliveredIsFinal' /\ HeldSegmentsReleased'
      BY <1>10, ResultsStayReleased DEF SegmentInv
    <2>3. QED
      BY <1>5, <1>6, <1>10, <2>1, <2>2 DEF SegmentInv
  <1>11. QED
    BY <1>9, <1>10 DEF LandConfirms

\* The pin of a redo lands, or the redo ends.
LEMMA RedoSegments ==
    ASSUME IInv, layout' = layout, SegmentInv, NEW w \in Windows,
           LandPin(w) \/ EndStrong(w)
    PROVE  SegmentInv'
  <1>1. /\ TypeOK /\ StageInv /\ strong[w] # Nothing
        /\ UNCHANGED checks /\ UNCHANGED results
    BY DEF IInv, LandPin, EndStrong
  <1>2. Windows' = Windows /\ Checked' = Checked
    BY LayoutKept
  <1>3. PrefixIsCurrent' /\ DeliveredIsFinal' /\ HeldSegmentsReleased'
    BY <1>1, ResultsStayReleased DEF SegmentInv
  <1>4. CASE LandPin(w)
    <2>1. UNCHANGED <<record, home, flying>>
      BY <1>4 DEF LandPin, courier
    <2>2. \A x \in Windows : strong'[x] # Nothing <=> strong[x] # Nothing
      <3> SUFFICES ASSUME NEW x \in Windows
                   PROVE  strong'[x] # Nothing <=> strong[x] # Nothing
        OBVIOUS
      <3>1. strong[w] \in [phase : {"pinning", "running"}, reads : ReadsOver(Windows)]
        BY <1>1 DEF TypeOK
      <3>2. strong' = [strong EXCEPT ![w].phase = "running"]
        BY <1>4 DEF LandPin
      <3>3. CASE x = w
        <4>1. strong'[w] = [phase |-> "running", reads |-> strong[w].reads]
          BY <1>1, <3>1, <3>2 DEF TypeOK
        <4>2. QED
          BY <1>1, <3>3, <4>1, SomethingFacts
      <3>4. CASE x # w
        BY <1>1, <3>2, <3>4 DEF TypeOK
      <3>5. QED
        BY <3>3, <3>4
    <2>3. \A x \in Windows : NothingIsProvisional(x)'
      BY <1>1, <1>2, <2>1 DEF SegmentInv, NothingIsProvisional, checks
    <2>4. \A x \in Windows : CommittedStage(x)'
      BY <1>1, <2>1, <2>2, CommittedStays DEF SegmentInv, checks, results
    <2>5. QED
      BY <1>2, <1>3, <2>1, <2>3, <2>4 DEF SegmentInv
  <1>5. CASE EndStrong(w)
    <2>1. PICK b \in Boundaries, chosen \in Results :
            /\ home' = [home EXCEPT ![w] = [result |-> chosen, isLater |-> TRUE]]
            /\ record' = Finalized(w, chosen.boundary)
            /\ flying' = flying \cup
                            {[source |-> w, to |-> x, version |-> record[w].version + 1,
                              boundary |-> chosen.boundary] : x \in Dependents(w)}
      BY <1>1, <1>5, EndStrongFacts
    <2>2. /\ chosen.boundary \in Boundaries
          /\ strong' = [strong EXCEPT ![w] = Nothing]
      BY <1>5 DEF Results, EndStrong
    <2>3. record[w].version + 1 > 0
      BY <1>1 DEF TypeOK
    <2>4. \A m \in flying' : m.version > 0
      BY <2>1, <2>3 DEF SegmentInv
    <2>5. ASSUME NEW x \in Windows PROVE NothingIsProvisional(x)'
      <3>1. x # w => record'[x] = record[x]
        BY <1>1, <2>1, <2>2, FinalizedFacts
      <3>2. ~record'[w].held
        BY <1>1, <2>1, <2>2, FinalizedFacts
      <3>3. NothingIsProvisional(x)
        BY DEF SegmentInv
      <3>4. QED
        BY <1>1, <1>2, <3>1, <3>2, <3>3 DEF NothingIsProvisional, checks
    <2>6. ASSUME NEW x \in Windows PROVE CommittedStage(x)'
      <3>1. CommittedStage(x) /\ UNCHANGED <<committed, final, waiting>>
        BY <1>1 DEF SegmentInv, checks, results
      <3>2. CASE x # w
        <4>1. home'[x] = home[x] /\ strong'[x] = strong[x]
          BY <1>1, <2>1, <2>2, <3>2 DEF TypeOK
        <4>2. QED
          BY <3>1, <4>1, CommittedStays
      <3>3. CASE x = w
        <4>1. /\ home'[w] = [result |-> chosen, isLater |-> TRUE]
              /\ strong'[w] = Nothing
          BY <1>1, <2>1, <2>2 DEF TypeOK
        <4>2. w \in committed
          BY <1>1, <3>1, <3>3 DEF CommittedStage
        <4>3. home'[w] # Nothing /\ home'[w].isLater
          BY <4>1, SomethingFacts
        <4>4. QED
          BY <3>1, <3>3, <4>2, <4>3 DEF CommittedStage
      <3>4. QED
        BY <3>2, <3>3
    <2>7. QED
      BY <1>2, <1>3, <2>4, <2>5, <2>6 DEF SegmentInv
  <1>6. QED
    BY <1>4, <1>5

\* The frame takes a window's correction: a first revision commits it, a later
\* one is of a window that is committed.
LEMMA LandHomeSegments ==
    ASSUME IInv, layout' = layout, SegmentInv, NEW w \in Windows, LandHome(w)
    PROVE  SegmentInv'
  <1>1. /\ TypeOK /\ StageInv /\ home[w] # Nothing
        /\ home' = [home EXCEPT ![w] = Nothing]
        /\ final' = [final EXCEPT ![w] = home[w].result]
        /\ committed' = committed \cup {w}
        /\ Delivers(w)
        /\ UNCHANGED <<courier, checks>> /\ strong' = strong
        /\ home[w].isLater => UNCHANGED prefix /\ ReleasesSegments(StreamOf[w])
        /\ ~home[w].isLater => NotesCommitted(w)
    BY DEF IInv, LandHome
  <1>2. /\ Windows' = Windows /\ Checked' = Checked /\ Streams' = Streams
        /\ \A s : WindowsOf(s)' = WindowsOf(s)
    BY LayoutKept
  <1>3. home[w].result \in Results /\ home[w].result # Nothing
        /\ home[w].isLater \in BOOLEAN
    BY <1>1, SomethingFacts DEF TypeOK
  <1>4. strong[w] = Nothing /\ final[w] = Nothing
    <2>1. StageOf(w)
      BY <1>1 DEF StageInv
    <2>2. AnswerOf(w) # Nothing
      BY <1>1, <1>3, AnswerFacts
    <2>3. QED
      BY <1>1, <2>1, <2>2 DEF StageOf, OneStage, WritesAreFinal
  <1>5. /\ final'[w] # Nothing /\ home'[w] = Nothing
        /\ \A x \in Windows \ {w} : final'[x] = final[x] /\ home'[x] = home[x]
    BY <1>1, <1>3 DEF TypeOK
  <1>6. CommittedStage(w)
    BY DEF SegmentInv
  <1>7. home[w].isLater => w \in committed
    BY <1>1, <1>6 DEF CommittedStage
  <1>8. ~Checked /\ ~home[w].isLater => w \notin committed
    BY <1>4, <1>6 DEF CommittedStage
  <1>9. PrefixIsCurrent'
    <2>1. CASE home[w].isLater
      <3>1. committed' = committed /\ prefix' = prefix
        BY <1>1, <1>7, <2>1
      <3>2. QED
        BY <3>1, PrefixUnmoved DEF SegmentInv
    <2>2. CASE ~home[w].isLater
      BY <1>1, <2>2, PrefixStaysCurrent DEF SegmentInv
    <2>3. QED
      BY <2>1, <2>2
  <1>10. DeliveredIsFinal'
    <2>1. released' = released \/ ReleasesSegments(StreamOf[w])
      BY <1>1, <1>3 DEF NotesCommitted
    <2>2. StreamOf[w] \in Streams
      BY DEF Streams
    <2>3. \A x \in Windows : final[x] # Nothing => final'[x] # Nothing
      BY <1>5
    <2>4. QED
      BY <1>1, <1>9, <2>1, <2>2, <2>3, ReleasedIsFinal DEF SegmentInv
  <1>11. HeldSegmentsReleased'
    <2>0. CASE Checked
      BY <1>2, <2>0 DEF HeldSegmentsReleased
    <2>1. CASE ~Checked
      <3>1. \/ ReleasesSegments(StreamOf[w])
            \/ NotesCommitted(w) /\ (w \in committed => final'[w] = final[w])
        BY <1>1, <1>3, <1>8, <2>1
      <3>2. \A s \in Streams \ {StreamOf[w]} : prefix'[s] = prefix[s]
        BY <1>1, <1>3 DEF NotesCommitted, TypeOK
      <3>3. QED
        BY <1>1, <1>5, <3>1, <3>2, HeldStaysReleased DEF SegmentInv
    <2>2. QED
      BY <2>0, <2>1
  <1>12. \A x \in Windows : NothingIsProvisional(x)'
    BY <1>1, <1>2 DEF SegmentInv, NothingIsProvisional, courier, checks
  <1>13. ASSUME NEW x \in Windows PROVE CommittedStage(x)'
    <2>1. CommittedStage(x) /\ waiting' = waiting
      BY <1>1 DEF SegmentInv, checks
    <2>2. CASE x # w
      <3>1. x \in committed' <=> x \in committed
        BY <1>1, <2>2
      <3>2. QED
        BY <1>1, <1>5, <2>1, <2>2, <3>1, CommittedStays
    <2>3. CASE x = w
      BY <1>1, <1>5, <2>3 DEF CommittedStage
    <2>4. QED
      BY <2>2, <2>3
  <1>14. \A m \in flying' : m.version > 0
    BY <1>1 DEF SegmentInv, courier
  <1>15. QED
    BY <1>2, <1>9, <1>10, <1>11, <1>12, <1>13, <1>14 DEF SegmentInv

\* Every step keeps what is said of the segments.
LEMMA NextSegments ==
    ASSUME IInv, SegmentInv, [Next]_vars
    PROVE  SegmentInv'
  <1>1. layout' = layout
    BY DEF Next, vars
  <1>2. CASE UNCHANGED vars
    <2>1. UNCHANGED <<record, home, strong, waiting, read, provisional, flying>>
          /\ UNCHANGED results
      BY <1>2 DEF vars, decoding, courier, checks, answers
    <2>2. Windows' = Windows /\ Checked' = Checked
      BY <1>1, LayoutKept
    <2>3. \A x \in Windows : NothingIsProvisional(x)'
      BY <2>1, <2>2 DEF SegmentInv, NothingIsProvisional
    <2>4. \A x \in Windows : CommittedStage(x)'
      BY <1>1, <2>1, CommittedStays DEF SegmentInv, results
    <2>5. QED
      BY <1>1, <2>1, <2>2, <2>3, <2>4, ResultsStayReleased DEF SegmentInv
  <1>3. ASSUME NEW w \in Windows, Decode(w)
        PROVE  SegmentInv'
    <2>1. CASE GiveVerdict(w)
      <3>1. verdict[w] # Nothing /\ verdict' = [verdict EXCEPT ![w] = Nothing]
        BY <2>1 DEF GiveVerdict
      <3>2. CASE DropStale(w)
        BY <1>1, <3>2, SolvesSegments DEF OnlySolves
      <3>3. CASE CommitOnAGuess(w, verdict[w])
        BY <1>1, <3>1, <3>3, CommitOnAGuessSegments
      <3>4. CASE Settle(w, verdict[w])
        BY <1>1, <3>1, <3>4, SettleSegments
      <3>5. QED
        BY <2>1, <3>2, <3>3, <3>4 DEF GiveVerdict
    <2>2. CASE ~GiveVerdict(w)
      <3>1. OnlySolves(w)
        BY <1>3, <2>2 DEF Decode, OnlySolves
      <3>2. QED
        BY <1>1, <3>1, SolvesSegments
    <2>3. QED
      BY <2>1, <2>2
  <1>4. ASSUME NEW w \in Windows, LandPin(w) \/ EndStrong(w) \/ LandHome(w)
        PROVE  SegmentInv'
    BY <1>1, <1>4, RedoSegments, LandHomeSegments
  <1>5. ASSUME NEW m \in flying, LandBoundary(m)
        PROVE  SegmentInv'
    BY <1>1, <1>5, LandsSegments, LandConfirmsSegments DEF LandBoundary
  <1>6. QED
    BY <1>2, <1>3, <1>4, <1>5 DEF Next

\* It holds when nothing has happened yet.
LEMMA InitSegments == Init => SegmentInv
  <1> SUFFICES ASSUME Init PROVE SegmentInv
    OBVIOUS
  <1>1. /\ flying = {} /\ committed = {} /\ released = {} /\ delivered = {}
        /\ \A w \in Windows :
            /\ provisional[w] = {} /\ read[w] = Nothing /\ waiting[w] = Nothing
            /\ strong[w] = Nothing /\ home[w] = Nothing /\ final[w] = Nothing
            /\ record[w].version = 0
        /\ \A s \in Streams : prefix[s] = {}
    BY DEF Init
  <1>2. PrefixIsCurrent
    <2> SUFFICES ASSUME NEW s \in Streams, NEW w \in CommittedPrefix(committed, s)
                 PROVE  FALSE
      BY <1>1 DEF PrefixIsCurrent
    <2>1. w \in WindowsOf(s) /\ \A x \in WindowsOf(s) : x <= w => x \in committed
      BY DEF CommittedPrefix
    <2>2. w <= w
      <3>1. w \in Nat
        BY <2>1, ChainAssumption DEF Init, WindowsOf, Windows
      <3>2. QED
        BY <3>1
    <2>3. QED
      BY <1>1, <2>1, <2>2
  <1>3. HeldSegmentsReleased
    <2>1. \A w \in Segments : StreamOf[w] \in Streams
      BY LayoutFacts DEF Init, Streams
    <2>2. QED
      BY <1>1, <2>1 DEF HeldSegmentsReleased, SegmentIsFinal
  <1>4. QED
    BY <1>1, <1>2, <1>3
    DEF SegmentInv, NothingIsProvisional, CommittedStage, DeliveredIsFinal

\* What leaves a stream for the conditional release is final whatever is
\* decoded again, and under the held row leaves as soon as it is.
THEOREM SegmentsAreFinal == Spec => []SegmentsLeaveOnceFinal
  <1>1. Init => SegmentInv
    BY InitSegments
  <1>2. IInv /\ SegmentInv /\ [Next]_vars => SegmentInv'
    BY NextSegments
  <1>3. SegmentInv => SegmentsLeaveOnceFinal
    BY DEF SegmentInv, SegmentsLeaveOnceFinal
  <1>4. QED
    BY <1>1, <1>2, <1>3, Invariant, PTL DEF Spec
=============================================================================
