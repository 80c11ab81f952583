-------------------------- MODULE EscalationChain --------------------------
(***************************************************************************)
(* How one window climbs a chain of decoder pools.  Pool 0 is the entry    *)
(* pool; edge e leads from pool e-1 to pool e and holds                    *)
(*   - its redecode (escalation/strong_redecode.py): the speculative       *)
(*     decode it remembers, the strong window it holds for its conditions, *)
(*     the selection on its link, the deadline's rescue;                   *)
(*   - the ledger record of (window, pool e)                               *)
(*     (decoders/strong_requests.py): how far the demand has travelled,    *)
(*     the results owed to it and the source decodes with no directive.    *)
(* A pool's solves are the forced-class decodes of one attempt.  A source  *)
(* result meets a verdict: KEEP ends the window's work on every pool       *)
(* further down, by a cancel or by letting it run out; ESCALATE selects    *)
(* the next pool's result.  A target decode may start before the verdict,  *)
(* beside its source job or at a rescue, and finish before it is asked     *)
(* for: it then waits in the output slot of its unit.                      *)
(*                                                                         *)
(* Times are abstracted to the order of events.  Batches and unit slots    *)
(* are DecoderPool's subject; boundaries WindowChain's.                    *)
(***************************************************************************)
EXTENDS Integers, FiniteSets

CONSTANTS
    MaxDepth,  \* the target pools of the longest chain
    Settings   \* the declared runs: depth, speculating and rescuing edges,
               \* solves per pool

ASSUME DepthAssumption == MaxDepth \in Nat \ {0}

Pools == 0..MaxDepth
Targets == 1..MaxDepth
None == MaxDepth + 1

\* A target pool solves once per class its outgoing edge forces, so the last
\* pool solves once; a deadline and run_both_at_once contradict on an edge.
ASSUME SettingsAssumption ==
    \A c \in Settings :
        /\ c.depth \in Targets
        /\ c.speculates \subseteq 1..c.depth
        /\ c.rescues \subseteq (1..c.depth) \ c.speculates
        /\ c.solves \in [Pools -> {1, 2}]
        /\ c.solves[c.depth] = 1

VARIABLES
    config,    \* the run's declared chain
    blocked,   \* the entry job still waits for its boundary
    deferred,  \* its speculative decode is planned when that boundary lands
    solves,    \* where each solve of each pool's attempt is
    record,    \* the ledger's record of the window on each target
    edge,      \* the redecode of the edge into each target
    verdict,   \* how far each pool's result has got
    final      \* the pool whose answer is the window's

vars == <<config, blocked, deferred, solves, record, edge, verdict, final>>

SolveStates == {"none", "live", "abandoned", "slot", "joined", "over"}
Phases == {"NONE", "WAITING_SELECTION", "WAITING_RESULT"}
Edges == 1..config.depth
SolvesOf(p) == 1..config.solves[p]
In(p, states) == {k \in SolvesOf(p) : solves[p][k] \in states}

EmptyRecord == [phase |-> "NONE", owed |-> 0, companions |-> 0, open |-> {}]
IdleEdge == [planned |-> FALSE, held |-> FALSE, serial |-> FALSE,
             selection |-> "none", rescue |-> FALSE]

----------------------------------------------------------------------------
\* What an operation reads and changes on the decoder side.
Side == [solves |-> solves, record |-> record, edge |-> edge]

Become(s) ==
    /\ solves' = s.solves
    /\ record' = s.record
    /\ edge' = s.edge

\* The attempts of pools first .. last are admitted, those beyond the first
\* as the remembered decodes of their edges: their solves are live, a
\* companion of a lead already selected is owed too, and on the edge a pool
\* is the source of its decodes are open and the deadline starts.
Admit(s, first, last) ==
    LET begun == first..last
        Companions(q) == config.solves[q] - 1
    IN  [solves |-> [p \in Pools |->
             IF p \in begun THEN [k \in SolvesOf(p) |-> "live"] ELSE s.solves[p]],
         record |-> [q \in Targets |->
             [s.record[q] EXCEPT
                 !.companions = IF q \in begun THEN Companions(q) ELSE @,
                 !.owed = IF q \in begun /\ s.record[q].phase # "NONE"
                          THEN @ + Companions(q) ELSE @,
                 !.open = IF q - 1 \in begun /\ q \in Edges
                          THEN SolvesOf(q - 1) ELSE @]],
         edge |-> [q \in Targets |->
             [s.edge[q] EXCEPT
                 !.planned = @ \/ q \in (first + 1)..last,
                 !.held = @ /\ q \notin begun,
                 !.rescue = @ \/ (q - 1 \in begun /\ q \in config.rescues)]]]

\* Edge e's decode is assigned before the verdict and remembered.
Remember(s, e) == [s EXCEPT !.edge[e].planned = TRUE]
Hold(s, e) == [s EXCEPT !.edge[e].held = TRUE]

\* Enqueuing pool e's attempt starts the next edge's decode beside it, and so
\* on down the chain, as far as the edges speculate and none is held.
EnqueueTarget(s, e) ==
    LET Reached(last) == Admit(s, e, last)
        Speculates(q) == q \in config.speculates
        Chains == {last \in e..config.depth :
                       \A q \in (e + 1)..last : Speculates(q)}
    IN  {Reached(last) : last \in {l \in Chains : ~Speculates(l + 1)}}
        \union {Hold(Remember(Reached(l), l + 1), l + 1) :
                    l \in {l \in Chains : Speculates(l + 1)}}

\* The row builds the decode's job now, or holds it for its conditions.
Plan(s, e) == EnqueueTarget(s, e) \union {Hold(s, e)}
PlanSpeculative(s, e) == Plan(Remember(s, e), e)

Init ==
    /\ config \in Settings
    /\ blocked \in BOOLEAN
    /\ deferred = FALSE
    /\ solves = [p \in Pools |-> [k \in SolvesOf(p) |-> "none"]]
    /\ record = [e \in Targets |-> EmptyRecord]
    /\ edge = [e \in Targets |-> IdleEdge]
    /\ verdict = [p \in Pools |-> "none"]
    /\ final = None

\* The window's decode is issued: the entry job, and beside it the target's
\* when edge 1 decodes both at once.  A job that owes a boundary defers it.
Issue ==
    /\ verdict[0] = "none"
    /\ In(0, {"none"}) = SolvesOf(0)
    /\ LET entered == Admit(Side, 0, 0)
           speculates == 1 \in config.speculates
       IN  /\ deferred' = (speculates /\ blocked)
           /\ \E s \in IF speculates /\ ~blocked
                         THEN PlanSpeculative(entered, 1) ELSE {entered} :
                  Become(s)
    /\ UNCHANGED <<config, blocked, verdict, final>>

\* The window's last boundary lands: a deferred decode is planned then.
BoundaryLands ==
    /\ blocked
    /\ blocked' = FALSE
    /\ deferred' = FALSE
    /\ \E s \in IF deferred THEN PlanSpeculative(Side, 1) ELSE {Side} :
           Become(s)
    /\ UNCHANGED <<config, verdict, final>>

\* The deadline's trigger fires: the target decodes before the verdict.
Rescue(e) ==
    /\ edge[e].rescue
    /\ LET fired == [Side EXCEPT !.edge[e].rescue = FALSE] IN
       /\ deferred' = (deferred \/ blocked)
       /\ \E s \in IF blocked THEN {fired} ELSE PlanSpeculative(fired, e) :
              Become(s)
    /\ UNCHANGED <<config, blocked, verdict, final>>

\* A held strong window's conditions fire: its job is built and enqueued.
SubmitReleased(e) ==
    /\ edge[e].held
    /\ \E s \in EnqueueTarget(Side, e) : Become(s)
    /\ UNCHANGED <<config, blocked, deferred, verdict, final>>

----------------------------------------------------------------------------
\* Whether the destination waits for pool e's result now or may yet.
MayConsume(e) == record[e].phase # "NONE" \/ record[e].open # {}

\* count of the attempt's awaited results reach the destination.
Take(r, count) ==
    IF r.owed > count
      THEN [r EXCEPT !.owed = @ - count]
      ELSE [r EXCEPT !.owed = 0, !.phase = "NONE", !.companions = 0]

\* A job whose window owes a boundary waits in the queue; one selected at the
\* verdict has its input only once the selection landed.
MayRun(p) ==
    IF p = 0 THEN ~blocked
             ELSE edge[p].serial => edge[p].selection = "landed"

Put(p, k, where) == solves' = [solves EXCEPT ![p][k] = where]

\* An entry decode ends: its result reaches the join.
EntryDecodeEnds(k) ==
    /\ MayRun(0)
    /\ solves[0][k] = "live"
    /\ Put(0, k, "joined")
    /\ UNCHANGED <<config, blocked, deferred, record, edge, verdict, final>>

\* An unwanted decode let run has ended: its result is dropped and the
\* attempt it opened on the next edge closes.
AbandonedDecodeEnds(p, k) ==
    /\ MayRun(p)
    /\ solves[p][k] = "abandoned"
    /\ Put(p, k, "over")
    /\ record' = [q \in Targets |->
                     IF q = p + 1 THEN [record[q] EXCEPT !.open = @ \ {k}]
                                  ELSE record[q]]
    /\ UNCHANGED <<config, blocked, deferred, edge, verdict, final>>

\* A target decode ends: its result goes to the destination that waits for
\* it, or stays in its unit's output slot for a demand that may still come.
TargetDecodeEnds(p, k) ==
    /\ MayRun(p)
    /\ solves[p][k] = "live"
    /\ \/ /\ record[p].phase = "WAITING_RESULT"
          /\ record' = [record EXCEPT ![p] = Take(@, 1)]
          /\ Put(p, k, "joined")
       \/ /\ record[p].phase # "WAITING_RESULT"
          /\ MayConsume(p)
          /\ Put(p, k, "slot")
          /\ UNCHANGED record
    /\ UNCHANGED <<config, blocked, deferred, edge, verdict, final>>

\* A slip: a result that finished before the selection stays in its slot.
SelectionLandsLate(e) ==
    /\ edge[e].selection = "flying"
    /\ edge' = [edge EXCEPT ![e].selection = "landed"]
    /\ record' = [record EXCEPT ![e].phase = "WAITING_RESULT"]
    /\ UNCHANGED <<config, blocked, deferred, solves, verdict, final>>

\* The selection lands: the results already in their slots are consumed.
SelectionLands(e) ==
    /\ edge[e].selection = "flying"
    /\ edge' = [edge EXCEPT ![e].selection = "landed"]
    /\ LET waiting == In(e, {"slot"})
           selected == [record[e] EXCEPT !.phase = "WAITING_RESULT"]
       IN  /\ record' = [record EXCEPT
                 ![e] = IF waiting = {} THEN selected
                                        ELSE Take(selected, Cardinality(waiting))]
           /\ solves' = [solves EXCEPT
                 ![e] = [k \in SolvesOf(e) |->
                            IF k \in waiting THEN "joined" ELSE @[k]]]
    /\ UNCHANGED <<config, blocked, deferred, verdict, final>>

----------------------------------------------------------------------------
\* The last solve of a pool is joined and its result reaches the verdict: the
\* edge's deadline is met, or, past the last edge, the answer is final.
AcceptRevision(p) ==
    /\ verdict[p] = "none"
    /\ In(p, {"joined"}) = SolvesOf(p)
    /\ IF p = config.depth
         THEN /\ verdict' = [verdict EXCEPT ![p] = "KEEP"]
              /\ final' = p
              /\ UNCHANGED edge
         ELSE /\ verdict' = [verdict EXCEPT ![p] = "forming"]
              /\ edge' = [edge EXCEPT ![p + 1].rescue = FALSE]
              /\ UNCHANGED final
    /\ UNCHANGED <<config, blocked, deferred, solves, record>>

\* A keep ends the work of every pool below the edge: what is held is
\* dropped, finished results leave their slots, and live requests are taken
\* back with the attempts they opened, or let run out.
EndedSolve(where, cancels) ==
    CASE where = "slot" -> "over"
      [] where = "live" -> IF cancels THEN "over" ELSE "abandoned"
      [] OTHER -> where

\* The decodes of pool p a keep closes on the edge its pool is the source of.
ClosedBy(p, cancels) == IF cancels THEN In(p, {"live"}) ELSE {}

\* A slip: the keep ends its own edge's work and not the next one's.
EndOnlyNext(e, cancels) ==
    /\ solves' = [solves EXCEPT ![e] =
           [k \in SolvesOf(e) |-> EndedSolve(@[k], cancels)]]
    /\ edge' = [edge EXCEPT ![e].held = FALSE, ![e].planned = FALSE,
                            ![e].rescue = FALSE]
    /\ record' = [record EXCEPT ![e].open = {}]

EndBelow(e, cancels) ==
    /\ solves' = [p \in Pools |->
           IF p < e THEN solves[p]
           ELSE [k \in SolvesOf(p) |-> EndedSolve(solves[p][k], cancels)]]
    /\ edge' = [q \in Targets |->
           IF q < e THEN edge[q]
           ELSE [edge[q] EXCEPT !.held = FALSE, !.planned = FALSE,
                                !.rescue = FALSE]]
    /\ record' = [q \in Targets |->
           IF q < e THEN record[q]
           ELSE [record[q] EXCEPT
                    !.companions = IF cancels THEN 0 ELSE @,
                    !.open = IF q = e THEN {}
                             ELSE @ \ ClosedBy(q - 1, cancels)]]

Keep(p) ==
    /\ verdict[p] = "forming"
    /\ verdict' = [verdict EXCEPT ![p] = "KEEP"]
    /\ final' = p
    /\ \E cancels \in BOOLEAN : EndBelow(p + 1, cancels)
    /\ UNCHANGED <<config, blocked, deferred>>

\* A slip: the decode gets its directive before its demand is recorded.
AskOnLanding(s, e) ==
    [s EXCEPT !.record[e].open = {}, !.edge[e].selection = "flying"]

\* The destination asks for the attempt's results; a companion admitted
\* already is owed, and the source's decodes have their directive.
BeginSelection(s, e) ==
    [s EXCEPT !.record[e].phase = "WAITING_SELECTION",
              !.record[e].owed = 1 + s.record[e].companions,
              !.record[e].open = {},
              !.edge[e].selection = "flying"]

\* The decode started before the verdict is selected as it is; without one
\* the strong window is assigned now and its job goes behind its selection.
Escalate(p) ==
    LET e == p + 1
        serial == [Side EXCEPT !.edge[e].serial = TRUE]
        selected == [Side EXCEPT !.edge[e].planned = FALSE]
    IN
    /\ verdict[p] = "forming"
    /\ verdict' = [verdict EXCEPT ![p] = "ESCALATE"]
    /\ \E s \in IF edge[e].planned THEN {selected} ELSE Plan(serial, e) :
           Become(BeginSelection(s, e))
    /\ UNCHANGED <<config, blocked, deferred, final>>

----------------------------------------------------------------------------
Next ==
    \/ Issue
    \/ BoundaryLands
    \/ \E e \in Edges : Rescue(e) \/ SubmitReleased(e) \/ SelectionLands(e)
    \/ \E k \in SolvesOf(0) : EntryDecodeEnds(k)
    \/ \E p \in Edges : \E k \in SolvesOf(p) :
           AbandonedDecodeEnds(p, k) \/ TargetDecodeEnds(p, k)
    \/ \E p \in 0..config.depth :
           AcceptRevision(p) \/ Keep(p) \/ Escalate(p)

Spec == Init /\ [][Next]_vars

\* Every queued event runs: rescues may be beaten to it, the rest happen.
FairSpec == Spec /\ WF_vars(Next)

----------------------------------------------------------------------------
\* Types of every variable (StrongRequests, StrongRedecode and the verdict).
TypeOK ==
    /\ config \in Settings
    /\ blocked \in BOOLEAN
    /\ deferred \in BOOLEAN
    /\ \A p \in Pools : solves[p] \in [SolvesOf(p) -> SolveStates]
    /\ record \in [Targets -> [phase : Phases, owed : 0..2, companions : 0..1,
                               open : SUBSET {1, 2}]]
    /\ edge \in [Targets -> [planned : BOOLEAN, held : BOOLEAN,
                             serial : BOOLEAN, rescue : BOOLEAN,
                             selection : {"none", "flying", "landed"}]]
    /\ verdict \in [Pools -> {"none", "forming", "KEEP", "ESCALATE"}]
    /\ final \in Pools \union {None}

\* A target decode that may still end, or has ended and waits in its slot,
\* has a destination: StrongRequests.complete never raises "no destination
\* waiting for it" (strong_requests.py:393-398), and no slot keeps a result
\* nobody will ask for.
ResultHasADestination ==
    \A e \in Edges : In(e, {"live", "slot"}) # {} => MayConsume(e)

\* A destination that asked is owed exactly the attempt's results that have
\* not reached it, companions admitted before and after the selection alike,
\* and once its selection landed none is left behind in a slot.
OwedAreOnTheWay ==
    \A e \in Edges : record[e].phase # "NONE" =>
        /\ record[e].owed = IF edge[e].held
                              THEN 1 ELSE Cardinality(In(e, {"live", "slot"}))
        /\ record[e].phase = "WAITING_RESULT" => In(e, {"slot"}) = {}

\* What a target's destination is owed and what its pool decodes agree, so
\* no answer is lost between them; and every variable keeps its type.
ResultsAndDestinationsMeet ==
    TypeOK /\ ResultHasADestination /\ OwedAreOnTheWay

\* A target's answer reaches the verdict only if the pool above it escalated:
\* a decode started before the verdict, let run or rescued, never answers a
\* window that did not ask for it.
AnswerWasAskedFor ==
    \A e \in Edges : verdict[e] # "none" => verdict[e - 1] = "ESCALATE"

\* Once a window has its answer, no pool below works on it: nothing held, no
\* rescue armed, no result in a slot, and only decodes let run still run.
NothingOutlivesTheAnswer ==
    final # None =>
        \A e \in Edges : e > final =>
            /\ In(e, {"live", "slot"}) = {}
            /\ ~edge[e].held
            /\ ~edge[e].rescue

\* One answer, asked for, ends the chain: whatever was started early, held,
\* rescued or abandoned, no pool answers unasked and none works on after it.
AnswerSettlesTheChain == AnswerWasAskedFor /\ NothingOutlivesTheAnswer

\* What check_decode_work_settled and has_pending require of a finished run.
Settled ==
    /\ \A p \in Pools : In(p, {"live", "abandoned", "slot"}) = {}
    /\ \A e \in Targets : /\ record[e].phase = "NONE"
                          /\ record[e].open = {}
                          /\ ~edge[e].held

\* A decode starts before its verdict only on the last edge of the chain.
EarlyOnlyOnTheLastEdge ==
    config.speculates \union config.rescues \subseteq {config.depth}

\* Every window is answered, and where only the last edge starts decodes early
\* the run ends with no decode work unsettled (decoder_manager.py:475-492).
RunEndsSettled ==
    <>[](final # None /\ (EarlyOnlyOnTheLastEdge => Settled))

\* On any chain, a window with an answer and no decode running has left the
\* ledger and the output slots: "every window is final once the simulation is
\* quiescent" (decoder_manager.py:492).
SettledOnceQuiet ==
    (final # None /\ \A p \in Pools : In(p, {"live", "abandoned"}) = {})
        => Settled
=============================================================================
