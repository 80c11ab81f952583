------------------------ MODULE EscalationChainProofs ------------------------
(***************************************************************************)
(* A window on a chain of pools, for every declared chain: however deep,    *)
(* whichever edges speculate or rescue and however many solves its pools    *)
(* take, results and destinations meet and one answer settles the chain.    *)
(*                                                                         *)
(* The two properties are not inductive by themselves.  That an escalation  *)
(* owes what is due needs the attempt started before the verdict to be      *)
(* whole (EarlyIsWhole) and each early decode to be remembered exactly      *)
(* while it is there (PlanIsRemembered); that an early result may wait in   *)
(* its slot needs its source to be open until the verdict (SourceIsOpen);   *)
(* that a rescue starts nothing twice needs it to be the first              *)
(* (RescueIsFirst).  Pools are admitted and decided in the chain's order    *)
(* (AdmittedInOrder, VerdictsClimb), so above a verdict all escalated and   *)
(* below one without an attempt there is nothing.                           *)
(*                                                                         *)
(* A step that starts decodes is several changes of the decoder side, some  *)
(* of them repeated down the chain.  The invariant is therefore one of a    *)
(* side s, verdicts v and answer f: Sound holds after each change, and Good *)
(* when the step has ended.  Lemmas say what each change keeps, down to the *)
(* last pool it reaches, and a lemma for each action that it keeps IInv.    *)
(***************************************************************************)
EXTENDS EscalationChain, FiniteSetTheorems, TLAPS

-----------------------------------------------------------------------------
(* The inductive invariant, of a decoder side s, verdicts v and an answer f *)

Levels == 0..config.depth
Owed == {"live", "slot"}

\* The types of the records of a side.
Records == [phase : Phases, owed : 0..2, companions : 0..1, open : SUBSET {1, 2}]
Redecodes == [planned : BOOLEAN, held : BOOLEAN, serial : BOOLEAN,
              rescue : BOOLEAN, selection : {"none", "flying", "landed"}]
Typed(s) ==
    /\ s = [solves |-> s.solves, record |-> s.record, edge |-> s.edge]
    /\ s.solves = [p \in Pools |-> s.solves[p]]
    /\ \A p \in Pools : s.solves[p] \in [SolvesOf(p) -> SolveStates]
    /\ s.record \in [Targets -> Records]
    /\ s.edge \in [Targets -> Redecodes]

\* Whether pool p's attempt was admitted, and what its solves have come to.
Unbegun(s, p) == \A k \in SolvesOf(p) : s.solves[p][k] = "none"
Begun(s, p) == \A k \in SolvesOf(p) : s.solves[p][k] # "none"
AllIn(s, p, states) == \A k \in SolvesOf(p) : s.solves[p][k] \in states
NoneIn(s, p, states) == \A k \in SolvesOf(p) : s.solves[p][k] \notin states

\* How many of an attempt's solves are in the given states, counted one by one.
IsIn(where, k, states) == IF where[k] \in states THEN 1 ELSE 0
Count(where, n, states) ==
    IF n = 1 THEN IsIn(where, 1, states)
             ELSE IsIn(where, 1, states) + IsIn(where, 2, states)

\* The results of pool p that are still to come or wait in a slot.
Due(s, p) == Count(s.solves[p], config.solves[p], Owed)

Undecided(v, p) == v[p] \in {"none", "forming"}

\* An attempt is admitted whole, and after those of the pools above.
AdmittedInOrder(s) ==
    /\ \A p \in Levels : Unbegun(s, p) \/ Begun(s, p)
    /\ \A p, q \in Levels : p < q /\ Begun(s, q) => Begun(s, p)

\* A verdict is on a joined attempt, below pools that all escalated; the
\* answer is a kept one.
VerdictsClimb(s, v, f) ==
    /\ \A p \in Levels : v[p] # "none" => AllIn(s, p, {"joined"})
    /\ \A p, q \in Levels : p < q /\ v[q] # "none" => v[p] = "ESCALATE"
    /\ v[config.depth] \in {"none", "KEEP"}
    /\ f # None => f \in Levels /\ v[f] = "KEEP"

\* Nothing of a pool reaches its destination unasked.
IsAsked(s, v, e) ==
    v[e - 1] # "ESCALATE" =>
        /\ s.record[e].phase = "NONE"
        /\ s.edge[e].selection = "none"
        /\ NoneIn(s, e, {"joined"})

\* Decodes are let run below the answer alone, and nothing else is there.
EndsBelow(s, f, e) ==
    /\ ~ NoneIn(s, e, {"abandoned"}) => f < e
    /\ f < e => NoneIn(s, e, Owed)

\* Until a pool's verdict all of its decodes are open on the edge below.
SourceIsOpen(s, v, f, e) ==
    f = None /\ Begun(s, e - 1) /\ Undecided(v, e - 1) =>
        s.record[e].open = SolvesOf(e - 1)

HasDestination(s, e) ==
    ~ NoneIn(s, e, Owed) => s.record[e].phase # "NONE" \/ s.record[e].open # {}

\* An armed rescue is of a target that nothing has started yet.
RescueIsFirst(s, v, f, e) ==
    s.edge[e].rescue =>
        /\ f = None /\ e \in config.rescues
        /\ Begun(s, e - 1) /\ v[e - 1] = "none"
        /\ Unbegun(s, e) /\ ~ s.edge[e].held

HeldIsUnbegun(s, f, e) ==
    s.edge[e].held => f = None /\ Begun(s, e - 1) /\ Unbegun(s, e)

\* A decode that starts before the verdict waits for it whole.
EarlyIsWhole(s, v, f, e) ==
    /\ Unbegun(s, e) => s.record[e].companions = 0
    /\ f = None /\ Undecided(v, e - 1) /\ Begun(s, e) =>
        /\ AllIn(s, e, Owed)
        /\ s.record[e].companions = config.solves[e] - 1

\* What is owed is what is due; a selection that landed left no slot.
OwesWhatIsDue(s, e) ==
    /\ s.edge[e].selection = "flying" => s.record[e].phase = "WAITING_SELECTION"
    /\ s.record[e].phase # "NONE" =>
        /\ s.record[e].owed = IF s.edge[e].held THEN 1 ELSE Due(s, e)
        /\ s.record[e].phase = "WAITING_RESULT" => NoneIn(s, e, {"slot"})

EdgeIsSound(s, v, f, e) ==
    /\ IsAsked(s, v, e) /\ EndsBelow(s, f, e) /\ SourceIsOpen(s, v, f, e)
    /\ HasDestination(s, e) /\ RescueIsFirst(s, v, f, e) /\ HeldIsUnbegun(s, f, e)
    /\ EarlyIsWhole(s, v, f, e) /\ OwesWhatIsDue(s, e)

\* An early decode is remembered, be it begun or held, and a held one is for
\* a destination that asked or still may.
PlanIsRemembered(s, v, f, e) ==
    /\ f = None /\ Undecided(v, e - 1) =>
        (s.edge[e].planned <=> Begun(s, e) \/ s.edge[e].held)
    /\ s.edge[e].held => s.record[e].phase # "NONE" \/ Undecided(v, e - 1)

\* What holds also within a step.
Sound(s, v, f) ==
    /\ Typed(s) /\ AdmittedInOrder(s) /\ VerdictsClimb(s, v, f)
    /\ \A e \in Edges : EdgeIsSound(s, v, f, e)

GoodBut(s, v, f, e) ==
    /\ Sound(s, v, f)
    /\ \A q \in Edges : q # e => PlanIsRemembered(s, v, f, q)

Good(s, v, f) ==
    Sound(s, v, f) /\ \A e \in Edges : PlanIsRemembered(s, v, f, e)

\* Before the window's last boundary only the entry pool has a job.
WaitsForBoundary ==
    /\ blocked =>
        /\ AllIn(Side, 0, {"none", "live"})
        /\ \A e \in Edges : Unbegun(Side, e) /\ ~ edge[e].held
    /\ deferred => blocked /\ Begun(Side, 0) /\ ~ edge[1].rescue

IInv ==
    /\ config \in Settings /\ blocked \in BOOLEAN /\ deferred \in BOOLEAN
    /\ verdict \in [Pools -> {"none", "forming", "KEEP", "ESCALATE"}]
    /\ final \in Pools \union {None}
    /\ Good(Side, verdict, final)
    /\ WaitsForBoundary

-----------------------------------------------------------------------------
(* The chain and its solves *)

\* A declared chain, its pools and edges.
LEMMA ChainFacts ==
    ASSUME config \in Settings
    PROVE  /\ config.depth \in Targets /\ config.depth \in Nat /\ MaxDepth \in Nat
           /\ config.depth >= 1 /\ config.depth <= MaxDepth
           /\ \A q \in config.speculates : q \in Edges /\ q \notin config.rescues
           /\ \A q \in config.rescues : q \in Edges
           /\ \A q \in Edges : q \in Targets /\ q \in Pools /\ q \in Levels
                              /\ q - 1 \in Levels /\ q - 1 \in Pools
           /\ \A q \in Levels : q \in Pools /\ q \in Int /\ q >= 0 /\ q # None
           /\ \A q \in Levels : q # 0 => q \in Edges
           /\ \A q \in Pools : q \in Int
           /\ 0 \in Levels
           /\ None \in Int /\ \A q \in Levels : None > q
  BY DepthAssumption, SettingsAssumption DEF Targets, Levels, Edges, Pools, None

\* An attempt has one solve or two.
LEMMA SolvesAre ==
    ASSUME config \in Settings, NEW p \in Pools
    PROVE  /\ config.solves[p] \in {1, 2}
           /\ config.solves[p] = 1 => SolvesOf(p) = {1}
           /\ config.solves[p] = 2 => SolvesOf(p) = {1, 2}
           /\ 1 \in SolvesOf(p)
           /\ SolvesOf(p) \in SUBSET {1, 2}
           /\ SolvesOf(p) # {}
<1>1. config.solves[p] \in {1, 2}
  BY SettingsAssumption
<1>2. CASE config.solves[p] = 1
  <2>1. SolvesOf(p) = {1}
    BY <1>2 DEF SolvesOf
  <2> QED
    BY <1>2, <2>1
<1>3. CASE config.solves[p] = 2
  <2>1. SolvesOf(p) = {1, 2}
    BY <1>3 DEF SolvesOf
  <2> QED
    BY <1>3, <2>1
<1> QED
  BY <1>1, <1>2, <1>3

\* Counting one by one gives the number of solves in the given states.
LEMMA CountIsCardinality ==
    ASSUME config \in Settings, NEW p \in Pools, NEW where, NEW states
    PROVE  Cardinality({k \in SolvesOf(p) : where[k] \in states})
               = Count(where, config.solves[p], states)
<1> DEFINE S == {k \in SolvesOf(p) : where[k] \in states}
<1>1. config.solves[p] \in {1, 2}
      /\ (config.solves[p] = 1 => SolvesOf(p) = {1})
      /\ (config.solves[p] = 2 => SolvesOf(p) = {1, 2})
  BY SolvesAre
<1>2. Cardinality({}) = 0 /\ Cardinality({1}) = 1 /\ Cardinality({2}) = 1
  BY FS_EmptySet, FS_Singleton
<1>3. Cardinality({1, 2}) = 2
  <2>1. IsFiniteSet({1})
    BY FS_Singleton
  <2>2. Cardinality({1} \cup {2}) = Cardinality({1}) + 1
    BY <2>1, FS_AddElement
  <2>3. {1} \cup {2} = {1, 2}
    OBVIOUS
  <2> QED
    BY <2>2, <2>3, <1>2
<1>4. CASE config.solves[p] = 1
  <2>1. S = IF where[1] \in states THEN {1} ELSE {}
    BY <1>1, <1>4
  <2> QED
    BY <2>1, <1>2, <1>4 DEF Count, IsIn
<1>5. CASE config.solves[p] = 2
  <2>1. S = (IF where[1] \in states THEN {1} ELSE {})
            \cup (IF where[2] \in states THEN {2} ELSE {})
    BY <1>1, <1>5
  <2>2. CASE where[1] \in states /\ where[2] \in states
    <3>1. S = {1, 2}
      BY <2>1, <2>2
    <3> QED
      BY <3>1, <2>2, <1>3, <1>5 DEF Count, IsIn
  <2>3. CASE where[1] \in states /\ where[2] \notin states
    <3>1. S = {1}
      BY <2>1, <2>3
    <3> QED
      BY <3>1, <2>3, <1>2, <1>5 DEF Count, IsIn
  <2>4. CASE where[1] \notin states /\ where[2] \in states
    <3>1. S = {2}
      BY <2>1, <2>4
    <3> QED
      BY <3>1, <2>4, <1>2, <1>5 DEF Count, IsIn
  <2>5. CASE where[1] \notin states /\ where[2] \notin states
    <3>1. S = {}
      BY <2>1, <2>5
    <3> QED
      BY <3>1, <2>5, <1>2, <1>5 DEF Count, IsIn
  <2> QED
    BY <2>2, <2>3, <2>4, <2>5
<1> QED
  BY <1>1, <1>4, <1>5

\* What is due of an attempt, from where its solves are.
LEMMA DueFacts ==
    ASSUME config \in Settings, NEW p \in Pools, NEW s
    PROVE  /\ Due(s, p) \in 0..config.solves[p] /\ Due(s, p) \in 0..2
           /\ Due(s, p) = 0 <=> NoneIn(s, p, Owed)
           /\ Due(s, p) = config.solves[p] <=> AllIn(s, p, Owed)
<1>1. config.solves[p] \in {1, 2}
      /\ (config.solves[p] = 1 => SolvesOf(p) = {1})
      /\ (config.solves[p] = 2 => SolvesOf(p) = {1, 2})
  BY SolvesAre
<1>2. CASE config.solves[p] = 1
  BY <1>1, <1>2 DEF Due, Count, IsIn, NoneIn, AllIn
<1>3. CASE config.solves[p] = 2
  BY <1>1, <1>3 DEF Due, Count, IsIn, NoneIn, AllIn
<1> QED
  BY <1>1, <1>2, <1>3

\* Begun and unbegun exclude each other; a verdict's attempt has begun.
LEMMA BegunFacts ==
    ASSUME config \in Settings, NEW p \in Pools, NEW s
    PROVE  /\ ~ (Unbegun(s, p) /\ Begun(s, p))
           /\ AllIn(s, p, {"joined"}) => Begun(s, p) /\ ~ NoneIn(s, p, {"joined"})
           /\ AllIn(s, p, {"joined"}) => NoneIn(s, p, {"abandoned"}) /\ NoneIn(s, p, Owed)
           /\ Unbegun(s, p) => /\ NoneIn(s, p, Owed) /\ NoneIn(s, p, {"joined"})
                               /\ NoneIn(s, p, {"slot"}) /\ NoneIn(s, p, {"abandoned"})
                               /\ ~ AllIn(s, p, Owed)
           /\ AllIn(s, p, Owed) => /\ Begun(s, p) /\ ~ NoneIn(s, p, Owed)
                                   /\ NoneIn(s, p, {"joined"})
                                   /\ NoneIn(s, p, {"abandoned"})
           /\ AllIn(s, p, {"live"}) => AllIn(s, p, Owed) /\ NoneIn(s, p, {"slot"})
<1>1. 1 \in SolvesOf(p)
  BY SolvesAre
<1> QED
  BY <1>1 DEF Unbegun, Begun, AllIn, NoneIn, Owed

\* The pools below one that has not begun have not either.
LEMMA UnbegunBelow ==
    ASSUME config \in Settings, NEW s, AdmittedInOrder(s),
           NEW p \in Levels, NEW q \in Levels, p <= q, Unbegun(s, p)
    PROVE  Unbegun(s, q) /\ ~ Begun(s, q)
<1>1. p \in Pools /\ q \in Pools /\ p \in Int /\ q \in Int
  BY ChainFacts
<1>2. ~ Begun(s, p)
  BY <1>1, BegunFacts
<1> QED
  BY <1>1, <1>2 DEF AdmittedInOrder

\* While a pool is undecided with its attempt joined no answer is given and
\* no pool below has a verdict; and above a joined one every pool escalated.
LEMMA FormingFacts ==
    ASSUME config \in Settings, NEW s, NEW v, NEW f, VerdictsClimb(s, v, f),
           NEW p \in Levels, v[p] = "forming"
    PROVE  /\ f = None /\ p # config.depth /\ p + 1 \in Edges
           /\ \A q \in Levels : q > p => v[q] = "none"
           /\ \A q \in Levels : q < p => v[q] = "ESCALATE"
           /\ AllIn(s, p, {"joined"})
<1>1. \A q \in Levels : q \in Int
  BY ChainFacts
<1>2. p # config.depth /\ p + 1 \in Edges
  BY ChainFacts DEF VerdictsClimb, Levels, Edges
<1>3. \A q \in Levels : q > p => v[q] = "none"
  BY <1>1 DEF VerdictsClimb
<1>4. \A q \in Levels : q < p => v[q] = "ESCALATE"
  BY <1>1 DEF VerdictsClimb
<1>5. f = None
  <2> SUFFICES ASSUME f # None PROVE FALSE
    OBVIOUS
  <2>1. f \in Levels /\ v[f] = "KEEP"
    BY DEF VerdictsClimb
  <2>2. f < p \/ f > p \/ f = p
    BY <2>1, <1>1
  <2> QED
    BY <2>1, <2>2, <1>3, <1>4
<1> QED
  BY <1>2, <1>3, <1>4, <1>5 DEF VerdictsClimb

\* Nothing is known of the edge below a pool that has not begun.
LEMMA BelowUnbegun ==
    ASSUME config \in Settings, NEW s, NEW v, NEW f, Sound(s, v, f),
           NEW e \in Edges, Unbegun(s, e - 1)
    PROVE  /\ v[e - 1] = "none" /\ Unbegun(s, e)
           /\ s.record[e].phase = "NONE" /\ s.record[e].companions = 0
           /\ s.edge[e].selection = "none"
           /\ ~ s.edge[e].rescue /\ ~ s.edge[e].held
<1>1. e \in Levels /\ e - 1 \in Levels /\ e \in Pools /\ e - 1 \in Pools /\ e \in Int
  BY ChainFacts
<1>2. ~ Begun(s, e - 1)
  BY <1>1, BegunFacts
<1>3. v[e - 1] = "none"
  BY <1>1, <1>2, BegunFacts DEF Sound, VerdictsClimb
<1>4. Unbegun(s, e)
  <2>1. e - 1 <= e
    BY <1>1
  <2> QED
    BY <2>1, <1>1, UnbegunBelow DEF Sound
<1>5. EdgeIsSound(s, v, f, e)
  BY DEF Sound
<1>6. s.record[e].phase = "NONE" /\ s.edge[e].selection = "none"
  BY <1>3, <1>5 DEF EdgeIsSound, IsAsked
<1>7. s.record[e].companions = 0
  BY <1>4, <1>5 DEF EdgeIsSound, EarlyIsWhole
<1>8. ~ s.edge[e].rescue /\ ~ s.edge[e].held
  BY <1>2, <1>5 DEF EdgeIsSound, RescueIsFirst, HeldIsUnbegun
<1> QED
  BY <1>3, <1>4, <1>6, <1>7, <1>8

\* A source without its verdict has decodes open, so the destination of the
\* edge below it has not asked and still may.
LEMMA SourceFacts ==
    ASSUME config \in Settings, NEW s, NEW v, Sound(s, v, None),
           NEW e \in Edges, Begun(s, e - 1), Undecided(v, e - 1)
    PROVE  /\ s.record[e].phase = "NONE" /\ s.edge[e].selection = "none"
           /\ s.record[e].open # {}
<1>1. e - 1 \in Pools
  BY ChainFacts
<1>2. s.record[e].open = SolvesOf(e - 1)
  BY DEF Sound, EdgeIsSound, SourceIsOpen
<1>3. v[e - 1] # "ESCALATE"
  BY DEF Undecided
<1> QED
  BY <1>1, <1>2, <1>3, SolvesAre DEF Sound, EdgeIsSound, IsAsked

\* An edge of which a step changes nothing stays sound.
LEMMA EdgeKeeps ==
    ASSUME NEW s, NEW t, NEW v, NEW w, NEW f, NEW e, EdgeIsSound(s, v, f, e),
           t.record[e] = s.record[e], t.edge[e] = s.edge[e],
           t.solves[e] = s.solves[e], t.solves[e - 1] = s.solves[e - 1],
           w[e - 1] = v[e - 1]
    PROVE  EdgeIsSound(t, w, f, e)
<1>1. /\ Unbegun(t, e) <=> Unbegun(s, e)
      /\ Begun(t, e) <=> Begun(s, e)
      /\ Begun(t, e - 1) <=> Begun(s, e - 1)
      /\ Due(t, e) = Due(s, e)
      /\ NoneIn(t, e, {"slot"}) <=> NoneIn(s, e, {"slot"})
      /\ NoneIn(t, e, {"joined"}) <=> NoneIn(s, e, {"joined"})
      /\ NoneIn(t, e, {"abandoned"}) <=> NoneIn(s, e, {"abandoned"})
      /\ NoneIn(t, e, Owed) <=> NoneIn(s, e, Owed)
      /\ AllIn(t, e, Owed) <=> AllIn(s, e, Owed)
  BY DEF Unbegun, Begun, Due, NoneIn, AllIn
<1>2. Undecided(w, e - 1) <=> Undecided(v, e - 1)
  BY DEF Undecided
<1> QED
  BY <1>1, <1>2 DEF EdgeIsSound, IsAsked, EndsBelow, SourceIsOpen, HasDestination,
                    RescueIsFirst, HeldIsUnbegun, EarlyIsWhole, OwesWhatIsDue

-----------------------------------------------------------------------------
(* Admitting pools e .. last *)

\* Changing some fields of a record makes the record with those fields.
LEMMA RecordChanged ==
    ASSUME NEW r \in Records, NEW x, NEW y, NEW z
    PROVE  [r EXCEPT !.companions = x, !.owed = y, !.open = z]
               = [phase |-> r.phase, owed |-> y, companions |-> x, open |-> z]
<1> DEFINE n == [r EXCEPT !.companions = x, !.owed = y, !.open = z]
<1>1. n \in [phase : {r.phase}, owed : {y}, companions : {x}, open : {z}]
  BY DEF Records
<1> HIDE DEF n
<1>2. n = [phase |-> r.phase, owed |-> y, companions |-> x, open |-> z]
  BY <1>1
<1> QED
  BY <1>2 DEF n

\* Changing some fields of a redecode makes the one with those fields.
LEMMA RedecodeChanged ==
    ASSUME NEW d \in Redecodes, NEW x, NEW y, NEW z
    PROVE  [d EXCEPT !.planned = x, !.held = y, !.rescue = z]
               = [planned |-> x, held |-> y, serial |-> d.serial, rescue |-> z,
                  selection |-> d.selection]
<1> DEFINE n == [d EXCEPT !.planned = x, !.held = y, !.rescue = z]
<1>1. n \in [planned : {x}, held : {y}, serial : {d.serial}, rescue : {z},
             selection : {d.selection}]
  BY DEF Redecodes
<1> HIDE DEF n
<1>2. n = [planned |-> x, held |-> y, serial |-> d.serial, rescue |-> z,
           selection |-> d.selection]
  BY <1>1
<1> QED
  BY <1>2 DEF n

\* What admitting the pools sets, field by field.
AdmitsSolves(s, t, e, last) ==
    \A p \in Pools : t.solves[p] = IF p \in e..last THEN [k \in SolvesOf(p) |-> "live"]
                                                   ELSE s.solves[p]
AdmitsRecord(r, n, q, e, last) ==
    /\ n = [phase |-> n.phase, owed |-> n.owed, companions |-> n.companions, open |-> n.open]
    /\ n.phase = r.phase
    /\ n.companions = IF q \in e..last THEN config.solves[q] - 1 ELSE r.companions
    /\ n.owed = IF q \in e..last /\ r.phase # "NONE" THEN r.owed + (config.solves[q] - 1)
                                                    ELSE r.owed
    /\ n.open = IF q - 1 \in e..last /\ q \in Edges THEN SolvesOf(q - 1) ELSE r.open
AdmitsEdge(d, n, q, e, last) ==
    /\ n = [planned |-> n.planned, held |-> n.held, serial |-> n.serial,
            rescue |-> n.rescue, selection |-> n.selection]
    /\ n.planned = (d.planned \/ q \in (e + 1)..last)
    /\ n.held = (d.held /\ q \notin e..last)
    /\ n.rescue = (d.rescue \/ (q - 1 \in e..last /\ q \in config.rescues))
    /\ n.serial = d.serial
    /\ n.selection = d.selection
IsWhole(t) ==
    /\ t = [solves |-> t.solves, record |-> t.record, edge |-> t.edge]
    /\ t.solves = [p \in Pools |-> t.solves[p]]
    /\ t.record = [q \in Targets |-> t.record[q]]
    /\ t.edge = [q \in Targets |-> t.edge[q]]

\* Admit sets what the definitions above say, field by field.
LEMMA AdmitFields ==
    ASSUME config \in Settings, NEW s, Typed(s), NEW e \in Levels, NEW last \in Levels
    PROVE  /\ IsWhole(Admit(s, e, last))
           /\ AdmitsSolves(s, Admit(s, e, last), e, last)
           /\ \A q \in Targets :
                 /\ AdmitsRecord(s.record[q], Admit(s, e, last).record[q], q, e, last)
                 /\ AdmitsEdge(s.edge[q], Admit(s, e, last).edge[q], q, e, last)
<1> DEFINE t == Admit(s, e, last)
<1>1. s = [solves |-> s.solves, record |-> s.record, edge |-> s.edge]
      /\ s.solves = [p \in Pools |-> s.solves[p]]
      /\ s.record \in [Targets -> Records] /\ s.edge \in [Targets -> Redecodes]
  BY DEF Typed
<1>2. t.solves = [p \in Pools |->
          IF p \in e..last THEN [k \in SolvesOf(p) |-> "live"] ELSE s.solves[p]]
  BY <1>1 DEF Admit
<1>3. t.record = [q \in Targets |->
                [s.record[q] EXCEPT
                    !.companions = IF q \in e..last THEN config.solves[q] - 1 ELSE @,
                    !.owed = IF q \in e..last /\ s.record[q].phase # "NONE"
                             THEN @ + (config.solves[q] - 1) ELSE @,
                    !.open = IF q - 1 \in e..last /\ q \in Edges
                             THEN SolvesOf(q - 1) ELSE @]]
  BY <1>1 DEF Admit
<1>4. t.edge = [q \in Targets |->
                [s.edge[q] EXCEPT
                    !.planned = @ \/ q \in (e + 1)..last,
                    !.held = @ /\ q \notin e..last,
                    !.rescue = @ \/ (q - 1 \in e..last /\ q \in config.rescues)]]
  BY <1>1 DEF Admit
<1>5. t = [solves |-> t.solves, record |-> t.record, edge |-> t.edge]
  BY <1>1 DEF Admit
<1> HIDE DEF t
<1>6. ASSUME NEW q \in Targets
      PROVE  s.record[q] \in Records /\ s.edge[q] \in Redecodes
  BY <1>1
<1>7. \A q \in Targets : AdmitsRecord(s.record[q], t.record[q], q, e, last)
  <2> TAKE q \in Targets
  <2> DEFINE r == s.record[q]
             x == IF q \in e..last THEN config.solves[q] - 1 ELSE r.companions
             y == IF q \in e..last /\ r.phase # "NONE"
                  THEN r.owed + (config.solves[q] - 1) ELSE r.owed
             z == IF q - 1 \in e..last /\ q \in Edges THEN SolvesOf(q - 1) ELSE r.open
  <2>1. t.record[q] = [r EXCEPT !.companions = x, !.owed = y, !.open = z]
    BY <1>3
  <2>2. r \in Records
    BY <1>6
  <2> HIDE DEF r, x, y, z
  <2>3. [r EXCEPT !.companions = x, !.owed = y, !.open = z]
            = [phase |-> r.phase, owed |-> y, companions |-> x, open |-> z]
    BY <2>2, RecordChanged, ZenonT(180)
  <2>4. t.record[q] = [phase |-> r.phase, owed |-> y, companions |-> x, open |-> z]
    BY <2>1, <2>3, Zenon
  <2> QED
    BY <2>4 DEF r, x, y, z, AdmitsRecord
<1>8. \A q \in Targets : AdmitsEdge(s.edge[q], t.edge[q], q, e, last)
  <2> TAKE q \in Targets
  <2> DEFINE d == s.edge[q]
             x == d.planned \/ q \in (e + 1)..last
             y == d.held /\ q \notin e..last
             z == d.rescue \/ (q - 1 \in e..last /\ q \in config.rescues)
  <2>1. t.edge[q] = [d EXCEPT !.planned = x, !.held = y, !.rescue = z]
    BY <1>4
  <2>2. d \in Redecodes
    BY <1>6
  <2> HIDE DEF d, x, y, z
  <2>3. t.edge[q] = [planned |-> x, held |-> y, serial |-> d.serial, rescue |-> z,
                     selection |-> d.selection]
    BY <2>1, <2>2, RedecodeChanged, ZenonT(180)
  <2> QED
    BY <2>3 DEF d, x, y, z, AdmitsEdge
<1>9. /\ t.solves = [p \in Pools |-> t.solves[p]]
      /\ t.record = [q \in Targets |-> t.record[q]]
      /\ t.edge = [q \in Targets |-> t.edge[q]]
  BY <1>2, <1>3, <1>4
<1>10. AdmitsSolves(s, t, e, last)
  BY <1>2 DEF AdmitsSolves
<1> QED
  BY <1>5, <1>7, <1>8, <1>9, <1>10 DEF IsWhole, t

\* Pool e may begin: it has not, nor has anything asked for it but a held
\* decode, its source has, and its results will have a destination.
MayBegin(s, e) ==
    /\ Unbegun(s, e)
    /\ e # 0 =>
        /\ Begun(s, e - 1)
        /\ ~ s.edge[e].rescue
        /\ s.record[e].phase # "NONE" => s.edge[e].held
        /\ s.record[e].phase # "NONE" \/ s.record[e].open # {}

\* The chain of early decodes from pool e down to pool last.
ChainTo(e, last) == e <= last /\ \A q \in Levels : e < q /\ q <= last => q \in config.speculates

\* Where the solves are after the admission.
LEMMA AdmitSolves ==
    ASSUME config \in Settings, NEW s, NEW v, Sound(s, v, None),
           NEW e \in Levels, NEW last \in Levels, ChainTo(e, last), MayBegin(s, e),
           NEW t, t = Admit(s, e, last)
    PROVE  /\ \A q \in Levels : q >= e => Unbegun(s, q)
           /\ \A q \in Levels : q \in e..last => AllIn(t, q, {"live"}) /\ AllIn(t, q, Owed)
                                                /\ Begun(t, q)
           /\ \A q \in Pools : q \notin e..last => t.solves[q] = s.solves[q]
           /\ \A q \in Levels : q < e => Begun(t, q) /\ Begun(s, q)
           /\ \A q \in Levels : q > last => Unbegun(t, q)
<1>0. \A q \in Levels : q \in Pools /\ q \in Int
  BY ChainFacts
<1>1. \A p \in Pools : t.solves[p] = IF p \in e..last THEN [k \in SolvesOf(p) |-> "live"]
                                                     ELSE s.solves[p]
  BY AdmitFields DEF Sound, AdmitsSolves
<1>2. \A q \in Levels : q >= e => Unbegun(s, q)
  BY <1>0, UnbegunBelow DEF Sound, MayBegin
<1>3. ASSUME NEW q \in Levels, q \in e..last
      PROVE  AllIn(t, q, {"live"}) /\ AllIn(t, q, Owed) /\ Begun(t, q)
  <2>1. AllIn(t, q, {"live"})
    BY <1>0, <1>1, <1>3 DEF AllIn
  <2> QED
    BY <2>1, <1>0, BegunFacts
<1>4. \A q \in Pools : q \notin e..last => t.solves[q] = s.solves[q]
  BY <1>1
<1>5. ASSUME NEW q \in Levels, q < e
      PROVE  Begun(t, q) /\ Begun(s, q)
  <2>1. e \in Edges /\ e - 1 \in Levels /\ e # 0
    BY <1>0, <1>5, ChainFacts
  <2>2. Begun(s, e - 1)
    BY <2>1 DEF MayBegin
  <2>3. q = e - 1 \/ q < e - 1
    BY <1>0, <1>5
  <2>4. Begun(s, q)
    BY <2>1, <2>2, <2>3 DEF Sound, AdmittedInOrder
  <2> QED
    BY <2>4, <1>0, <1>4, <1>5 DEF Begun
<1>6. ASSUME NEW q \in Levels, q > last
      PROVE  Unbegun(t, q)
  <2>1. q >= e /\ q \notin e..last
    BY <1>0, <1>6 DEF ChainTo
  <2> QED
    BY <2>1, <1>0, <1>2, <1>4 DEF Unbegun
<1> QED
  BY <1>2, <1>3, <1>4, <1>5, <1>6

\* Every value keeps its type.
LEMMA AdmitTypes ==
    ASSUME config \in Settings, NEW s, NEW v, Sound(s, v, None),
           NEW e \in Levels, NEW last \in Levels, ChainTo(e, last), MayBegin(s, e),
           NEW t, t = Admit(s, e, last)
    PROVE  Typed(t)
<1>0. \A q \in Levels : q \in Pools /\ q \in Int
  BY ChainFacts
<1>1. Typed(s)
  BY DEF Sound
<1>2. /\ t = [solves |-> t.solves, record |-> t.record, edge |-> t.edge]
      /\ t.solves = [p \in Pools |-> t.solves[p]]
      /\ t.record = [q \in Targets |-> t.record[q]]
      /\ t.edge = [q \in Targets |-> t.edge[q]]
  BY <1>1, AdmitFields DEF IsWhole
<1>3. ASSUME NEW p \in Pools
      PROVE  t.solves[p] \in [SolvesOf(p) -> SolveStates]
  <2>1. t.solves[p] = IF p \in e..last THEN [k \in SolvesOf(p) |-> "live"] ELSE s.solves[p]
    BY <1>1, AdmitFields DEF AdmitsSolves
  <2>2. s.solves[p] \in [SolvesOf(p) -> SolveStates]
    BY <1>1 DEF Typed
  <2> QED
    BY <2>1, <2>2 DEF SolveStates
<1>4. ASSUME NEW q \in Targets
      PROVE  t.record[q] \in Records
  <2>1. s.record[q] \in Records
    BY <1>1 DEF Typed
  <2>2. AdmitsRecord(s.record[q], t.record[q], q, e, last)
    BY <1>1, AdmitFields
  <2>3. t.record[q].phase \in Phases
    BY <2>1, <2>2 DEF Records, AdmitsRecord
  <2>4. t.record[q].companions \in 0..1
    <3>1. CASE q \in e..last
      <4>1. q \in Pools
        BY DEF Targets, Pools
      <4> QED
        BY <3>1, <4>1, <2>2, SolvesAre DEF AdmitsRecord
    <3>2. CASE q \notin e..last
      BY <3>2, <2>1, <2>2 DEF Records, AdmitsRecord
    <3> QED
      BY <3>1, <3>2
  <2>5. t.record[q].owed \in 0..2
    <3>1. CASE q \in e..last /\ s.record[q].phase # "NONE"
      <4>1. q \in Edges /\ q \in Pools /\ q # 0
        BY <3>1, ChainFacts DEF Targets, Edges, Levels, Pools
      <4>2. q = e
        <5> SUFFICES ASSUME q # e PROVE FALSE
          OBVIOUS
        <5>1. q - 1 \in Levels /\ q - 1 >= e
          BY <3>1, <4>1, <1>0, ChainFacts
        <5>2. Unbegun(s, q - 1)
          BY <5>1, AdmitSolves
        <5> QED
          BY <5>2, <4>1, <3>1, BelowUnbegun
      <4>3. s.edge[q].held
        BY <4>1, <4>2, <3>1 DEF MayBegin
      <4>4. s.record[q].owed = 1
        BY <4>1, <4>3, <3>1 DEF Sound, EdgeIsSound, OwesWhatIsDue
      <4> QED
        BY <4>1, <4>4, <3>1, <2>2, SolvesAre DEF AdmitsRecord
    <3>2. CASE ~ (q \in e..last /\ s.record[q].phase # "NONE")
      BY <3>2, <2>1, <2>2 DEF Records, AdmitsRecord
    <3> QED
      BY <3>1, <3>2
  <2>6. t.record[q].open \in SUBSET {1, 2}
    <3>1. CASE q - 1 \in e..last /\ q \in Edges
      <4>1. q - 1 \in Pools
        BY <3>1, ChainFacts
      <4> QED
        BY <3>1, <4>1, <2>2, SolvesAre DEF AdmitsRecord
    <3>2. CASE ~ (q - 1 \in e..last /\ q \in Edges)
      BY <3>2, <2>1, <2>2 DEF Records, AdmitsRecord
    <3> QED
      BY <3>1, <3>2
  <2> QED
    BY <2>2, <2>3, <2>4, <2>5, <2>6 DEF Records, AdmitsRecord
<1>5. ASSUME NEW q \in Targets
      PROVE  t.edge[q] \in Redecodes
  <2>1. s.edge[q] \in Redecodes
    BY <1>1 DEF Typed
  <2>2. AdmitsEdge(s.edge[q], t.edge[q], q, e, last)
    BY <1>1, AdmitFields
  <2>3. /\ t.edge[q].planned \in BOOLEAN /\ t.edge[q].held \in BOOLEAN
        /\ t.edge[q].rescue \in BOOLEAN
    BY <2>2 DEF AdmitsEdge
  <2>4. t.edge[q].serial \in BOOLEAN /\ t.edge[q].selection \in {"none", "flying", "landed"}
    BY <2>1, <2>2 DEF Redecodes, AdmitsEdge
  <2>5. t.edge[q] = [planned |-> t.edge[q].planned, held |-> t.edge[q].held,
                serial |-> t.edge[q].serial, rescue |-> t.edge[q].rescue,
                selection |-> t.edge[q].selection]
    BY <2>2 DEF AdmitsEdge
  <2> QED
    BY <2>3, <2>4, <2>5 DEF Redecodes
<1>6. t.record \in [Targets -> Records] /\ t.edge \in [Targets -> Redecodes]
  BY <1>2, <1>4, <1>5
<1> QED
  BY <1>2, <1>3, <1>6 DEF Typed

\* An edge above the admission or further below it does not change.
LEMMA AdmitLeaves ==
    ASSUME config \in Settings, NEW s, NEW v, Sound(s, v, None),
           NEW e \in Levels, NEW last \in Levels, ChainTo(e, last),
           NEW t, t = Admit(s, e, last),
           NEW q \in Edges, q < e \/ q > last + 1
    PROVE  /\ t.record[q] = s.record[q] /\ t.edge[q] = s.edge[q]
           /\ t.solves[q] = s.solves[q] /\ t.solves[q - 1] = s.solves[q - 1]
<1>1. q \in Targets /\ q \in Pools /\ q - 1 \in Pools /\ q \in Int /\ q \in Levels
      /\ e \in Int /\ last \in Int
  BY ChainFacts
<1>2. q \notin e..last /\ q - 1 \notin e..last /\ q \notin (e + 1)..last
  BY <1>1 DEF ChainTo
<1>3. Typed(s) /\ s.record[q] \in Records /\ s.edge[q] \in Redecodes
  BY <1>1 DEF Sound, Typed
<1>4. AdmitsRecord(s.record[q], t.record[q], q, e, last)
  BY <1>1, <1>3, AdmitFields
<1>5. AdmitsEdge(s.edge[q], t.edge[q], q, e, last)
  BY <1>1, <1>3, AdmitFields
<1>6. t.record[q] = s.record[q]
  BY <1>2, <1>3, <1>4 DEF AdmitsRecord, Records
<1>7. t.edge[q] = s.edge[q]
  <2>1. t.edge[q].planned = s.edge[q].planned /\ t.edge[q].held = s.edge[q].held
        /\ t.edge[q].rescue = s.edge[q].rescue
    BY <1>2, <1>3, <1>5 DEF AdmitsEdge, Redecodes
  <2>2. t.edge[q] = [planned |-> t.edge[q].planned, held |-> t.edge[q].held,
                serial |-> t.edge[q].serial, rescue |-> t.edge[q].rescue,
                selection |-> t.edge[q].selection]
        /\ t.edge[q].serial = s.edge[q].serial
        /\ t.edge[q].selection = s.edge[q].selection
    BY <1>5 DEF AdmitsEdge
  <2>3. s.edge[q] = [planned |-> s.edge[q].planned, held |-> s.edge[q].held,
                serial |-> s.edge[q].serial, rescue |-> s.edge[q].rescue,
                selection |-> s.edge[q].selection]
    BY <1>3 DEF Redecodes
  <2> QED
    BY <2>1, <2>2, <2>3
<1>8. AdmitsSolves(s, t, e, last)
  BY <1>3, AdmitFields
<1>9. t.solves[q] = s.solves[q] /\ t.solves[q - 1] = s.solves[q - 1]
  BY <1>1, <1>2, <1>8 DEF AdmitsSolves
<1> QED
  BY <1>6, <1>7, <1>9

\* The edge of the pool admitted first: a demand waiting for it is owed all.
LEMMA AdmitFirst ==
    ASSUME config \in Settings, NEW s, NEW v, Sound(s, v, None),
           NEW e \in Edges, NEW last \in Levels, ChainTo(e, last), MayBegin(s, e),
           NEW t, t = Admit(s, e, last)
    PROVE  EdgeIsSound(t, v, None, e) /\ AllIn(t, e, Owed)
<1>1. e \in Targets /\ e \in Levels /\ e \in Pools /\ e - 1 \in Pools /\ e \in Int
      /\ last \in Int /\ e # 0 /\ None > e /\ None \in Int /\ e - 1 \in Levels
  BY ChainFacts DEF Edges
<1>2. e \in e..last /\ e - 1 \notin e..last /\ e \notin (e + 1)..last
  BY <1>1 DEF ChainTo
<1>3. Typed(s) /\ s.record[e] \in Records
  BY <1>1 DEF Sound, Typed
<1>4. AdmitsRecord(s.record[e], t.record[e], e, e, last)
  BY <1>1, <1>3, AdmitFields
<1>5. AdmitsEdge(s.edge[e], t.edge[e], e, e, last)
  BY <1>1, <1>3, AdmitFields
<1>6. AllIn(t, e, {"live"}) /\ AllIn(t, e, Owed) /\ Begun(t, e)
  BY <1>1, <1>2, AdmitSolves
<1>7. /\ ~ NoneIn(t, e, Owed) /\ NoneIn(t, e, {"joined"}) /\ NoneIn(t, e, {"abandoned"})
      /\ NoneIn(t, e, {"slot"}) /\ ~ Unbegun(t, e)
  BY <1>1, <1>6, BegunFacts
<1>8. EdgeIsSound(s, v, None, e)
  BY DEF Sound
<1>9. /\ Begun(s, e - 1) /\ ~ s.edge[e].rescue /\ Unbegun(s, e)
      /\ s.record[e].phase # "NONE" => s.edge[e].held
      /\ s.record[e].phase # "NONE" \/ s.record[e].open # {}
  BY <1>1 DEF MayBegin
<1>10. s.record[e].companions = 0
  BY <1>8, <1>9 DEF EdgeIsSound, EarlyIsWhole
<1>11. t.record[e].open = s.record[e].open /\ t.record[e].phase = s.record[e].phase
       /\ t.record[e].companions = config.solves[e] - 1
       /\ t.edge[e].selection = s.edge[e].selection
  BY <1>2, <1>4, <1>5 DEF AdmitsRecord, AdmitsEdge
<1>12. ~ t.edge[e].held /\ ~ t.edge[e].rescue
  BY <1>2, <1>5, <1>9 DEF AdmitsEdge
<1>13. IsAsked(t, v, e)
  BY <1>7, <1>8, <1>11 DEF EdgeIsSound, IsAsked
<1>14. EndsBelow(t, None, e)
  BY <1>1, <1>7 DEF EndsBelow
<1>15. SourceIsOpen(t, v, None, e)
  BY <1>8, <1>9, <1>11 DEF EdgeIsSound, SourceIsOpen
<1>16. HasDestination(t, e)
  BY <1>9, <1>11 DEF HasDestination
<1>17. RescueIsFirst(t, v, None, e) /\ HeldIsUnbegun(t, None, e)
  BY <1>12 DEF RescueIsFirst, HeldIsUnbegun
<1>18. EarlyIsWhole(t, v, None, e)
  BY <1>6, <1>7, <1>11 DEF EarlyIsWhole
<1>19. OwesWhatIsDue(t, e)
  <2>1. t.edge[e].selection = "flying" => t.record[e].phase = "WAITING_SELECTION"
    BY <1>8, <1>11 DEF EdgeIsSound, OwesWhatIsDue
  <2>2. ASSUME t.record[e].phase # "NONE"
        PROVE  t.record[e].owed = Due(t, e)
    <3>1. s.edge[e].held /\ s.record[e].phase # "NONE"
      BY <2>2, <1>9, <1>11
    <3>2. s.record[e].owed = 1
      BY <3>1, <1>8 DEF EdgeIsSound, OwesWhatIsDue
    <3>3. t.record[e].owed = s.record[e].owed + (config.solves[e] - 1)
      BY <3>1, <1>2, <1>4 DEF AdmitsRecord
    <3>4. Due(t, e) = config.solves[e]
      BY <1>1, <1>6, DueFacts
    <3>5. config.solves[e] \in {1, 2}
      BY <1>1, SolvesAre
    <3> QED
      BY <3>2, <3>3, <3>4, <3>5
  <2> QED
    BY <2>1, <2>2, <1>7, <1>12 DEF OwesWhatIsDue
<1> QED
  BY <1>6, <1>13, <1>14, <1>15, <1>16, <1>17, <1>18, <1>19 DEF EdgeIsSound

\* The edges of the pools admitted after it: their decodes are early.
EarlyEdge(s, t, v, q, last) ==
    /\ EdgeIsSound(t, v, None, q)
    /\ v[q - 1] = "none" /\ t.record[q].phase = "NONE" /\ ~ t.edge[q].held
    /\ q <= last => t.edge[q].planned /\ Begun(t, q)
    /\ q = last + 1 => /\ t.edge[q].planned = s.edge[q].planned
                       /\ t.edge[q].rescue => q \in config.rescues

\* Of the edges of the pools admitted beside pool e, and of the next one.
LEMMA AdmitBelow ==
    ASSUME config \in Settings, NEW s, NEW v, Sound(s, v, None),
           NEW e \in Levels, NEW last \in Levels, ChainTo(e, last), MayBegin(s, e),
           NEW t, t = Admit(s, e, last),
           NEW q \in Edges, q > e, q <= last + 1
    PROVE  EarlyEdge(s, t, v, q, last)
<1>1. q \in Targets /\ q \in Levels /\ q \in Pools /\ q - 1 \in Pools /\ q \in Int
      /\ last \in Int /\ e \in Int /\ q - 1 \in Levels /\ None > q /\ None \in Int
  BY ChainFacts
<1>2. q - 1 \in e..last /\ (q <= last <=> q \in e..last)
      /\ (q <= last <=> q \in (e + 1)..last)
  BY <1>1 DEF ChainTo
<1>3. Typed(s) /\ s.record[q] \in Records
  BY <1>1 DEF Sound, Typed
<1>4. AdmitsRecord(s.record[q], t.record[q], q, e, last)
  BY <1>1, <1>3, AdmitFields
<1>5. AdmitsEdge(s.edge[q], t.edge[q], q, e, last)
  BY <1>1, <1>3, AdmitFields
<1>6. Unbegun(s, q - 1) /\ Begun(t, q - 1)
  BY <1>1, <1>2, AdmitSolves
<1>7. /\ v[q - 1] = "none" /\ Unbegun(s, q)
      /\ s.record[q].phase = "NONE" /\ s.record[q].companions = 0
      /\ s.edge[q].selection = "none"
      /\ ~ s.edge[q].rescue /\ ~ s.edge[q].held
  BY <1>6, BelowUnbegun
<1>8. t.record[q].phase = "NONE" /\ t.edge[q].selection = "none"
      /\ t.record[q].open = SolvesOf(q - 1)
  BY <1>2, <1>4, <1>5, <1>7 DEF AdmitsRecord, AdmitsEdge
<1>9. ~ t.edge[q].held /\ (t.edge[q].rescue => q \in config.rescues)
  BY <1>5, <1>7 DEF AdmitsEdge
<1>10. SolvesOf(q - 1) # {}
  BY <1>1, SolvesAre
<1>11. SourceIsOpen(t, v, None, q) /\ HasDestination(t, q) /\ HeldIsUnbegun(t, None, q)
       /\ OwesWhatIsDue(t, q)
  BY <1>8, <1>9, <1>10 DEF SourceIsOpen, HasDestination, HeldIsUnbegun, OwesWhatIsDue
<1>12. CASE q <= last
  <2>1. AllIn(t, q, Owed) /\ Begun(t, q)
    BY <1>1, <1>2, <1>12, AdmitSolves
  <2>2. NoneIn(t, q, {"joined"}) /\ NoneIn(t, q, {"abandoned"}) /\ ~ Unbegun(t, q)
    BY <2>1, <1>1, BegunFacts
  <2>3. t.record[q].companions = config.solves[q] - 1
    BY <1>2, <1>4, <1>12 DEF AdmitsRecord
  <2>4. q \in config.speculates /\ q \notin config.rescues
    BY <1>1, <1>12, ChainFacts DEF ChainTo
  <2>5. RescueIsFirst(t, v, None, q)
    BY <2>4, <1>9 DEF RescueIsFirst
  <2>6. IsAsked(t, v, q) /\ EndsBelow(t, None, q) /\ EarlyIsWhole(t, v, None, q)
    BY <2>1, <2>2, <2>3, <1>1, <1>8 DEF IsAsked, EndsBelow, EarlyIsWhole
  <2>7. t.edge[q].planned = TRUE
    BY <1>2, <1>5, <1>12 DEF AdmitsEdge
  <2>8. EdgeIsSound(t, v, None, q)
    BY <2>5, <2>6, <1>11 DEF EdgeIsSound
  <2> QED
    BY <2>1, <2>7, <2>8, <1>1, <1>7, <1>8, <1>9, <1>12 DEF EarlyEdge
<1>13. CASE ~ (q <= last)
  <2>1. q = last + 1 /\ q > last
    BY <1>1, <1>13
  <2>2. Unbegun(t, q)
    BY <1>1, <2>1, AdmitSolves
  <2>3. NoneIn(t, q, {"joined"}) /\ NoneIn(t, q, {"abandoned"}) /\ ~ Begun(t, q)
    BY <2>2, <1>1, BegunFacts
  <2>4. t.record[q].companions = 0
    BY <1>2, <1>4, <1>7, <1>13 DEF AdmitsRecord
  <2>5. RescueIsFirst(t, v, None, q)
    BY <2>2, <1>6, <1>7, <1>9 DEF RescueIsFirst
  <2>6. IsAsked(t, v, q) /\ EndsBelow(t, None, q) /\ EarlyIsWhole(t, v, None, q)
    BY <2>2, <2>3, <2>4, <1>1, <1>8 DEF IsAsked, EndsBelow, EarlyIsWhole
  <2>7. t.edge[q].planned = s.edge[q].planned
    <3>1. s.edge[q].planned \in BOOLEAN
      BY <1>1, <1>3 DEF Typed, Redecodes
    <3>2. t.edge[q].planned = (s.edge[q].planned \/ q \in (e + 1)..last)
      BY <1>5 DEF AdmitsEdge
    <3>3. q \notin (e + 1)..last
      BY <1>2, <1>13
    <3> QED
      BY <3>1, <3>2, <3>3
  <2>8. EdgeIsSound(t, v, None, q)
    BY <2>5, <2>6, <1>11 DEF EdgeIsSound
  <2> QED
    BY <2>1, <2>7, <2>8, <1>1, <1>7, <1>8, <1>9, <1>13 DEF EarlyEdge
<1> QED
  BY <1>12, <1>13

\* Admitting the pools keeps the side sound, and every other edge remembers
\* what it started.
LEMMA AdmitKeeps ==
    ASSUME config \in Settings, NEW s, NEW v,
           NEW e \in Levels, NEW last \in Levels, ChainTo(e, last), MayBegin(s, e),
           GoodBut(s, v, None, e),
           NEW t, t = Admit(s, e, last)
    PROVE  GoodBut(t, v, None, e)
<1>0. \A q \in Levels : q \in Pools /\ q \in Int
  BY ChainFacts
<1>1. Sound(s, v, None)
  BY DEF GoodBut
<1>2. Typed(t)
  BY <1>1, AdmitTypes
<1>3. AdmittedInOrder(t)
  <2>1. ASSUME NEW p \in Levels PROVE Unbegun(t, p) \/ Begun(t, p)
    <3>1. p < e \/ p \in e..last \/ p > last
      BY <1>0 DEF ChainTo
    <3> QED
      BY <3>1, <1>1, AdmitSolves
  <2>2. ASSUME NEW p \in Levels, NEW q \in Levels, p < q, Begun(t, q)
        PROVE  Begun(t, p)
    <3>1. ~ Unbegun(t, q)
      BY <2>2, <1>0, BegunFacts
    <3>2. ~ (q > last)
      BY <3>1, <1>1, AdmitSolves
    <3>3. p < e \/ p \in e..last
      BY <3>2, <2>2, <1>0 DEF ChainTo
    <3> QED
      BY <3>3, <1>1, AdmitSolves
  <2> QED
    BY <2>1, <2>2 DEF AdmittedInOrder
<1>4. VerdictsClimb(t, v, None)
  <2>1. VerdictsClimb(s, v, None)
    BY <1>1 DEF Sound
  <2>2. ASSUME NEW p \in Levels, v[p] # "none"
        PROVE  AllIn(t, p, {"joined"})
    <3>1. AllIn(s, p, {"joined"})
      BY <2>1, <2>2 DEF VerdictsClimb
    <3>2. ~ Unbegun(s, p)
      BY <3>1, <1>0, BegunFacts
    <3>3. p \notin e..last
      BY <3>2, <1>0, <1>1, AdmitSolves
    <3>4. t.solves[p] = s.solves[p]
      BY <3>3, <1>0, <1>1, AdmitSolves
    <3> QED
      BY <3>1, <3>4 DEF AllIn
  <2> QED
    BY <2>1, <2>2 DEF VerdictsClimb
<1>5. ASSUME NEW q \in Edges
      PROVE  EdgeIsSound(t, v, None, q) /\ (q # e => PlanIsRemembered(t, v, None, q))
  <2>1. q \in Int /\ q \in Levels /\ q \in Pools
    BY ChainFacts
  <2>2. EdgeIsSound(s, v, None, q)
    BY <1>1 DEF Sound
  <2>3. CASE q < e \/ q > last + 1
    <3>1. /\ t.record[q] = s.record[q] /\ t.edge[q] = s.edge[q]
          /\ t.solves[q] = s.solves[q] /\ t.solves[q - 1] = s.solves[q - 1]
      BY <1>1, <2>3, AdmitLeaves
    <3>2. EdgeIsSound(t, v, None, q)
      BY <3>1, <2>2, EdgeKeeps
    <3>3. q # e
      BY <2>1, <2>3, <1>0 DEF ChainTo
    <3>4. PlanIsRemembered(s, v, None, q)
      BY <3>3 DEF GoodBut
    <3>5. PlanIsRemembered(t, v, None, q)
      BY <3>1, <3>4 DEF PlanIsRemembered, Begun
    <3> QED
      BY <3>2, <3>5
  <2>4. CASE q = e
    BY <2>4, <1>1, AdmitFirst
  <2>5. CASE q > e /\ q <= last + 1
    <3>0. EarlyEdge(s, t, v, q, last)
      BY <1>1, <2>5, AdmitBelow
    <3>1. /\ EdgeIsSound(t, v, None, q)
          /\ v[q - 1] = "none" /\ t.record[q].phase = "NONE" /\ ~ t.edge[q].held
          /\ q <= last => t.edge[q].planned /\ Begun(t, q)
          /\ q = last + 1 => t.edge[q].planned = s.edge[q].planned
      BY <3>0 DEF EarlyEdge
    <3>2. CASE q <= last
      BY <3>1, <3>2 DEF PlanIsRemembered
    <3>3. CASE q = last + 1
      <4>1. q > last /\ q >= e /\ q # e
        BY <3>3, <2>1, <2>5, <1>0
      <4>2. Unbegun(t, q) /\ Unbegun(s, q)
        BY <4>1, <1>1, <2>1, AdmitSolves
      <4>3. ~ Begun(t, q) /\ ~ Begun(s, q)
        BY <4>2, <2>1, BegunFacts
      <4>4. PlanIsRemembered(s, v, None, q)
        BY <4>1 DEF GoodBut
      <4>5. q - 1 \in Levels /\ q - 1 >= e
        BY <2>1, <2>5, <1>0, ChainFacts
      <4>6. Unbegun(s, q - 1)
        BY <4>5, <1>1, AdmitSolves
      <4>7. ~ s.edge[q].held
        BY <4>6, <1>1, BelowUnbegun
      <4>8. Undecided(v, q - 1)
        BY <3>1 DEF Undecided
      <4>9. ~ s.edge[q].planned
        BY <4>3, <4>4, <4>7, <4>8 DEF PlanIsRemembered
      <4>10. ~ t.edge[q].planned
        BY <4>9, <3>1, <3>3
      <4> QED
        BY <4>3, <4>8, <4>10, <3>1 DEF PlanIsRemembered
    <3> QED
      BY <3>1, <3>2, <3>3, <2>1, <2>5, <1>0
  <2> QED
    BY <2>1, <2>3, <2>4, <2>5, <1>0
<1> QED
  BY <1>2, <1>3, <1>4, <1>5 DEF GoodBut, Sound

-----------------------------------------------------------------------------
(* Changing one edge's redecode *)

\* A step that keeps the side sound and what every edge but e remembers.
KeepsOthers(s, t, v, f, e) ==
    /\ Sound(t, v, f)
    /\ \A q \in Edges : q # e /\ PlanIsRemembered(s, v, f, q)
                            => PlanIsRemembered(t, v, f, q)

\* A change of one edge's redecode keeps the side sound if the edge is.
LEMMA RedecodeKeeps ==
    ASSUME config \in Settings, NEW s, NEW v, NEW f, NEW e \in Edges,
           Sound(s, v, f),
           NEW d \in Redecodes, NEW t,
           t = [solves |-> s.solves, record |-> s.record,
                edge |-> [s.edge EXCEPT ![e] = d]],
           EdgeIsSound(t, v, f, e)
    PROVE  KeepsOthers(s, t, v, f, e) /\ t.edge[e] = d
<1>1. e \in Targets
  BY ChainFacts
<1>2. t.solves = s.solves /\ t.record = s.record /\ t.edge = [s.edge EXCEPT ![e] = d]
  OBVIOUS
<1>3. Typed(s)
  BY DEF Sound
<1>4. s.edge \in [Targets -> Redecodes]
  BY <1>3 DEF Typed
<1>5. t.edge \in [Targets -> Redecodes] /\ t.edge[e] = d
      /\ \A q \in Targets : q # e => t.edge[q] = s.edge[q]
  BY <1>1, <1>2, <1>4
<1>6. Typed(t)
  <2>1. /\ s.solves = [p \in Pools |-> s.solves[p]]
        /\ \A p \in Pools : s.solves[p] \in [SolvesOf(p) -> SolveStates]
        /\ s.record \in [Targets -> Records]
    BY <1>3 DEF Typed
  <2>2. t = [solves |-> t.solves, record |-> t.record, edge |-> t.edge]
    OBVIOUS
  <2>3. t.solves = [p \in Pools |-> t.solves[p]]
    BY <2>1, <1>2
  <2> QED
    BY <2>1, <2>2, <2>3, <1>2, <1>5 DEF Typed
<1>7. AdmittedInOrder(t)
  BY <1>2 DEF Sound, AdmittedInOrder, Unbegun, Begun
<1>8. VerdictsClimb(t, v, f)
  BY <1>2 DEF Sound, VerdictsClimb, AllIn
<1>9. ASSUME NEW q \in Edges, q # e
      PROVE  /\ EdgeIsSound(t, v, f, q)
             /\ PlanIsRemembered(s, v, f, q) => PlanIsRemembered(t, v, f, q)
  <2>1. t.edge[q] = s.edge[q] /\ t.record[q] = s.record[q]
        /\ t.solves[q] = s.solves[q] /\ t.solves[q - 1] = s.solves[q - 1]
    BY <1>2, <1>5, <1>9, ChainFacts
  <2>2. EdgeIsSound(s, v, f, q)
    BY <1>9 DEF Sound
  <2>3. EdgeIsSound(t, v, f, q)
    BY <2>1, <2>2, EdgeKeeps
  <2> QED
    BY <2>1, <2>2, <2>3 DEF PlanIsRemembered, Begun
<1> QED
  BY <1>5, <1>6, <1>7, <1>8, <1>9 DEF KeepsOthers, Sound

\* A side with other redecodes, as a record.
LEMMA SideChanged ==
    ASSUME NEW s, Typed(s), NEW x
    PROVE  [s EXCEPT !.edge = x] = [solves |-> s.solves, record |-> s.record, edge |-> x]
<1> DEFINE n == [s EXCEPT !.edge = x]
<1>1. n \in [solves : {s.solves}, record : {s.record}, edge : {x}]
  BY DEF Typed
<1> HIDE DEF n
<1>2. n = [solves |-> s.solves, record |-> s.record, edge |-> x]
  BY <1>1
<1> QED
  BY <1>2 DEF n

\* Holding a decode whose pool has not begun and which nothing asked for.
LEMMA HoldKeeps ==
    ASSUME config \in Settings, NEW s, NEW v, NEW e \in Edges,
           Sound(s, v, None), Begun(s, e - 1), Unbegun(s, e),
           ~ s.edge[e].rescue, s.record[e].phase = "NONE"
    PROVE  /\ KeepsOthers(s, Hold(s, e), v, None, e)
           /\ Hold(s, e).edge[e] = [s.edge[e] EXCEPT !.held = TRUE]
           /\ Hold(s, e).record = s.record /\ Hold(s, e).solves = s.solves
           /\ \A q \in Edges : q # e => Hold(s, e).edge[q] = s.edge[q]
<1> DEFINE t == Hold(s, e)  d == [s.edge[e] EXCEPT !.held = TRUE]
<1>1. e \in Targets /\ \A q \in Edges : q \in Targets
  BY ChainFacts
<1>2. Typed(s) /\ s.edge[e] \in Redecodes
  BY <1>1 DEF Sound, Typed
<1>3. d \in Redecodes /\ d.held = TRUE /\ d.rescue = s.edge[e].rescue
      /\ d.selection = s.edge[e].selection
  BY <1>2 DEF Redecodes
<1>4. t = [solves |-> s.solves, record |-> s.record, edge |-> [s.edge EXCEPT ![e] = d]]
  <2>1. t = [s EXCEPT !.edge = [s.edge EXCEPT ![e] = d]]
    BY DEF Hold
  <2> QED
    BY <1>2, <2>1, SideChanged
<1>5. t.solves = s.solves /\ t.record = s.record /\ t.edge = [s.edge EXCEPT ![e] = d]
  BY <1>4
<1>6. t.edge[e] = d /\ \A q \in Edges : q # e => t.edge[q] = s.edge[q]
  BY <1>1, <1>2, <1>5 DEF Typed
<1> HIDE DEF t, d
<1>7. EdgeIsSound(s, v, None, e)
  BY DEF Sound
<1>8. /\ Unbegun(t, e) /\ Begun(t, e - 1) /\ (Begun(t, e) <=> Begun(s, e))
      /\ (AllIn(t, e, Owed) <=> AllIn(s, e, Owed))
      /\ (NoneIn(t, e, {"joined"}) <=> NoneIn(s, e, {"joined"}))
      /\ (NoneIn(t, e, {"abandoned"}) <=> NoneIn(s, e, {"abandoned"}))
      /\ (NoneIn(t, e, Owed) <=> NoneIn(s, e, Owed))
  BY <1>5 DEF Unbegun, Begun, AllIn, NoneIn
<1>9. EdgeIsSound(t, v, None, e)
  <2>1. IsAsked(t, v, e) /\ EndsBelow(t, None, e) /\ SourceIsOpen(t, v, None, e)
        /\ HasDestination(t, e) /\ EarlyIsWhole(t, v, None, e)
    BY <1>3, <1>5, <1>6, <1>7, <1>8
       DEF EdgeIsSound, IsAsked, EndsBelow, SourceIsOpen, HasDestination, EarlyIsWhole
  <2>2. RescueIsFirst(t, v, None, e) /\ HeldIsUnbegun(t, None, e)
    BY <1>3, <1>6, <1>8 DEF RescueIsFirst, HeldIsUnbegun
  <2>3. OwesWhatIsDue(t, e)
    BY <1>3, <1>5, <1>6, <1>7 DEF EdgeIsSound, OwesWhatIsDue
  <2> QED
    BY <2>1, <2>2, <2>3 DEF EdgeIsSound
<1>10. KeepsOthers(s, t, v, None, e)
  BY <1>3, <1>4, <1>9, RedecodeKeeps
<1> QED
  BY <1>5, <1>6, <1>10 DEF t, d

\* Changes of what the invariant of an edge does not depend on.
IsQuiet(c, d) ==
    /\ d \in Redecodes /\ d.held = c.held /\ d.selection = c.selection
    /\ d.rescue => c.rescue
WithEdge(s, e, d) ==
    [solves |-> s.solves, record |-> s.record, edge |-> [s.edge EXCEPT ![e] = d]]
OnlyEdgeIs(s, t, e, d) ==
    /\ t.edge[e] = d /\ t.record = s.record /\ t.solves = s.solves
    /\ \A q \in Edges : q # e => t.edge[q] = s.edge[q]

\* A redecode changed so leaves every edge sound.
LEMMA QuietChangeKeeps ==
    ASSUME config \in Settings, NEW s, NEW v, NEW f, NEW e \in Edges, Sound(s, v, f),
           NEW d, IsQuiet(s.edge[e], d)
    PROVE  KeepsOthers(s, WithEdge(s, e, d), v, f, e) /\ OnlyEdgeIs(s, WithEdge(s, e, d), e, d)
<1> DEFINE t == WithEdge(s, e, d)
<1>1. e \in Targets /\ \A q \in Edges : q \in Targets
  BY ChainFacts
<1>2. s.edge \in [Targets -> Redecodes]
  BY DEF Sound, Typed
<1>3. t.solves = s.solves /\ t.record = s.record /\ t.edge = [s.edge EXCEPT ![e] = d]
  BY DEF WithEdge
<1> HIDE DEF t
<1>4. t.edge[e] = d /\ \A q \in Edges : q # e => t.edge[q] = s.edge[q]
  BY <1>1, <1>2, <1>3
<1>5. EdgeIsSound(s, v, f, e)
  BY DEF Sound
<1>6. /\ (Unbegun(t, e) <=> Unbegun(s, e)) /\ (Begun(t, e - 1) <=> Begun(s, e - 1))
      /\ (Begun(t, e) <=> Begun(s, e)) /\ Due(t, e) = Due(s, e)
      /\ (AllIn(t, e, Owed) <=> AllIn(s, e, Owed))
      /\ (NoneIn(t, e, {"joined"}) <=> NoneIn(s, e, {"joined"}))
      /\ (NoneIn(t, e, {"abandoned"}) <=> NoneIn(s, e, {"abandoned"}))
      /\ (NoneIn(t, e, {"slot"}) <=> NoneIn(s, e, {"slot"}))
      /\ (NoneIn(t, e, Owed) <=> NoneIn(s, e, Owed))
  BY <1>3 DEF Unbegun, Begun, AllIn, NoneIn, Due
<1>7. EdgeIsSound(t, v, f, e)
  <2>1. IsAsked(t, v, e) /\ EndsBelow(t, f, e) /\ SourceIsOpen(t, v, f, e)
        /\ HasDestination(t, e) /\ EarlyIsWhole(t, v, f, e)
    BY <1>3, <1>4, <1>5, <1>6
       DEF EdgeIsSound, IsAsked, EndsBelow, SourceIsOpen, HasDestination, EarlyIsWhole, IsQuiet
  <2>2. RescueIsFirst(t, v, f, e) /\ HeldIsUnbegun(t, f, e)
    BY <1>4, <1>5, <1>6 DEF EdgeIsSound, RescueIsFirst, HeldIsUnbegun, IsQuiet
  <2>3. OwesWhatIsDue(t, e)
    BY <1>3, <1>4, <1>5, <1>6 DEF EdgeIsSound, OwesWhatIsDue, IsQuiet
  <2> QED
    BY <2>1, <2>2, <2>3 DEF EdgeIsSound
<1>8. t = [solves |-> s.solves, record |-> s.record, edge |-> [s.edge EXCEPT ![e] = d]]
      /\ d \in Redecodes
  BY DEF t, WithEdge, IsQuiet
<1>9. KeepsOthers(s, t, v, f, e)
  BY <1>7, <1>8, RedecodeKeeps
<1> QED
  BY <1>3, <1>4, <1>9 DEF t, OnlyEdgeIs

\* Remembering a decode is such a change.
LEMMA RememberKeeps ==
    ASSUME config \in Settings, NEW s, NEW v, NEW f, NEW e \in Edges, Sound(s, v, f)
    PROVE  /\ KeepsOthers(s, Remember(s, e), v, f, e)
           /\ OnlyEdgeIs(s, Remember(s, e), e, [s.edge[e] EXCEPT !.planned = TRUE])
<1>1. e \in Targets
  BY ChainFacts
<1>2. Typed(s) /\ s.edge[e] \in Redecodes
  BY <1>1 DEF Sound, Typed
<1> DEFINE d == [s.edge[e] EXCEPT !.planned = TRUE]
<1>3. IsQuiet(s.edge[e], d)
  BY <1>2 DEF Redecodes, IsQuiet
<1>4. Remember(s, e) = WithEdge(s, e, d)
  <2>1. Remember(s, e) = [s EXCEPT !.edge = [s.edge EXCEPT ![e] = d]]
    BY DEF Remember
  <2> QED
    BY <1>2, <2>1, SideChanged DEF WithEdge
<1> HIDE DEF d
<1>5. KeepsOthers(s, WithEdge(s, e, d), v, f, e) /\ OnlyEdgeIs(s, WithEdge(s, e, d), e, d)
  BY <1>3, QuietChangeKeeps
<1> QED
  BY <1>4, <1>5 DEF d

-----------------------------------------------------------------------------
(* Planning a decode *)

\* What admitting leaves of the edge of the pool admitted first.
LEMMA AdmitStarts ==
    ASSUME config \in Settings, NEW s, NEW v, Sound(s, v, None),
           NEW e \in Edges, NEW last \in Levels, ChainTo(e, last), MayBegin(s, e),
           NEW t, t = Admit(s, e, last)
    PROVE  Begun(t, e) /\ t.edge[e].planned = s.edge[e].planned /\ ~ t.edge[e].held
<1>1. e \in Targets /\ e \in Levels /\ e \in Int /\ last \in Int /\ e \in Pools
  BY ChainFacts
<1>2. e \in e..last /\ e \notin (e + 1)..last
  BY <1>1 DEF ChainTo
<1>3. Typed(s) /\ s.edge[e].planned \in BOOLEAN
  BY <1>1 DEF Sound, Typed, Redecodes
<1>4. AdmitsEdge(s.edge[e], t.edge[e], e, e, last)
  BY <1>1, <1>3, AdmitFields
<1>5. Begun(t, e)
  BY <1>1, <1>2, AdmitSolves
<1>6. t.edge[e].planned = (s.edge[e].planned \/ e \in (e + 1)..last)
      /\ t.edge[e].held = (s.edge[e].held /\ e \notin e..last)
  BY <1>4 DEF AdmitsEdge
<1> QED
  BY <1>2, <1>3, <1>5, <1>6

\* The edge below the last pool admitted, when it speculates too: its decode
\* is remembered and held.
LEMMA HoldBelow ==
    ASSUME config \in Settings, NEW s, NEW v,
           NEW e \in Levels, NEW last \in Levels, ChainTo(e, last), MayBegin(s, e),
           GoodBut(s, v, None, e), last + 1 \in config.speculates,
           NEW a, a = Admit(s, e, last),
           NEW t, t = Hold(Remember(a, last + 1), last + 1)
    PROVE  /\ GoodBut(t, v, None, e)
           /\ t.solves = a.solves
           /\ \A q \in Edges : q # last + 1 => t.edge[q] = a.edge[q]
<1> DEFINE h == last + 1
<1>1. h \in Edges /\ h - 1 = last /\ h \in Int /\ h \in Levels /\ h \in Pools
      /\ h \notin config.rescues /\ e \in Int /\ h > e /\ h > last
  BY ChainFacts DEF ChainTo
<1>2. GoodBut(a, v, None, e) /\ Sound(s, v, None) /\ Sound(a, v, None)
  BY AdmitKeeps DEF GoodBut
<1>3. EarlyEdge(s, a, v, h, last)
  BY <1>1, <1>2, AdmitBelow
<1>4. /\ v[h - 1] = "none" /\ a.record[h].phase = "NONE" /\ ~ a.edge[h].rescue
      /\ Undecided(v, h - 1)
  BY <1>1, <1>3 DEF EarlyEdge, Undecided
<1>5. Unbegun(a, h)
  BY <1>1, <1>2, AdmitSolves
<1>6. Begun(a, h - 1)
  <2>1. last \in e..last /\ last \in Int
    BY ChainFacts DEF ChainTo
  <2> QED
    BY <2>1, <1>1, <1>2, AdmitSolves
<1> DEFINE m == Remember(a, h)
<1>7. KeepsOthers(a, m, v, None, h)
      /\ OnlyEdgeIs(a, m, h, [a.edge[h] EXCEPT !.planned = TRUE])
  BY <1>1, <1>2, RememberKeeps
<1>8. t = Hold(m, h)
  OBVIOUS
<1> HIDE DEF h, m
<1>9. a.edge[h] \in Redecodes
  BY <1>1, <1>2, ChainFacts DEF Sound, Typed
<1>10. /\ Sound(m, v, None) /\ m.record = a.record /\ m.solves = a.solves
       /\ m.edge[h].planned = TRUE /\ m.edge[h].rescue = a.edge[h].rescue
       /\ m.edge[h] \in Redecodes
  BY <1>7, <1>9 DEF KeepsOthers, OnlyEdgeIs, Redecodes
<1>11. Begun(m, h - 1) /\ Unbegun(m, h) /\ ~ m.edge[h].rescue /\ m.record[h].phase = "NONE"
  BY <1>4, <1>5, <1>6, <1>10 DEF Begun, Unbegun
<1>12. /\ KeepsOthers(m, t, v, None, h)
       /\ t.edge[h] = [m.edge[h] EXCEPT !.held = TRUE]
       /\ t.record = m.record /\ t.solves = m.solves
       /\ \A q \in Edges : q # h => t.edge[q] = m.edge[q]
  <2>1. /\ KeepsOthers(m, Hold(m, h), v, None, h)
        /\ Hold(m, h).edge[h] = [m.edge[h] EXCEPT !.held = TRUE]
        /\ Hold(m, h).record = m.record /\ Hold(m, h).solves = m.solves
        /\ \A q \in Edges : q # h => Hold(m, h).edge[q] = m.edge[q]
    BY <1>1, <1>10, <1>11, HoldKeeps
  <2> QED
    BY <1>8, <2>1, Zenon
<1>13. t.edge[h].planned /\ t.edge[h].held
  BY <1>10, <1>12 DEF Redecodes
<1>14. PlanIsRemembered(t, v, None, h)
  BY <1>4, <1>13 DEF PlanIsRemembered
<1>15. ASSUME NEW q \in Edges, q # e
       PROVE  PlanIsRemembered(t, v, None, q)
  <2>1. CASE q = h
    BY <2>1, <1>14
  <2>2. CASE q # h
    <3>1. PlanIsRemembered(a, v, None, q)
      BY <1>2, <1>15 DEF GoodBut
    <3>2. PlanIsRemembered(m, v, None, q)
      BY <3>1, <2>2, <1>7 DEF KeepsOthers
    <3> QED
      BY <3>2, <2>2, <1>12 DEF KeepsOthers
  <2> QED
    BY <2>1, <2>2
<1>16. GoodBut(t, v, None, e)
  BY <1>12, <1>15 DEF GoodBut, KeepsOthers
<1>17. \A q \in Edges : q # h => t.edge[q] = a.edge[q]
  BY <1>7, <1>12 DEF OnlyEdgeIs
<1> QED
  BY <1>10, <1>12, <1>16, <1>17 DEF h

\* Enqueuing pool e's attempt starts it, and the decodes beside it, whole.
LEMMA EnqueueKeeps ==
    ASSUME config \in Settings, NEW s, NEW v, NEW e \in Edges, MayBegin(s, e),
           GoodBut(s, v, None, e), NEW t \in EnqueueTarget(s, e)
    PROVE  /\ GoodBut(t, v, None, e)
           /\ Begun(t, e) /\ ~ t.edge[e].held
           /\ t.edge[e].planned = s.edge[e].planned
<1>1. e \in Levels /\ e \in Int /\ Sound(s, v, None) /\ config.depth \in Nat
      /\ \A q \in Levels : q \in Int
  BY ChainFacts DEF GoodBut
<1>2. ASSUME NEW last \in e..config.depth, \A q \in (e + 1)..last : q \in config.speculates
      PROVE  last \in Levels /\ last \in Int /\ ChainTo(e, last)
  BY <1>1, <1>2 DEF Levels, Edges, ChainTo
<1>3. CASE \E last \in e..config.depth :
             /\ \A q \in (e + 1)..last : q \in config.speculates
             /\ t = Admit(s, e, last)
  <2>1. PICK last \in e..config.depth :
             /\ \A q \in (e + 1)..last : q \in config.speculates
             /\ t = Admit(s, e, last)
    BY <1>3
  <2>2. last \in Levels /\ ChainTo(e, last)
    BY <2>1, <1>2
  <2>3. GoodBut(t, v, None, e)
    BY <2>1, <2>2, <1>1, AdmitKeeps
  <2> QED
    BY <2>1, <2>2, <2>3, <1>1, AdmitStarts
<1>4. CASE \E last \in e..config.depth :
             /\ \A q \in (e + 1)..last : q \in config.speculates
             /\ last + 1 \in config.speculates
             /\ t = Hold(Remember(Admit(s, e, last), last + 1), last + 1)
  <2>1. PICK last \in e..config.depth :
             /\ \A q \in (e + 1)..last : q \in config.speculates
             /\ last + 1 \in config.speculates
             /\ t = Hold(Remember(Admit(s, e, last), last + 1), last + 1)
    BY <1>4
  <2>2. last \in Levels /\ last \in Int /\ ChainTo(e, last) /\ e # last + 1
    BY <2>1, <1>1, <1>2
  <2> DEFINE a == Admit(s, e, last)
  <2>3. /\ GoodBut(t, v, None, e) /\ t.solves = a.solves
        /\ \A q \in Edges : q # last + 1 => t.edge[q] = a.edge[q]
    BY <2>1, <2>2, <1>1, HoldBelow
  <2>4. Begun(a, e) /\ a.edge[e].planned = s.edge[e].planned /\ ~ a.edge[e].held
    BY <2>2, <1>1, AdmitStarts
  <2> QED
    BY <2>2, <2>3, <2>4 DEF Begun
<1> QED
  BY <1>3, <1>4 DEF EnqueueTarget

\* Planning a decode of a pool that may begin, and which nothing asked for,
\* starts it or holds it.
LEMMA PlanKeeps ==
    ASSUME config \in Settings, NEW s, NEW v, NEW e \in Edges, MayBegin(s, e),
           GoodBut(s, v, None, e), s.record[e].phase = "NONE", NEW t \in Plan(s, e)
    PROVE  /\ GoodBut(t, v, None, e)
           /\ Begun(t, e) \/ t.edge[e].held
           /\ t.edge[e].planned = s.edge[e].planned
<1>1. CASE t \in EnqueueTarget(s, e)
  BY <1>1, EnqueueKeeps
<1>2. CASE t = Hold(s, e)
  <2>1. Begun(s, e - 1) /\ Unbegun(s, e) /\ ~ s.edge[e].rescue
    <3>1. e # 0
      BY ChainFacts DEF Edges
    <3> QED
      BY <3>1 DEF MayBegin
  <2>2. /\ KeepsOthers(s, t, v, None, e)
        /\ t.edge[e] = [s.edge[e] EXCEPT !.held = TRUE]
    BY <2>1, <1>2, HoldKeeps DEF GoodBut
  <2>3. s.edge[e] \in Redecodes
    BY ChainFacts DEF GoodBut, Sound, Typed
  <2>4. t.edge[e].held /\ t.edge[e].planned = s.edge[e].planned
    BY <2>2, <2>3 DEF Redecodes
  <2>5. GoodBut(t, v, None, e)
    BY <2>2 DEF GoodBut, KeepsOthers
  <2> QED
    BY <2>4, <2>5
<1> QED
  BY <1>1, <1>2 DEF Plan

\* Planning an early decode remembers it.
LEMMA PlanSpeculativeKeeps ==
    ASSUME config \in Settings, NEW s, NEW v, NEW e \in Edges,
           GoodBut(s, v, None, e), Begun(s, e - 1), Unbegun(s, e), ~ s.edge[e].rescue,
           Undecided(v, e - 1), NEW t \in PlanSpeculative(s, e)
    PROVE  Good(t, v, None)
<1> DEFINE m == Remember(s, e)
<1>1. Sound(s, v, None)
  BY DEF GoodBut
<1>2. s.edge[e] \in Redecodes
  BY <1>1, ChainFacts DEF Sound, Typed
<1>3. /\ KeepsOthers(s, m, v, None, e)
      /\ OnlyEdgeIs(s, m, e, [s.edge[e] EXCEPT !.planned = TRUE])
  BY <1>1, RememberKeeps
<1>4. s.record[e].phase = "NONE" /\ s.record[e].open # {}
  BY <1>1, SourceFacts
<1>5. t \in Plan(m, e)
  BY DEF PlanSpeculative
<1> HIDE DEF m
<1>6. GoodBut(m, v, None, e)
  BY <1>3 DEF GoodBut, KeepsOthers
<1>7. m.record = s.record /\ m.solves = s.solves /\ m.edge[e].planned = TRUE
      /\ m.edge[e].rescue = s.edge[e].rescue
  BY <1>2, <1>3 DEF OnlyEdgeIs, Redecodes
<1>8. MayBegin(m, e) /\ m.record[e].phase = "NONE"
  BY <1>4, <1>7 DEF MayBegin, Begun, Unbegun
<1>9. /\ GoodBut(t, v, None, e)
      /\ Begun(t, e) \/ t.edge[e].held
      /\ t.edge[e].planned = m.edge[e].planned
  BY <1>5, <1>6, <1>8, PlanKeeps
<1>10. PlanIsRemembered(t, v, None, e)
  BY <1>7, <1>9 DEF PlanIsRemembered
<1> QED
  BY <1>9, <1>10 DEF Good, GoodBut

-----------------------------------------------------------------------------
(* Steps *)

\* The side a step leads to.
IsSideNext(t) == t.solves = solves' /\ t.record = record' /\ t.edge = edge'

\* A step to a good side keeps it good.
LEMMA GoodNext ==
    ASSUME config' = config, NEW t, IsSideNext(t), Good(t, verdict', final')
    PROVE  Good(Side, verdict, final)'
<1>1. /\ Side.solves' = t.solves /\ Side.record' = t.record /\ Side.edge' = t.edge
  BY DEF Side, IsSideNext
<1>2. Sound(t, verdict', final')
  BY DEF Good
<1>3. Typed(Side)'
  <2>1. /\ t.solves = [p \in Pools |-> t.solves[p]]
        /\ \A p \in Pools : t.solves[p] \in [SolvesOf(p) -> SolveStates]
        /\ t.record \in [Targets -> Records] /\ t.edge \in [Targets -> Redecodes]
    BY <1>2 DEF Sound, Typed
  <2>2. \A p \in Pools : SolvesOf(p)' = SolvesOf(p)
    BY DEF SolvesOf
  <2>3. Side' = [solves |-> Side.solves', record |-> Side.record', edge |-> Side.edge']
    BY DEF Side
  <2> QED
    BY <1>1, <2>1, <2>2, <2>3 DEF Typed
<1>4. AdmittedInOrder(Side)'
  BY <1>1, <1>2 DEF Sound, AdmittedInOrder, Levels, Unbegun, Begun, SolvesOf
<1>5. VerdictsClimb(Side, verdict, final)'
  BY <1>1, <1>2 DEF Sound, VerdictsClimb, Levels, AllIn, SolvesOf
<1>6. \A e \in Edges : EdgeIsSound(t, verdict', final', e)
                       /\ PlanIsRemembered(t, verdict', final', e)
  BY <1>2 DEF Good, Sound
<1>7. Edges' = Edges
  BY DEF Edges
<1>8. ASSUME NEW e \in Edges
      PROVE  EdgeIsSound(Side, verdict, final, e)' /\ PlanIsRemembered(Side, verdict, final, e)'
  <2>1. /\ Unbegun(Side, e)' <=> Unbegun(t, e)
        /\ Begun(Side, e)' <=> Begun(t, e)
        /\ Begun(Side, e - 1)' <=> Begun(t, e - 1)
        /\ Due(Side, e)' = Due(t, e)
        /\ NoneIn(Side, e, {"slot"})' <=> NoneIn(t, e, {"slot"})
        /\ NoneIn(Side, e, {"joined"})' <=> NoneIn(t, e, {"joined"})
        /\ NoneIn(Side, e, {"abandoned"})' <=> NoneIn(t, e, {"abandoned"})
        /\ NoneIn(Side, e, Owed)' <=> NoneIn(t, e, Owed)
        /\ AllIn(Side, e, Owed)' <=> AllIn(t, e, Owed)
        /\ SolvesOf(e - 1)' = SolvesOf(e - 1)
    BY <1>1 DEF Unbegun, Begun, Due, Count, IsIn, NoneIn, AllIn, SolvesOf, Owed
  <2>2. EdgeIsSound(t, verdict', final', e) /\ PlanIsRemembered(t, verdict', final', e)
    BY <1>6
  <2>3. PlanIsRemembered(Side, verdict, final, e)'
    BY <1>1, <2>1, <2>2 DEF PlanIsRemembered, Undecided
  <2>4. EdgeIsSound(Side, verdict, final, e)'
    BY <1>1, <2>1, <2>2
       DEF EdgeIsSound, IsAsked, EndsBelow, SourceIsOpen, HasDestination, Undecided,
           RescueIsFirst, HeldIsUnbegun, EarlyIsWhole, OwesWhatIsDue
  <2> QED
    BY <2>3, <2>4
<1>9. Sound(Side, verdict, final)'
  BY <1>3, <1>4, <1>5, <1>7, <1>8 DEF Sound
<1> QED
  BY <1>7, <1>8, <1>9 DEF Good

\* What a step that decodes or delivers on other pools leaves of edge e.
IsAlike(s, t, f, e) ==
    /\ t.record[e].phase = s.record[e].phase /\ t.record[e].owed = s.record[e].owed
    /\ t.record[e].companions = s.record[e].companions
    /\ t.record[e].open # s.record[e].open => f # None /\ f < e
    /\ t.edge[e] = s.edge[e] /\ t.solves[e] = s.solves[e]
    /\ Begun(t, e - 1) <=> Begun(s, e - 1)

\* An edge alike in two sides is sound and remembered in both.
LEMMA AlikeKeeps ==
    ASSUME NEW s, NEW t, NEW v, NEW f, NEW e, EdgeIsSound(s, v, f, e), IsAlike(s, t, f, e)
    PROVE  /\ EdgeIsSound(t, v, f, e)
           /\ PlanIsRemembered(s, v, f, e) => PlanIsRemembered(t, v, f, e)
<1>1. /\ Unbegun(t, e) <=> Unbegun(s, e)
      /\ Begun(t, e) <=> Begun(s, e)
      /\ Begun(t, e - 1) <=> Begun(s, e - 1)
      /\ Due(t, e) = Due(s, e)
      /\ NoneIn(t, e, {"slot"}) <=> NoneIn(s, e, {"slot"})
      /\ NoneIn(t, e, {"joined"}) <=> NoneIn(s, e, {"joined"})
      /\ NoneIn(t, e, {"abandoned"}) <=> NoneIn(s, e, {"abandoned"})
      /\ NoneIn(t, e, Owed) <=> NoneIn(s, e, Owed)
      /\ AllIn(t, e, Owed) <=> AllIn(s, e, Owed)
  BY DEF IsAlike, Unbegun, Begun, Due, NoneIn, AllIn
<1>2. IsAsked(t, v, e) /\ EndsBelow(t, f, e) /\ RescueIsFirst(t, v, f, e)
      /\ HeldIsUnbegun(t, f, e) /\ EarlyIsWhole(t, v, f, e) /\ OwesWhatIsDue(t, e)
  BY <1>1 DEF IsAlike, EdgeIsSound, IsAsked, EndsBelow, RescueIsFirst,
              HeldIsUnbegun, EarlyIsWhole, OwesWhatIsDue
<1>3. SourceIsOpen(t, v, f, e)
  BY <1>1 DEF IsAlike, EdgeIsSound, SourceIsOpen
<1>4. HasDestination(t, e)
  BY <1>1 DEF IsAlike, EdgeIsSound, HasDestination, EndsBelow
<1> QED
  BY <1>1, <1>2, <1>3, <1>4 DEF IsAlike, EdgeIsSound, PlanIsRemembered

\* Whether the attempt of pool p was admitted does not change.
SameStart(s, t, p) ==
    /\ Begun(t, p) <=> Begun(s, p)
    /\ Unbegun(t, p) <=> Unbegun(s, p)

\* A step of one pool whose attempt it does not start, and whose verdict, if
\* any, stays of a joined attempt.
LEMMA PoolKeeps ==
    ASSUME config \in Settings, NEW s, NEW t, NEW v, NEW f, NEW p \in Levels,
           Good(s, v, f), Typed(t), SameStart(s, t, p),
           v[p] # "none" => AllIn(t, p, {"joined"}),
           \A q \in Pools : q # p => t.solves[q] = s.solves[q],
           \A e \in Edges : e # p => IsAlike(s, t, f, e),
           p \in Edges => EdgeIsSound(t, v, f, p) /\ PlanIsRemembered(t, v, f, p)
    PROVE  Good(t, v, f)
<1>1. Sound(s, v, f)
  BY DEF Good
<1>2. \A q \in Levels : q \in Pools /\ q \in Int
  BY ChainFacts
<1>3. \A q \in Levels : (Begun(t, q) <=> Begun(s, q)) /\ (Unbegun(t, q) <=> Unbegun(s, q))
  <2> TAKE q \in Levels
  <2>1. CASE q = p
    BY <2>1 DEF SameStart
  <2>2. CASE q # p
    BY <2>2, <1>2 DEF Begun, Unbegun
  <2> QED
    BY <2>1, <2>2
<1>4. AdmittedInOrder(t)
  BY <1>1, <1>3 DEF Sound, AdmittedInOrder
<1>5. VerdictsClimb(t, v, f)
  BY <1>1, <1>2 DEF Sound, VerdictsClimb, AllIn
<1>6. ASSUME NEW e \in Edges
      PROVE  EdgeIsSound(t, v, f, e) /\ PlanIsRemembered(t, v, f, e)
  <2>1. EdgeIsSound(s, v, f, e) /\ PlanIsRemembered(s, v, f, e)
    BY DEF Good, Sound
  <2>2. CASE e = p
    BY <2>2
  <2>3. CASE e # p
    <3>1. IsAlike(s, t, f, e)
      BY <2>3
    <3> QED
      BY <2>1, <3>1, AlikeKeeps
  <2> QED
    BY <2>2, <2>3
<1> QED
  BY <1>4, <1>5, <1>6 DEF Good, Sound

\* The types of the declared run, the verdicts and the answer.
Environment ==
    /\ config \in Settings /\ blocked \in BOOLEAN /\ deferred \in BOOLEAN
    /\ verdict \in [Pools -> {"none", "forming", "KEEP", "ESCALATE"}]
    /\ final \in Pools \union {None}

\* Before the last boundary no pool but the entry one has begun.
LEMMA BlockedFacts ==
    ASSUME IInv, blocked
    PROVE  /\ \A e \in Edges : Unbegun(Side, e) /\ ~ edge[e].held
           /\ AllIn(Side, 0, {"none", "live"})
           /\ \A p \in Levels : verdict[p] = "none"
           /\ final = None
<1>1. config \in Settings /\ WaitsForBoundary /\ VerdictsClimb(Side, verdict, final)
  BY DEF IInv, Good, Sound
<1>2. /\ \A e \in Edges : Unbegun(Side, e) /\ ~ edge[e].held
      /\ AllIn(Side, 0, {"none", "live"})
  BY <1>1 DEF WaitsForBoundary
<1>3. ASSUME NEW p \in Levels
      PROVE  verdict[p] = "none"
  <2>1. p \in Pools /\ 0 \in Pools /\ (p # 0 => p \in Edges)
    BY <1>1, ChainFacts
  <2>2. ~ AllIn(Side, p, {"joined"})
    <3>1. CASE p = 0
      <4>1. 1 \in SolvesOf(0)
        BY <1>1, <2>1, SolvesAre
      <4> QED
        BY <4>1, <3>1, <1>2 DEF AllIn
    <3>2. CASE p # 0
      BY <3>2, <2>1, <1>1, <1>2, BegunFacts
    <3> QED
      BY <3>1, <3>2
  <2> QED
    BY <1>1, <2>2 DEF VerdictsClimb
<1>4. final = None
  BY <1>1, <1>3 DEF VerdictsClimb
<1> QED
  BY <1>2, <1>3, <1>4

\* A step with no boundary to wait for.
LEMMA FreeStep ==
    ASSUME IInv, ~ blocked, UNCHANGED <<config, blocked, deferred>>, Environment',
           NEW t, IsSideNext(t), Good(t, verdict', final')
    PROVE  IInv'
<1>1. ~ blocked' /\ ~ deferred'
  BY DEF IInv, WaitsForBoundary
<1>2. Good(Side, verdict, final)'
  BY GoodNext
<1>3. WaitsForBoundary'
  BY <1>1 DEF WaitsForBoundary
<1> QED
  BY <1>2, <1>3 DEF IInv, Environment

\* Where a step puts one solve.
LEMMA PutFacts ==
    ASSUME config \in Settings, Typed(Side), NEW p \in Pools, NEW k \in SolvesOf(p),
           NEW where \in SolveStates, Put(p, k, where)
    PROVE  /\ solves' = [q \in Pools |-> solves'[q]]
           /\ \A q \in Pools : solves'[q] \in [SolvesOf(q) -> SolveStates]
           /\ \A q \in Pools : q # p => solves'[q] = solves[q]
           /\ \A j \in SolvesOf(p) : solves'[p][j] = IF j = k THEN where ELSE solves[p][j]
<1>1. solves = [q \in Pools |-> solves[q]]
      /\ \A q \in Pools : solves[q] \in [SolvesOf(q) -> SolveStates]
  BY DEF Typed, Side
<1>2. solves' = [solves EXCEPT ![p] = [solves[p] EXCEPT ![k] = where]]
  BY DEF Put
<1>3. solves' = [q \in Pools |->
                    IF q = p THEN [solves[p] EXCEPT ![k] = where] ELSE solves[q]]
  BY <1>1, <1>2
<1>4. solves'[p] = [solves[p] EXCEPT ![k] = where]
      /\ \A q \in Pools : q # p => solves'[q] = solves[q]
  BY <1>3
<1>5. solves' = [q \in Pools |-> solves'[q]]
  BY <1>3
<1>6. solves'[p] \in [SolvesOf(p) -> SolveStates]
      /\ \A j \in SolvesOf(p) : solves'[p][j] = IF j = k THEN where ELSE solves[p][j]
  BY <1>1, <1>4
<1> QED
  BY <1>1, <1>4, <1>5, <1>6

\* The pool of a solve that is somewhere has begun, whole.
LEMMA SolveBegan ==
    ASSUME IInv, NEW p \in Levels, NEW k \in SolvesOf(p), solves[p][k] # "none"
    PROVE  Begun(Side, p)
<1>1. Unbegun(Side, p) \/ Begun(Side, p)
  BY DEF IInv, Good, Sound, AdmittedInOrder
<1>2. ~ Unbegun(Side, p)
  BY DEF Unbegun, Side
<1> QED
  BY <1>1, <1>2

-----------------------------------------------------------------------------
(* The ends of decodes *)

\* An entry result reaches the join: no edge sees more than that its source
\* has begun.
LEMMA EntryDecodeEndsKeeps ==
    ASSUME IInv, NEW k \in SolvesOf(0), EntryDecodeEnds(k)
    PROVE  IInv'
<1> DEFINE t == [solves |-> solves', record |-> record', edge |-> edge']
<1>1. config \in Settings /\ 0 \in Levels /\ 0 \in Pools /\ ~ blocked
      /\ solves[0][k] = "live" /\ Put(0, k, "joined") /\ Good(Side, verdict, final)
      /\ UNCHANGED <<config, blocked, deferred, record, edge, verdict, final>>
  BY ChainFacts DEF IInv, EntryDecodeEnds, MayRun
<1>2. Sound(Side, verdict, final) /\ Typed(Side) /\ "joined" \in SolveStates
  BY <1>1 DEF Good, Sound, SolveStates
<1>3. /\ solves' = [q \in Pools |-> solves'[q]]
      /\ \A q \in Pools : solves'[q] \in [SolvesOf(q) -> SolveStates]
      /\ \A q \in Pools : q # 0 => solves'[q] = solves[q]
      /\ \A j \in SolvesOf(0) : solves'[0][j] = IF j = k THEN "joined" ELSE solves[0][j]
  BY <1>1, <1>2, PutFacts
<1>4. t.solves = solves' /\ t.record = record /\ t.edge = edge /\ IsSideNext(t)
  BY <1>1 DEF IsSideNext
<1>5. t = [solves |-> t.solves, record |-> t.record, edge |-> t.edge]
  BY <1>4
<1> HIDE DEF t
<1>6. Typed(t)
  BY <1>2, <1>3, <1>4, <1>5 DEF Typed, Side
<1>7. Begun(Side, 0)
  BY <1>1, SolveBegan
<1>8. Begun(t, 0)
  BY <1>3, <1>4, <1>7 DEF Begun, Side
<1>9. verdict[0] = "none"
  <2>1. ~ AllIn(Side, 0, {"joined"})
    BY <1>1 DEF AllIn, Side
  <2> QED
    BY <1>1, <1>2, <2>1 DEF Sound, VerdictsClimb
<1>10. ASSUME NEW e \in Edges, e # 0
       PROVE  IsAlike(Side, t, final, e)
  <2>1. e \in Pools /\ e - 1 \in Pools
    BY <1>1, ChainFacts
  <2>2. Begun(t, e - 1) <=> Begun(Side, e - 1)
    <3>1. CASE e - 1 = 0
      BY <3>1, <1>7, <1>8
    <3>2. CASE e - 1 # 0
      BY <3>2, <2>1, <1>3, <1>4 DEF Begun, Side
    <3> QED
      BY <3>1, <3>2
  <2> QED
    BY <2>1, <2>2, <1>3, <1>4, <1>10 DEF IsAlike, Side
<1>11. 0 \notin Edges
  BY DEF Edges
<1>12. \A q \in Pools : q # 0 => t.solves[q] = Side.solves[q]
  BY <1>3, <1>4 DEF Side
<1>13. SameStart(Side, t, 0)
  BY <1>1, <1>7, <1>8, BegunFacts DEF SameStart
<1>14. Good(t, verdict, final)
  BY <1>1, <1>6, <1>9, <1>10, <1>11, <1>12, <1>13, PoolKeeps
<1>15. Good(t, verdict', final') /\ Environment'
  BY <1>1, <1>14 DEF Environment, IInv
<1>16. UNCHANGED <<config, blocked, deferred>>
  BY <1>1
<1> QED
  BY <1>1, <1>4, <1>15, <1>16, FreeStep

\* A begun target has no boundary to wait for.
LEMMA BegunIsFree ==
    ASSUME IInv, NEW p \in Edges, Begun(Side, p)
    PROVE  ~ blocked
<1>1. config \in Settings /\ p \in Pools
  BY ChainFacts DEF IInv
<1>2. ~ Unbegun(Side, p)
  BY <1>1, BegunFacts
<1> QED
  BY <1>2, BlockedFacts

\* A dropped result closes the attempt it opened: the answer is above it, so
\* no destination waits for what that attempt opened.
LEMMA AbandonedDecodeEndsKeeps ==
    ASSUME IInv, NEW p \in Edges, NEW k \in SolvesOf(p), AbandonedDecodeEnds(p, k)
    PROVE  IInv'
<1> DEFINE t == [solves |-> solves', record |-> record', edge |-> edge']
<1>1. config \in Settings /\ p \in Levels /\ p \in Pools /\ p \in Int /\ None > p
      /\ solves[p][k] = "abandoned" /\ Put(p, k, "over") /\ Good(Side, verdict, final)
      /\ UNCHANGED <<config, blocked, deferred, edge, verdict, final>>
  BY ChainFacts DEF IInv, AbandonedDecodeEnds
<1>2. Sound(Side, verdict, final) /\ Typed(Side) /\ "over" \in SolveStates
      /\ EdgeIsSound(Side, verdict, final, p) /\ PlanIsRemembered(Side, verdict, final, p)
  BY <1>1 DEF Good, Sound, SolveStates
<1>3. /\ solves' = [q \in Pools |-> solves'[q]]
      /\ \A q \in Pools : solves'[q] \in [SolvesOf(q) -> SolveStates]
      /\ \A q \in Pools : q # p => solves'[q] = solves[q]
      /\ \A j \in SolvesOf(p) : solves'[p][j] = IF j = k THEN "over" ELSE solves[p][j]
  BY <1>1, <1>2, PutFacts
<1>4. t.solves = solves' /\ t.record = record' /\ t.edge = edge /\ IsSideNext(t)
  BY <1>1 DEF IsSideNext
<1>5. t = [solves |-> t.solves, record |-> t.record, edge |-> t.edge]
  BY <1>4
<1>6. \A q \in Targets : record[q] \in Records
  BY <1>2 DEF Typed, Side
<1>7. record' = [q \in Targets |-> IF q = p + 1 THEN [record[q] EXCEPT !.open = @ \ {k}]
                                               ELSE record[q]]
  BY DEF AbandonedDecodeEnds
<1>8. record' \in [Targets -> Records]
      /\ \A q \in Targets : /\ record'[q].phase = record[q].phase
                            /\ record'[q].owed = record[q].owed
                            /\ record'[q].companions = record[q].companions
                            /\ q # p + 1 => record'[q].open = record[q].open
  BY <1>6, <1>7 DEF Records
<1> HIDE DEF t
<1>9. Typed(t)
  BY <1>2, <1>3, <1>4, <1>5, <1>8 DEF Typed, Side
<1>10. Begun(Side, p)
  BY <1>1, SolveBegan
<1>11. Begun(t, p)
  BY <1>3, <1>4, <1>10 DEF Begun, Side
<1>12. ~ blocked
  BY <1>10, BegunIsFree
<1>13. verdict[p] = "none"
  <2>1. ~ AllIn(Side, p, {"joined"})
    BY <1>1 DEF AllIn, Side
  <2> QED
    BY <1>1, <1>2, <2>1 DEF Sound, VerdictsClimb
<1>14. final < p /\ final # None
  <2>1. ~ NoneIn(Side, p, {"abandoned"})
    BY <1>1 DEF NoneIn, Side
  <2> QED
    BY <2>1, <1>1, <1>2, ChainFacts DEF EdgeIsSound, EndsBelow, IInv
<1>15. ASSUME NEW e \in Edges, e # p
       PROVE  IsAlike(Side, t, final, e)
  <2>1. e \in Pools /\ e - 1 \in Pools /\ e \in Targets /\ e \in Int
    BY <1>1, ChainFacts
  <2>2. Begun(t, e - 1) <=> Begun(Side, e - 1)
    <3>1. CASE e - 1 = p
      BY <3>1, <1>10, <1>11
    <3>2. CASE e - 1 # p
      BY <3>2, <2>1, <1>3, <1>4 DEF Begun, Side
    <3> QED
      BY <3>1, <3>2
  <2>3. t.record[e].open # record[e].open => final < e
    <3>1. CASE e = p + 1
      <4>1. final \in Int
        BY <1>14, <1>1, ChainFacts DEF IInv
      <4> QED
        BY <3>1, <4>1, <1>1, <1>14
    <3>2. CASE e # p + 1
      BY <3>2, <2>1, <1>4, <1>8
    <3> QED
      BY <3>1, <3>2
  <2>4. Side.record = record /\ Side.edge = edge /\ Side.solves = solves
    BY DEF Side
  <2>5. t.record[e].phase = Side.record[e].phase /\ t.record[e].owed = Side.record[e].owed
        /\ t.record[e].companions = Side.record[e].companions
    BY <2>1, <2>4, <1>4, <1>8
  <2>6. t.edge[e] = Side.edge[e] /\ t.solves[e] = Side.solves[e]
    BY <2>1, <2>4, <1>3, <1>4, <1>15
  <2> QED
    BY <2>2, <2>3, <2>4, <2>5, <2>6, <1>14 DEF IsAlike
<1>16. EdgeIsSound(t, verdict, final, p) /\ PlanIsRemembered(t, verdict, final, p)
  <2>1. p \in Targets /\ p # p + 1 /\ p - 1 # p /\ p - 1 \in Pools
    BY <1>1, ChainFacts
  <2>2. t.record[p].phase = record[p].phase /\ t.record[p].owed = record[p].owed
        /\ t.record[p].companions = record[p].companions
        /\ t.record[p].open = record[p].open /\ t.edge[p] = edge[p]
    BY <2>1, <1>4, <1>8
  <2>3. Side.record = record /\ Side.edge = edge /\ Side.solves = solves
    BY DEF Side
  <2>4. /\ NoneIn(Side, p, Owed) => NoneIn(t, p, Owed)
        /\ NoneIn(Side, p, {"slot"}) => NoneIn(t, p, {"slot"})
        /\ NoneIn(Side, p, {"joined"}) => NoneIn(t, p, {"joined"})
    BY <2>3, <1>3, <1>4 DEF NoneIn, Owed
  <2>5. NoneIn(Side, p, Owed) /\ NoneIn(t, p, Owed)
    BY <2>4, <1>2, <1>14 DEF EdgeIsSound, EndsBelow
  <2>6. Due(t, p) = Due(Side, p)
    BY <2>5, <1>1, DueFacts
  <2>7. ~ Unbegun(Side, p) /\ ~ Unbegun(t, p)
    BY <1>1, <1>10, <1>11, BegunFacts
  <2>8. ~ edge[p].held /\ ~ edge[p].rescue
    BY <2>3, <2>7, <1>2 DEF EdgeIsSound, HeldIsUnbegun, RescueIsFirst
  <2>9. IsAsked(t, verdict, p) /\ OwesWhatIsDue(t, p)
    BY <2>2, <2>3, <2>4, <2>6, <1>2 DEF EdgeIsSound, IsAsked, OwesWhatIsDue
  <2>10. EndsBelow(t, final, p) /\ HasDestination(t, p)
    BY <2>5, <1>14 DEF EndsBelow, HasDestination
  <2>11. SourceIsOpen(t, verdict, final, p) /\ EarlyIsWhole(t, verdict, final, p)
    BY <2>7, <1>14 DEF SourceIsOpen, EarlyIsWhole
  <2>12. RescueIsFirst(t, verdict, final, p) /\ HeldIsUnbegun(t, final, p)
         /\ PlanIsRemembered(t, verdict, final, p)
    BY <2>2, <2>8, <1>14 DEF RescueIsFirst, HeldIsUnbegun, PlanIsRemembered
  <2> QED
    BY <2>9, <2>10, <2>11, <2>12 DEF EdgeIsSound
<1>17. \A q \in Pools : q # p => t.solves[q] = Side.solves[q]
  BY <1>3, <1>4 DEF Side
<1>18. Good(t, verdict, final)
  <2>1. SameStart(Side, t, p)
    BY <1>1, <1>10, <1>11, BegunFacts DEF SameStart
  <2> QED
    BY <2>1, <1>1, <1>9, <1>13, <1>15, <1>16, <1>17, PoolKeeps
<1>19. Good(t, verdict', final') /\ Environment'
  BY <1>1, <1>18 DEF Environment, IInv
<1>20. UNCHANGED <<config, blocked, deferred>>
  BY <1>1
<1> QED
  BY <1>4, <1>12, <1>19, <1>20, FreeStep

\* A solve that was due leaves one less due unless it goes to a slot.
LEMMA DueStep ==
    ASSUME config \in Settings, NEW p \in Pools, NEW k \in SolvesOf(p), NEW s, NEW t, NEW where,
           s.solves[p][k] \in Owed,
           \A j \in SolvesOf(p) : t.solves[p][j] = IF j = k THEN where ELSE s.solves[p][j]
    PROVE  /\ where \in Owed => Due(t, p) = Due(s, p)
           /\ where \notin Owed => Due(t, p) = Due(s, p) - 1
<1>1. config.solves[p] \in {1, 2}
      /\ (config.solves[p] = 1 => SolvesOf(p) = {1})
      /\ (config.solves[p] = 2 => SolvesOf(p) = {1, 2})
  BY SolvesAre
<1>2. CASE config.solves[p] = 1
  <2>1. k = 1 /\ t.solves[p][1] = where
    BY <1>1, <1>2
  <2> QED
    BY <2>1, <1>2 DEF Due, Count, IsIn
<1>3. CASE config.solves[p] = 2
  <2>1. /\ t.solves[p][1] = IF 1 = k THEN where ELSE s.solves[p][1]
        /\ t.solves[p][2] = IF 2 = k THEN where ELSE s.solves[p][2]
        /\ k = 1 \/ k = 2
    BY <1>1, <1>3
  <2>2. CASE k = 1
    BY <2>1, <2>2, <1>3 DEF Due, Count, IsIn
  <2>3. CASE k = 2
    BY <2>1, <2>3, <1>3 DEF Due, Count, IsIn
  <2> QED
    BY <2>1, <2>2, <2>3
<1> QED
  BY <1>1, <1>2, <1>3

\* What taking results leaves of a record.
LEMMA TakeFacts ==
    ASSUME NEW r \in Records, NEW c \in Nat, c >= 1
    PROVE  /\ Take(r, c) \in Records /\ Take(r, c).open = r.open
           /\ r.owed > c => /\ Take(r, c).owed = r.owed - c
                            /\ Take(r, c).phase = r.phase
                            /\ Take(r, c).companions = r.companions
           /\ ~ (r.owed > c) => /\ Take(r, c).owed = 0
                                /\ Take(r, c).phase = "NONE"
                                /\ Take(r, c).companions = 0
<1>1. r.owed \in 0..2
  BY DEF Records
<1>2. CASE r.owed > c
  <2>1. Take(r, c) = [r EXCEPT !.owed = r.owed - c]
    BY <1>2 DEF Take
  <2>2. r.owed - c \in 0..2
    BY <1>1, <1>2
  <2> QED
    BY <2>1, <2>2, <1>2 DEF Records
<1>3. CASE ~ (r.owed > c)
  <2>1. Take(r, c) = [r EXCEPT !.owed = 0, !.phase = "NONE", !.companions = 0]
    BY <1>3 DEF Take
  <2>2. Take(r, c) \in [phase : {"NONE"}, owed : {0}, companions : {0}, open : {r.open}]
    BY <2>1 DEF Records
  <2>3. r.open \in SUBSET {1, 2} /\ "NONE" \in Phases
    BY DEF Records, Phases
  <2>4. /\ Take(r, c).open = r.open /\ Take(r, c).owed = 0
        /\ Take(r, c).phase = "NONE" /\ Take(r, c).companions = 0
    BY <2>2
  <2>5. Take(r, c) \in Records
    BY <2>2, <2>3 DEF Records
  <2> QED
    BY <2>4, <2>5, <1>3
<1> QED
  BY <1>2, <1>3

\* A target's result leaves what is due as it leaves what is owed, or waits
\* in its slot for a demand that may still come.
LEMMA TargetDecodeEndsKeeps ==
    ASSUME IInv, NEW p \in Edges, NEW k \in SolvesOf(p), TargetDecodeEnds(p, k)
    PROVE  IInv'
<1> DEFINE t == [solves |-> solves', record |-> record', edge |-> edge']
<1>1. config \in Settings /\ p \in Levels /\ p \in Pools /\ p \in Int /\ None > p
      /\ solves[p][k] = "live" /\ Good(Side, verdict, final) /\ p \in Targets
      /\ UNCHANGED <<config, blocked, deferred, edge, verdict, final>>
  BY ChainFacts DEF IInv, TargetDecodeEnds
<1>2. Sound(Side, verdict, final) /\ Typed(Side)
      /\ EdgeIsSound(Side, verdict, final, p) /\ PlanIsRemembered(Side, verdict, final, p)
      /\ "joined" \in SolveStates /\ "slot" \in SolveStates
  BY <1>1 DEF Good, Sound, SolveStates
<1>3. Side.record = record /\ Side.edge = edge /\ Side.solves = solves
  BY DEF Side
<1>4. record \in [Targets -> Records] /\ record[p] \in Records
  BY <1>1, <1>2, <1>3 DEF Typed
<1>5. PICK where \in {"joined", "slot"} :
         /\ Put(p, k, where)
         /\ where = "joined" => /\ record[p].phase = "WAITING_RESULT"
                                /\ record' = [record EXCEPT ![p] = Take(record[p], 1)]
         /\ where = "slot" => /\ record[p].phase # "WAITING_RESULT"
                              /\ record' = record
                              /\ record[p].phase # "NONE" \/ record[p].open # {}
  BY DEF TargetDecodeEnds, MayConsume
<1>6. /\ solves' = [q \in Pools |-> solves'[q]]
      /\ \A q \in Pools : solves'[q] \in [SolvesOf(q) -> SolveStates]
      /\ \A q \in Pools : q # p => solves'[q] = solves[q]
      /\ \A j \in SolvesOf(p) : solves'[p][j] = IF j = k THEN where ELSE solves[p][j]
  BY <1>1, <1>2, <1>5, PutFacts
<1>7. t.solves = solves' /\ t.record = record' /\ t.edge = edge /\ IsSideNext(t)
  BY <1>1 DEF IsSideNext
<1>8. t = [solves |-> t.solves, record |-> t.record, edge |-> t.edge]
  BY <1>7
<1>9. record' \in [Targets -> Records] /\ (\A q \in Targets : q # p => record'[q] = record[q])
      /\ record'[p].open = record[p].open
  <2>1. Take(record[p], 1) \in Records /\ Take(record[p], 1).open = record[p].open
    BY <1>4, TakeFacts
  <2> QED
    BY <2>1, <1>1, <1>4, <1>5
<1> HIDE DEF t
<1>10. Typed(t)
  BY <1>2, <1>3, <1>6, <1>7, <1>8, <1>9 DEF Typed
<1>11. Begun(Side, p)
  BY <1>1, SolveBegan
<1>12. Begun(t, p)
  BY <1>3, <1>5, <1>6, <1>7, <1>11 DEF Begun
<1>13. ~ blocked
  BY <1>11, BegunIsFree
<1>14. verdict[p] = "none"
  <2>1. ~ AllIn(Side, p, {"joined"})
    BY <1>1, <1>3 DEF AllIn
  <2> QED
    BY <1>1, <1>2, <2>1 DEF Sound, VerdictsClimb
<1>15. ~ (final < p) /\ NoneIn(Side, p, {"abandoned"})
  <2>1. ~ NoneIn(Side, p, Owed)
    BY <1>1, <1>3 DEF NoneIn, Owed
  <2> QED
    BY <2>1, <1>2 DEF EdgeIsSound, EndsBelow
<1>16. ASSUME NEW e \in Edges, e # p
       PROVE  IsAlike(Side, t, final, e)
  <2>1. e \in Pools /\ e - 1 \in Pools /\ e \in Targets /\ e \in Int
    BY <1>1, ChainFacts
  <2>2. Begun(t, e - 1) <=> Begun(Side, e - 1)
    <3>1. CASE e - 1 = p
      BY <3>1, <1>11, <1>12
    <3>2. CASE e - 1 # p
      BY <3>2, <2>1, <1>3, <1>6, <1>7 DEF Begun
    <3> QED
      BY <3>1, <3>2
  <2>3. t.record[e] = Side.record[e] /\ t.edge[e] = Side.edge[e] /\ t.solves[e] = Side.solves[e]
    BY <2>1, <1>3, <1>6, <1>7, <1>9, <1>16
  <2> QED
    BY <2>2, <2>3 DEF IsAlike
<1>17. EdgeIsSound(t, verdict, final, p) /\ PlanIsRemembered(t, verdict, final, p)
  <2>1. t.record[p].open = record[p].open /\ t.edge[p] = edge[p]
    BY <1>7, <1>9
  <2>2. p # p - 1 /\ p - 1 \in Pools
    BY <1>1, ChainFacts
  <2>3. Begun(t, p - 1) <=> Begun(Side, p - 1)
    BY <2>2, <1>3, <1>6, <1>7 DEF Begun
  <2>4. ~ Unbegun(Side, p) /\ ~ Unbegun(t, p)
    BY <1>1, <1>11, <1>12, BegunFacts
  <2>5. ~ edge[p].held /\ ~ edge[p].rescue
    BY <2>4, <1>2, <1>3 DEF EdgeIsSound, HeldIsUnbegun, RescueIsFirst
  <2>6. NoneIn(t, p, {"abandoned"})
    BY <1>3, <1>5, <1>6, <1>7, <1>15 DEF NoneIn
  <2>7. EndsBelow(t, final, p) /\ SourceIsOpen(t, verdict, final, p)
        /\ RescueIsFirst(t, verdict, final, p) /\ HeldIsUnbegun(t, final, p)
    BY <2>1, <2>3, <2>5, <2>6, <1>2, <1>3, <1>15
       DEF EdgeIsSound, EndsBelow, SourceIsOpen, RescueIsFirst, HeldIsUnbegun
  <2>8. Due(t, p) \in 0..2 /\ Due(Side, p) \in 0..2 /\ (Due(t, p) = 0 <=> NoneIn(t, p, Owed))
    BY <1>1, DueFacts
  <2>9. record[p].phase # "NONE" => record[p].owed = Due(Side, p)
    BY <2>5, <1>2, <1>3 DEF EdgeIsSound, OwesWhatIsDue
  <2>10. (where \in Owed => Due(t, p) = Due(Side, p))
         /\ (where \notin Owed => Due(t, p) = Due(Side, p) - 1)
    <3>1. Side.solves[p][k] \in Owed
      BY <1>1, <1>3 DEF Owed
    <3>2. \A j \in SolvesOf(p) : t.solves[p][j] = IF j = k THEN where ELSE Side.solves[p][j]
      BY <1>3, <1>6, <1>7
    <3> QED
      BY <3>1, <3>2, <1>1, DueStep
  <2>11. CASE where = "slot"
    <3>1. t.record[p] = record[p] /\ record[p].phase # "WAITING_RESULT"
      BY <1>5, <1>7, <2>11
    <3>2. (NoneIn(Side, p, {"joined"}) => NoneIn(t, p, {"joined"}))
          /\ (AllIn(Side, p, Owed) => AllIn(t, p, Owed))
      BY <2>11, <1>3, <1>6, <1>7 DEF NoneIn, AllIn, Owed
    <3>3. Due(t, p) = Due(Side, p)
      BY <2>10, <2>11 DEF Owed
    <3>4. IsAsked(t, verdict, p) /\ EarlyIsWhole(t, verdict, final, p)
      BY <2>1, <2>4, <3>1, <3>2, <1>2, <1>3, <1>11 DEF EdgeIsSound, IsAsked, EarlyIsWhole
    <3>5. HasDestination(t, p)
      BY <3>1, <1>5, <2>11 DEF HasDestination
    <3>6. OwesWhatIsDue(t, p)
      BY <2>1, <2>5, <3>1, <3>3, <1>2, <1>3 DEF EdgeIsSound, OwesWhatIsDue
    <3>7. PlanIsRemembered(t, verdict, final, p)
      BY <2>1, <3>1, <1>2, <1>3, <1>11, <1>12 DEF PlanIsRemembered
    <3> QED
      BY <2>7, <3>4, <3>5, <3>6, <3>7 DEF EdgeIsSound
  <2>12. CASE where = "joined"
    <3>1. t.record[p] = Take(record[p], 1) /\ record[p].phase = "WAITING_RESULT"
      BY <1>1, <1>4, <1>5, <1>7, <2>12
    <3>2. verdict[p - 1] = "ESCALATE"
      BY <3>1, <1>2, <1>3 DEF EdgeIsSound, IsAsked
    <3>3. edge[p].selection # "flying"
      BY <3>1, <1>2, <1>3 DEF EdgeIsSound, OwesWhatIsDue
    <3>4. NoneIn(t, p, {"slot"})
      <4>1. NoneIn(Side, p, {"slot"})
        BY <3>1, <1>2, <1>3 DEF EdgeIsSound, OwesWhatIsDue
      <4> QED
        BY <4>1, <2>12, <1>3, <1>6, <1>7 DEF NoneIn
    <3>5. Due(t, p) = Due(Side, p) - 1 /\ record[p].owed = Due(Side, p)
      BY <2>9, <2>10, <2>12, <3>1 DEF Owed
    <3>6. /\ record[p].owed > 1 => /\ t.record[p].owed = record[p].owed - 1
                                   /\ t.record[p].phase = record[p].phase
          /\ ~ (record[p].owed > 1) => t.record[p].owed = 0 /\ t.record[p].phase = "NONE"
      BY <3>1, <1>4, TakeFacts
    <3>7. t.record[p].phase # "NONE" => t.record[p].owed = Due(t, p)
      BY <3>5, <3>6
    <3>8. HasDestination(t, p)
      <4>1. CASE record[p].owed > 1
        BY <4>1, <3>1, <3>6 DEF HasDestination
      <4>2. CASE ~ (record[p].owed > 1)
        <5>1. Due(t, p) = 0
          BY <4>2, <3>5, <2>8
        <5> QED
          BY <5>1, <2>8 DEF HasDestination
      <4> QED
        BY <4>1, <4>2
    <3>9. IsAsked(t, verdict, p) /\ EarlyIsWhole(t, verdict, final, p)
      BY <3>2, <2>4 DEF IsAsked, EarlyIsWhole, Undecided
    <3>10. OwesWhatIsDue(t, p)
      BY <2>1, <2>5, <3>3, <3>4, <3>7 DEF OwesWhatIsDue
    <3>11. PlanIsRemembered(t, verdict, final, p)
      BY <2>1, <2>5, <3>2 DEF PlanIsRemembered, Undecided
    <3> QED
      BY <2>7, <3>8, <3>9, <3>10, <3>11 DEF EdgeIsSound
  <2> QED
    BY <2>11, <2>12, <1>5
<1>18. \A q \in Pools : q # p => t.solves[q] = Side.solves[q]
  BY <1>3, <1>6, <1>7
<1>19. Good(t, verdict, final)
  <2>1. SameStart(Side, t, p)
    BY <1>1, <1>11, <1>12, BegunFacts DEF SameStart
  <2> QED
    BY <2>1, <1>1, <1>10, <1>14, <1>16, <1>17, <1>18, PoolKeeps
<1>20. Good(t, verdict', final') /\ Environment'
  BY <1>1, <1>19 DEF Environment, IInv
<1>21. UNCHANGED <<config, blocked, deferred>>
  BY <1>1
<1> QED
  BY <1>7, <1>13, <1>20, <1>21, FreeStep

\* When its slots are consumed an attempt has so much less due.
LEMMA SlotsLeave ==
    ASSUME config \in Settings, NEW p \in Pools, NEW s, NEW t,
           \A k \in SolvesOf(p) : t.solves[p][k] = IF s.solves[p][k] = "slot" THEN "joined"
                                                   ELSE s.solves[p][k]
    PROVE  /\ Due(t, p) = Due(s, p) - Count(s.solves[p], config.solves[p], {"slot"})
           /\ Count(s.solves[p], config.solves[p], {"slot"}) \in Nat
           /\ Count(s.solves[p], config.solves[p], {"slot"}) = 0 <=> NoneIn(s, p, {"slot"})
<1>1. config.solves[p] \in {1, 2}
      /\ (config.solves[p] = 1 => SolvesOf(p) = {1})
      /\ (config.solves[p] = 2 => SolvesOf(p) = {1, 2})
  BY SolvesAre
<1>2. CASE config.solves[p] = 1
  BY <1>1, <1>2 DEF Due, Count, IsIn, NoneIn, Owed
<1>3. CASE config.solves[p] = 2
  <2>1. /\ t.solves[p][1] = IF s.solves[p][1] = "slot" THEN "joined" ELSE s.solves[p][1]
        /\ t.solves[p][2] = IF s.solves[p][2] = "slot" THEN "joined" ELSE s.solves[p][2]
    BY <1>1, <1>3
  <2>2. NoneIn(s, p, {"slot"}) <=> s.solves[p][1] # "slot" /\ s.solves[p][2] # "slot"
    BY <1>1, <1>3 DEF NoneIn
  <2> QED
    BY <2>1, <2>2, <1>3 DEF Due, Count, IsIn, Owed
<1> QED
  BY <1>1, <1>2, <1>3

\* The selection takes from the slots as many results as it takes from what
\* is owed.
LEMMA SelectionLandsKeeps ==
    ASSUME IInv, NEW p \in Edges, SelectionLands(p)
    PROVE  IInv'
<1> DEFINE t == [solves |-> solves', record |-> record', edge |-> edge']
           slots == Count(solves[p], config.solves[p], {"slot"})
           selected == [record[p] EXCEPT !.phase = "WAITING_RESULT"]
<1>1. config \in Settings /\ p \in Levels /\ p \in Pools /\ p \in Int
      /\ Good(Side, verdict, final) /\ p \in Targets /\ edge[p].selection = "flying"
      /\ UNCHANGED <<config, blocked, deferred, verdict, final>>
  BY ChainFacts DEF IInv, SelectionLands
<1>2. Sound(Side, verdict, final) /\ Typed(Side)
      /\ EdgeIsSound(Side, verdict, final, p) /\ PlanIsRemembered(Side, verdict, final, p)
  BY <1>1 DEF Good, Sound
<1>3. Side.record = record /\ Side.edge = edge /\ Side.solves = solves
  BY DEF Side
<1>4. /\ record \in [Targets -> Records] /\ record[p] \in Records
      /\ edge \in [Targets -> Redecodes] /\ edge[p] \in Redecodes
      /\ solves = [q \in Pools |-> solves[q]]
      /\ \A q \in Pools : solves[q] \in [SolvesOf(q) -> SolveStates]
  BY <1>1, <1>2, <1>3 DEF Typed
<1>5. /\ record' = [record EXCEPT ![p] = IF In(p, {"slot"}) = {} THEN selected
                                         ELSE Take(selected, Cardinality(In(p, {"slot"})))]
      /\ solves' = [solves EXCEPT ![p] =
             [k \in SolvesOf(p) |-> IF k \in In(p, {"slot"}) THEN "joined" ELSE solves[p][k]]]
      /\ edge' = [edge EXCEPT ![p].selection = "landed"]
  BY DEF SelectionLands
<1>6. \A k \in SolvesOf(p) : k \in In(p, {"slot"}) <=> solves[p][k] = "slot"
  BY DEF In
<1>7. Cardinality(In(p, {"slot"})) = slots
  BY <1>1, CountIsCardinality DEF In
<1>8. In(p, {"slot"}) = {} <=> NoneIn(Side, p, {"slot"})
  BY <1>3 DEF In, NoneIn
<1>9. /\ t.solves = solves' /\ t.record = record' /\ t.edge = edge' /\ IsSideNext(t)
      /\ t = [solves |-> t.solves, record |-> t.record, edge |-> t.edge]
  BY DEF IsSideNext
<1> HIDE DEF t, slots
<1>10. /\ solves' = [q \in Pools |-> solves'[q]]
       /\ \A q \in Pools : q # p => solves'[q] = solves[q]
       /\ solves'[p] = [k \in SolvesOf(p) |-> IF k \in In(p, {"slot"}) THEN "joined"
                                              ELSE solves[p][k]]
  <2>1. solves' = [q \in Pools |-> IF q = p
             THEN [k \in SolvesOf(p) |-> IF k \in In(p, {"slot"}) THEN "joined"
                                         ELSE solves[p][k]]
             ELSE solves[q]]
    BY <1>4, <1>5
  <2> QED
    BY <2>1, <1>1
<1>11. \A k \in SolvesOf(p) : solves'[p][k] = IF solves[p][k] = "slot" THEN "joined"
                                              ELSE solves[p][k]
  BY <1>6, <1>10
<1>12. \A q \in Pools : solves'[q] \in [SolvesOf(q) -> SolveStates]
  <2>1. solves'[p] \in [SolvesOf(p) -> SolveStates]
    BY <1>1, <1>4, <1>10 DEF SolveStates
  <2> QED
    BY <2>1, <1>4, <1>10
<1>13. /\ edge' \in [Targets -> Redecodes]
       /\ \A q \in Targets : q # p => edge'[q] = edge[q]
       /\ edge'[p].selection = "landed" /\ edge'[p].held = edge[p].held
       /\ edge'[p].rescue = edge[p].rescue /\ edge'[p].planned = edge[p].planned
  BY <1>1, <1>4, <1>5 DEF Redecodes
<1>14. /\ Due(t, p) = Due(Side, p) - slots /\ slots \in Nat
       /\ (slots = 0 <=> NoneIn(Side, p, {"slot"}))
  <2>1. \A k \in SolvesOf(p) : t.solves[p][k] = IF Side.solves[p][k] = "slot" THEN "joined"
                                                ELSE Side.solves[p][k]
    BY <1>3, <1>9, <1>11
  <2> QED
    BY <2>1, <1>1, <1>3, SlotsLeave DEF slots
<1>15. selected \in Records /\ selected.phase = "WAITING_RESULT"
       /\ selected.owed = record[p].owed /\ selected.open = record[p].open
       /\ selected.companions = record[p].companions
  BY <1>4 DEF Records, Phases
<1> HIDE DEF selected
<1>16. record'[p] = (IF NoneIn(Side, p, {"slot"}) THEN selected ELSE Take(selected, slots))
       /\ \A q \in Targets : q # p => record'[q] = record[q]
  BY <1>1, <1>4, <1>5, <1>7, <1>8
<1>17. /\ record'[p] \in Records /\ record'[p].open = record[p].open
       /\ record'[p].companions \in {record[p].companions, 0}
  <2>1. CASE NoneIn(Side, p, {"slot"})
    BY <2>1, <1>15, <1>16
  <2>2. CASE ~ NoneIn(Side, p, {"slot"})
    <3>1. slots >= 1
      BY <2>2, <1>14
    <3>2. /\ Take(selected, slots) \in Records /\ Take(selected, slots).open = selected.open
          /\ Take(selected, slots).companions = selected.companions
             \/ Take(selected, slots).companions = 0
      BY <3>1, <1>14, <1>15, TakeFacts
    <3> QED
      BY <2>2, <3>2, <1>15, <1>16
  <2> QED
    BY <2>1, <2>2
<1>18. record' \in [Targets -> Records]
  <2>1. \A q \in Targets : record'[q] \in Records
    BY <1>4, <1>16, <1>17
  <2>2. record' = [q \in Targets |-> record'[q]]
    BY <1>4, <1>5
  <2> QED
    BY <2>1, <2>2
<1>19. Typed(t)
  BY <1>9, <1>10, <1>12, <1>13, <1>18 DEF Typed
<1>20. verdict[p - 1] = "ESCALATE"
  BY <1>1, <1>2, <1>3 DEF EdgeIsSound, IsAsked
<1>21. SameStart(Side, t, p)
  BY <1>3, <1>9, <1>11 DEF SameStart, Begun, Unbegun
<1>22. ~ blocked
  <2>1. p - 1 \in Levels
    BY <1>1, ChainFacts
  <2> QED
    BY <2>1, <1>20, BlockedFacts
<1>23. verdict[p] # "none" => AllIn(t, p, {"joined"})
  <2>1. verdict[p] # "none" => AllIn(Side, p, {"joined"})
    BY <1>1, <1>2 DEF Sound, VerdictsClimb
  <2> QED
    BY <2>1, <1>3, <1>9, <1>11 DEF AllIn
<1>24. ASSUME NEW e \in Edges, e # p
       PROVE  IsAlike(Side, t, final, e)
  <2>1. e \in Pools /\ e - 1 \in Pools /\ e \in Targets /\ e \in Int
    BY <1>1, ChainFacts
  <2>2. Begun(t, e - 1) <=> Begun(Side, e - 1)
    <3>1. CASE e - 1 = p
      BY <3>1, <1>21 DEF SameStart
    <3>2. CASE e - 1 # p
      BY <3>2, <2>1, <1>3, <1>9, <1>10 DEF Begun
    <3> QED
      BY <3>1, <3>2
  <2>3. t.record[e] = Side.record[e] /\ t.edge[e] = Side.edge[e] /\ t.solves[e] = Side.solves[e]
    BY <2>1, <1>3, <1>9, <1>10, <1>13, <1>16, <1>24
  <2> QED
    BY <2>2, <2>3 DEF IsAlike
<1>25. EdgeIsSound(t, verdict, final, p) /\ PlanIsRemembered(t, verdict, final, p)
  <2>1. /\ t.edge[p].selection = "landed" /\ t.edge[p].held = edge[p].held
        /\ t.edge[p].rescue = edge[p].rescue /\ t.edge[p].planned = edge[p].planned
        /\ t.record[p].open = record[p].open /\ t.record[p] = record'[p]
    BY <1>9, <1>13, <1>17
  <2>2. p # p - 1 /\ p - 1 \in Pools
    BY <1>1, ChainFacts
  <2>3. /\ Begun(t, p - 1) <=> Begun(Side, p - 1)
        /\ Begun(t, p) <=> Begun(Side, p)
        /\ Unbegun(t, p) <=> Unbegun(Side, p)
    BY <2>2, <1>3, <1>9, <1>10, <1>21 DEF SameStart, Begun
  <2>4. /\ NoneIn(t, p, {"slot"})
        /\ NoneIn(Side, p, Owed) => NoneIn(t, p, Owed)
        /\ NoneIn(Side, p, {"abandoned"}) => NoneIn(t, p, {"abandoned"})
    BY <1>3, <1>9, <1>11 DEF NoneIn, Owed
  <2>5. EndsBelow(t, final, p) /\ HeldIsUnbegun(t, final, p)
        /\ SourceIsOpen(t, verdict, final, p) /\ RescueIsFirst(t, verdict, final, p)
    BY <2>1, <2>3, <2>4, <1>2, <1>3
       DEF EdgeIsSound, EndsBelow, HeldIsUnbegun, SourceIsOpen, RescueIsFirst
  <2>6. IsAsked(t, verdict, p)
    BY <1>20 DEF IsAsked
  <2>7. EarlyIsWhole(t, verdict, final, p)
    <3>1. Unbegun(Side, p) => record[p].companions = 0
      BY <1>2, <1>3 DEF EdgeIsSound, EarlyIsWhole
    <3>2. Unbegun(t, p) => t.record[p].companions = 0
      BY <3>1, <2>1, <2>3, <1>17
    <3>3. ~ Undecided(verdict, p - 1)
      BY <1>20 DEF Undecided
    <3> QED
      BY <3>2, <3>3 DEF EarlyIsWhole
  <2>8. PlanIsRemembered(t, verdict, final, p) \/ t.record[p].phase = "NONE"
    BY <1>20 DEF PlanIsRemembered, Undecided
  <2>9. record[p].phase = "WAITING_SELECTION"
        /\ record[p].owed = IF edge[p].held THEN 1 ELSE Due(Side, p)
    BY <1>1, <1>2, <1>3 DEF EdgeIsSound, OwesWhatIsDue
  <2>10. Due(t, p) \in 0..2 /\ Due(Side, p) \in 0..2 /\ (Due(t, p) = 0 <=> NoneIn(t, p, Owed))
    BY <1>1, DueFacts
  <2>11. CASE NoneIn(Side, p, {"slot"})
    <3>1. t.record[p].phase = "WAITING_RESULT" /\ t.record[p].owed = record[p].owed
      BY <2>1, <2>11, <1>15, <1>16
    <3>2. Due(t, p) = Due(Side, p)
      BY <2>10, <2>11, <1>14
    <3>3. OwesWhatIsDue(t, p)
      BY <2>1, <2>4, <2>9, <3>1, <3>2 DEF OwesWhatIsDue
    <3>4. HasDestination(t, p) /\ PlanIsRemembered(t, verdict, final, p)
      BY <2>8, <3>1 DEF HasDestination
    <3> QED
      BY <2>5, <2>6, <2>7, <3>3, <3>4 DEF EdgeIsSound
  <2>12. CASE ~ NoneIn(Side, p, {"slot"})
    <3>1. ~ Unbegun(Side, p)
      BY <2>12, <1>1, BegunFacts
    <3>2. ~ edge[p].held
      BY <3>1, <1>2, <1>3 DEF EdgeIsSound, HeldIsUnbegun
    <3>3. slots >= 1 /\ t.record[p] = Take(selected, slots)
      BY <2>1, <2>12, <1>14, <1>16
    <3>4. /\ selected.owed > slots => /\ t.record[p].owed = selected.owed - slots
                                      /\ t.record[p].phase = selected.phase
          /\ ~ (selected.owed > slots) => t.record[p].owed = 0 /\ t.record[p].phase = "NONE"
      BY <3>3, <1>14, <1>15, TakeFacts
    <3>5. selected.owed = Due(Side, p) /\ Due(t, p) = Due(Side, p) - slots
      BY <2>9, <3>2, <1>14, <1>15
    <3>6. t.record[p].phase # "NONE" => t.record[p].owed = Due(t, p)
      BY <3>4, <3>5
    <3>7. t.record[p].phase = "NONE" => NoneIn(t, p, Owed)
      <4>1. t.record[p].phase = "NONE" => ~ (selected.owed > slots)
        BY <3>4, <1>15
      <4>2. t.record[p].phase = "NONE" => Due(t, p) = 0
        BY <4>1, <3>5, <2>10, <1>14
      <4> QED
        BY <4>2, <2>10
    <3>8. HasDestination(t, p)
      BY <3>7 DEF HasDestination
    <3>9. OwesWhatIsDue(t, p)
      BY <2>1, <2>4, <3>2, <3>6 DEF OwesWhatIsDue
    <3>10. PlanIsRemembered(t, verdict, final, p)
      BY <2>1, <3>2, <1>20 DEF PlanIsRemembered, Undecided
    <3> QED
      BY <2>5, <2>6, <2>7, <3>8, <3>9, <3>10 DEF EdgeIsSound
  <2> QED
    BY <2>11, <2>12
<1>26. \A q \in Pools : q # p => t.solves[q] = Side.solves[q]
  BY <1>3, <1>9, <1>10
<1>27. Good(t, verdict, final)
  BY <1>1, <1>19, <1>21, <1>23, <1>24, <1>25, <1>26, PoolKeeps
<1>28. Good(t, verdict', final') /\ Environment'
  BY <1>1, <1>27 DEF Environment, IInv
<1>29. UNCHANGED <<config, blocked, deferred>>
  BY <1>1
<1> QED
  BY <1>9, <1>22, <1>28, <1>29, FreeStep

-----------------------------------------------------------------------------
(* Verdicts *)

\* A joined attempt without its verdict is below pools that all escalated,
\* and no answer is given.
LEMMA JoinedFacts ==
    ASSUME config \in Settings, NEW s, NEW v, NEW f, Sound(s, v, f),
           NEW p \in Levels, AllIn(s, p, {"joined"}), v[p] = "none"
    PROVE  /\ \A q \in Levels : q < p => v[q] = "ESCALATE"
           /\ \A q \in Levels : q > p => v[q] = "none"
           /\ f = None
<1>1. \A q \in Levels : q \in Int /\ q \in Pools
  BY ChainFacts
<1>2. VerdictsClimb(s, v, f)
  BY DEF Sound
<1>3. \A q \in Levels : q > p => v[q] = "none"
  BY <1>1, <1>2 DEF VerdictsClimb
<1>4. ASSUME NEW q \in Levels, q < p
      PROVE  v[q] = "ESCALATE"
  <2>1. p \in Edges /\ p - 1 \in Levels /\ p \in Int /\ q \in Int
    BY <1>1, <1>4, ChainFacts DEF Levels, Edges
  <2>2. ~ NoneIn(s, p, {"joined"})
    BY <1>1, BegunFacts
  <2>3. v[p - 1] = "ESCALATE"
    BY <2>1, <2>2 DEF Sound, EdgeIsSound, IsAsked
  <2>4. CASE q = p - 1
    BY <2>3, <2>4
  <2>5. CASE q # p - 1
    <3>1. q < p - 1
      BY <2>1, <2>5, <1>4
    <3> QED
      BY <2>1, <2>3, <3>1, <1>2 DEF VerdictsClimb
  <2> QED
    BY <2>4, <2>5
<1>5. f = None
  <2> SUFFICES ASSUME f # None PROVE FALSE
    OBVIOUS
  <2>1. f \in Levels /\ v[f] = "KEEP"
    BY <1>2 DEF VerdictsClimb
  <2>2. f < p \/ f > p \/ f = p
    BY <2>1, <1>1
  <2> QED
    BY <2>1, <2>2, <1>3, <1>4
<1> QED
  BY <1>3, <1>4, <1>5

\* The pools above a begun one have begun.
LEMMA BegunAbove ==
    ASSUME config \in Settings, NEW s, AdmittedInOrder(s), NEW p \in Levels, Begun(s, p),
           NEW q \in Levels, q <= p
    PROVE  Begun(s, q) /\ ~ Unbegun(s, q)
<1>1. p \in Int /\ q \in Int /\ p \in Pools /\ q \in Pools
  BY ChainFacts
<1>2. Begun(s, q)
  BY <1>1 DEF AdmittedInOrder
<1> QED
  BY <1>1, <1>2, BegunFacts

\* The last pool's answer is kept: nothing is left to end.
LEMMA LastAnswerKeeps ==
    ASSUME config \in Settings, NEW s, NEW v \in [Pools -> {"none", "forming", "KEEP", "ESCALATE"}],
           NEW f, Good(s, v, f), NEW p, p = config.depth, AllIn(s, p, {"joined"}), v[p] = "none"
    PROVE  Good(s, [v EXCEPT ![p] = "KEEP"], p)
<1> DEFINE w == [v EXCEPT ![p] = "KEEP"]
<1>1. p \in Levels /\ p \in Pools /\ p \in Int /\ p # None /\ None > p /\ None \in Int
  BY ChainFacts DEF Levels
<1>2. Sound(s, v, f)
  BY DEF Good
<1>3. /\ \A q \in Levels : q < p => v[q] = "ESCALATE"
      /\ f = None
  BY <1>1, <1>2, JoinedFacts
<1>4. w[p] = "KEEP" /\ \A q \in Pools : q # p => w[q] = v[q]
  BY <1>1
<1> HIDE DEF w
<1>5. \A q \in Levels : q \in Pools /\ q \in Int /\ q <= p
  BY ChainFacts DEF Levels
<1>6. VerdictsClimb(s, w, p)
  <2>1. \A q \in Levels : w[q] # "none" => AllIn(s, q, {"joined"})
    BY <1>2, <1>4, <1>5 DEF Sound, VerdictsClimb
  <2>2. \A q, r \in Levels : q < r /\ w[r] # "none" => w[q] = "ESCALATE"
    <3> TAKE q, r \in Levels
    <3> HAVE q < r /\ w[r] # "none"
    <3>1. q < p /\ q # p
      BY <1>1, <1>5
    <3> QED
      BY <3>1, <1>3, <1>4, <1>5
  <2> QED
    BY <2>1, <2>2, <1>1, <1>4 DEF VerdictsClimb
<1>7. ASSUME NEW e \in Edges
      PROVE  EdgeIsSound(s, w, p, e) /\ PlanIsRemembered(s, w, p, e)
  <2>1. e \in Levels /\ e - 1 \in Levels /\ e - 1 # p /\ e <= p /\ e \in Int
    BY <1>1, <1>5, ChainFacts
  <2>2. EdgeIsSound(s, v, None, e)
    BY <1>2, <1>3 DEF Sound
  <2>3. w[e - 1] = v[e - 1]
    BY <2>1, <1>4, <1>5
  <2>4. Begun(s, p)
    BY <1>1, BegunFacts
  <2>5. ~ Unbegun(s, e)
    BY <2>1, <2>4, <1>1, <1>2, BegunAbove DEF Sound
  <2>6. ~ s.edge[e].held /\ ~ s.edge[e].rescue
    BY <2>2, <2>5 DEF EdgeIsSound, HeldIsUnbegun, RescueIsFirst
  <2>7. EndsBelow(s, p, e)
    <3>1. NoneIn(s, e, {"abandoned"})
      <4>1. ~ (None < e)
        BY <2>1, <1>1
      <4> QED
        BY <4>1, <2>2 DEF EdgeIsSound, EndsBelow
    <3> QED
      BY <3>1, <2>1, <1>1 DEF EndsBelow
  <2>8. IsAsked(s, w, e) /\ HasDestination(s, e) /\ OwesWhatIsDue(s, e)
    BY <2>2, <2>3 DEF EdgeIsSound, IsAsked
  <2>9. SourceIsOpen(s, w, p, e) /\ RescueIsFirst(s, w, p, e) /\ HeldIsUnbegun(s, p, e)
        /\ EarlyIsWhole(s, w, p, e) /\ PlanIsRemembered(s, w, p, e)
    BY <2>5, <2>6, <1>1
       DEF SourceIsOpen, RescueIsFirst, HeldIsUnbegun, EarlyIsWhole, PlanIsRemembered
  <2> QED
    BY <2>7, <2>8, <2>9 DEF EdgeIsSound
<1> QED
  BY <1>2, <1>6, <1>7 DEF Good, Sound, w

\* A joined source forms its verdict, its edge's rescue disarmed.
LEMMA FormingKeeps ==
    ASSUME config \in Settings, NEW s, NEW v \in [Pools -> {"none", "forming", "KEEP", "ESCALATE"}],
           NEW f, Good(s, v, f), NEW p \in Levels, p # config.depth,
           AllIn(s, p, {"joined"}), v[p] = "none",
           NEW d, d = [s.edge[p + 1] EXCEPT !.rescue = FALSE]
    PROVE  Good(WithEdge(s, p + 1, d), [v EXCEPT ![p] = "forming"], f)
<1> DEFINE w == [v EXCEPT ![p] = "forming"]  h == p + 1  t == WithEdge(s, h, d)
<1>1. h \in Edges /\ h - 1 = p /\ p \in Pools /\ p \in Int /\ h \in Targets
  <2>1. p \in Int /\ p >= 0 /\ p \in Pools /\ config.depth \in Nat
    BY ChainFacts
  <2>2. h \in Edges /\ h - 1 = p
    BY <2>1 DEF Levels, Edges
  <2>3. h \in Targets
    BY <2>2, ChainFacts
  <2> QED
    BY <2>1, <2>2, <2>3
<1>2. Sound(s, v, f) /\ s.edge[h] \in Redecodes
  BY <1>1 DEF Good, Sound, Typed
<1>3. /\ \A q \in Levels : q < p => v[q] = "ESCALATE"
      /\ \A q \in Levels : q > p => v[q] = "none"
      /\ f = None
  BY <1>1, <1>2, JoinedFacts
<1>4. w[p] = "forming" /\ \A q \in Pools : q # p => w[q] = v[q]
  BY <1>1
<1>5. IsQuiet(s.edge[h], d) /\ d.rescue = FALSE /\ d.planned = s.edge[h].planned
  BY <1>2 DEF IsQuiet, Redecodes
<1> HIDE DEF w, h, t
<1>6. KeepsOthers(s, t, v, f, h) /\ OnlyEdgeIs(s, t, h, d)
  BY <1>1, <1>2, <1>5, QuietChangeKeeps DEF t
<1>7. Sound(t, v, f) /\ t.solves = s.solves /\ t.record = s.record /\ t.edge[h] = d
  BY <1>6 DEF KeepsOthers, OnlyEdgeIs
<1>8. \A q \in Levels : q \in Pools /\ q \in Int
  BY ChainFacts
<1>9. VerdictsClimb(t, w, f)
  <2>1. AllIn(t, p, {"joined"})
    BY <1>7 DEF AllIn
  <2>2. \A q \in Levels : w[q] # "none" => AllIn(t, q, {"joined"})
    BY <2>1, <1>4, <1>7, <1>8 DEF Sound, VerdictsClimb
  <2>3. \A q, r \in Levels : q < r /\ w[r] # "none" => w[q] = "ESCALATE"
    <3> TAKE q, r \in Levels
    <3> HAVE q < r /\ w[r] # "none"
    <3>1. CASE r = p
      BY <3>1, <1>3, <1>4, <1>8
    <3>2. CASE r # p
      <4>1. v[r] # "none"
        BY <3>2, <1>4, <1>8
      <4>2. v[q] = "ESCALATE"
        BY <4>1, <1>2 DEF Sound, VerdictsClimb
      <4>3. q # p
        BY <4>2
      <4> QED
        BY <4>2, <4>3, <1>4, <1>8
    <3> QED
      BY <3>1, <3>2
  <2>4. w[config.depth] = v[config.depth]
    BY <1>4, ChainFacts DEF Pools, Levels
  <2> QED
    BY <2>2, <2>3, <2>4, <1>2, <1>3 DEF Sound, VerdictsClimb
<1>10. ASSUME NEW e \in Edges
       PROVE  EdgeIsSound(t, w, f, e) /\ PlanIsRemembered(t, w, f, e)
  <2>1. EdgeIsSound(t, v, f, e)
    BY <1>7 DEF Sound
  <2>2. e - 1 \in Pools /\ e \in Int
    BY ChainFacts
  <2>3. CASE e # h
    <3>1. e - 1 # p
      BY <2>2, <2>3, <1>1 DEF h
    <3>2. w[e - 1] = v[e - 1]
      BY <3>1, <2>2, <1>4
    <3>3. EdgeIsSound(t, w, f, e)
      BY <2>1, <3>2, EdgeKeeps
    <3>4. PlanIsRemembered(t, v, f, e)
      BY <2>3, <1>6 DEF KeepsOthers, Good
    <3> QED
      BY <3>2, <3>3, <3>4 DEF PlanIsRemembered, Undecided
  <2>4. CASE e = h
    <3>1. v[h - 1] = "none" /\ w[h - 1] = "forming"
      BY <1>1, <1>4
    <3>2. Undecided(v, h - 1) /\ Undecided(w, h - 1)
      BY <3>1 DEF Undecided
    <3>3. EdgeIsSound(t, v, f, h)
      BY <2>1, <2>4
    <3>4. RescueIsFirst(t, w, f, h)
      BY <1>5, <1>7 DEF RescueIsFirst
    <3>5. EdgeIsSound(t, w, f, h)
      BY <3>1, <3>2, <3>3, <3>4
         DEF EdgeIsSound, IsAsked, EndsBelow, SourceIsOpen, HasDestination,
             HeldIsUnbegun, EarlyIsWhole, OwesWhatIsDue
    <3>6. PlanIsRemembered(s, v, f, h)
      BY <1>1 DEF Good
    <3>7. PlanIsRemembered(t, w, f, h)
      BY <3>2, <3>6, <1>5, <1>7 DEF PlanIsRemembered, IsQuiet, Begun
    <3> QED
      BY <2>4, <3>5, <3>7
  <2> QED
    BY <2>3, <2>4
<1> QED
  BY <1>7, <1>9, <1>10 DEF Good, Sound, w, h, t

\* A joined attempt meets its verdict: its solves are all joined, so the edge
\* above was asked and the one below has nothing armed left to do.
LEMMA AcceptRevisionKeeps ==
    ASSUME IInv, NEW p \in Levels, AcceptRevision(p)
    PROVE  IInv'
<1>1. config \in Settings /\ Good(Side, verdict, final) /\ p \in Pools
      /\ verdict \in [Pools -> {"none", "forming", "KEEP", "ESCALATE"}]
      /\ verdict[p] = "none" /\ In(p, {"joined"}) = SolvesOf(p)
      /\ UNCHANGED <<config, blocked, deferred, solves, record>>
  BY ChainFacts DEF IInv, AcceptRevision
<1>2. AllIn(Side, p, {"joined"})
  BY <1>1 DEF AllIn, In, Side
<1>3. ~ blocked
  <2> SUFFICES ASSUME blocked PROVE FALSE
    OBVIOUS
  <2>1. 1 \in SolvesOf(p) /\ (p # 0 => p \in Edges)
    BY <1>1, SolvesAre, ChainFacts
  <2>2. CASE p = 0
    BY <2>1, <2>2, <1>2, BlockedFacts DEF AllIn
  <2>3. CASE p # 0
    BY <2>1, <2>3, <1>2, BlockedFacts DEF AllIn, Unbegun
  <2> QED
    BY <2>2, <2>3
<1>4. UNCHANGED <<config, blocked, deferred>>
  BY <1>1
<1>5. CASE p = config.depth
  <2>1. verdict' = [verdict EXCEPT ![p] = "KEEP"] /\ final' = p /\ edge' = edge
    BY <1>5 DEF AcceptRevision
  <2>2. Good(Side, verdict', final')
    BY <2>1, <1>1, <1>2, <1>5, LastAnswerKeeps
  <2>3. IsSideNext(Side)
    BY <2>1, <1>1 DEF IsSideNext, Side
  <2>4. Environment'
    <3>1. verdict' \in [Pools -> {"none", "forming", "KEEP", "ESCALATE"}]
      BY <2>1, <1>1
    <3> QED
      BY <3>1, <2>1, <1>1 DEF Environment, IInv
  <2> QED
    BY <2>2, <2>3, <2>4, <1>3, <1>4, FreeStep
<1>6. CASE p # config.depth
  <2>1. /\ verdict' = [verdict EXCEPT ![p] = "forming"] /\ final' = final
        /\ edge' = [edge EXCEPT ![p + 1].rescue = FALSE]
    BY <1>6 DEF AcceptRevision
  <2> DEFINE d == [edge[p + 1] EXCEPT !.rescue = FALSE]
             t == WithEdge(Side, p + 1, d)
  <2>2. Side.edge = edge /\ Side.record = record /\ Side.solves = solves
    BY DEF Side
  <2>3. edge' = [edge EXCEPT ![p + 1] = d]
    BY <2>1
  <2>4. Good(t, verdict', final')
    BY <2>1, <2>2, <1>1, <1>2, <1>6, FormingKeeps
  <2>5. IsSideNext(t)
    BY <2>2, <2>3, <1>1 DEF IsSideNext, WithEdge
  <2>6. Environment'
    <3>1. verdict' \in [Pools -> {"none", "forming", "KEEP", "ESCALATE"}]
      BY <2>1, <1>1
    <3> QED
      BY <3>1, <2>1, <1>1 DEF Environment, IInv
  <2> HIDE DEF t
  <2> QED
    BY <2>4, <2>5, <2>6, <1>3, <1>4, FreeStep
<1> QED
  BY <1>5, <1>6

\* What ending a solve makes of it.
LEMMA EndedSolveFacts ==
    ASSUME NEW where \in SolveStates, NEW cancels \in BOOLEAN
    PROVE  /\ EndedSolve(where, cancels) \in SolveStates
           /\ EndedSolve(where, cancels) \notin Owed
           /\ EndedSolve(where, cancels) = "none" <=> where = "none"
           /\ EndedSolve(where, cancels) = "joined" <=> where = "joined"
  BY DEF EndedSolve, SolveStates, Owed

\* What a keep of pool p leaves: the edges above alone, and below nothing
\* that would still reach a destination.
EndsWorkBelow(s, t, p, cancels) ==
    /\ Typed(t)
    /\ \A q \in Pools : q <= p => t.solves[q] = s.solves[q]
    /\ \A q \in Pools : q > p =>
          \A k \in SolvesOf(q) : t.solves[q][k] = EndedSolve(s.solves[q][k], cancels)
    /\ \A q \in Targets : q <= p => t.record[q] = s.record[q] /\ t.edge[q] = s.edge[q]
    /\ \A q \in Targets : q > p =>
          /\ t.record[q].phase = s.record[q].phase
          /\ t.record[q].companions \in {s.record[q].companions, 0}
          /\ t.edge[q].held = FALSE /\ t.edge[q].rescue = FALSE
          /\ t.edge[q].selection = s.edge[q].selection

\* A keep of pool p ends the work below it as the definition above says.
LEMMA EndBelowFacts ==
    ASSUME config \in Settings, Typed(Side), NEW p \in Levels, NEW cancels \in BOOLEAN,
           EndBelow(p + 1, cancels),
           NEW t, t = [solves |-> solves', record |-> record', edge |-> edge']
    PROVE  EndsWorkBelow(Side, t, p, cancels)
<1>1. Side.record = record /\ Side.edge = edge /\ Side.solves = solves
  BY DEF Side
<1>2. t.solves = solves' /\ t.record = record' /\ t.edge = edge'
      /\ t = [solves |-> t.solves, record |-> t.record, edge |-> t.edge]
  OBVIOUS
<1>3. /\ \A q \in Targets : record[q] \in Records /\ edge[q] \in Redecodes /\ q \in Int
      /\ \A q \in Pools : solves[q] \in [SolvesOf(q) -> SolveStates] /\ q \in Int
      /\ p \in Int
  BY <1>1, ChainFacts DEF Typed, Targets, Pools
<1>4. solves' = [q \in Pools |-> IF q < p + 1 THEN solves[q]
          ELSE [k \in SolvesOf(q) |-> EndedSolve(solves[q][k], cancels)]]
  BY DEF EndBelow
<1> DEFINE EndedEdge(q) ==
               [edge[q] EXCEPT !.held = FALSE, !.planned = FALSE, !.rescue = FALSE]
           EndedRecord(q) ==
               [record[q] EXCEPT
                   !.companions = IF cancels THEN 0 ELSE record[q].companions,
                   !.open = IF q = p + 1 THEN {}
                            ELSE record[q].open \ ClosedBy(q - 1, cancels)]
<1>5. edge' = [q \in Targets |-> IF q < p + 1 THEN edge[q] ELSE EndedEdge(q)]
  BY DEF EndBelow
<1>6. record' = [q \in Targets |-> IF q < p + 1 THEN record[q] ELSE EndedRecord(q)]
  BY DEF EndBelow
<1> HIDE DEF EndedEdge, EndedRecord
<1>7. /\ solves' = [q \in Pools |-> solves'[q]]
      /\ \A q \in Pools : q <= p => solves'[q] = solves[q]
      /\ \A q \in Pools : q > p =>
            solves'[q] = [k \in SolvesOf(q) |-> EndedSolve(solves[q][k], cancels)]
  BY <1>3, <1>4
<1>8. \A q \in Pools : solves'[q] \in [SolvesOf(q) -> SolveStates]
  <2> TAKE q \in Pools
  <2>1. CASE q <= p
    BY <2>1, <1>3, <1>7
  <2>2. CASE q > p
    <3>1. \A k \in SolvesOf(q) : EndedSolve(solves[q][k], cancels) \in SolveStates
      BY <1>3, EndedSolveFacts
    <3> QED
      BY <2>2, <3>1, <1>7
  <2> QED
    BY <2>1, <2>2, <1>3
<1>9. ASSUME NEW q \in Targets, q > p
      PROVE  /\ EndedEdge(q) \in Redecodes
             /\ EndedEdge(q).held = FALSE /\ EndedEdge(q).rescue = FALSE
             /\ EndedEdge(q).selection = edge[q].selection
  <2>1. EndedEdge(q) \in [planned : {FALSE}, held : {FALSE}, serial : {edge[q].serial},
                           rescue : {FALSE}, selection : {edge[q].selection}]
    BY <1>3 DEF Redecodes, EndedEdge
  <2>2. edge[q].serial \in BOOLEAN /\ edge[q].selection \in {"none", "flying", "landed"}
    BY <1>3 DEF Redecodes
  <2>3. EndedEdge(q) \in Redecodes
    BY <2>1, <2>2 DEF Redecodes
  <2> QED
    BY <2>1, <2>3
<1>10. ASSUME NEW q \in Targets, q > p
       PROVE  /\ EndedRecord(q) \in Records
              /\ EndedRecord(q).phase = record[q].phase
              /\ EndedRecord(q).companions \in {record[q].companions, 0}
  <2> DEFINE c == IF cancels THEN 0 ELSE record[q].companions
             o == IF q = p + 1 THEN {} ELSE record[q].open \ ClosedBy(q - 1, cancels)
  <2>1. EndedRecord(q) = [record[q] EXCEPT !.companions = c, !.open = o]
    BY DEF EndedRecord
  <2>2. c \in {record[q].companions, 0} /\ c \in 0..1 /\ o \in SUBSET {1, 2}
    BY <1>3 DEF Records
  <2> HIDE DEF c, o
  <2>3. EndedRecord(q) \in [phase : {record[q].phase}, owed : {record[q].owed},
                             companions : {c}, open : {o}]
    BY <2>1, <1>3 DEF Records
  <2>4. record[q].phase \in Phases /\ record[q].owed \in 0..2
    BY <1>3 DEF Records
  <2>5. EndedRecord(q) \in Records
    BY <2>2, <2>3, <2>4 DEF Records
  <2> QED
    BY <2>2, <2>3, <2>5
<1>14. \A q \in Targets : /\ q <= p => edge'[q] = edge[q] /\ record'[q] = record[q]
                          /\ q > p => edge'[q] = EndedEdge(q) /\ record'[q] = EndedRecord(q)
  BY <1>3, <1>5, <1>6
<1>11. record' \in [Targets -> Records] /\ edge' \in [Targets -> Redecodes]
  <2>1. record' = [q \in Targets |-> record'[q]] /\ edge' = [q \in Targets |-> edge'[q]]
    BY <1>5, <1>6
  <2>2. \A q \in Targets : record'[q] \in Records /\ edge'[q] \in Redecodes
    <3> TAKE q \in Targets
    <3>1. CASE q <= p
      BY <3>1, <1>3, <1>14
    <3>2. CASE q > p
      BY <3>2, <1>9, <1>10, <1>14
    <3> QED
      BY <3>1, <3>2, <1>3
  <2> QED
    BY <2>1, <2>2
<1>12. Typed(t)
  BY <1>2, <1>7, <1>8, <1>11 DEF Typed
<1>13. \A q \in Pools : q > p =>
          \A k \in SolvesOf(q) : t.solves[q][k] = EndedSolve(Side.solves[q][k], cancels)
  BY <1>1, <1>2, <1>7
<1>15. \A q \in Targets : q > p =>
           /\ t.record[q].phase = Side.record[q].phase
           /\ t.record[q].companions \in {Side.record[q].companions, 0}
           /\ t.edge[q].held = FALSE /\ t.edge[q].rescue = FALSE
           /\ t.edge[q].selection = Side.edge[q].selection
  BY <1>1, <1>2, <1>9, <1>10, <1>14
<1>16. \A q \in Targets : q <= p => t.record[q] = Side.record[q] /\ t.edge[q] = Side.edge[q]
  BY <1>1, <1>2, <1>14
<1>17. \A q \in Pools : q <= p => t.solves[q] = Side.solves[q]
  BY <1>1, <1>2, <1>7
<1> QED
  BY <1>12, <1>13, <1>15, <1>16, <1>17 DEF EndsWorkBelow

\* A keep of pool p is the answer: what is below ends, and above it all
\* escalated.
LEMMA KeepKeeps ==
    ASSUME IInv, NEW p \in Levels, Keep(p)
    PROVE  IInv'
<1> DEFINE t == [solves |-> solves', record |-> record', edge |-> edge']
<1>1. config \in Settings /\ Good(Side, verdict, final) /\ p \in Pools /\ p \in Int
      /\ verdict \in [Pools -> {"none", "forming", "KEEP", "ESCALATE"}]
      /\ verdict[p] = "forming" /\ verdict' = [verdict EXCEPT ![p] = "KEEP"] /\ final' = p
      /\ UNCHANGED <<config, blocked, deferred>>
  BY ChainFacts DEF IInv, Keep
<1>2. Sound(Side, verdict, final) /\ Typed(Side)
  BY <1>1 DEF Good, Sound
<1>3. PICK cancels \in BOOLEAN : EndBelow(p + 1, cancels)
  BY DEF Keep
<1>4. /\ final = None /\ p # config.depth /\ p + 1 \in Edges
      /\ \A q \in Levels : q > p => verdict[q] = "none"
      /\ \A q \in Levels : q < p => verdict[q] = "ESCALATE"
      /\ AllIn(Side, p, {"joined"})
  BY <1>1, <1>2, FormingFacts DEF Sound
<1>5. ~ blocked
  BY <1>1, BlockedFacts
<1>6. IsSideNext(t)
  BY DEF IsSideNext
<1>7. /\ Typed(t)
      /\ \A q \in Pools : q <= p => t.solves[q] = Side.solves[q]
      /\ \A q \in Pools : q > p =>
            \A k \in SolvesOf(q) : t.solves[q][k] = EndedSolve(Side.solves[q][k], cancels)
      /\ \A q \in Targets : q <= p => /\ t.record[q] = Side.record[q]
                                      /\ t.edge[q] = Side.edge[q]
      /\ \A q \in Targets : q > p =>
            /\ t.record[q].phase = Side.record[q].phase
            /\ t.record[q].companions \in {Side.record[q].companions, 0}
            /\ t.edge[q].held = FALSE /\ t.edge[q].rescue = FALSE
            /\ t.edge[q].selection = Side.edge[q].selection
  <2>1. EndsWorkBelow(Side, t, p, cancels)
    BY <1>1, <1>2, <1>3, EndBelowFacts
  <2> QED
    BY <2>1 DEF EndsWorkBelow
<1> HIDE DEF t
<1>8. \A q \in Levels : q \in Pools /\ q \in Int
  BY <1>1, ChainFacts
<1>9. ASSUME NEW q \in Levels, q > p
      PROVE  /\ Begun(t, q) <=> Begun(Side, q)
             /\ Unbegun(t, q) <=> Unbegun(Side, q)
             /\ NoneIn(t, q, Owed)
             /\ NoneIn(Side, q, {"joined"}) => NoneIn(t, q, {"joined"})
  <2>1. \A k \in SolvesOf(q) :
           /\ t.solves[q][k] \notin Owed
           /\ t.solves[q][k] = "none" <=> Side.solves[q][k] = "none"
           /\ t.solves[q][k] = "joined" <=> Side.solves[q][k] = "joined"
    <3> TAKE k \in SolvesOf(q)
    <3>1. Side.solves[q][k] \in SolveStates
      BY <1>2, <1>8 DEF Typed
    <3>2. t.solves[q][k] = EndedSolve(Side.solves[q][k], cancels)
      BY <1>7, <1>8, <1>9
    <3> QED
      BY <3>1, <3>2, EndedSolveFacts
  <2> QED
    BY <2>1 DEF Begun, Unbegun, NoneIn
<1>10. \A q \in Levels : SameStart(Side, t, q)
  <2> TAKE q \in Levels
  <2>1. CASE q <= p
    BY <2>1, <1>7, <1>8 DEF SameStart, Begun, Unbegun
  <2>2. CASE q > p
    BY <2>2, <1>9 DEF SameStart
  <2> QED
    BY <2>1, <2>2, <1>1, <1>8
<1>11. AdmittedInOrder(t)
  BY <1>2, <1>10 DEF Sound, AdmittedInOrder, SameStart
<1> DEFINE w == [verdict EXCEPT ![p] = "KEEP"]
<1>12. w[p] = "KEEP" /\ \A q \in Pools : q # p => w[q] = verdict[q]
  BY <1>1
<1> HIDE DEF w
<1>13. VerdictsClimb(t, w, p)
  <2>1. ASSUME NEW q \in Levels, w[q] # "none"
        PROVE  AllIn(t, q, {"joined"}) /\ q <= p
    <3>1. q <= p
      BY <2>1, <1>1, <1>4, <1>8, <1>12
    <3>2. AllIn(Side, q, {"joined"})
      BY <2>1, <1>2, <1>4, <1>8, <1>12 DEF Sound, VerdictsClimb
    <3> QED
      BY <3>1, <3>2, <1>7, <1>8 DEF AllIn
  <2>2. ASSUME NEW q \in Levels, NEW r \in Levels, q < r, w[r] # "none"
        PROVE  w[q] = "ESCALATE"
    <3>1. q < p /\ q # p
      BY <2>1, <2>2, <1>1, <1>8
    <3> QED
      BY <3>1, <1>4, <1>8, <1>12
  <2>3. w[config.depth] = verdict[config.depth]
    BY <1>1, <1>4, <1>12, ChainFacts DEF Pools, Levels
  <2> QED
    BY <2>1, <2>2, <2>3, <1>2, <1>12 DEF Sound, VerdictsClimb
<1>14. ASSUME NEW e \in Edges
       PROVE  EdgeIsSound(t, w, p, e) /\ PlanIsRemembered(t, w, p, e)
  <2>1. e \in Levels /\ e - 1 \in Levels /\ e \in Targets /\ e \in Int /\ e \in Pools
        /\ e - 1 \in Pools /\ p # None /\ None > e /\ None \in Int
    BY <1>1, ChainFacts
  <2>2. EdgeIsSound(Side, verdict, None, e)
    BY <1>2, <1>4 DEF Sound
  <2>3. CASE e <= p
    <3>1. w[e - 1] = verdict[e - 1]
      BY <2>1, <2>3, <1>1, <1>12
    <3>2. /\ t.record[e] = Side.record[e] /\ t.edge[e] = Side.edge[e]
          /\ t.solves[e] = Side.solves[e] /\ t.solves[e - 1] = Side.solves[e - 1]
      BY <2>1, <2>3, <1>1, <1>7
    <3>3. EdgeIsSound(t, w, None, e)
      BY <2>2, <3>1, <3>2, EdgeKeeps
    <3>4. ~ Unbegun(t, e)
      <4>1. Begun(Side, p)
        BY <1>1, <1>4, BegunFacts
      <4>2. ~ Unbegun(Side, e)
        BY <4>1, <2>1, <2>3, <1>1, <1>2, BegunAbove DEF Sound
      <4> QED
        BY <4>2, <2>1, <1>10 DEF SameStart
    <3>5. ~ t.edge[e].held /\ ~ t.edge[e].rescue
      BY <3>3, <3>4 DEF EdgeIsSound, HeldIsUnbegun, RescueIsFirst
    <3>6. EndsBelow(t, p, e)
      <4>1. ~ (None < e) /\ ~ (p < e)
        BY <2>1, <2>3, <1>1
      <4> QED
        BY <4>1, <3>3 DEF EdgeIsSound, EndsBelow
    <3>7. IsAsked(t, w, e) /\ HasDestination(t, e) /\ OwesWhatIsDue(t, e)
      BY <3>3 DEF EdgeIsSound
    <3>8. SourceIsOpen(t, w, p, e) /\ RescueIsFirst(t, w, p, e) /\ HeldIsUnbegun(t, p, e)
          /\ EarlyIsWhole(t, w, p, e) /\ PlanIsRemembered(t, w, p, e)
      BY <3>4, <3>5, <2>1
         DEF SourceIsOpen, RescueIsFirst, HeldIsUnbegun, EarlyIsWhole, PlanIsRemembered
    <3> QED
      BY <3>6, <3>7, <3>8 DEF EdgeIsSound
  <2>4. CASE e > p
    <3>1. w[e - 1] # "ESCALATE" /\ verdict[e - 1] # "ESCALATE"
      <4>1. CASE e - 1 = p
        BY <4>1, <1>1, <1>12
      <4>2. CASE e - 1 # p
        <5>1. e - 1 > p
          BY <4>2, <2>1, <2>4, <1>1
        <5>2. verdict[e - 1] = "none"
          BY <5>1, <2>1, <1>4
        <5> QED
          BY <4>2, <5>2, <2>1, <1>12
      <4> QED
        BY <4>1, <4>2
    <3>2. Side.record[e].phase = "NONE" /\ Side.edge[e].selection = "none"
          /\ NoneIn(Side, e, {"joined"})
      BY <3>1, <2>2 DEF EdgeIsSound, IsAsked
    <3>3. /\ t.record[e].phase = "NONE" /\ t.edge[e].selection = "none"
          /\ t.record[e].companions \in {Side.record[e].companions, 0}
          /\ t.edge[e].held = FALSE /\ t.edge[e].rescue = FALSE
      BY <3>2, <2>1, <2>4, <1>7
    <3>4. NoneIn(t, e, Owed) /\ NoneIn(t, e, {"joined"})
          /\ (Unbegun(t, e) <=> Unbegun(Side, e))
      BY <3>2, <2>1, <2>4, <1>9
    <3>5. Unbegun(t, e) => t.record[e].companions = 0
      BY <3>3, <3>4, <2>2 DEF EdgeIsSound, EarlyIsWhole
    <3>6. IsAsked(t, w, e) /\ EndsBelow(t, p, e) /\ HasDestination(t, e)
          /\ OwesWhatIsDue(t, e)
      BY <3>3, <3>4, <2>4 DEF IsAsked, EndsBelow, HasDestination, OwesWhatIsDue
    <3>7. SourceIsOpen(t, w, p, e) /\ RescueIsFirst(t, w, p, e) /\ HeldIsUnbegun(t, p, e)
          /\ EarlyIsWhole(t, w, p, e) /\ PlanIsRemembered(t, w, p, e)
      BY <3>3, <3>5, <2>1
         DEF SourceIsOpen, RescueIsFirst, HeldIsUnbegun, EarlyIsWhole, PlanIsRemembered
    <3> QED
      BY <3>6, <3>7 DEF EdgeIsSound
  <2> QED
    BY <2>1, <2>3, <2>4, <1>1
<1>15. Good(t, w, p)
  BY <1>7, <1>11, <1>13, <1>14 DEF Good, Sound
<1>16. Good(t, verdict', final')
  BY <1>1, <1>15 DEF w
<1>17. Environment'
  <2>1. verdict' \in [Pools -> {"none", "forming", "KEEP", "ESCALATE"}]
    BY <1>1
  <2> QED
    BY <2>1, <1>1 DEF Environment, IInv
<1>18. UNCHANGED <<config, blocked, deferred>>
  BY <1>1
<1> QED
  BY <1>5, <1>6, <1>16, <1>17, <1>18, FreeStep

\* What selecting a decode sets.
Selects(s, t, e) ==
    /\ Typed(t) /\ t.solves = s.solves
    /\ \A q \in Targets : q # e => t.record[q] = s.record[q] /\ t.edge[q] = s.edge[q]
    /\ t.record[e].phase = "WAITING_SELECTION"
    /\ t.record[e].owed = 1 + s.record[e].companions
    /\ t.record[e].companions = s.record[e].companions
    /\ t.edge[e].held = s.edge[e].held /\ t.edge[e].rescue = s.edge[e].rescue
    /\ t.edge[e].planned = s.edge[e].planned

\* The destination of edge e asks, and nothing else changes.
LEMMA BeginSelectionFacts ==
    ASSUME NEW s, Typed(s), NEW e \in Targets
    PROVE  Selects(s, BeginSelection(s, e), e)
<1> DEFINE t == BeginSelection(s, e)
           c == 1 + s.record[e].companions
           r == [s.record EXCEPT ![e].phase = "WAITING_SELECTION", ![e].owed = c, ![e].open = {}]
           d == [s.edge EXCEPT ![e].selection = "flying"]
<1>1. /\ s = [solves |-> s.solves, record |-> s.record, edge |-> s.edge]
      /\ s.record \in [Targets -> Records] /\ s.edge \in [Targets -> Redecodes]
      /\ s.solves = [p \in Pools |-> s.solves[p]]
      /\ \A p \in Pools : s.solves[p] \in [SolvesOf(p) -> SolveStates]
  BY DEF Typed
<1>2. t \in [solves : {s.solves}, record : {r}, edge : {d}]
  BY <1>1 DEF BeginSelection
<1>3. s.record[e] \in Records /\ c \in 0..2
  BY <1>1 DEF Records
<1>4. /\ r = [q \in Targets |-> r[q]]
      /\ \A q \in Targets : q # e => r[q] = s.record[q]
      /\ r[e].phase = "WAITING_SELECTION" /\ r[e].owed = c
      /\ r[e].companions = s.record[e].companions
  <2> HIDE DEF c
  <2>1. \A q \in Targets : q # e => r[q] = s.record[q]
    BY <1>1
  <2>2. r[e].phase = "WAITING_SELECTION" /\ r[e].owed = c
        /\ r[e].companions = s.record[e].companions
    BY <1>1 DEF Records
  <2>3. r = [q \in Targets |-> r[q]]
    BY <1>1
  <2> QED
    BY <2>1, <2>2, <2>3
<1>5. r[e] \in [phase : {"WAITING_SELECTION"}, owed : {c},
                companions : {s.record[e].companions}, open : {{}}]
  BY <1>1 DEF Records
<1>6. /\ d \in [Targets -> Redecodes]
      /\ \A q \in Targets : q # e => d[q] = s.edge[q]
      /\ d[e].held = s.edge[e].held /\ d[e].rescue = s.edge[e].rescue
      /\ d[e].planned = s.edge[e].planned
  BY <1>1 DEF Redecodes
<1> HIDE DEF r, d, t
<1>7. r[e] \in Records
  <2> HIDE DEF c
  <2>1. s.record[e].companions \in 0..1
    BY <1>3 DEF Records
  <2> QED
    BY <2>1, <1>3, <1>5 DEF Records, Phases
<1>8. r \in [Targets -> Records]
  BY <1>1, <1>4, <1>7
<1>9. t.solves = s.solves /\ t.record = r /\ t.edge = d
      /\ t = [solves |-> t.solves, record |-> t.record, edge |-> t.edge]
  BY <1>2
<1>10. Typed(t)
  BY <1>1, <1>6, <1>8, <1>9 DEF Typed
<1> QED
  BY <1>4, <1>6, <1>9, <1>10 DEF Selects, t, c

\* Selecting a decode that has begun or is held keeps the side good.
LEMMA SelectKeeps ==
    ASSUME config \in Settings, NEW s, NEW v \in [Pools -> {"none", "forming", "KEEP", "ESCALATE"}],
           NEW p \in Levels, v[p] = "forming", GoodBut(s, v, None, p + 1),
           Begun(s, p + 1) \/ s.edge[p + 1].held,
           NEW t, t = BeginSelection(s, p + 1)
    PROVE  Good(t, [v EXCEPT ![p] = "ESCALATE"], None)
<1> DEFINE w == [v EXCEPT ![p] = "ESCALATE"]  h == p + 1
<1>1. Sound(s, v, None) /\ p \in Pools /\ p \in Int
  BY ChainFacts DEF GoodBut
<1>2. /\ p # config.depth /\ h \in Edges /\ h - 1 = p
      /\ \A q \in Levels : q > p => v[q] = "none"
      /\ \A q \in Levels : q < p => v[q] = "ESCALATE"
      /\ AllIn(s, p, {"joined"})
  BY <1>1, FormingFacts DEF Sound
<1>3. h \in Targets /\ h \in Levels /\ h \in Pools /\ h \in Int
  BY <1>2, ChainFacts
<1>4. w[p] = "ESCALATE" /\ \A q \in Pools : q # p => w[q] = v[q]
  BY <1>1
<1>5. Selects(s, t, h)
  BY <1>1, <1>3, BeginSelectionFacts DEF Sound
<1>6. \A q \in Levels : q \in Pools /\ q \in Int
  BY ChainFacts
<1>7. Begun(s, h) \/ s.edge[h].held
  OBVIOUS
<1> HIDE DEF w, h
<1>8. Typed(t) /\ t.solves = s.solves
  BY <1>5 DEF Selects
<1>9. AdmittedInOrder(t)
  BY <1>1, <1>8 DEF Sound, AdmittedInOrder, Begun, Unbegun
<1>10. VerdictsClimb(t, w, None)
  <2>1. \A q \in Levels : w[q] # "none" => AllIn(t, q, {"joined"})
    <3> TAKE q \in Levels
    <3>1. CASE q = p
      BY <3>1, <1>2, <1>8 DEF AllIn
    <3>2. CASE q # p
      BY <3>2, <1>1, <1>4, <1>6, <1>8 DEF Sound, VerdictsClimb, AllIn
    <3> QED
      BY <3>1, <3>2
  <2>2. ASSUME NEW q \in Levels, NEW r \in Levels, q < r, w[r] # "none"
        PROVE  w[q] = "ESCALATE"
    <3>1. r <= p
      BY <2>2, <1>1, <1>2, <1>4, <1>6
    <3>2. q < p /\ q # p
      BY <3>1, <2>2, <1>1, <1>6
    <3> QED
      BY <3>2, <1>2, <1>4, <1>6
  <2>3. w[config.depth] = v[config.depth]
    BY <1>2, <1>4, ChainFacts DEF Pools, Levels
  <2> QED
    BY <2>1, <2>2, <2>3, <1>1 DEF Sound, VerdictsClimb
<1>11. ASSUME NEW e \in Edges, e # h
       PROVE  EdgeIsSound(t, w, None, e) /\ PlanIsRemembered(t, w, None, e)
  <2>1. e - 1 \in Pools /\ e \in Int /\ e \in Targets
    BY ChainFacts
  <2>2. e - 1 # p
    BY <2>1, <1>11, <1>2, <1>3
  <2>3. w[e - 1] = v[e - 1]
    BY <2>1, <2>2, <1>4
  <2>4. /\ t.record[e] = s.record[e] /\ t.edge[e] = s.edge[e]
        /\ t.solves[e] = s.solves[e] /\ t.solves[e - 1] = s.solves[e - 1]
    BY <2>1, <1>5, <1>11 DEF Selects
  <2>5. EdgeIsSound(s, v, None, e) /\ PlanIsRemembered(s, v, None, e)
    BY <1>1, <1>11 DEF Sound, GoodBut, h
  <2>6. EdgeIsSound(t, w, None, e)
    BY <2>3, <2>4, <2>5, EdgeKeeps
  <2> QED
    BY <2>3, <2>4, <2>5, <2>6 DEF PlanIsRemembered, Undecided, Begun
<1>12. EdgeIsSound(t, w, None, h) /\ PlanIsRemembered(t, w, None, h)
  <2>1. v[h - 1] = "forming" /\ w[h - 1] = "ESCALATE" /\ Undecided(v, h - 1)
        /\ ~ Undecided(w, h - 1)
    BY <1>2, <1>4 DEF Undecided
  <2>2. EdgeIsSound(s, v, None, h)
    BY <1>1, <1>2 DEF Sound
  <2>3. /\ t.record[h].phase = "WAITING_SELECTION"
        /\ t.record[h].owed = 1 + s.record[h].companions
        /\ t.record[h].companions = s.record[h].companions
        /\ t.edge[h].held = s.edge[h].held /\ t.edge[h].rescue = s.edge[h].rescue
    BY <1>5 DEF Selects
  <2>4. s.edge[h].held \in BOOLEAN /\ config.solves[h] \in {1, 2}
    BY <1>1, <1>3, SolvesAre DEF Sound, Typed, Redecodes
  <2>5. ~ s.edge[h].rescue
    BY <2>1, <2>2 DEF EdgeIsSound, RescueIsFirst
  <2>6. /\ Unbegun(t, h) <=> Unbegun(s, h)
        /\ Begun(t, h) <=> Begun(s, h)
        /\ Begun(t, h - 1) <=> Begun(s, h - 1)
        /\ NoneIn(t, h, {"abandoned"}) <=> NoneIn(s, h, {"abandoned"})
        /\ NoneIn(t, h, Owed) <=> NoneIn(s, h, Owed)
        /\ Due(t, h) = Due(s, h)
    BY <1>8 DEF Unbegun, Begun, NoneIn, Due
  <2>7. t.record[h].owed = IF t.edge[h].held THEN 1 ELSE Due(t, h)
    <3>1. CASE s.edge[h].held
      <4>1. Unbegun(s, h)
        BY <3>1, <2>2 DEF EdgeIsSound, HeldIsUnbegun
      <4>2. s.record[h].companions = 0
        BY <4>1, <2>2 DEF EdgeIsSound, EarlyIsWhole
      <4>3. t.edge[h].held
        BY <3>1, <2>3
      <4>4. t.record[h].owed = 1
        BY <4>2, <2>3
      <4> QED
        BY <4>3, <4>4
    <3>2. CASE ~ s.edge[h].held
      <4>1. AllIn(s, h, Owed) /\ s.record[h].companions = config.solves[h] - 1
        BY <3>2, <1>7, <2>1, <2>2 DEF EdgeIsSound, EarlyIsWhole
      <4>2. Due(s, h) = config.solves[h]
        BY <4>1, <1>3, DueFacts
      <4> QED
        BY <3>2, <4>1, <4>2, <2>3, <2>4, <2>6
    <3> QED
      BY <3>1, <3>2
  <2>8. OwesWhatIsDue(t, h)
    BY <2>3, <2>7 DEF OwesWhatIsDue
  <2>9. IsAsked(t, w, h) /\ SourceIsOpen(t, w, None, h) /\ HasDestination(t, h)
        /\ RescueIsFirst(t, w, None, h) /\ PlanIsRemembered(t, w, None, h)
    BY <2>1, <2>3, <2>5
       DEF IsAsked, SourceIsOpen, HasDestination, RescueIsFirst, PlanIsRemembered
  <2>10. EndsBelow(t, None, h) /\ HeldIsUnbegun(t, None, h) /\ EarlyIsWhole(t, w, None, h)
    BY <2>1, <2>2, <2>3, <2>6 DEF EdgeIsSound, EndsBelow, HeldIsUnbegun, EarlyIsWhole
  <2> QED
    BY <2>8, <2>9, <2>10 DEF EdgeIsSound
<1>13. Good(t, w, None)
  BY <1>8, <1>9, <1>10, <1>11, <1>12 DEF Good, Sound
<1> QED
  BY <1>13 DEF w

\* An escalation selects the decode started early, or plans one and selects
\* that; what was early is whole, so owing it whole is owing what is due.
LEMMA EscalateKeeps ==
    ASSUME IInv, NEW p \in Levels, Escalate(p)
    PROVE  IInv'
<1> DEFINE e == p + 1
           serial == [Side EXCEPT !.edge[e].serial = TRUE]
           selected == [Side EXCEPT !.edge[e].planned = FALSE]
<1>1. config \in Settings /\ Good(Side, verdict, final) /\ p \in Pools /\ p \in Int
      /\ verdict \in [Pools -> {"none", "forming", "KEEP", "ESCALATE"}]
      /\ verdict[p] = "forming" /\ verdict' = [verdict EXCEPT ![p] = "ESCALATE"]
      /\ UNCHANGED <<config, blocked, deferred, final>>
  BY ChainFacts DEF IInv, Escalate
<1>2. PICK s \in IF edge[e].planned THEN {selected} ELSE Plan(serial, e) :
         Become(BeginSelection(s, e))
  BY DEF Escalate
<1>3. Sound(Side, verdict, final) /\ Typed(Side)
  BY <1>1 DEF Good, Sound
<1>4. final = None /\ p # config.depth /\ e \in Edges /\ e - 1 = p
      /\ AllIn(Side, p, {"joined"})
  BY <1>1, <1>3, FormingFacts DEF Sound
<1>5. e \in Targets /\ e \in Levels /\ e \in Pools
  BY <1>1, <1>4, ChainFacts
<1>6. Side.record = record /\ Side.edge = edge /\ Side.solves = solves
  BY DEF Side
<1>7. edge[e] \in Redecodes
  BY <1>3, <1>5, <1>6 DEF Typed
<1>8. /\ EdgeIsSound(Side, verdict, None, e) /\ PlanIsRemembered(Side, verdict, None, e)
      /\ Undecided(verdict, p) /\ Begun(Side, p) /\ verdict[p] # "ESCALATE"
  BY <1>1, <1>3, <1>4, BegunFacts DEF Good, Sound, Undecided
<1>9. ~ blocked
  BY <1>1, BlockedFacts
<1>10. GoodBut(s, verdict, None, e) /\ (Begun(s, e) \/ s.edge[e].held)
  <2>1. CASE edge[e].planned
    <3> DEFINE d == [edge[e] EXCEPT !.planned = FALSE]
    <3>1. s = [Side EXCEPT !.edge = [Side.edge EXCEPT ![e] = d]]
      BY <2>1, <1>2, <1>6
    <3>2. s = WithEdge(Side, e, d)
      BY <3>1, <1>3, SideChanged DEF WithEdge
    <3>3. IsQuiet(Side.edge[e], d) /\ d.held = edge[e].held
      BY <1>6, <1>7 DEF IsQuiet, Redecodes
    <3> HIDE DEF d
    <3>4. KeepsOthers(Side, s, verdict, None, e) /\ OnlyEdgeIs(Side, s, e, d)
      BY <3>2, <3>3, <1>1, <1>3, <1>4, QuietChangeKeeps
    <3>5. GoodBut(s, verdict, None, e)
      BY <3>4, <1>1, <1>4 DEF KeepsOthers, GoodBut, Good
    <3>6. Begun(Side, e) \/ edge[e].held
      BY <2>1, <1>4, <1>6, <1>8 DEF PlanIsRemembered
    <3> QED
      BY <3>3, <3>4, <3>5, <3>6 DEF OnlyEdgeIs, Begun
  <2>2. CASE ~ edge[e].planned
    <3> DEFINE d == [edge[e] EXCEPT !.serial = TRUE]
    <3>1. serial = [Side EXCEPT !.edge = [Side.edge EXCEPT ![e] = d]]
      BY <1>6
    <3>2. serial = WithEdge(Side, e, d)
      BY <3>1, <1>3, SideChanged DEF WithEdge
    <3>3. IsQuiet(Side.edge[e], d) /\ d.held = edge[e].held /\ d.rescue = edge[e].rescue
      BY <1>6, <1>7 DEF IsQuiet, Redecodes
    <3>4. s \in Plan(serial, e)
      BY <2>2, <1>2
    <3> HIDE DEF d, serial
    <3>5. KeepsOthers(Side, serial, verdict, None, e) /\ OnlyEdgeIs(Side, serial, e, d)
      BY <3>2, <3>3, <1>1, <1>3, <1>4, QuietChangeKeeps
    <3>6. GoodBut(serial, verdict, None, e)
      BY <3>5, <1>1, <1>4 DEF KeepsOthers, GoodBut, Good
    <3>7. ~ Begun(Side, e)
      BY <2>2, <1>4, <1>6, <1>8 DEF PlanIsRemembered
    <3>8. Unbegun(Side, e)
      BY <3>7, <1>3, <1>5 DEF Sound, AdmittedInOrder
    <3>9. ~ edge[e].rescue
      BY <1>1, <1>4, <1>6, <1>8 DEF EdgeIsSound, RescueIsFirst
    <3>10. record[e].phase = "NONE" /\ record[e].open # {}
      BY <1>1, <1>3, <1>4, <1>6, <1>8, SourceFacts
    <3>11. MayBegin(serial, e) /\ serial.record[e].phase = "NONE"
      BY <3>3, <3>5, <3>8, <3>9, <3>10, <1>4, <1>6, <1>8
         DEF OnlyEdgeIs, MayBegin, Begun, Unbegun
    <3> QED
      BY <3>4, <3>6, <3>11, <1>1, <1>4, PlanKeeps
  <2> QED
    BY <2>1, <2>2
<1> DEFINE t == BeginSelection(s, e)
<1>11. Good(t, verdict', None)
  BY <1>1, <1>10, SelectKeeps
<1>12. IsSideNext(t)
  BY <1>2 DEF IsSideNext, Become
<1>13. Good(t, verdict', final')
  BY <1>1, <1>4, <1>11
<1>14. Environment'
  <2>1. verdict' \in [Pools -> {"none", "forming", "KEEP", "ESCALATE"}]
    BY <1>1
  <2> QED
    BY <2>1, <1>1 DEF Environment, IInv
<1>15. UNCHANGED <<config, blocked, deferred>>
  BY <1>1
<1> HIDE DEF t
<1> QED
  BY <1>9, <1>12, <1>13, <1>14, <1>15, FreeStep

-----------------------------------------------------------------------------
(* Starts *)

\* Waiting for the boundary, of a side t.
Waits(t, isBlocked, isDeferred) ==
    /\ isBlocked =>
        /\ AllIn(t, 0, {"none", "live"})
        /\ \A e \in Edges : Unbegun(t, e) /\ ~ t.edge[e].held
    /\ isDeferred => isBlocked /\ Begun(t, 0) /\ ~ t.edge[1].rescue

\* A step to a good side that waits for the boundary as it must keeps IInv.
LEMMA AnyStep ==
    ASSUME config' = config, Environment', NEW t, IsSideNext(t),
           Good(t, verdict', final'), Waits(t, blocked', deferred')
    PROVE  IInv'
<1>1. Good(Side, verdict, final)'
  BY GoodNext
<1>2. /\ Side.solves' = t.solves /\ Side.edge' = t.edge /\ edge' = t.edge
      /\ Edges' = Edges
  BY DEF Side, IsSideNext, Edges
<1>3. /\ AllIn(Side, 0, {"none", "live"})' <=> AllIn(t, 0, {"none", "live"})
      /\ Begun(Side, 0)' <=> Begun(t, 0)
      /\ \A e \in Edges : Unbegun(Side, e)' <=> Unbegun(t, e)
  BY <1>2 DEF AllIn, Begun, Unbegun, SolvesOf
<1>4. WaitsForBoundary'
  BY <1>2, <1>3 DEF WaitsForBoundary, Waits
<1> QED
  BY <1>1, <1>4 DEF IInv, Environment

\* The entry pool's attempt is admitted alone.
LEMMA EntryFacts ==
    ASSUME config \in Settings, NEW v, Good(Side, v, final), Unbegun(Side, 0), v[0] = "none",
           NEW t, t = Admit(Side, 0, 0)
    PROVE  /\ final = None /\ Good(t, v, None)
           /\ AllIn(t, 0, {"live"}) /\ Begun(t, 0)
           /\ \A e \in Edges : Unbegun(t, e) /\ ~ t.edge[e].held
           /\ t.edge[1].rescue => 1 \in config.rescues
<1>1. /\ 0 \in Levels /\ 0 \in Pools /\ 0 \notin Edges /\ 1 \in Edges
      /\ \A q \in Levels : q \in Int /\ q >= 0 /\ q \in Pools
      /\ \A e \in Edges : e \in Levels /\ e \in Int /\ e - 1 \in Levels
  BY ChainFacts DEF Edges
<1>2. Sound(Side, v, final)
  BY DEF Good
<1>3. final = None
  <2> SUFFICES ASSUME final # None PROVE FALSE
    OBVIOUS
  <2>1. final \in Levels /\ v[final] = "KEEP"
    BY <1>2 DEF Sound, VerdictsClimb
  <2>2. 0 < final
    BY <2>1, <1>1
  <2>3. v[0] = "ESCALATE"
    BY <2>1, <2>2, <1>1, <1>2 DEF Sound, VerdictsClimb
  <2> QED
    BY <2>3
<1>4. ChainTo(0, 0) /\ MayBegin(Side, 0)
  BY <1>1 DEF ChainTo, MayBegin
<1>5. GoodBut(Side, v, None, 0) /\ Sound(Side, v, None)
  BY <1>2, <1>3 DEF Good, GoodBut
<1>6. GoodBut(t, v, None, 0)
  BY <1>1, <1>4, <1>5, AdmitKeeps
<1>7. Good(t, v, None)
  BY <1>1, <1>6 DEF Good, GoodBut
<1>8. AllIn(t, 0, {"live"}) /\ Begun(t, 0)
  BY <1>1, <1>4, <1>5, AdmitSolves
<1>9. \A q \in Levels : q > 0 => Unbegun(t, q)
  BY <1>1, <1>4, <1>5, AdmitSolves
<1>10. EarlyEdge(Side, t, v, 1, 0)
  BY <1>1, <1>4, <1>5, AdmitBelow
<1>11. ASSUME NEW e \in Edges
       PROVE  Unbegun(t, e) /\ ~ t.edge[e].held
  <2>1. Unbegun(t, e)
    BY <1>1, <1>9 DEF Edges
  <2>2. CASE e = 1
    BY <2>1, <2>2, <1>10 DEF EarlyEdge
  <2>3. CASE e # 1
    <3>1. e - 1 > 0
      BY <2>3, <1>1 DEF Edges
    <3>2. Unbegun(t, e - 1)
      BY <3>1, <1>1, <1>9
    <3> QED
      BY <2>1, <3>2, <1>6, BelowUnbegun DEF GoodBut
  <2> QED
    BY <2>2, <2>3
<1>12. t.edge[1].rescue => 1 \in config.rescues
  BY <1>10 DEF EarlyEdge
<1> QED
  BY <1>3, <1>7, <1>8, <1>11, <1>12

\* The window's first attempt is admitted, and its edge's decode beside it.
LEMMA IssueKeeps ==
    ASSUME IInv, Issue
    PROVE  IInv'
<1> DEFINE entered == Admit(Side, 0, 0)
<1>1. config \in Settings /\ Good(Side, verdict, final) /\ verdict[0] = "none"
      /\ In(0, {"none"}) = SolvesOf(0) /\ blocked \in BOOLEAN
      /\ deferred' = (1 \in config.speculates /\ blocked)
      /\ UNCHANGED <<config, blocked, verdict, final>>
  BY DEF IInv, Issue
<1>2. PICK s \in IF 1 \in config.speculates /\ ~ blocked
                   THEN PlanSpeculative(entered, 1) ELSE {entered} : Become(s)
  BY DEF Issue
<1>3. Unbegun(Side, 0)
  BY <1>1 DEF Unbegun, In, Side
<1>4. /\ final = None /\ Good(entered, verdict, None)
      /\ AllIn(entered, 0, {"live"}) /\ Begun(entered, 0)
      /\ \A e \in Edges : Unbegun(entered, e) /\ ~ entered.edge[e].held
      /\ entered.edge[1].rescue => 1 \in config.rescues
  BY <1>1, <1>3, EntryFacts
<1> HIDE DEF entered
<1>5. 1 \in config.speculates => 1 \in Edges /\ 1 \notin config.rescues
  BY <1>1, ChainFacts
<1>6. IsSideNext(s)
  BY <1>2 DEF IsSideNext, Become
<1>7. Environment'
  BY <1>1 DEF Environment, IInv
<1>8. Good(s, verdict, None)
  <2>1. CASE 1 \in config.speculates /\ ~ blocked
    <3>1. s \in PlanSpeculative(entered, 1) /\ 1 \in Edges /\ 1 - 1 = 0
      BY <2>1, <1>2, <1>5
    <3>2. GoodBut(entered, verdict, None, 1) /\ Undecided(verdict, 0)
      BY <1>1, <1>4 DEF Good, GoodBut, Undecided
    <3>3. Unbegun(entered, 1) /\ ~ entered.edge[1].rescue
      BY <2>1, <3>1, <1>4, <1>5
    <3> QED
      BY <3>1, <3>2, <3>3, <1>1, <1>4, PlanSpeculativeKeeps
  <2>2. CASE ~ (1 \in config.speculates /\ ~ blocked)
    BY <2>2, <1>2, <1>4
  <2> QED
    BY <2>1, <2>2
<1>9. Waits(s, blocked', deferred')
  <2>1. CASE blocked
    <3>1. s = entered
      BY <2>1, <1>2
    <3>2. AllIn(s, 0, {"none", "live"})
      BY <3>1, <1>4 DEF AllIn
    <3>3. deferred' => ~ s.edge[1].rescue
      BY <3>1, <1>1, <1>4, <1>5
    <3> QED
      BY <2>1, <3>1, <3>2, <3>3, <1>1, <1>4 DEF Waits
  <2>2. CASE ~ blocked
    BY <2>2, <1>1 DEF Waits
  <2> QED
    BY <2>1, <2>2
<1> QED
  BY <1>1, <1>4, <1>6, <1>7, <1>8, <1>9, AnyStep

\* The last boundary frees the entry job and plans the decode it deferred.
LEMMA BoundaryLandsKeeps ==
    ASSUME IInv, BoundaryLands
    PROVE  IInv'
<1>1. config \in Settings /\ Good(Side, verdict, final) /\ blocked
      /\ blocked' = FALSE /\ deferred' = FALSE
      /\ UNCHANGED <<config, verdict, final>>
  BY DEF IInv, BoundaryLands
<1>2. PICK s \in IF deferred THEN PlanSpeculative(Side, 1) ELSE {Side} : Become(s)
  BY DEF BoundaryLands
<1>3. IsSideNext(s)
  BY <1>2 DEF IsSideNext, Become
<1>4. Environment'
  BY <1>1 DEF Environment, IInv
<1>5. Waits(s, blocked', deferred')
  BY <1>1 DEF Waits
<1>6. Good(s, verdict, final)
  <2>1. CASE deferred
    <3>1. 1 \in Edges /\ 0 \in Levels /\ 1 - 1 = 0
      BY <1>1, ChainFacts DEF Edges
    <3>2. /\ Begun(Side, 0) /\ ~ edge[1].rescue
      BY <2>1 DEF IInv, WaitsForBoundary
    <3>3. Unbegun(Side, 1) /\ verdict[0] = "none" /\ final = None
      BY <3>1, <1>1, BlockedFacts
    <3>4. GoodBut(Side, verdict, None, 1) /\ Undecided(verdict, 0)
      BY <3>3, <1>1 DEF Good, GoodBut, Undecided
    <3>5. ~ Side.edge[1].rescue
      BY <3>2 DEF Side
    <3>6. s \in PlanSpeculative(Side, 1)
      BY <2>1, <1>2
    <3>7. Good(s, verdict, None)
      BY <3>1, <3>2, <3>3, <3>4, <3>5, <3>6, <1>1, PlanSpeculativeKeeps
    <3> QED
      BY <3>3, <3>7
  <2>2. CASE ~ deferred
    BY <2>2, <1>1, <1>2
  <2> QED
    BY <2>1, <2>2
<1>7. Good(s, verdict', final') /\ config' = config
  BY <1>1, <1>6
<1> QED
  BY <1>3, <1>4, <1>5, <1>7, AnyStep

\* A rescue starts a decode that nothing has started, before the verdict.
LEMMA RescueKeeps ==
    ASSUME IInv, NEW e \in Edges, Rescue(e)
    PROVE  IInv'
<1> DEFINE fired == [Side EXCEPT !.edge[e].rescue = FALSE]
           d == [edge[e] EXCEPT !.rescue = FALSE]
<1>1. config \in Settings /\ Good(Side, verdict, final) /\ edge[e].rescue
      /\ blocked \in BOOLEAN /\ deferred \in BOOLEAN /\ deferred' = (deferred \/ blocked)
      /\ UNCHANGED <<config, blocked, verdict, final>>
  BY DEF IInv, Rescue
<1>2. PICK s \in IF blocked THEN {fired} ELSE PlanSpeculative(fired, e) : Become(s)
  BY DEF Rescue
<1>3. Sound(Side, verdict, final) /\ Typed(Side)
  BY <1>1 DEF Good, Sound
<1>4. Side.record = record /\ Side.edge = edge /\ Side.solves = solves
  BY DEF Side
<1>5. e \in Targets /\ e - 1 \in Levels /\ e \in Int
  BY <1>1, ChainFacts
<1>6. edge[e] \in Redecodes
  BY <1>3, <1>4, <1>5 DEF Typed
<1>7. /\ final = None /\ Begun(Side, e - 1) /\ verdict[e - 1] = "none"
      /\ Unbegun(Side, e) /\ ~ edge[e].held
  BY <1>1, <1>3, <1>4 DEF Sound, EdgeIsSound, RescueIsFirst
<1>8. fired = [Side EXCEPT !.edge = [Side.edge EXCEPT ![e] = d]]
  BY <1>4
<1>9. fired = WithEdge(Side, e, d)
  BY <1>3, <1>8, SideChanged DEF WithEdge
<1>10. IsQuiet(Side.edge[e], d) /\ d.rescue = FALSE
  BY <1>4, <1>6 DEF IsQuiet, Redecodes
<1>11. d.planned = edge[e].planned /\ d.held = edge[e].held
  BY <1>6 DEF Redecodes
<1> HIDE DEF fired, d
<1>12. KeepsOthers(Side, fired, verdict, None, e) /\ OnlyEdgeIs(Side, fired, e, d)
  BY <1>1, <1>3, <1>7, <1>9, <1>10, QuietChangeKeeps
<1>13. GoodBut(fired, verdict, None, e)
  BY <1>1, <1>7, <1>12 DEF KeepsOthers, Good, GoodBut
<1>14. fired.edge[e] = d /\ fired.solves = solves /\ fired.record = record
       /\ \A q \in Edges : q # e => fired.edge[q] = edge[q]
  BY <1>4, <1>12 DEF OnlyEdgeIs
<1>15. Good(s, verdict, None)
  <2>1. CASE blocked
    <3>1. s = fired
      BY <2>1, <1>2
    <3>2. PlanIsRemembered(Side, verdict, None, e)
      BY <1>1, <1>7 DEF Good
    <3>3. PlanIsRemembered(fired, verdict, None, e)
      BY <3>2, <1>4, <1>11, <1>14 DEF PlanIsRemembered, Begun
    <3> QED
      BY <3>1, <3>3, <1>13 DEF Good, GoodBut
  <2>2. CASE ~ blocked
    <3>1. s \in PlanSpeculative(fired, e)
      BY <2>2, <1>2
    <3>2. Begun(fired, e - 1) /\ Unbegun(fired, e) /\ ~ fired.edge[e].rescue
      BY <1>4, <1>7, <1>10, <1>14 DEF Begun, Unbegun
    <3>3. Undecided(verdict, e - 1)
      BY <1>7 DEF Undecided
    <3> QED
      BY <3>1, <3>2, <3>3, <1>1, <1>13, PlanSpeculativeKeeps
  <2> QED
    BY <2>1, <2>2
<1>16. Waits(s, blocked', deferred')
  <2>1. CASE blocked
    <3>1. s = fired
      BY <2>1, <1>2
    <3>2. /\ \A q \in Edges : Unbegun(Side, q) /\ ~ edge[q].held
          /\ AllIn(Side, 0, {"none", "live"})
      BY <2>1, BlockedFacts
    <3>3. e = 1
      <4> SUFFICES ASSUME e # 1 PROVE FALSE
        OBVIOUS
      <4>1. e - 1 # 0
        BY <1>5
      <4>2. e - 1 \in Edges /\ e - 1 \in Pools
        BY <4>1, <1>1, <1>5, ChainFacts
      <4>3. Unbegun(Side, e - 1)
        BY <3>2, <4>2
      <4> QED
        BY <4>2, <4>3, <1>1, <1>7, BegunFacts
    <3>4. ~ s.edge[1].rescue
      BY <3>1, <3>3, <1>10, <1>14
    <3>5. Begun(s, 0)
      BY <3>1, <3>3, <1>4, <1>7, <1>14 DEF Begun
    <3>6. \A q \in Edges : ~ s.edge[q].held
      <4> TAKE q \in Edges
      <4>1. CASE q = e
        BY <4>1, <3>1, <1>7, <1>11, <1>14
      <4>2. CASE q # e
        BY <4>2, <3>1, <3>2, <1>14
      <4> QED
        BY <4>1, <4>2
    <3>7. AllIn(s, 0, {"none", "live"}) /\ \A q \in Edges : Unbegun(s, q)
      BY <3>1, <3>2, <1>4, <1>14 DEF AllIn, Unbegun
    <3> QED
      BY <2>1, <3>4, <3>5, <3>6, <3>7, <1>1 DEF Waits
  <2>2. CASE ~ blocked
    <3>1. ~ deferred
      BY <2>2 DEF IInv, WaitsForBoundary
    <3> QED
      BY <2>2, <3>1, <1>1 DEF Waits
  <2> QED
    BY <2>1, <2>2
<1>17. IsSideNext(s)
  BY <1>2 DEF IsSideNext, Become
<1>18. Environment'
  BY <1>1 DEF Environment, IInv
<1>19. Good(s, verdict', final') /\ config' = config
  BY <1>1, <1>7, <1>15
<1> QED
  BY <1>16, <1>17, <1>18, <1>19, AnyStep

\* A held decode's job is enqueued: it is of a pool that has not begun.
LEMMA SubmitReleasedKeeps ==
    ASSUME IInv, NEW e \in Edges, SubmitReleased(e)
    PROVE  IInv'
<1>1. config \in Settings /\ Good(Side, verdict, final) /\ edge[e].held
      /\ UNCHANGED <<config, blocked, deferred, verdict, final>>
  BY DEF IInv, SubmitReleased
<1>2. PICK s \in EnqueueTarget(Side, e) : Become(s)
  BY DEF SubmitReleased
<1>3. Sound(Side, verdict, final) /\ EdgeIsSound(Side, verdict, final, e)
      /\ PlanIsRemembered(Side, verdict, final, e)
  BY <1>1 DEF Good, Sound
<1>4. Side.record = record /\ Side.edge = edge /\ Side.solves = solves
  BY DEF Side
<1>5. final = None /\ Begun(Side, e - 1) /\ Unbegun(Side, e) /\ ~ edge[e].rescue
  BY <1>1, <1>3, <1>4 DEF EdgeIsSound, HeldIsUnbegun, RescueIsFirst
<1>6. record[e].phase # "NONE" \/ record[e].open # {}
  <2>1. CASE record[e].phase # "NONE"
    BY <2>1
  <2>2. CASE record[e].phase = "NONE"
    <3>1. Undecided(verdict, e - 1)
      BY <2>2, <1>1, <1>3, <1>4 DEF PlanIsRemembered
    <3> QED
      BY <3>1, <1>1, <1>3, <1>4, <1>5, SourceFacts
  <2> QED
    BY <2>1, <2>2
<1>7. MayBegin(Side, e)
  BY <1>1, <1>4, <1>5, <1>6 DEF MayBegin
<1>8. GoodBut(Side, verdict, None, e)
  BY <1>1, <1>5 DEF Good, GoodBut
<1>9. /\ GoodBut(s, verdict, None, e)
      /\ Begun(s, e) /\ ~ s.edge[e].held
      /\ s.edge[e].planned = Side.edge[e].planned
  BY <1>1, <1>2, <1>7, <1>8, EnqueueKeeps
<1>10. PlanIsRemembered(s, verdict, None, e)
  BY <1>1, <1>3, <1>4, <1>5, <1>9 DEF PlanIsRemembered
<1>11. Good(s, verdict', final')
  BY <1>1, <1>5, <1>9, <1>10 DEF Good, GoodBut
<1>12. ~ blocked
  BY <1>1, BlockedFacts
<1>13. IsSideNext(s)
  BY <1>2 DEF IsSideNext, Become
<1>14. Environment' /\ UNCHANGED <<config, blocked, deferred>>
  BY <1>1 DEF Environment, IInv
<1> QED
  BY <1>11, <1>12, <1>13, <1>14, FreeStep

-----------------------------------------------------------------------------
(* The theorems *)

\* Before the window is issued no pool has an attempt and no edge a record.
LEMMA InitKeeps ==
    ASSUME Init
    PROVE  IInv
<1>1. /\ config \in Settings /\ blocked \in BOOLEAN /\ deferred = FALSE
      /\ verdict = [p \in Pools |-> "none"] /\ final = None
  BY DEF Init
<1>2. \A p \in Pools : Side.solves[p] = [k \in SolvesOf(p) |-> "none"]
  BY DEF Init, Side
<1>3. \A e \in Targets : Side.record[e] = EmptyRecord /\ Side.edge[e] = IdleEdge
  BY DEF Init, Side
<1>4. \A p \in Pools : Unbegun(Side, p) /\ ~ Begun(Side, p)
  <2> SUFFICES ASSUME NEW p \in Pools
               PROVE  Unbegun(Side, p) /\ ~ Begun(Side, p)
    OBVIOUS
  <2>1. Unbegun(Side, p)
    BY <1>2 DEF Unbegun
  <2> QED
    BY <2>1, <1>1, BegunFacts
<1>5. Typed(Side)
  <2>1. Side = [solves |-> Side.solves, record |-> Side.record, edge |-> Side.edge]
    BY DEF Side
  <2>2. Side.solves = [p \in Pools |-> Side.solves[p]]
    BY DEF Init, Side
  <2>3. \A p \in Pools : Side.solves[p] \in [SolvesOf(p) -> SolveStates]
    BY <1>2 DEF SolveStates
  <2>4. EmptyRecord \in Records /\ IdleEdge \in Redecodes
    BY DEF EmptyRecord, IdleEdge, Records, Redecodes, Phases
  <2>5. Side.record \in [Targets -> Records] /\ Side.edge \in [Targets -> Redecodes]
    BY <2>4 DEF Init, Side
  <2> QED
    BY <2>1, <2>2, <2>3, <2>5 DEF Typed
<1>6. \A p \in Levels : p \in Pools /\ verdict[p] = "none"
  BY <1>1, ChainFacts
<1>7. AdmittedInOrder(Side)
  BY <1>4, <1>6 DEF AdmittedInOrder
<1>8. VerdictsClimb(Side, verdict, final)
  <2>1. config.depth \in Levels
    BY <1>1, ChainFacts DEF Levels
  <2> QED
    BY <1>1, <1>6, <2>1 DEF VerdictsClimb
<1>9. ASSUME NEW e \in Edges
      PROVE  EdgeIsSound(Side, verdict, final, e)
             /\ PlanIsRemembered(Side, verdict, final, e)
  <2>1. e \in Targets /\ e \in Pools /\ e \in Int /\ e - 1 \in Pools /\ ~ None < e
    BY <1>1, ChainFacts
  <2>2. /\ ~ Begun(Side, e) /\ ~ Begun(Side, e - 1) /\ Unbegun(Side, e)
        /\ NoneIn(Side, e, Owed) /\ NoneIn(Side, e, {"joined"})
        /\ NoneIn(Side, e, {"abandoned"})
    BY <1>1, <1>4, <2>1, BegunFacts
  <2>3. /\ Side.record[e].phase = "NONE" /\ Side.record[e].companions = 0
        /\ Side.edge[e].selection = "none" /\ ~ Side.edge[e].held
        /\ ~ Side.edge[e].rescue /\ ~ Side.edge[e].planned
    BY <1>3, <2>1 DEF EmptyRecord, IdleEdge
  <2>4. PlanIsRemembered(Side, verdict, final, e)
    BY <2>2, <2>3 DEF PlanIsRemembered
  <2>5. EdgeIsSound(Side, verdict, final, e)
    BY <1>1, <2>1, <2>2, <2>3
       DEF EdgeIsSound, IsAsked, EndsBelow, SourceIsOpen, HasDestination,
           RescueIsFirst, HeldIsUnbegun, EarlyIsWhole, OwesWhatIsDue
  <2> QED
    BY <2>4, <2>5
<1>10. Good(Side, verdict, final)
  BY <1>5, <1>7, <1>8, <1>9 DEF Good, Sound
<1>11. WaitsForBoundary
  <2>1. AllIn(Side, 0, {"none", "live"})
    <3>1. 0 \in Pools
      BY <1>1, ChainFacts
    <3> QED
      BY <3>1, <1>4 DEF AllIn, Unbegun
  <2>2. \A e \in Edges : e \in Pools /\ e \in Targets
    BY <1>1, ChainFacts
  <2>3. \A e \in Edges : Unbegun(Side, e) /\ ~ edge[e].held
    BY <1>3, <1>4, <2>2 DEF IdleEdge, Side
  <2> QED
    BY <1>1, <2>1, <2>3 DEF WaitsForBoundary
<1>12. /\ verdict \in [Pools -> {"none", "forming", "KEEP", "ESCALATE"}]
       /\ final \in Pools \union {None}
  BY <1>1
<1> QED
  BY <1>1, <1>10, <1>11, <1>12 DEF IInv

\* Every step of the chain keeps the invariant, action by action.
LEMMA NextKeeps ==
    ASSUME IInv, [Next]_vars
    PROVE  IInv'
<1>1. ASSUME Issue
      PROVE  IInv'
  BY <1>1, IssueKeeps
<1>2. ASSUME BoundaryLands
      PROVE  IInv'
  BY <1>2, BoundaryLandsKeeps
<1>3. ASSUME NEW e \in Edges, Rescue(e)
      PROVE  IInv'
  BY <1>3, RescueKeeps
<1>4. ASSUME NEW e \in Edges, SubmitReleased(e)
      PROVE  IInv'
  BY <1>4, SubmitReleasedKeeps
<1>5. ASSUME NEW e \in Edges, SelectionLands(e)
      PROVE  IInv'
  BY <1>5, SelectionLandsKeeps
<1>6. ASSUME NEW k \in SolvesOf(0), EntryDecodeEnds(k)
      PROVE  IInv'
  BY <1>6, EntryDecodeEndsKeeps
<1>7. ASSUME NEW p \in Edges, NEW k \in SolvesOf(p), AbandonedDecodeEnds(p, k)
      PROVE  IInv'
  BY <1>7, AbandonedDecodeEndsKeeps
<1>8. ASSUME NEW p \in Edges, NEW k \in SolvesOf(p), TargetDecodeEnds(p, k)
      PROVE  IInv'
  BY <1>8, TargetDecodeEndsKeeps
<1>9. ASSUME NEW p \in Levels, AcceptRevision(p)
      PROVE  IInv'
  BY <1>9, AcceptRevisionKeeps
<1>10. ASSUME NEW p \in Levels, Keep(p)
       PROVE  IInv'
  BY <1>10, KeepKeeps
<1>11. ASSUME NEW p \in Levels, Escalate(p)
       PROVE  IInv'
  BY <1>11, EscalateKeeps
<1>12. ASSUME UNCHANGED vars
       PROVE  IInv'
  <2>1. /\ UNCHANGED <<config, blocked, deferred, solves, record, edge, verdict, final>>
        /\ IsSideNext(Side)
    BY <1>12 DEF vars, IsSideNext, Side
  <2>2. Good(Side, verdict', final')
    BY <2>1 DEF IInv
  <2>3. Environment'
    BY <2>1 DEF IInv, Environment
  <2>4. Waits(Side, blocked', deferred')
    BY <2>1 DEF IInv, WaitsForBoundary, Waits, Side
  <2> QED
    BY <2>1, <2>2, <2>3, <2>4, AnyStep
<1> QED
  BY <1>1, <1>2, <1>3, <1>4, <1>5, <1>6, <1>7, <1>8, <1>9, <1>10, <1>11, <1>12
     DEF Next, Levels

\* On every chain, however deep, whatever its edges speculate or rescue and
\* however many solves its pools take: the redecodes, the ledger's records and
\* the verdicts of every pool stay in step as IInv says.
THEOREM ChainIsSound == Spec => []IInv
<1>1. Init => IInv
  BY InitKeeps
<1>2. IInv /\ [Next]_vars => IInv'
  BY NextKeeps
<1> QED
  BY <1>1, <1>2, PTL DEF Spec

\* A result of a chain that is sound has a destination, and a destination is
\* owed what is on its way.
LEMMA SoundChainsMeet ==
    ASSUME IInv
    PROVE  ResultsAndDestinationsMeet
<1>1. config \in Settings /\ Sound(Side, verdict, final)
  BY DEF IInv, Good
<1>2. Side.solves = solves /\ Side.record = record /\ Side.edge = edge
  BY DEF Side
<1>3. TypeOK
  BY <1>1, <1>2 DEF TypeOK, IInv, Sound, Typed, Records, Redecodes
<1>4. ASSUME NEW e \in Edges
      PROVE  In(e, {"live", "slot"}) # {} <=> ~ NoneIn(Side, e, Owed)
  BY <1>2 DEF In, NoneIn, Owed
<1>5. ResultHasADestination
  BY <1>1, <1>2, <1>4
     DEF ResultHasADestination, MayConsume, Sound, EdgeIsSound, HasDestination
<1>6. OwedAreOnTheWay
  <2> SUFFICES ASSUME NEW e \in Edges, record[e].phase # "NONE"
               PROVE  /\ record[e].owed = IF edge[e].held
                             THEN 1 ELSE Cardinality(In(e, {"live", "slot"}))
                      /\ record[e].phase = "WAITING_RESULT" => In(e, {"slot"}) = {}
    BY DEF OwedAreOnTheWay
  <2>1. OwesWhatIsDue(Side, e)
    BY <1>1 DEF Sound, EdgeIsSound
  <2>2. e \in Pools
    BY <1>1, ChainFacts
  <2>3. Cardinality(In(e, {"live", "slot"})) = Due(Side, e)
    <3>1. Cardinality({k \in SolvesOf(e) : solves[e][k] \in Owed})
              = Count(solves[e], config.solves[e], Owed)
      BY <1>1, <2>2, CountIsCardinality
    <3> QED
      BY <3>1, <1>2 DEF In, Due, Owed
  <2>4. NoneIn(Side, e, {"slot"}) => In(e, {"slot"}) = {}
    BY <1>2 DEF NoneIn, In
  <2> QED
    BY <1>2, <2>1, <2>3, <2>4 DEF OwesWhatIsDue
<1> QED
  BY <1>3, <1>5, <1>6 DEF ResultsAndDestinationsMeet

\* On every chain the ledger and the decodes meet (strong_requests.py): a
\* result that may still come has a destination, one that asked is owed
\* exactly the results that have not reached it, and none waits in a slot
\* behind a selection that landed.
THEOREM ResultsAlwaysMeetDestinations == Spec => []ResultsAndDestinationsMeet
<1>1. IInv => ResultsAndDestinationsMeet
  BY SoundChainsMeet
<1> QED
  BY <1>1, ChainIsSound, PTL

\* The answer of a chain that is sound was asked for and nothing outlives it.
LEMMA SoundChainsSettle ==
    ASSUME IInv
    PROVE  AnswerSettlesTheChain
<1>1. config \in Settings /\ Sound(Side, verdict, final)
  BY DEF IInv, Good
<1>2. Side.solves = solves /\ Side.record = record /\ Side.edge = edge
  BY DEF Side
<1>3. AnswerWasAskedFor
  <2> SUFFICES ASSUME NEW e \in Edges, verdict[e] # "none"
               PROVE  verdict[e - 1] = "ESCALATE"
    BY DEF AnswerWasAskedFor
  <2>1. e \in Levels /\ e - 1 \in Levels
    BY <1>1, ChainFacts
  <2>2. e - 1 < e
    BY DEF Edges
  <2> QED
    BY <1>1, <2>1, <2>2 DEF Sound, VerdictsClimb
<1>4. NothingOutlivesTheAnswer
  <2> SUFFICES ASSUME final # None, NEW e \in Edges, e > final
               PROVE  In(e, {"live", "slot"}) = {} /\ ~ edge[e].held /\ ~ edge[e].rescue
    BY DEF NothingOutlivesTheAnswer
  <2>1. EdgeIsSound(Side, verdict, final, e)
    BY <1>1 DEF Sound
  <2>2. final < e
    <3>1. final \in Int /\ e \in Int
      BY <1>1, ChainFacts DEF Sound, VerdictsClimb
    <3> QED
      BY <3>1
  <2>3. NoneIn(Side, e, Owed)
    BY <2>1, <2>2 DEF EdgeIsSound, EndsBelow
  <2>4. ~ edge[e].held /\ ~ edge[e].rescue
    BY <1>2, <2>1 DEF EdgeIsSound, HeldIsUnbegun, RescueIsFirst
  <2> QED
    BY <1>2, <2>3, <2>4 DEF In, NoneIn, Owed
<1> QED
  BY <1>3, <1>4 DEF AnswerSettlesTheChain

\* On every chain one answer settles the window (redecode_directive.py): no
\* pool answers unasked, however early its decode was started, held, rescued
\* or let run, and below the answer nothing is held, armed or waiting.
THEOREM AnswerAlwaysSettlesTheChain == Spec => []AnswerSettlesTheChain
<1>1. IInv => AnswerSettlesTheChain
  BY SoundChainsSettle
<1> QED
  BY <1>1, ChainIsSound, PTL
=============================================================================
