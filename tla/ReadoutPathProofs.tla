------------------------- MODULE ReadoutPathProofs -------------------------
(***************************************************************************)
(* The readout path, for every run: a decode that was asked for, and a     *)
(* redo on its edge, find the rounds they read in their store; the stores, *)
(* the lines and the packing stage keep their room; and the run stops only *)
(* where the head of the held line would wait for ever.                    *)
(*                                                                         *)
(* RequestedInputIsStored is not inductive.  A window that is asked for    *)
(* knows that its rounds were published, not that they are stored: that    *)
(* they were kept for it since needs ReadingIsStored.  And while a redo is *)
(* held its window must be undecided, so that what lands for it is kept    *)
(* (RedoIsStored).  Everything that lets rounds go keeps those a hold      *)
(* names (KeepsHeld); the lemmas say so of each action first.              *)
(*                                                                         *)
(* BoundedStagesKeepTheirRoom counts bits and places, so it needs each     *)
(* round in one place only (StageIsInOrder, PathIsInOrder), what is in     *)
(* flight counted (FlightIsCounted), and no round carried to a landing     *)
(* store a second time (RegionsAreApart).  The stop is right because the   *)
(* knot stays (KnotStays): the windows it kept waiting read a round of the *)
(* held line, which none was told of yet (PublishedIsPast), so their holds *)
(* stay, and what they keep with the head is more than the store can take. *)
(***************************************************************************)
EXTENDS ReadoutPath, DataLemmas

-----------------------------------------------------------------------------
(* The inductive invariant *)

Types ==
    /\ config \in Settings
    /\ stored = [s \in Stores |-> stored[s]]
    /\ phase = [w \in Windows |-> phase[w]]
    /\ redo \in [Windows -> {"none", "held", "asked", "landed", "over"}]
    /\ crossing \in [Edges -> Seq(Seq(Rounds))]
    /\ outgoing \subseteq config.memory

\* A window that is not asked for yet has what was published of its store.
ReadingIsStored ==
    \A w \in Windows : phase[w] = "reading" =>
        \A r \in Reads(w) \cap published :
            OwnStore(r) = StoreOf(w) => r \in stored[StoreOf(w)]

\* A window asked for has every round it reads.
InputIsStored ==
    \A w \in Windows : phase[w] = "requested" => Reads(w) \subseteq stored[StoreOf(w)]

\* What a redo may carry over its edge is where the region is formed.
RedoIsCarried ==
    \A w \in Windows :
        MayRedo(w) /\ phase[w] \notin {"reading", "decoded"} /\ redo[w] \notin {"landed", "over"}
            => config.redo[w] \subseteq stored[StoreOf(w)]

\* A redo finds what it reads, or has it on its way; it is held only while
\* its window is undecided.
RedoIsStored ==
    \A w \in Windows : MayRedo(w) =>
        /\ redo[w] = "held" =>
            /\ phase[w] \notin {"reading", "decoded"}
            /\ config.redo[w] \subseteq stored[Landing(w)] \cup Coming(Landing(w))
        /\ redo[w] = "asked" => config.redo[w] \subseteq stored[Landing(w)]

IInv ==
    Types /\ ReadingIsStored /\ InputIsStored /\ RedoIsCarried /\ RedoIsStored

-----------------------------------------------------------------------------
(* The settings *)

\* What the assumption says of the run under way.
LEMMA SettingFacts ==
    ASSUME config \in Settings
    PROVE  /\ \A w \in Windows :
                /\ Reads(w) \subseteq Rounds /\ Reads(w) \cap config.memory = {}
                /\ StoreOf(w) \in Stores
           /\ \A r \in Rounds : r = <<r[1], r[2]>> /\ r[2] \in Nat \ {0}
           /\ \A w \in Windows : MayRedo(w) =>
                /\ config.redo[w] \subseteq Reads(w)
                /\ StoreOf(w) \in Edges /\ Landing(w) \in Stores
           /\ IsFiniteSet(Rounds)
<1> DEFINE A == (DOMAIN config.own) \X (Nat \ {0})
<1>1. config.emission \in Seq(A)
  BY SettingsAssumption
<1>2. Rounds \subseteq A
  <2> HIDE DEF A
  <2>1. \A i \in DOMAIN config.emission : config.emission[i] \in A
    BY <1>1
  <2> QED
    BY <2>1 DEF Rounds, Range
<1>3. IsFiniteSet(Rounds)
  <2>1. Len(config.emission) \in Nat /\ DOMAIN config.emission = 1 .. Len(config.emission)
    BY <1>1, LenProperties
  <2>2. IsFiniteSet(1 .. Len(config.emission))
    BY <2>1, FS_Interval
  <2>3. config.emission \in Surjection(1 .. Len(config.emission), Rounds)
    BY <1>1, <2>1 DEF Rounds, Range, Surjection
  <2> QED
    BY <2>2, <2>3, FS_Surjection
<1>4. ASSUME NEW w \in Windows
      PROVE  /\ Reads(w) \subseteq Rounds /\ Reads(w) \cap config.memory = {}
             /\ StoreOf(w) \in Stores
  BY SettingsAssumption DEF Windows, Reads, Rounds, StoreOf, Stores
<1>5. ASSUME NEW w \in Windows, MayRedo(w)
      PROVE  /\ config.redo[w] \subseteq Reads(w)
             /\ StoreOf(w) \in Edges /\ Landing(w) \in Stores
  <2>1. config.redo[w] \subseteq Reads(w) /\ StoreOf(w) \in Edges
    BY <1>5, SettingsAssumption DEF MayRedo, Reads, StoreOf, Edges
  <2>2. Landing(w) \in Range(config.edges)
    BY <2>1 DEF Landing, Edges, Range
  <2> QED
    BY <2>1, <2>2, SettingsAssumption DEF Stores
<1>6. \A r \in A : r = <<r[1], r[2]>> /\ r[2] \in Nat \ {0}
  OBVIOUS
<1> QED
  BY <1>2, <1>3, <1>4, <1>5, <1>6

\* A step keeps the settings, and so all that is read off them.
LEMMA SameSetting ==
    ASSUME config' = config
    PROVE  /\ Rounds' = Rounds /\ Stores' = Stores /\ Windows' = Windows /\ Edges' = Edges
           /\ EntryStores' = EntryStores
           /\ \A w : /\ Reads(w)' = Reads(w) /\ StoreOf(w)' = StoreOf(w)
                     /\ MayRedo(w)' = MayRedo(w) /\ Landing(w)' = Landing(w)
                     /\ Stream(w)' = Stream(w)
           /\ \A r : OwnStore(r)' = OwnStore(r)
  BY DEF Rounds, Stores, Windows, Edges, EntryStores, Reads, StoreOf, MayRedo, Landing, Stream,
         OwnStore

\* What a hold names.
LEMMA HeldFacts ==
    /\ \A w \in Windows : IsHolding(w) => Reads(w) \subseteq HeldIn(StoreOf(w))
    /\ \A w \in Windows : IsHoldingForRedo(w) =>
        Reads(w) \subseteq HeldIn(StoreOf(w)) /\ Reads(w) \subseteq HeldIn(Landing(w))
    /\ \A s : \A r \in HeldIn(s) : \E w \in Windows : r \in Reads(w)
  BY DEF HeldIn

\* The rounds on the edges into a store.
LEMMA ComingFacts ==
    ASSUME NEW l, NEW r
    PROVE  r \in Coming(l) <=>
             \E e \in Edges : /\ config.edges[e] = l
                              /\ \E region \in Range(crossing[e]) : r \in Range(region)
  BY DEF Coming

\* A region of finitely many rounds has an order its rounds can leave in.
LEMMA OrderExists ==
    ASSUME NEW stream, NEW S, IsFiniteSet(S), \A r \in S : r[2] \in Nat
    PROVE  \E q \in SetToSeqs(S) :
             \A i, j \in DOMAIN q : IsReadBefore(stream, q[i], q[j]) => i < j
<1> DEFINE Ordered(T) == \E q \in SetToSeqs(T) :
             \A i, j \in DOMAIN q : IsReadBefore(stream, q[i], q[j]) => i < j
           Wrong == {T \in SUBSET S : ~ Ordered(T)}
<1> SUFFICES ASSUME Wrong # {}
             PROVE  FALSE
  OBVIOUS
<1>1. PICK T \in Wrong : \A U \in Wrong : U \subseteq T => U = T
  <2>1. Wrong \subseteq SUBSET S
    OBVIOUS
  <2> HIDE DEF Wrong
  <2> QED
    BY <2>1, LeastSubset
<1>2. T \subseteq S /\ IsFiniteSet(T) /\ ~ Ordered(T)
  BY <1>1, FS_Subset
<1>3. T # {}
  <2>1. SUFFICES ASSUME T = {}
                 PROVE  Ordered(T)
    BY <1>2
  <2>2. Cardinality(T) = 0
    BY <2>1, FS_EmptySet
  <2>3. <<>> \in SetToSeqs(T) /\ DOMAIN <<>> = {}
    BY <2>1, <2>2 DEF SetToSeqs
  <2> QED
    BY <2>3
<1>4. PICK m \in T : \A x \in T : ~ IsReadBefore(stream, m, x)
  <2> DEFINE Others == {r \in T : r[1] # stream}
             Latest == IF Others # {} THEN Others ELSE T
             Indices == {r[2] : r \in Latest}
  <2>1. IsFiniteSet(Latest) /\ Latest # {}
    BY <1>2, <1>3, FS_Subset
  <2>2. IsFiniteSet(Indices) /\ Indices # {} /\ \A n \in Indices : n \in Int
    <3>1. IsFiniteSet(Indices)
      <4>1. [r \in Latest |-> r[2]] \in Surjection(Latest, Indices)
        BY DEF Surjection
      <4> QED
        BY <2>1, <4>1, FS_Surjection
    <3>2. Latest \subseteq S
      BY <1>2
    <3> QED
      BY <2>1, <3>1, <3>2
  <2> HIDE DEF Indices
  <2>3. PICK n \in Indices : \A k \in Indices : k <= n
    BY <2>2, GreatestOfFinite
  <2>4. PICK r \in Latest : r[2] = n
    BY <2>3 DEF Indices
  <2>5. ASSUME NEW x \in T, IsReadBefore(stream, r, x)
        PROVE  FALSE
    <3>1. CASE r[1] = x[1]
      <4>1. x \in Latest
        BY <2>4, <3>1
      <4>2. x[2] \in Indices /\ r[2] < x[2]
        BY <2>5, <3>1, <4>1 DEF IsReadBefore, Indices
      <4> QED
        BY <2>2, <2>3, <2>4, <4>2
    <3>2. CASE r[1] # x[1]
      <4>1. r[1] = stream
        BY <2>5, <3>2 DEF IsReadBefore
      <4>2. Others = {}
        BY <2>4, <4>1
      <4> QED
        BY <3>2, <4>1, <4>2
    <3> QED
      BY <3>1, <3>2
  <2> QED
    BY <2>4, <2>5
<1> DEFINE U == T \ {m}
           n == Cardinality(U)
<1>5. IsFiniteSet(U) /\ n \in Nat /\ Cardinality(T) = n + 1
  <2>1. IsFiniteSet(U) /\ n = Cardinality(T) - 1
    BY <1>2, <1>4, FS_RemoveElement
  <2>2. n \in Nat /\ Cardinality(T) \in Nat
    BY <1>2, <2>1, FS_CardinalityType
  <2> QED
    BY <2>1, <2>2
<1>6. Ordered(U)
  BY <1>1, <1>2
<1>7. PICK q \in [1 .. n -> U] :
        /\ \A i, j \in 1 .. n : i # j => q[i] # q[j]
        /\ \A i, j \in 1 .. n : IsReadBefore(stream, q[i], q[j]) => i < j
  BY <1>6 DEF SetToSeqs
<1> DEFINE p == [i \in 1 .. n + 1 |-> IF i = n + 1 THEN m ELSE q[i]]
<1> HIDE DEF n
<1>8. p \in [1 .. n + 1 -> T]
  BY <1>5, <1>7
<1>9. \A i, j \in 1 .. n + 1 : i # j => p[i] # p[j]
  BY <1>5, <1>7
<1>10. \A i, j \in 1 .. n + 1 : IsReadBefore(stream, p[i], p[j]) => i < j
  <2> SUFFICES ASSUME NEW i \in 1 .. n + 1, NEW j \in 1 .. n + 1, IsReadBefore(stream, p[i], p[j])
               PROVE  i < j
    OBVIOUS
  <2>1. p[j] \in T
    BY <1>8
  <2>2. i # n + 1
    BY <1>4, <1>5, <2>1
  <2>3. CASE j = n + 1
    BY <1>5, <2>2, <2>3
  <2>4. CASE j # n + 1
    BY <1>5, <1>7, <2>2, <2>4
  <2> QED
    BY <2>3, <2>4
<1>11. p \in SetToSeqs(T)
  BY <1>5, <1>8, <1>9 DEF SetToSeqs, n
<1>12. DOMAIN p = 1 .. n + 1
  OBVIOUS
<1> QED
  BY <1>2, <1>10, <1>11, <1>12

\* A region has the rounds it is formed of, and no other.
LEMMA RegionFacts ==
    ASSUME NEW stream, NEW S, IsFiniteSet(S), \A r \in S : r[2] \in Nat
    PROVE  /\ InReadOrder(stream, S) \in Seq(S) /\ Range(InReadOrder(stream, S)) = S
           /\ IsInjective(InReadOrder(stream, S))
<1> DEFINE q == InReadOrder(stream, S)
           n == Cardinality(S)
<1>1. q \in SetToSeqs(S)
  BY OrderExists DEF InReadOrder
<1> HIDE DEF q
<1>2. n \in Nat
  BY FS_CardinalityType
<1>3. q \in [1 .. n -> S] /\ \A i, j \in 1 .. n : i # j => q[i] # q[j]
  BY <1>1 DEF SetToSeqs
<1>4. q \in Seq(S)
  BY <1>2, <1>3
<1>5. Range(q) = S
  <2>1. IsFiniteSet(1 .. n) /\ Cardinality(1 .. n) = n
    BY <1>2, FS_Interval
  <2>2. q \in Injection(1 .. n, S)
    BY <1>3 DEF Injection, IsInjective
  <2>3. q \in Surjection(1 .. n, S)
    BY <2>1, <2>2, FS_Injection
  <2> QED
    BY <1>3, <2>3 DEF Surjection, Range
<1>6. IsInjective(q)
  BY <1>2, <1>3 DEF IsInjective
<1> QED
  BY <1>4, <1>5, <1>6 DEF q

-----------------------------------------------------------------------------
(* What a step keeps *)

\* A step lets no round go that a hold names once it is done.
KeepsHeld ==
    /\ config' = config
    /\ stored' = [s \in Stores |-> stored'[s]]
    /\ \A s \in Stores : stored[s] \cap HeldIn(s)' \subseteq stored'[s]

\* The windows a step still leaves unasked have what it published for them.
KeepsReading ==
    \A w \in Windows : phase'[w] = "reading" =>
        /\ phase[w] = "reading"
        /\ \A r \in Reads(w) \cap (published' \ published) :
            OwnStore(r) = StoreOf(w) => r \in stored'[StoreOf(w)]

\* Those it asks for have what they read.
KeepsInput ==
    \A w \in Windows : phase'[w] = "requested" =>
        phase[w] = "requested" \/ Reads(w) \subseteq stored'[StoreOf(w)]

\* A redo may be carried only if it might be before, or its window was asked
\* for in time.
KeepsCarried ==
    \A w \in Windows :
        /\ MayRedo(w) /\ phase'[w] \notin {"reading", "decoded"}
        /\ redo'[w] \notin {"landed", "over"}
        => \/ phase[w] \notin {"reading", "decoded"} /\ redo[w] \notin {"landed", "over"}
           \/ phase'[w] = "requested"

\* A redo that the step holds, or asks for, has its rounds.
KeepsRedo ==
    \A w \in Windows : MayRedo(w) =>
        /\ redo'[w] = "held" =>
            /\ phase'[w] \notin {"reading", "decoded"}
            /\ \A l : l = Landing(w) => \A r \in config.redo[w] :
                \/ r \in stored'[l] \/ r \in Coming(l)'
                \/ redo[w] = "held" /\ r \notin Coming(l)
        /\ redo'[w] = "asked" =>
            redo[w] = "asked" \/ config.redo[w] \subseteq stored'[Landing(w)]

\* A step that keeps what is held for keeps what a window is held for.
LEMMA HeldStays ==
    ASSUME IInv, KeepsHeld, NEW w \in Windows
    PROVE  /\ phase'[w] \in {"reading", "requested"}
              => Reads(w) \cap stored[StoreOf(w)] \subseteq stored'[StoreOf(w)]
           /\ /\ MayRedo(w)
              /\ \/ redo'[w] \in {"none", "held"} /\ phase'[w] # "decoded"
                 \/ redo'[w] = "asked"
              => /\ Reads(w) \cap stored[StoreOf(w)] \subseteq stored'[StoreOf(w)]
                 /\ Reads(w) \cap stored[Landing(w)] \subseteq stored'[Landing(w)]
<1>1. config' = config /\ \A s \in Stores : stored[s] \cap HeldIn(s)' \subseteq stored'[s]
  BY DEF KeepsHeld
<1>2. /\ Windows' = Windows /\ Reads(w)' = Reads(w) /\ StoreOf(w)' = StoreOf(w)
      /\ MayRedo(w)' = MayRedo(w) /\ Landing(w)' = Landing(w)
  BY <1>1, SameSetting
<1>3. StoreOf(w) \in Stores /\ (MayRedo(w) => Landing(w) \in Stores)
  BY SettingFacts DEF IInv, Types
<1>4. ASSUME NEW s, s = StoreOf(w), phase'[w] \in {"reading", "requested"}
      PROVE  Reads(w) \subseteq HeldIn(s)'
  BY <1>2, <1>4 DEF HeldIn, IsHolding
<1>5. ASSUME NEW s, s \in {StoreOf(w), Landing(w)}, MayRedo(w),
             \/ redo'[w] \in {"none", "held"} /\ phase'[w] # "decoded"
             \/ redo'[w] = "asked"
      PROVE  Reads(w) \subseteq HeldIn(s)'
  BY <1>2, <1>5 DEF HeldIn, IsHoldingForRedo
<1>6. ASSUME phase'[w] \in {"reading", "requested"}
      PROVE  Reads(w) \cap stored[StoreOf(w)] \subseteq stored'[StoreOf(w)]
  BY <1>1, <1>3, <1>4, <1>6
<1>7. ASSUME NEW s, s \in {StoreOf(w), Landing(w)}, MayRedo(w),
             \/ redo'[w] \in {"none", "held"} /\ phase'[w] # "decoded"
             \/ redo'[w] = "asked"
      PROVE  Reads(w) \cap stored[s] \subseteq stored'[s]
  BY <1>1, <1>3, <1>5, <1>7
<1> QED
  BY <1>6, <1>7

\* These together keep the invariant.
LEMMA StepKeeps ==
    ASSUME IInv, Types', KeepsHeld, KeepsReading, KeepsInput, KeepsCarried, KeepsRedo
    PROVE  IInv'
<1>1. config' = config /\ \A s \in Stores : stored[s] \cap HeldIn(s)' \subseteq stored'[s]
  BY DEF KeepsHeld
<1>2. /\ Windows' = Windows
      /\ \A w : /\ Reads(w)' = Reads(w) /\ StoreOf(w)' = StoreOf(w)
                /\ MayRedo(w)' = MayRedo(w) /\ Landing(w)' = Landing(w)
      /\ \A r : OwnStore(r)' = OwnStore(r)
  BY <1>1, SameSetting
<1>3. config \in Settings
  BY DEF IInv, Types
<1>4. ReadingIsStored'
  <2> SUFFICES ASSUME NEW w \in Windows, phase'[w] = "reading",
                      NEW r \in Reads(w) \cap published', OwnStore(r) = StoreOf(w)
               PROVE  r \in stored'[StoreOf(w)]
    BY <1>2 DEF ReadingIsStored
  <2>1. CASE r \in published
    <3>1. r \in stored[StoreOf(w)]
      BY <2>1 DEF KeepsReading, IInv, ReadingIsStored
    <3> QED
      BY <3>1, HeldStays
  <2>2. CASE r \notin published
    BY <2>2 DEF KeepsReading
  <2> QED
    BY <2>1, <2>2
<1>5. InputIsStored'
  <2> SUFFICES ASSUME NEW w \in Windows, phase'[w] = "requested"
               PROVE  Reads(w) \subseteq stored'[StoreOf(w)]
    BY <1>2 DEF InputIsStored
  <2>1. CASE phase[w] = "requested"
    <3>1. Reads(w) \subseteq stored[StoreOf(w)]
      BY <2>1 DEF IInv, InputIsStored
    <3> QED
      BY <3>1, HeldStays
  <2>2. CASE phase[w] # "requested"
    BY <2>2 DEF KeepsInput
  <2> QED
    BY <2>1, <2>2
<1>6. RedoIsCarried'
  <2> SUFFICES ASSUME NEW w \in Windows, MayRedo(w), phase'[w] \notin {"reading", "decoded"},
                      redo'[w] \notin {"landed", "over"}
               PROVE  config.redo[w] \subseteq stored'[StoreOf(w)]
    BY <1>1, <1>2 DEF RedoIsCarried
  <2>1. config.redo[w] \subseteq Reads(w) /\ StoreOf(w) \in Stores
    BY <1>3, SettingFacts
  <2>2. CASE phase'[w] = "requested"
    BY <1>2, <1>5, <2>1, <2>2 DEF InputIsStored
  <2>3. CASE phase'[w] # "requested"
    <3>1. config.redo[w] \subseteq stored[StoreOf(w)]
      BY <2>3 DEF KeepsCarried, IInv, RedoIsCarried
    <3>2. redo'[w] \in {"none", "held", "asked"}
      BY <1>2 DEF Types
    <3> QED
      BY <2>1, <3>1, <3>2, HeldStays
  <2> QED
    BY <2>2, <2>3
<1>7. RedoIsStored'
  <2> SUFFICES ASSUME NEW w \in Windows, MayRedo(w)
               PROVE  \A l : l = Landing(w) =>
                        /\ redo'[w] = "held" =>
                            /\ phase'[w] \notin {"reading", "decoded"}
                            /\ config.redo[w] \subseteq stored'[l] \cup Coming(l)'
                        /\ redo'[w] = "asked" => config.redo[w] \subseteq stored'[l]
    BY <1>1, <1>2 DEF RedoIsStored
  <2> TAKE l
  <2> HAVE l = Landing(w)
  <2>1. config.redo[w] \subseteq Reads(w) /\ Landing(w) \in Stores
    BY <1>3, SettingFacts
  <2>2. CASE redo'[w] = "held"
    <3>1. phase'[w] \notin {"reading", "decoded"}
      BY <2>2 DEF KeepsRedo
    <3>2. ASSUME NEW r \in config.redo[w]
          PROVE  r \in stored'[l] \cup Coming(l)'
      <4>1. CASE redo[w] = "held" /\ r \notin Coming(l)
        <5>1. r \in stored[l]
          BY <4>1 DEF IInv, RedoIsStored
        <5> QED
          BY <2>1, <2>2, <3>1, <5>1, HeldStays
      <4> QED
        BY <2>2, <4>1 DEF KeepsRedo
    <3> QED
      BY <2>2, <3>1, <3>2
  <2>3. CASE redo'[w] = "asked"
    <3>1. CASE redo[w] = "asked"
      <4>1. config.redo[w] \subseteq stored[Landing(w)]
        BY <3>1 DEF IInv, RedoIsStored
      <4> QED
        BY <2>1, <2>3, <4>1, HeldStays
    <3>2. CASE redo[w] # "asked"
      BY <2>3, <3>2 DEF KeepsRedo
    <3> QED
      BY <3>1, <3>2
  <2> QED
    BY <2>2, <2>3
<1> QED
  BY <1>4, <1>5, <1>6, <1>7 DEF IInv

-----------------------------------------------------------------------------
(* Rounds come in *)

\* What a step of the stage, of the lines or of the lists of events leaves.
LEMMA StageKeeps ==
    ASSUME IInv, config' = config, UNCHANGED reads, outgoing' \subseteq outgoing
    PROVE  IInv'
<1>1. /\ stored' = stored /\ published' = published /\ phase' = phase /\ redo' = redo
      /\ crossing' = crossing
  BY DEF reads, redos
<1>2. Types'
  BY <1>1, SameSetting DEF IInv, Types
<1>3. KeepsHeld
  BY <1>1, SameSetting DEF KeepsHeld, IInv, Types
<1>4. KeepsReading /\ KeepsInput /\ KeepsCarried
  BY <1>1 DEF KeepsReading, KeepsInput, KeepsCarried
<1>5. KeepsRedo
  <2>1. \A l : Coming(l)' = Coming(l)
    BY <1>1 DEF Coming, Edges
  <2> QED
    BY <1>1, <2>1 DEF KeepsRedo, IInv, RedoIsStored
<1> QED
  BY <1>2, <1>3, <1>4, <1>5, StepKeeps

\* A window that a landing wakes is asked for only when it has what it reads.
LEMMA WakeFacts ==
    ASSUME IInv, config' = config, WakeWindows,
           \A s \in Stores : stored[s] \subseteq stored'[s],
           NEW w \in Windows, phase[w] = "reading",
           \A r \in Reads(w) \cap (published' \ published) :
               OwnStore(r) = StoreOf(w) => r \in stored'[StoreOf(w)]
    PROVE  phase'[w] = "reading" \/ (phase'[w] = "requested" /\ Reads(w) \subseteq stored'[StoreOf(w)])
<1>1. phase'[w] = IF IsReady(w)' THEN "requested" ELSE "reading"
  BY SameSetting DEF WakeWindows
<1>2. /\ Reads(w) \subseteq Rounds /\ StoreOf(w) \in Stores
      /\ \A r \in Rounds : r = <<r[1], r[2]>> /\ r[2] \in Nat \ {0}
  BY SettingFacts DEF IInv, Types
<1>3. ASSUME IsReady(w)', NEW r \in Reads(w)
      PROVE  r \in stored'[StoreOf(w)]
  <2>1. \A i \in 1 .. r[2] : <<r[1], i>> \in published'
    BY <1>3, SameSetting DEF IsReady, HasArrived
  <2>2. r \in published'
    <3>1. r = <<r[1], r[2]>> /\ r[2] \in 1 .. r[2]
      BY <1>2
    <3> QED
      BY <2>1, <3>1
  <2>3. CASE OwnStore(r) = StoreOf(w)
    BY <1>2, <2>2, <2>3 DEF IInv, ReadingIsStored
  <2>4. CASE OwnStore(r) # StoreOf(w)
    BY <1>3, <2>4, SameSetting DEF IsReady
  <2> QED
    BY <2>3, <2>4
<1> QED
  BY <1>1, <1>3

\* What a step that only stores rounds and wakes windows keeps.
LEMMA LandingKeeps ==
    ASSUME IInv, config' = config, WakeWindows \/ phase' = phase,
           stored' = [s \in Stores |-> stored'[s]],
           \A s \in Stores : stored[s] \subseteq stored'[s],
           \A w \in Windows : phase[w] = "reading" =>
               \A r \in Reads(w) \cap (published' \ published) :
                   OwnStore(r) = StoreOf(w) => r \in stored'[StoreOf(w)]
    PROVE  /\ KeepsHeld /\ KeepsReading /\ KeepsInput
           /\ phase' = [w \in Windows |-> phase'[w]]
           /\ \A w \in Windows : phase'[w] = phase[w]
                \/ (phase[w] = "reading" /\ phase'[w] = "requested")
<1>1. phase' = [w \in Windows |-> phase'[w]]
  BY SameSetting DEF WakeWindows, IInv, Types
<1>2. ASSUME NEW w \in Windows, phase'[w] # phase[w]
      PROVE  phase[w] = "reading" /\ phase'[w] = "requested" /\ Reads(w) \subseteq stored'[StoreOf(w)]
  <2>1. WakeWindows /\ phase[w] = "reading"
    BY <1>2 DEF WakeWindows
  <2> QED
    BY <1>2, <2>1, WakeFacts
<1>3. KeepsHeld
  BY DEF KeepsHeld
<1>4. KeepsReading
  BY <1>2 DEF KeepsReading
<1>5. KeepsInput
  BY <1>2 DEF KeepsInput
<1> QED
  BY <1>1, <1>2, <1>3, <1>4, <1>5

\* A round that is written is stored if a window that is not asked for reads
\* it.
LEMMA StoredAtFacts ==
    ASSUME IInv, NEW s \in Stores, NEW r, stored' = StoredAt(s, r)
    PROVE  /\ stored' = [x \in Stores |-> stored'[x]]
           /\ \A x \in Stores : stored[x] \subseteq stored'[x]
           /\ r \in HeldIn(s) => r \in stored'[s]
<1>1. stored = [x \in Stores |-> stored[x]]
  BY DEF IInv, Types
<1> QED
  BY <1>1 DEF StoredAt

\* The redos that a landing submits were held and have what they read.
LEMMA WokenFacts ==
    ASSUME IInv, NEW stream, NEW kept
    PROVE  /\ Woken(stream, kept) \in [Windows -> {"none", "held", "asked", "landed", "over"}]
           /\ \A w \in Windows : \/ Woken(stream, kept)[w] = redo[w]
                                 \/ /\ redo[w] = "held" /\ Woken(stream, kept)[w] = "asked"
                                    /\ config.redo[w] \subseteq kept[Landing(w)]
  BY DEF Woken, IInv, Types

\* What a step keeps of the redos that only submits those that have their
\* rounds, while the regions stay on their edges.
LEMMA SubmitKeeps ==
    ASSUME IInv, config' = config, crossing' = crossing,
           \A w \in Windows : phase'[w] = phase[w]
                \/ (phase[w] = "reading" /\ phase'[w] = "requested"),
           \A w \in Windows : redo'[w] = redo[w]
                \/ /\ redo[w] = "held" /\ redo'[w] = "asked"
                   /\ config.redo[w] \subseteq stored'[Landing(w)]
    PROVE  KeepsCarried /\ KeepsRedo
<1>1. KeepsCarried
  BY DEF KeepsCarried
<1>2. KeepsRedo
  <2> SUFFICES ASSUME NEW w \in Windows, MayRedo(w)
               PROVE  /\ redo'[w] = "held" =>
                           /\ phase'[w] \notin {"reading", "decoded"}
                           /\ \A l : l = Landing(w) => \A r \in config.redo[w] :
                                \/ r \in stored'[l] \/ r \in Coming(l)'
                                \/ redo[w] = "held" /\ r \notin Coming(l)
                      /\ redo'[w] = "asked" =>
                           redo[w] = "asked" \/ config.redo[w] \subseteq stored'[Landing(w)]
    BY DEF KeepsRedo
  <2>1. \A l : Coming(l)' = Coming(l)
    BY DEF Coming, Edges
  <2>2. redo[w] = "held" => phase[w] \notin {"reading", "decoded"}
    BY DEF IInv, RedoIsStored
  <2> QED
    BY <2>1, <2>2
<1> QED
  BY <1>1, <1>2

\* A round written to its own store is stored and published.
LEMMA FinishWriteKeeps ==
    ASSUME IInv, config' = config, NEW s \in Stores, NEW r, FinishWrite(s, r)
    PROVE  IInv'
<1>1. /\ s = OwnStore(r) /\ stored' = StoredAt(s, r) /\ published' = published \cup {r}
      /\ WakeWindows /\ redo' = Woken(r[1], stored') /\ outgoing' = outgoing
      /\ crossing' = crossing
  BY DEF FinishWrite
<1>2. /\ stored' = [x \in Stores |-> stored'[x]]
      /\ \A x \in Stores : stored[x] \subseteq stored'[x]
      /\ r \in HeldIn(s) => r \in stored'[s]
  BY <1>1, StoredAtFacts
<1>3. ASSUME NEW w \in Windows, phase[w] = "reading",
             NEW x \in Reads(w) \cap (published' \ published), OwnStore(x) = StoreOf(w)
      PROVE  x \in stored'[StoreOf(w)]
  <2>1. x = r /\ StoreOf(w) = s
    BY <1>1, <1>3
  <2>2. r \in HeldIn(s)
    BY <1>3, <2>1, HeldFacts DEF IsHolding
  <2> QED
    BY <1>2, <2>1, <2>2
<1>4. /\ KeepsHeld /\ KeepsReading /\ KeepsInput
      /\ phase' = [w \in Windows |-> phase'[w]]
      /\ \A w \in Windows : phase'[w] = phase[w]
            \/ (phase[w] = "reading" /\ phase'[w] = "requested")
  BY <1>1, <1>2, <1>3, LandingKeeps
<1>5. /\ redo' \in [Windows -> {"none", "held", "asked", "landed", "over"}]
      /\ \A w \in Windows : redo'[w] = redo[w]
            \/ /\ redo[w] = "held" /\ redo'[w] = "asked"
               /\ config.redo[w] \subseteq stored'[Landing(w)]
  BY <1>1, WokenFacts
<1>6. KeepsCarried /\ KeepsRedo
  BY <1>1, <1>4, <1>5, SubmitKeeps
<1>7. Types'
  BY <1>1, <1>2, <1>4, <1>5, SameSetting DEF IInv, Types
<1> QED
  BY <1>4, <1>6, <1>7, StepKeeps

\* A copy is stored, a memory round takes its slot: rounds are only added.
LEMMA AddedKeeps ==
    ASSUME IInv, config' = config, stored' = [x \in Stores |-> stored'[x]],
           \A x \in Stores : stored[x] \subseteq stored'[x],
           published' = published, WakeWindows \/ phase' = phase,
           redo' = redo, crossing' = crossing, outgoing' \subseteq config.memory
    PROVE  IInv'
<1>1. /\ KeepsHeld /\ KeepsReading /\ KeepsInput
      /\ phase' = [w \in Windows |-> phase'[w]]
      /\ \A w \in Windows : phase'[w] = phase[w]
            \/ (phase[w] = "reading" /\ phase'[w] = "requested")
  BY LandingKeeps
<1>2. KeepsCarried /\ KeepsRedo
  BY <1>1, SubmitKeeps
<1>3. Types'
  BY <1>1, SameSetting DEF IInv, Types
<1> QED
  BY <1>1, <1>2, <1>3, StepKeeps

\* Whatever is written.
LEMMA WriteKeeps ==
    ASSUME IInv, config' = config, NEW s \in Stores, Write(s)
    PROVE  IInv'
<1>1. PICK i \in DOMAIN onRoute[s] :
        \/ FinishWrite(s, onRoute[s][i])
        \/ FinishCopy(s, onRoute[s][i])
        \/ SendMemoryRoundOn(s, onRoute[s][i])
  BY DEF Write
<1> DEFINE r == onRoute[s][i]
<1> HIDE DEF r
<1>2. CASE FinishWrite(s, r)
  BY <1>2, FinishWriteKeeps
<1>3. CASE FinishCopy(s, r)
  <2>1. /\ stored' = StoredAt(s, r) /\ published' = published /\ WakeWindows
        /\ redo' = redo /\ crossing' = crossing /\ outgoing' = outgoing
    BY <1>3 DEF FinishCopy, ends, redos
  <2>2. /\ stored' = [x \in Stores |-> stored'[x]]
        /\ \A x \in Stores : stored[x] \subseteq stored'[x]
    BY <2>1, StoredAtFacts
  <2>3. outgoing' \subseteq config.memory
    BY <2>1 DEF IInv, Types
  <2> QED
    BY <2>1, <2>2, <2>3, AddedKeeps
<1>4. CASE SendMemoryRoundOn(s, r)
  <2>1. /\ r \in config.memory /\ stored' = [stored EXCEPT ![s] = @ \cup {r}]
        /\ outgoing' = outgoing \cup {r}
        /\ published' = published /\ phase' = phase /\ redo' = redo /\ crossing' = crossing
    BY <1>4 DEF SendMemoryRoundOn, redos
  <2>2. stored = [x \in Stores |-> stored[x]] /\ outgoing \subseteq config.memory
    BY DEF IInv, Types
  <2>3. /\ stored' = [x \in Stores |-> stored'[x]]
        /\ \A x \in Stores : stored[x] \subseteq stored'[x]
        /\ outgoing' \subseteq config.memory
    BY <2>1, <2>2
  <2> QED
    BY <2>1, <2>3, AddedKeeps
<1> QED
  BY <1>1, <1>2, <1>3, <1>4 DEF r

\* A memory round leaves: no window reads one.
LEMMA DeliverMemoryKeeps ==
    ASSUME IInv, config' = config, NEW r, DeliverMemory(r)
    PROVE  IInv'
<1>1. /\ r \in outgoing /\ outgoing' = outgoing \ {r}
      /\ stored' = [stored EXCEPT ![OwnStore(r)] = @ \ {r}]
      /\ published' = published /\ phase' = phase /\ redo' = redo /\ crossing' = crossing
  BY DEF DeliverMemory, redos
<1>2. r \in config.memory /\ stored = [x \in Stores |-> stored[x]]
  BY <1>1 DEF IInv, Types
<1>3. \A s : r \notin HeldIn(s)'
  <2>1. \A w \in Windows : r \notin Reads(w)
    BY <1>2, SettingFacts DEF IInv, Types
  <2> QED
    BY <2>1, SameSetting DEF HeldIn
<1>4. stored' = [x \in Stores |-> stored'[x]]
  BY <1>1, <1>2
<1>5. \A s \in Stores : stored[s] \ {r} \subseteq stored'[s]
  BY <1>1, <1>2
<1>6. KeepsHeld
  BY <1>3, <1>4, <1>5 DEF KeepsHeld
<1>7. KeepsReading /\ KeepsInput
  BY <1>1 DEF KeepsReading, KeepsInput
<1>8. KeepsCarried /\ KeepsRedo
  BY <1>1, SubmitKeeps
<1>9. Types'
  BY <1>1, <1>4, SameSetting DEF IInv, Types
<1> QED
  BY <1>6, <1>7, <1>8, <1>9, StepKeeps

-----------------------------------------------------------------------------
(* Regions land *)

\* What a store has once some rounds of a region landed in it.
LEMMA LandedFacts ==
    ASSUME IInv, NEW l \in Stores, NEW region \in Seq(Rounds), NEW n \in DOMAIN region
    PROVE  LET all == LandedAt(l, region, Len(region)) IN
           /\ all = [s \in Stores |-> all[s]]
           /\ \A s \in Stores : stored[s] \subseteq all[s]
           /\ \A s \in Stores : LandedAt(l, region, n)[s] \subseteq all[s]
           /\ Range(region) \cap HeldIn(l) \subseteq all[l]
<1> DEFINE all == LandedAt(l, region, Len(region))
           first == SubSeq(region, 1, n)
<1>1. stored = [s \in Stores |-> stored[s]]
  BY DEF IInv, Types
<1>2. SubSeq(region, 1, Len(region)) = region
  BY SubSeqProperties
<1>3. Range(first) \subseteq Range(region)
  <2>1. n \in Nat /\ n <= Len(region)
    BY LenProperties
  <2>2. /\ first \in Seq(Rounds) /\ DOMAIN first = 1 .. n
        /\ \A i \in 1 .. n : first[i] = region[i] /\ i \in DOMAIN region
    BY <2>1, LenProperties, SubSeqProperties
  <2> HIDE DEF first
  <2> QED
    BY <2>2 DEF Range
<1>4. all = [stored EXCEPT ![l] = @ \cup (Range(region) \cap HeldIn(l))]
  BY <1>2 DEF LandedAt
<1>5. LandedAt(l, region, n) = [stored EXCEPT ![l] = @ \cup (Range(first) \cap HeldIn(l))]
  BY DEF LandedAt
<1> HIDE DEF all, first
<1>6. /\ all = [s \in Stores |-> all[s]]
      /\ \A s \in Stores : stored[s] \subseteq all[s]
      /\ Range(region) \cap HeldIn(l) \subseteq all[l]
  BY <1>1, <1>4
<1>7. \A s \in Stores : LandedAt(l, region, n)[s] \subseteq all[s]
  BY <1>1, <1>3, <1>4, <1>5
<1> QED
  BY <1>6, <1>7 DEF all

\* A region lands: what a held redo reads of it is kept for it.
LEMMA LandRegionKeeps ==
    ASSUME IInv, config' = config, NEW e \in Edges, LandRegion(e)
    PROVE  IInv'
<1> DEFINE l == config.edges[e]
           region == Head(crossing[e])
<1>1. /\ crossing[e] # <<>> /\ crossing' = [crossing EXCEPT ![e] = Tail(@)]
      /\ stored' = LandedAt(l, region, Len(region))
      /\ redo' = [w \in Windows |->
            IF \E n \in DOMAIN region :
                Woken(region[n][1], LandedAt(l, region, n))[w] = "asked"
            THEN "asked" ELSE redo[w]]
      /\ published' = published /\ phase' = phase /\ outgoing' = outgoing
  BY DEF LandRegion, ends
<1>2. crossing \in [Edges -> Seq(Seq(Rounds))] /\ l \in Stores
  <2>1. l \in Range(config.edges)
    BY DEF Edges, Range
  <2>2. config \in Settings /\ crossing \in [Edges -> Seq(Seq(Rounds))]
    BY DEF IInv, Types
  <2>3. Range(config.edges) \subseteq Stores
    BY <2>2, SettingsAssumption DEF Stores
  <2> QED
    BY <2>1, <2>2, <2>3
<1>3. /\ region \in Seq(Rounds) /\ Tail(crossing[e]) \in Seq(Seq(Rounds))
      /\ Range(crossing[e]) = {region} \cup Range(Tail(crossing[e]))
  <2>1. crossing[e] \in Seq(Seq(Rounds))
    BY <1>2
  <2> QED
    BY <1>1, <2>1, HeadAndTail
<1> HIDE DEF l, region
<1>4. /\ stored' = [s \in Stores |-> stored'[s]]
      /\ \A s \in Stores : stored[s] \subseteq stored'[s]
      /\ Range(region) \cap HeldIn(l) \subseteq stored'[l]
  <2>1. CASE region = <<>>
    <3>1. Range(region) = {} /\ SubSeq(region, 1, Len(region)) = <<>>
      BY <2>1 DEF Range
    <3>2. stored = [s \in Stores |-> stored[s]]
      BY DEF IInv, Types
    <3> QED
      BY <1>1, <1>2, <2>1, <3>1, <3>2 DEF LandedAt
  <2>2. CASE region # <<>>
    <3>1. Len(region) \in DOMAIN region
      BY <1>3, <2>2, EmptySeq, LenProperties
    <3> QED
      BY <1>1, <1>2, <1>3, <3>1, LandedFacts
  <2> QED
    BY <2>1, <2>2
<1>5. ASSUME NEW w \in Windows, MayRedo(w), redo'[w] # redo[w]
      PROVE  redo[w] = "held" /\ redo'[w] = "asked" /\ config.redo[w] \subseteq stored'[Landing(w)]
  <2>1. PICK n \in DOMAIN region : Woken(region[n][1], LandedAt(l, region, n))[w] = "asked"
    BY <1>1, <1>5
  <2>2. redo'[w] = "asked"
    BY <1>1, <2>1
  <2>3. redo[w] = "held" /\ config.redo[w] \subseteq LandedAt(l, region, n)[Landing(w)]
    BY <1>5, <2>1, <2>2, WokenFacts
  <2>4. \A s \in Stores : LandedAt(l, region, n)[s] \subseteq stored'[s]
    BY <1>1, <1>2, <1>3, LandedFacts
  <2> QED
    BY <1>5, <2>2, <2>3, <2>4, SettingFacts DEF IInv, Types
<1>6. KeepsHeld
  BY <1>4 DEF KeepsHeld
<1>7. KeepsReading /\ KeepsInput
  BY <1>1 DEF KeepsReading, KeepsInput
<1>8. KeepsCarried
  BY <1>1, <1>5 DEF KeepsCarried
<1>9. ASSUME NEW w \in Windows, MayRedo(w), redo'[w] = "held", NEW r \in config.redo[w],
             NEW m, m = Landing(w), r \in Coming(m)
      PROVE  r \in stored'[m] \/ r \in Coming(m)'
  <2>1. PICK x \in Edges : /\ config.edges[x] = m
                           /\ \E q \in Range(crossing[x]) : r \in Range(q)
    BY <1>9, ComingFacts
  <2>2. PICK q \in Range(crossing[x]) : r \in Range(q)
    BY <2>1
  <2>3. CASE x = e /\ q = region
    <3>1. redo[w] = "held"
      BY <1>5, <1>9
    <3>2. phase[w] \notin {"reading", "decoded"}
      BY <1>9, <3>1 DEF IInv, RedoIsStored
    <3>3. r \in HeldIn(m)
      <4>1. r \in Reads(w)
        BY <1>9, SettingFacts DEF IInv, Types
      <4>2. IsHoldingForRedo(w)
        BY <1>9, <3>1, <3>2 DEF IsHoldingForRedo
      <4> QED
        BY <1>9, <4>1, <4>2, HeldFacts
    <3>4. m = l
      BY <2>1, <2>3 DEF l
    <3> QED
      BY <1>4, <2>2, <2>3, <3>3, <3>4
  <2>4. CASE ~ (x = e /\ q = region)
    <3>1. q \in Range(crossing'[x])
      BY <1>1, <1>2, <1>3, <2>2, <2>4
    <3>2. Edges' = Edges /\ config'.edges[x] = m
      BY <2>1, SameSetting
    <3> QED
      BY <2>2, <3>1, <3>2 DEF Coming
  <2> QED
    BY <2>3, <2>4
<1>10. KeepsRedo
  <2> SUFFICES ASSUME NEW w \in Windows, MayRedo(w)
               PROVE  /\ redo'[w] = "held" =>
                           /\ phase'[w] \notin {"reading", "decoded"}
                           /\ \A m : m = Landing(w) => \A r \in config.redo[w] :
                                \/ r \in stored'[m] \/ r \in Coming(m)'
                                \/ redo[w] = "held" /\ r \notin Coming(m)
                      /\ redo'[w] = "asked" =>
                           redo[w] = "asked" \/ config.redo[w] \subseteq stored'[Landing(w)]
    BY DEF KeepsRedo
  <2>1. redo'[w] = "held" => redo[w] = "held" /\ phase[w] \notin {"reading", "decoded"}
    BY <1>5 DEF IInv, RedoIsStored
  <2> QED
    BY <1>1, <1>5, <1>9, <2>1
<1>11. Types'
  <2>1. redo' \in [Windows -> {"none", "held", "asked", "landed", "over"}]
    BY <1>1 DEF IInv, Types
  <2>2. crossing' \in [Edges -> Seq(Seq(Rounds))]
    BY <1>1, <1>2, <1>3
  <2> QED
    BY <1>1, <1>4, <2>1, <2>2, SameSetting DEF IInv, Types
<1> QED
  BY <1>6, <1>7, <1>8, <1>10, <1>11, StepKeeps

-----------------------------------------------------------------------------
(* Redos are planned *)

\* A redo that is planned has its rounds, or those it lacks are on their way.
LEMMA PlanFacts ==
    ASSUME IInv, config' = config, stored' = stored, NEW w \in Windows, MayRedo(w), Plan(w)
    PROVE  /\ redo' \in [Windows -> {"none", "held", "asked", "landed", "over"}]
           /\ crossing' \in [Edges -> Seq(Seq(Rounds))]
           /\ \A m : Coming(m) \subseteq Coming(m)'
           /\ \A v \in Windows \ {w} : redo'[v] = redo[v]
                \/ /\ redo[v] = "held" /\ redo'[v] = "asked"
                   /\ config.redo[v] \subseteq stored'[Landing(v)]
           /\ \/ redo'[w] = "asked" /\ config.redo[w] \subseteq stored'[Landing(w)]
              \/ /\ redo'[w] = "held"
                 /\ \A m : m = Landing(w) => config.redo[w] \subseteq stored'[m] \cup Coming(m)'
<1> DEFINE lacking == config.redo[w] \ stored[Landing(w)]
           sent == lacking \ Coming(Landing(w))
           region == InReadOrder(Stream(w), sent)
<1>1. /\ redo' = IF lacking = {} THEN [redo EXCEPT ![w] = "asked"]
                 ELSE [Woken(Stream(w), stored) EXCEPT ![w] = "held"]
      /\ crossing' = IF sent = {} THEN crossing
                     ELSE [crossing EXCEPT ![StoreOf(w)] = Append(@, region)]
  BY DEF Plan
<1>2. /\ redo \in [Windows -> {"none", "held", "asked", "landed", "over"}]
      /\ crossing \in [Edges -> Seq(Seq(Rounds))] /\ config \in Settings
  BY DEF IInv, Types
<1>3. /\ config.redo[w] \subseteq Rounds /\ StoreOf(w) \in Edges
      /\ IsFiniteSet(Rounds) /\ \A r \in Rounds : r[2] \in Nat
  BY <1>2, SettingFacts
<1>4. region \in Seq(sent) /\ Range(region) = sent
  <2>1. IsFiniteSet(sent) /\ \A r \in sent : r[2] \in Nat
    BY <1>3, FS_Subset
  <2> HIDE DEF sent
  <2> QED
    BY <2>1, RegionFacts
<1>5. region \in Seq(Rounds)
  <2>1. sent \subseteq Rounds
    BY <1>3
  <2> HIDE DEF sent, region
  <2> QED
    BY <1>4, <2>1
<1> HIDE DEF region
<1>6. ASSUME NEW x \in Edges
      PROVE  /\ crossing'[x] \in Seq(Seq(Rounds))
             /\ Range(crossing[x]) \subseteq Range(crossing'[x])
             /\ sent # {} /\ x = StoreOf(w) => region \in Range(crossing'[x])
  <2>1. crossing[x] \in Seq(Seq(Rounds))
    BY <1>2
  <2>2. CASE sent # {} /\ x = StoreOf(w)
    <3>1. crossing'[x] = Append(crossing[x], region)
      BY <1>1, <1>2, <2>2
    <3>2. /\ Append(crossing[x], region) \in Seq(Seq(Rounds))
          /\ Range(Append(crossing[x], region)) = Range(crossing[x]) \cup {region}
      BY <1>5, <2>1, AppendFacts
    <3> QED
      BY <3>1, <3>2
  <2>3. CASE ~ (sent # {} /\ x = StoreOf(w))
    <3>1. crossing'[x] = crossing[x]
      BY <1>1, <1>2, <2>3
    <3> QED
      BY <2>1, <2>3, <3>1
  <2> QED
    BY <2>2, <2>3
<1>7. crossing' \in [Edges -> Seq(Seq(Rounds))]
  <2>1. crossing' = [x \in Edges |-> crossing'[x]]
    BY <1>1, <1>2
  <2> QED
    BY <1>6, <2>1
<1>8. ASSUME NEW m, NEW r \in Coming(m)
      PROVE  r \in Coming(m)'
  <2>1. PICK x \in Edges : /\ config.edges[x] = m
                           /\ \E q \in Range(crossing[x]) : r \in Range(q)
    BY <1>8, ComingFacts
  <2>2. \E q \in Range(crossing'[x]) : r \in Range(q)
    BY <1>6, <2>1
  <2>3. Edges' = Edges /\ config'.edges[x] = m
    BY <2>1, SameSetting
  <2> QED
    BY <2>2, <2>3 DEF Coming
<1>9. ASSUME NEW m, m = Landing(w), NEW r \in sent
      PROVE  r \in Coming(m)'
  <2>1. region \in Range(crossing'[StoreOf(w)]) /\ r \in Range(region)
    BY <1>3, <1>4, <1>6
  <2>2. Edges' = Edges /\ config'.edges[StoreOf(w)] = m
    BY <1>9, SameSetting DEF Landing
  <2> QED
    BY <1>3, <2>1, <2>2 DEF Coming
<1>10. redo' \in [Windows -> {"none", "held", "asked", "landed", "over"}]
  BY <1>1, <1>2, WokenFacts
<1>11. \A v \in Windows \ {w} : redo'[v] = redo[v]
                \/ /\ redo[v] = "held" /\ redo'[v] = "asked"
                   /\ config.redo[v] \subseteq stored'[Landing(v)]
  <2> HIDE DEF lacking
  <2>1. CASE lacking = {}
    BY <1>1, <1>2, <2>1
  <2>2. CASE lacking # {}
    <3>1. \A v \in Windows \ {w} : redo'[v] = Woken(Stream(w), stored)[v]
      BY <1>1, <2>2, WokenFacts
    <3> QED
      BY <3>1, WokenFacts
  <2> QED
    BY <2>1, <2>2
<1>12. \/ redo'[w] = "asked" /\ config.redo[w] \subseteq stored'[Landing(w)]
       \/ /\ redo'[w] = "held"
          /\ \A m : m = Landing(w) => config.redo[w] \subseteq stored'[m] \cup Coming(m)'
  <2>1. CASE lacking = {}
    BY <1>1, <1>2, <2>1
  <2>2. CASE lacking # {}
    <3>1. redo'[w] = "held"
      BY <1>1, <2>2, WokenFacts
    <3>2. ASSUME NEW m, m = Landing(w), NEW r \in config.redo[w]
          PROVE  r \in stored'[m] \cup Coming(m)'
      <4>1. r \in stored[m] \/ r \in Coming(m) \/ r \in sent
        BY <3>2
      <4> QED
        BY <1>8, <1>9, <3>2, <4>1
    <3> QED
      BY <3>1, <3>2
  <2> QED
    BY <2>1, <2>2
<1> QED
  BY <1>7, <1>8, <1>10, <1>11, <1>12

\* A redo is planned before its window's verdict, or by it.
LEMMA PlanKeeps ==
    ASSUME IInv, config' = config, stored' = stored, published' = published,
           outgoing' = outgoing, NEW w \in Windows, MayRedo(w), Plan(w), redo[w] = "none",
           phase[w] \in {"requested", "decoding"},
           phase' = phase \/ phase' = [phase EXCEPT ![w] = "escalated"]
    PROVE  IInv'
<1>1. phase = [v \in Windows |-> phase[v]] /\ stored = [s \in Stores |-> stored[s]]
  BY DEF IInv, Types
<1>2. /\ phase' = [v \in Windows |-> phase'[v]]
      /\ \A v \in Windows \ {w} : phase'[v] = phase[v]
      /\ phase'[w] = phase[w] \/ phase'[w] = "escalated"
  BY <1>1
<1>3. KeepsHeld
  BY <1>1 DEF KeepsHeld
<1>4. KeepsReading /\ KeepsInput
  BY <1>2 DEF KeepsReading, KeepsInput
<1>5. KeepsCarried
  <2>1. \A v \in Windows : v # w /\ redo'[v] \notin {"landed", "over"}
            => redo[v] \notin {"landed", "over"}
    BY PlanFacts
  <2> QED
    BY <1>2, <2>1 DEF KeepsCarried
<1>6. KeepsRedo
  <2> SUFFICES ASSUME NEW v \in Windows, MayRedo(v)
               PROVE  /\ redo'[v] = "held" =>
                           /\ phase'[v] \notin {"reading", "decoded"}
                           /\ \A m : m = Landing(v) => \A r \in config.redo[v] :
                                \/ r \in stored'[m] \/ r \in Coming(m)'
                                \/ redo[v] = "held" /\ r \notin Coming(m)
                      /\ redo'[v] = "asked" =>
                           redo[v] = "asked" \/ config.redo[v] \subseteq stored'[Landing(v)]
    BY DEF KeepsRedo
  <2>1. CASE v = w
    BY <1>2, <2>1, PlanFacts
  <2>2. CASE v # w
    <3>1. redo[v] = "held" => phase[v] \notin {"reading", "decoded"}
      BY DEF IInv, RedoIsStored
    <3>2. \A m : Coming(m) \subseteq Coming(m)'
      BY PlanFacts
    <3>3. redo'[v] = redo[v]
                \/ /\ redo[v] = "held" /\ redo'[v] = "asked"
                   /\ config.redo[v] \subseteq stored'[Landing(v)]
      BY <2>2, PlanFacts
    <3> QED
      BY <1>2, <2>2, <3>1, <3>2, <3>3
  <2> QED
    BY <2>1, <2>2
<1>7. Types'
  <2>1. /\ redo' \in [Windows -> {"none", "held", "asked", "landed", "over"}]
        /\ crossing' \in [Edges -> Seq(Seq(Rounds))]
    BY PlanFacts
  <2> QED
    BY <1>1, <1>2, <2>1, SameSetting DEF IInv, Types
<1> QED
  BY <1>3, <1>4, <1>5, <1>6, <1>7, StepKeeps

-----------------------------------------------------------------------------
(* Decodes take their input and end *)

\* Whatever a release lets go of, it keeps what is held for.
LEMMA ReleaseKeeps ==
    ASSUME config' = config, NEW w, Release(w)
    PROVE  KeepsHeld
<1>1. stored' = [s \in Stores |-> stored[s] \ (Reads(w) \ HeldIn(s)')]
  BY DEF Release
<1> QED
  BY <1>1 DEF KeepsHeld

\* A window goes on, and its redo with it.
LEMMA WindowGoesOn ==
    ASSUME IInv, KeepsHeld, published' = published, outgoing' = outgoing, crossing' = crossing,
           NEW w \in Windows,
           NEW p, phase' = [phase EXCEPT ![w] = p],
           p = phase[w] \/ (p \in {"decoding", "decoded"} /\ phase[w] # "reading"),
           p = "decoding" => phase[w] # "decoded",
           NEW q, redo' = [redo EXCEPT ![w] = q],
           q \in {redo[w], "landed", "over"},
           q = "held" => p # "decoded"
    PROVE  IInv'
<1>1. /\ phase = [v \in Windows |-> phase[v]]
      /\ redo \in [Windows -> {"none", "held", "asked", "landed", "over"}]
  BY DEF IInv, Types
<1>2. /\ phase' = [v \in Windows |-> phase'[v]] /\ phase'[w] = p
      /\ \A v \in Windows \ {w} : phase'[v] = phase[v]
  BY <1>1
<1>3. /\ redo' \in [Windows -> {"none", "held", "asked", "landed", "over"}] /\ redo'[w] = q
      /\ \A v \in Windows \ {w} : redo'[v] = redo[v]
  BY <1>1
<1>4. KeepsReading /\ KeepsInput
  BY <1>2 DEF KeepsReading, KeepsInput
<1>5. KeepsCarried
  BY <1>2, <1>3 DEF KeepsCarried
<1>6. KeepsRedo
  <2> SUFFICES ASSUME NEW v \in Windows, MayRedo(v)
               PROVE  /\ redo'[v] = "held" =>
                           /\ phase'[v] \notin {"reading", "decoded"}
                           /\ \A m : m = Landing(v) => \A r \in config.redo[v] :
                                \/ r \in stored'[m] \/ r \in Coming(m)'
                                \/ redo[v] = "held" /\ r \notin Coming(m)
                      /\ redo'[v] = "asked" =>
                           redo[v] = "asked" \/ config.redo[v] \subseteq stored'[Landing(v)]
    BY DEF KeepsRedo
  <2>1. redo[v] = "held" => phase[v] \notin {"reading", "decoded"}
    BY DEF IInv, RedoIsStored
  <2>2. \A m : Coming(m)' = Coming(m)
    BY DEF Coming, Edges, KeepsHeld
  <2>3. CASE v = w
    BY <1>2, <1>3, <2>1, <2>2, <2>3
  <2>4. CASE v # w
    BY <1>2, <1>3, <2>1, <2>2, <2>4
  <2> QED
    BY <2>3, <2>4
<1>7. Types'
  <2>1. config' = config /\ stored' = [s \in Stores |-> stored'[s]]
    BY DEF KeepsHeld
  <2> QED
    BY <1>2, <1>3, <2>1, SameSetting DEF IInv, Types
<1> QED
  BY <1>4, <1>5, <1>6, <1>7, StepKeeps

\* The states of a window and its redo are functions.
LEMMA StateFunctions ==
    ASSUME IInv, NEW w \in Windows
    PROVE  phase = [phase EXCEPT ![w] = phase[w]] /\ redo = [redo EXCEPT ![w] = redo[w]]
<1>1. phase = [v \in Windows |-> phase[v]] /\ redo = [v \in Windows |-> redo[v]]
  BY DEF IInv, Types
<1> QED
  BY <1>1

\* A decode takes its input, and its hold ends.
LEMMA TakeInputKeeps ==
    ASSUME IInv, config' = config, NEW w \in Windows, TakeInput(w)
    PROVE  IInv'
<1>1. /\ phase[w] = "requested" /\ phase' = [phase EXCEPT ![w] = "decoding"]
      /\ outgoing' = outgoing /\ published' = published /\ redo' = redo
      /\ crossing' = crossing /\ Release(w)
  BY DEF TakeInput, MayTakeInput, ends, redos
<1>2. redo' = [redo EXCEPT ![w] = redo[w]]
  BY <1>1, StateFunctions
<1>3. KeepsHeld
  BY <1>1, ReleaseKeeps
<1>4. /\ phase' = [phase EXCEPT ![w] = "decoding"]
      /\ phase[w] # "reading" /\ phase[w] # "decoded"
      /\ published' = published /\ outgoing' = outgoing /\ crossing' = crossing
  BY <1>1
<1> DEFINE p == "decoding"
           q == redo[w]
<1>5. /\ phase' = [phase EXCEPT ![w] = p] /\ redo' = [redo EXCEPT ![w] = q]
      /\ p = phase[w] \/ (p \in {"decoding", "decoded"} /\ phase[w] # "reading")
      /\ p = "decoding" => phase[w] # "decoded"
      /\ q \in {redo[w], "landed", "over"}
      /\ q = "held" => p # "decoded"
  BY <1>2, <1>4
<1> HIDE DEF p, q
<1> QED
  BY <1>3, <1>4, <1>5, WindowGoesOn

\* A result is kept: what its redo was held for goes too.
LEMMA KeepKeeps ==
    ASSUME IInv, config' = config, outgoing' = outgoing, published' = published,
           NEW w \in Windows, phase[w] = "decoding", Keep(w)
    PROVE  IInv'
<1>1. /\ phase' = [phase EXCEPT ![w] = "decoded"] /\ Release(w) /\ crossing' = crossing
      /\ \/ redo' = [redo EXCEPT ![w] = "over"]
         \/ redo[w] # "held" /\ redo' = [redo EXCEPT ![w] = redo[w]]
  BY DEF Keep
<1>2. KeepsHeld
  BY <1>1, ReleaseKeeps
<1>3. CASE redo' = [redo EXCEPT ![w] = "over"]
  BY <1>1, <1>2, <1>3, WindowGoesOn
<1>4. CASE redo[w] # "held" /\ redo' = [redo EXCEPT ![w] = redo[w]]
  BY <1>1, <1>2, <1>4, WindowGoesOn
<1> QED
  BY <1>1, <1>3, <1>4

\* A window escalates: its redo is planned, or was.
LEMMA EscalateKeeps ==
    ASSUME IInv, config' = config, outgoing' = outgoing, published' = published,
           NEW w \in Windows, phase[w] = "decoding", Escalate(w)
    PROVE  IInv'
<1>1. /\ MayRedo(w) /\ phase' = [phase EXCEPT ![w] = "escalated"] /\ stored' = stored
  BY DEF Escalate
<1>2. CASE redo[w] = "none"
  <2>1. Plan(w)
    BY <1>2 DEF Escalate
  <2> QED
    BY <1>1, <1>2, <2>1, PlanKeeps
<1>3. CASE redo[w] # "none"
  <2>1. redo' = redo /\ crossing' = crossing
    BY <1>3 DEF Escalate, redos
  <2>2. phase = [v \in Windows |-> phase[v]] /\ stored = [s \in Stores |-> stored[s]]
    BY DEF IInv, Types
  <2>3. /\ phase' = [v \in Windows |-> phase'[v]] /\ phase'[w] = "escalated"
        /\ \A v \in Windows \ {w} : phase'[v] = phase[v]
    BY <1>1, <2>2
  <2>4. KeepsHeld
    BY <1>1, <2>2 DEF KeepsHeld
  <2>5. KeepsReading /\ KeepsInput
    BY <2>3 DEF KeepsReading, KeepsInput
  <2>6. KeepsCarried
    BY <2>1, <2>3 DEF KeepsCarried
  <2>7. KeepsRedo
    <3>1. \A m : Coming(m)' = Coming(m)
      BY <2>1 DEF Coming, Edges
    <3>2. \A v \in Windows : MayRedo(v) /\ redo[v] = "held" => phase'[v] \notin {"reading", "decoded"}
      BY <2>3 DEF IInv, RedoIsStored
    <3> QED
      BY <1>1, <2>1, <3>1, <3>2 DEF KeepsRedo, IInv, RedoIsStored
  <2>8. Types'
    BY <1>1, <2>1, <2>2, <2>3, SameSetting DEF IInv, Types
  <2> QED
    BY <2>4, <2>5, <2>6, <2>7, <2>8, StepKeeps
<1> QED
  BY <1>2, <1>3

\* A verdict.
LEMMA EndDecodeKeeps ==
    ASSUME IInv, config' = config, NEW w \in Windows, EndDecode(w)
    PROVE  IInv'
<1>1. /\ phase[w] = "decoding" /\ outgoing' = outgoing /\ published' = published
      /\ Keep(w) \/ Escalate(w)
  BY DEF EndDecode, ends
<1> QED
  BY <1>1, KeepKeeps, EscalateKeeps

\* A deadline has the redo planned before the verdict.
LEMMA RescueKeeps ==
    ASSUME IInv, config' = config, NEW w \in Windows, Rescue(w)
    PROVE  IInv'
<1>1. /\ redo[w] = "none" /\ phase[w] \in {"requested", "decoding"} /\ Plan(w)
      /\ stored' = stored /\ published' = published /\ phase' = phase /\ outgoing' = outgoing
  BY DEF Rescue, MayTakeInput, ends
<1>2. MayRedo(w)
  BY SettingsAssumption DEF Rescue, MayRedo, IInv, Types
<1> QED
  BY <1>1, <1>2, PlanKeeps

\* A redo takes its input, and both stores let its rounds go.
LEMMA TakeRedoInputKeeps ==
    ASSUME IInv, config' = config, NEW w \in Windows, TakeRedoInput(w)
    PROVE  IInv'
<1>1. /\ redo' = [redo EXCEPT ![w] = "landed"] /\ phase' = phase /\ published' = published
      /\ outgoing' = outgoing /\ crossing' = crossing /\ Release(w)
  BY DEF TakeRedoInput, ends
<1>2. phase' = [phase EXCEPT ![w] = phase[w]]
  BY <1>1, StateFunctions
<1>3. KeepsHeld
  BY <1>1, ReleaseKeeps
<1> QED
  BY <1>1, <1>2, <1>3, WindowGoesOn, ZenonT(120)

\* A redo ends: its rounds were let go when it took them.
LEMMA EndRedoKeeps ==
    ASSUME IInv, config' = config, NEW w \in Windows, EndRedo(w)
    PROVE  IInv'
<1>1. /\ phase[w] \in {"escalated", "decoded"}
      /\ redo' = [redo EXCEPT ![w] = "over"] /\ phase' = [phase EXCEPT ![w] = "decoded"]
      /\ stored' = stored /\ published' = published /\ crossing' = crossing
      /\ outgoing' = outgoing
  BY DEF EndRedo, ends
<1>2. KeepsHeld
  BY <1>1 DEF KeepsHeld, IInv, Types
<1> QED
  BY <1>1, <1>2, WindowGoesOn

-----------------------------------------------------------------------------
(* The invariant holds *)

\* At the start nothing is published and no redo is planned.
LEMMA InitHolds ==
    ASSUME Init
    PROVE  IInv
<1> USE DEF Init
<1>1. config \in Settings /\ published = {} /\ outgoing = {}
  OBVIOUS
<1>2. \A w \in Windows : phase[w] = "reading" /\ redo[w] = "none"
  OBVIOUS
<1>3. Types
  <2>1. crossing \in [Edges -> Seq(Seq(Rounds))]
    OBVIOUS
  <2>2. stored = [s \in Stores |-> stored[s]] /\ phase = [w \in Windows |-> phase[w]]
    OBVIOUS
  <2>3. redo \in [Windows -> {"none", "held", "asked", "landed", "over"}]
    OBVIOUS
  <2> QED
    BY <1>1, <2>1, <2>2, <2>3 DEF Types
<1> QED
  BY <1>1, <1>2, <1>3 DEF IInv, ReadingIsStored, InputIsStored, RedoIsCarried, RedoIsStored

\* Every step keeps it.
LEMMA NextKeeps ==
    ASSUME IInv, [Next]_vars
    PROVE  IInv'
<1>1. CASE UNCHANGED vars
  BY <1>1, StageKeeps DEF vars, ends
<1>2. CASE Next
  <2>1. config' = config
    BY <1>2 DEF Next
  <2>2. CASE ExpectRound
    BY <2>1, <2>2, StageKeeps DEF ExpectRound, ends
  <2>3. CASE \E r \in Rounds : Add(r)
    BY <2>1, <2>3, StageKeeps DEF Add, ends
  <2>4. CASE \E r \in Rounds : FinishPacking(r)
    BY <2>1, <2>4, StageKeeps DEF FinishPacking, ends
  <2>5. CASE \E r \in Rounds : DeliverMemory(r)
    BY <2>1, <2>5, DeliverMemoryKeeps
  <2>6. CASE HandOn
    BY <2>1, <2>6, StageKeeps DEF HandOn, ends
  <2>7. CASE \E s \in Stores : Write(s)
    BY <2>1, <2>7, WriteKeeps
  <2>8. CASE Leave
    BY <2>1, <2>8, StageKeeps DEF Leave
  <2>9. CASE \E e \in Edges : LandRegion(e)
    BY <2>1, <2>9, LandRegionKeeps
  <2>10. CASE \E w \in Windows : TakeInput(w)
    BY <2>1, <2>10, TakeInputKeeps
  <2>11. CASE \E w \in Windows : EndDecode(w)
    BY <2>1, <2>11, EndDecodeKeeps
  <2>12. CASE \E w \in Windows : Rescue(w)
    BY <2>1, <2>12, RescueKeeps
  <2>13. CASE \E w \in Windows : TakeRedoInput(w)
    BY <2>1, <2>13, TakeRedoInputKeeps
  <2>14. CASE \E w \in Windows : EndRedo(w)
    BY <2>1, <2>14, EndRedoKeeps
  <2> QED
    BY <1>2, <2>2, <2>3, <2>4, <2>5, <2>6, <2>7, <2>8, <2>9, <2>10, <2>11, <2>12, <2>13, <2>14
       DEF Next
<1> QED
  BY <1>1, <1>2

\* What windows read is always in order: what was published for a window that
\* is not asked for, what one asked for reads, and what its redo reads (the
\* inductive invariant).
THEOREM ReadsAreInOrder == Spec => []IInv
<1>1. Init => IInv
  BY InitHolds
<1>2. IInv /\ [Next]_vars => IInv'
  BY NextKeeps
<1> QED
  BY <1>1, <1>2, PTL DEF Spec

\* A window that was asked for finds every round it reads in its own store
\* until its decode has them, and a redo where they land, or on their way
\* there while it is held (DecoderInputHold, release_round_if_unheld,
\* _hold and receive_region).
THEOREM RequestedInputIsAlwaysStored == Spec => []RequestedInputIsStored
<1>1. IInv => RequestedInputIsStored
  BY DEF IInv, InputIsStored, RedoIsCarried, RedoIsStored, RequestedInputIsStored
<1> QED
  BY <1>1, ReadsAreInOrder, PTL

-----------------------------------------------------------------------------
(* The invariant of the way of a round *)

\* What the QPU emitted.
Emitted == {config.emission[i] : i \in 1 .. emitted}

\* The rounds that are not handed on to the stores yet.
Before == Range(packingLine) \cup inAssembly

\* A round is in one place of the packing stage, and it was emitted.
StageIsInOrder ==
    /\ emitted \in 0 .. Len(config.emission)
    /\ whole \subseteq Emitted /\ expected \subseteq Emitted
    /\ packingLine \in Seq(Emitted) /\ IsInjective(packingLine)
    /\ inAssembly \subseteq Emitted /\ inAssembly \cap Range(packingLine) = {}
    /\ packing \subseteq inAssembly \cap whole
    /\ packed \subseteq inAssembly \cap whole
    /\ forming \in Seq(inAssembly \cap whole) /\ IsInjective(forming)
    /\ packing \cap packed = {}
    /\ Range(forming) \cap (packing \cup packed) = {}

\* A round is in the held line or on its way to its stores, once to each, and
\* to none but entry stores; a memory round only to its own.
IsInOrder(line, route, early, all) ==
    /\ line \in Seq(all) /\ IsInjective(line) /\ Range(line) \cap early = {}
    /\ route \in [Stores -> Seq(all)]
    /\ \A s \in Stores :
        /\ IsInjective(route[s])
        /\ Range(route[s]) \cap early = {} /\ Range(route[s]) \cap Range(line) = {}
        /\ \A r \in Range(route[s]) :
            s \in EntryStores /\ (r \in config.memory => s = OwnStore(r))
PathIsInOrder == IsInOrder(heldRounds, onRoute, Before, Emitted)

\* The rounds on the way to their own store.
OwnWrites(route) == {r \in Rounds : r \in Range(route[OwnStore(r)])}

\* What the transmitter counts is on the way, or its place is still to be
\* freed.
FlightIsCounted ==
    /\ inFlight \in Nat /\ leaving \in Nat
    /\ outgoing \subseteq config.memory \cap Rounds
    /\ Cardinality(OwnWrites(onRoute)) + leaving + Cardinality(outgoing) <= inFlight

\* A round is published only once it is past the lines, and a window asks for
\* its input only once it was told of all of it.
PublishedIsPast ==
    /\ published \subseteq Emitted
    /\ published \cap (Before \cup Range(heldRounds)) = {}
    /\ \A w \in Windows : phase[w] # "reading" => Reads(w) \subseteq published

\* An entry store has room for what is on its way to it.
EntryStoresHaveRoom ==
    \A s \in EntryStores : Bits(stored[s]) + Bits(Range(onRoute[s])) <= config.capacity[s]

\* What the redos of a landing store read.
RedoReads(l) ==
    UNION {config.redo[w] : w \in {x \in Windows : MayRedo(x) /\ Landing(x) = l}}

\* No round is carried to a landing store a second time, and what it keeps or
\* will be brought is what the redos that land there read.
IsCarriedApart(lines, kept) ==
    /\ \A e \in Edges : \A i \in DOMAIN lines[e] :
        /\ IsInjective(lines[e][i])
        /\ Range(lines[e][i]) \subseteq RedoReads(config.edges[e])
        /\ Range(lines[e][i]) \cap kept[config.edges[e]] = {}
    /\ \A e, f \in Edges : config.edges[e] = config.edges[f] =>
        \A i \in DOMAIN lines[e], j \in DOMAIN lines[f] :
            (e # f \/ i # j) => Range(lines[e][i]) \cap Range(lines[f][j]) = {}
    /\ \A s \in Stores \ EntryStores : kept[s] \subseteq RedoReads(s)
RegionsAreApart == IsCarriedApart(crossing, stored)

\* What a window's hold and decode may be.
PhasesAreKnown ==
    phase \in [Windows -> {"reading", "requested", "decoding", "escalated", "decoded"}]

\* A store can never take a round: what is kept until it enters stays.
Knotted(r, s) ==
    Bits({r}) + Bits((UNION {Reads(w) : w \in KeptWaiting(s)})
                        \cap (stored[s] \cup Range(onRoute[s])))
        > config.capacity[s]

\* Once the run has stopped, a store refuses the head of the line for ever.
KnotStays ==
    stopped =>
        /\ heldRounds # <<>>
        /\ \E s \in Sides[Head(heldRounds)] : Knotted(Head(heldRounds), s)

-----------------------------------------------------------------------------
(* Stores and bits *)

\* What the assumption says of stores, bits and emission.
LEMMA StoreFacts ==
    ASSUME config \in Settings
    PROVE  /\ EntryStores \subseteq Stores
           /\ \A s \in Stores : config.capacity[s] \in Nat
           /\ \A r \in Rounds : /\ OwnStore(r) \in EntryStores /\ config.bits[r] \in Nat
                                /\ config.bits[r] > 0
           /\ \A e \in Edges : e \in EntryStores
                /\ config.edges[e] \in Stores /\ config.edges[e] \notin EntryStores
           /\ IsInjective(config.emission) /\ config.places \in Nat /\ config.places > 0
<1>1. /\ \A s \in DOMAIN config.own : config.own[s] \in Stores
      /\ DOMAIN config.edges \subseteq EntryStores
      /\ Range(config.edges) \subseteq Stores \ EntryStores
      /\ config.bits \in [Rounds -> Nat \ {0}]
  BY SettingsAssumption DEF Stores, EntryStores, Rounds
<1>2. EntryStores \subseteq Stores
  BY <1>1 DEF EntryStores, Range
<1>3. ASSUME NEW r \in Rounds
      PROVE  OwnStore(r) \in EntryStores
  <2>1. config.emission \in Seq((DOMAIN config.own) \X (Nat \ {0}))
    BY SettingsAssumption
  <2>2. r \in (DOMAIN config.own) \X (Nat \ {0})
    <3> DEFINE A == (DOMAIN config.own) \X (Nat \ {0})
    <3> HIDE DEF A
    <3>1. config.emission \in Seq(A)
      BY <2>1 DEF A
    <3>2. Range(config.emission) \subseteq A
      BY <3>1, RangeFacts
    <3> QED
      BY <3>2 DEF A, Rounds
  <2>3. r[1] \in DOMAIN config.own
    BY <2>2
  <2> QED
    BY <2>3 DEF OwnStore, EntryStores, Range
<1>4. \A s \in Stores : config.capacity[s] \in Nat
  BY SettingsAssumption DEF Stores
<1>5. \A r \in Rounds : config.bits[r] \in Nat /\ config.bits[r] > 0
  BY <1>1
<1>6. ASSUME NEW e \in Edges
      PROVE  e \in EntryStores /\ config.edges[e] \in Stores /\ config.edges[e] \notin EntryStores
  <2>1. config.edges[e] \in Range(config.edges)
    BY DEF Edges, Range
  <2> QED
    BY <1>1, <2>1 DEF Edges
<1>7. IsInjective(config.emission) /\ config.places \in Nat /\ config.places > 0
  <2>1. IsInjective(config.emission)
    BY SettingsAssumption, Zenon
  <2>2. config.places \in Nat \ {0}
    BY SettingsAssumption
  <2> QED
    BY <2>1, <2>2
<1> QED
  BY <1>2, <1>3, <1>4, <1>5, <1>6, <1>7

\* The bits of some rounds are their weight.
LEMMA BitsFacts ==
    ASSUME config \in Settings, NEW S \in SUBSET Rounds
    PROVE  /\ Bits(S) = Weight(config.bits, S) /\ Bits(S) \in Nat /\ IsFiniteSet(S)
           /\ \A r \in S : config.bits[r] \in Nat
           /\ \A T \in SUBSET S : Bits(T) <= Bits(S)
           /\ Bits({}) = 0 /\ \A r \in Rounds : Bits({r}) = config.bits[r]
<1>1. Bits(S) = Weight(config.bits, S)
  BY DEF Bits, Weight, Grains
<1>2. \A T \in SUBSET S : Bits(T) = Weight(config.bits, T)
  BY DEF Bits, Weight, Grains
<1>3. IsFiniteSet(S)
  BY SettingFacts, FS_Subset
<1>4. \A r \in S : config.bits[r] \in Nat
  BY StoreFacts
<1>5. Bits(S) \in Nat
  BY <1>1, <1>3, <1>4, WeightFacts
<1>6. ASSUME NEW T \in SUBSET S
      PROVE  Bits(T) <= Bits(S)
  <2>1. Weight(config.bits, T) <= Weight(config.bits, S)
    BY <1>3, <1>4, WeightOfPart
  <2> QED
    BY <1>1, <1>2, <2>1
<1>7. ASSUME NEW r \in Rounds
      PROVE  Bits({}) = 0 /\ Bits({r}) = config.bits[r]
  <2>1. config.bits[r] \in Nat
    BY StoreFacts
  <2>2. Weight(config.bits, {}) = 0 /\ Weight(config.bits, {r}) = config.bits[r]
    BY <2>1, WeightOfOne
  <2> QED
    BY <2>2 DEF Bits, Weight, Grains
<1>8. Bits({}) = 0
  <2>1. UNION {{r} \X (1 .. config.bits[r]) : r \in {}} = {}
    OBVIOUS
  <2> QED
    BY <2>1, FS_EmptySet DEF Bits
<1> QED
  BY <1>1, <1>3, <1>4, <1>5, <1>6, <1>7, <1>8

\* Two sets of rounds have as many bits as their union, or more.
LEMMA BitsOfTwo ==
    ASSUME config \in Settings, NEW S \in SUBSET Rounds, NEW T \in SUBSET Rounds
    PROVE  /\ Bits(S) \in Nat /\ Bits(T) \in Nat /\ Bits(S \cup T) \in Nat
           /\ Bits(S \cup T) <= Bits(S) + Bits(T)
           /\ S \cap T = {} => Bits(S \cup T) = Bits(S) + Bits(T)
<1>1. IsFiniteSet(S) /\ IsFiniteSet(T)
  BY BitsFacts
<1>2. /\ \A x \in S : config.bits[x] \in Nat
      /\ \A x \in T : config.bits[x] \in Nat
  BY BitsFacts
<1>3. /\ Weight(config.bits, S) \in Nat /\ Weight(config.bits, T) \in Nat
      /\ Weight(config.bits, S \cup T) \in Nat
      /\ Weight(config.bits, S \cup T) <= Weight(config.bits, S) + Weight(config.bits, T)
      /\ S \cap T = {} => Weight(config.bits, S \cup T)
                            = Weight(config.bits, S) + Weight(config.bits, T)
  BY <1>1, <1>2, WeightOfTwo
<1>4. \A U : Bits(U) = Weight(config.bits, U)
  BY DEF Bits, Weight, Grains
<1> QED
  BY <1>3, <1>4

\* The stores a round goes to are entry stores, its own among them; a memory
\* round goes to its own only.
LEMMA SidesFacts ==
    ASSUME config \in Settings, config' = config, NEW r \in Rounds
    PROVE  /\ Sides'[r] \subseteq EntryStores /\ OwnStore(r) \in Sides'[r]
           /\ r \in config.memory => Sides'[r] = {OwnStore(r)}
           /\ Sides[r] \subseteq EntryStores /\ OwnStore(r) \in Sides[r]
<1>1. Sides'[r] = {OwnStore(r)} \cup {s \in EntryStores : r \in HeldIn(s)'}
  BY SameSetting DEF Sides
<1>2. Sides[r] = {OwnStore(r)} \cup {s \in EntryStores : r \in HeldIn(s)}
  BY DEF Sides
<1>3. ASSUME r \in config.memory, NEW s
      PROVE  r \notin HeldIn(s)'
  <2>1. \A w \in Windows : r \notin Reads(w)
    BY <1>3, SettingFacts
  <2> QED
    BY <2>1, SameSetting DEF HeldIn
<1> QED
  BY <1>1, <1>2, <1>3, StoreFacts

-----------------------------------------------------------------------------
(* Rounds enter their stores' routes *)

\* What is sent of some rounds to each store.
LEMMA SentFacts ==
    ASSUME NEW all, NEW rounds \in Seq(all), IsInjective(rounds), NEW sides,
           NEW route \in [Stores -> Seq(all)],
           \A s \in Stores : IsInjective(route[s]) /\ Range(route[s]) \cap Range(rounds) = {}
    PROVE  /\ Sent(rounds, route, sides) \in [Stores -> Seq(all)]
           /\ \A s \in Stores :
                /\ IsInjective(Sent(rounds, route, sides)[s])
                /\ Range(Sent(rounds, route, sides)[s])
                    = Range(route[s]) \cup {r \in Range(rounds) : s \in sides[r]}
<1> DEFINE A == {p \in all \X all : p[1] # p[2]}
           writes(s) == [i \in DOMAIN rounds |->
                            IF s \in sides[rounds[i]] THEN <<rounds[i]>> ELSE <<>>]
<1>1. /\ Len(rounds) \in Nat /\ DOMAIN rounds = 1 .. Len(rounds)
      /\ \A i \in DOMAIN rounds : rounds[i] \in all
  BY LenProperties
<1>2. ASSUME NEW s \in Stores
      PROVE  /\ FlattenSeq(writes(s)) \in Seq(all) /\ IsInjective(FlattenSeq(writes(s)))
             /\ Range(FlattenSeq(writes(s))) = {r \in Range(rounds) : s \in sides[r]}
  <2> DEFINE q == writes(s)
  <2>1. ASSUME NEW i \in DOMAIN rounds
        PROVE  /\ q[i] \in Seq(all) /\ Len(q[i]) \in {0, 1}
               /\ Range(q[i]) = IF s \in sides[rounds[i]] THEN {rounds[i]} ELSE {}
    <3>1. CASE s \in sides[rounds[i]]
      <4>1. q[i] = <<rounds[i]>>
        BY <3>1
      <4> HIDE DEF q
      <4>2. <<rounds[i]>> \in Seq(all) /\ Len(<<rounds[i]>>) = 1
        BY <1>1
      <4>3. Range(<<rounds[i]>>) = {rounds[i]}
        BY DEF Range
      <4> QED
        BY <3>1, <4>1, <4>2, <4>3
    <3>2. CASE s \notin sides[rounds[i]]
      <4>1. q[i] = <<>>
        BY <3>2
      <4> HIDE DEF q
      <4>2. <<>> \in Seq(all) /\ Len(<<>>) = 0 /\ Range(<<>>) = {}
        BY DEF Range
      <4> QED
        BY <3>2, <4>1, <4>2
    <3> QED
      BY <3>1, <3>2
  <2>2. q \in Seq(Seq(all)) /\ Len(q) = Len(rounds)
    <3>1. q \in [1 .. Len(rounds) -> Seq(all)]
      BY <1>1, <2>1
    <3> HIDE DEF q
    <3> QED
      BY <1>1, <3>1, LenProperties
  <2> HIDE DEF q
  <2>3. \A i \in 1 .. Len(q) : PairsIn(q[i], A)
    <3> SUFFICES ASSUME NEW i \in DOMAIN rounds, NEW j \in 1 .. Len(q[i]), NEW k \in 1 .. Len(q[i]),
                        j < k
                 PROVE  FALSE
      BY <1>1, <2>2 DEF PairsIn
    <3>1. CASE Len(q[i]) = 0
      BY <3>1
    <3>2. CASE Len(q[i]) = 1
      <4>1. j = 1 /\ k = 1
        BY <3>2
      <4> QED
        BY <4>1
    <3> QED
      BY <2>1, <3>1, <3>2
  <2>4. \A i, j \in 1 .. Len(q) : i < j =>
            \A x \in Range(q[i]), y \in Range(q[j]) : << x, y >> \in A
    <3> SUFFICES ASSUME NEW i \in DOMAIN rounds, NEW j \in DOMAIN rounds, i < j,
                        NEW x \in Range(q[i]), NEW y \in Range(q[j])
                 PROVE  << x, y >> \in A
      BY <1>1, <2>2
    <3>1. x = rounds[i] /\ y = rounds[j] /\ i # j
      <4>1. Range(q[i]) \subseteq {rounds[i]} /\ Range(q[j]) \subseteq {rounds[j]}
        BY <2>1, Zenon
      <4>2. i # j
        BY <1>1
      <4> QED
        BY <4>1, <4>2
    <3>2. rounds[i] # rounds[j]
      BY <3>1 DEF IsInjective
    <3> QED
      BY <1>1, <3>1, <3>2
  <2> HIDE DEF A
  <2>5. /\ FlattenSeq(q) \in Seq(all)
        /\ Range(FlattenSeq(q)) = UNION {Range(q[i]) : i \in 1 .. Len(q)}
        /\ PairsIn(FlattenSeq(q), A)
    BY <2>2, <2>3, <2>4, FlattenFacts
  <2> DEFINE f == FlattenSeq(q)
  <2> HIDE DEF f
  <2>6. IsInjective(f)
    <3>1. Len(f) \in Nat /\ DOMAIN f = 1 .. Len(f)
      BY <2>5, LenProperties DEF f
    <3>2. \A i, j \in 1 .. Len(f) : i < j => f[i] # f[j]
      BY <2>5 DEF PairsIn, A, f
    <3>3. ASSUME NEW i \in 1 .. Len(f), NEW j \in 1 .. Len(f), f[i] = f[j]
          PROVE  i = j
      <4>1. ~ (i < j) /\ ~ (j < i)
        BY <3>2, <3>3
      <4> QED
        BY <3>1, <4>1
    <3> QED
      BY <3>1, <3>3 DEF IsInjective
  <2>7. Range(f) = {r \in Range(rounds) : s \in sides[r]}
    <3>1. \A r : r \in Range(f) <=> \E i \in DOMAIN rounds : r \in Range(q[i])
      BY <1>1, <2>2, <2>5 DEF f
    <3>2. \A r : r \in Range(f) <=> \E i \in DOMAIN rounds : s \in sides[rounds[i]] /\ r = rounds[i]
      <4> SUFFICES ASSUME NEW r, NEW i \in DOMAIN rounds
                   PROVE  r \in Range(q[i]) <=> s \in sides[rounds[i]] /\ r = rounds[i]
        BY <3>1
      <4>1. Range(q[i]) = IF s \in sides[rounds[i]] THEN {rounds[i]} ELSE {}
        BY <2>1, Zenon
      <4> QED
        BY <4>1
    <3> QED
      BY <3>2, ZenonT(180) DEF Range
  <2> QED
    BY <2>5, <2>6, <2>7 DEF f, q
<1>3. Sent(rounds, route, sides) = [s \in Stores |-> route[s] \o FlattenSeq(writes(s))]
  BY DEF Sent
<1> HIDE DEF writes
<1>4. ASSUME NEW s \in Stores
      PROVE  /\ Sent(rounds, route, sides)[s] \in Seq(all)
             /\ IsInjective(Sent(rounds, route, sides)[s])
             /\ Range(Sent(rounds, route, sides)[s])
                 = Range(route[s]) \cup {r \in Range(rounds) : s \in sides[r]}
  <2> DEFINE a == route[s]
             b == FlattenSeq(writes(s))
  <2>1. a \in Seq(all) /\ b \in Seq(all) /\ IsInjective(a) /\ IsInjective(b)
    BY <1>2
  <2>2. Range(a) \cap Range(b) = {} /\ Range(b) = {r \in Range(rounds) : s \in sides[r]}
    BY <1>2
  <2>3. Sent(rounds, route, sides)[s] = a \o b
    BY <1>3
  <2> HIDE DEF a, b
  <2>4. a \o b \in Seq(all) /\ Range(a \o b) = Range(a) \cup Range(b)
    BY <2>1, ConcatFacts
  <2>5. IsInjective(a \o b)
    BY <2>1, <2>2, ConcatApart
  <2> QED
    BY <2>2, <2>3, <2>4, <2>5 DEF a
<1>5. Sent(rounds, route, sides) \in [Stores -> Seq(all)]
  BY <1>3, <1>4
<1> QED
  BY <1>4, <1>5

\* The line is retried: its first rounds enter, as many as find room.
LEMMA RetryHeldFacts ==
    ASSUME NEW all, NEW line \in Seq(all), NEW route, NEW flying,
           RetryHeld(line, route, flying)
    PROVE  \E n \in 0 .. Len(line) :
            /\ heldRounds' = SubSeq(line, n + 1, Len(line))
            /\ onRoute' = Sent(SubSeq(line, 1, n), route, Sides')
            /\ inFlight' = flying + n
            /\ stopped' = (stopped \/ IsKnot')
            /\ n # 0 => \A s \in EntryStores : Fits(stored', onRoute', s)
            /\ n # Len(line) => \E s \in EntryStores :
                    ~ Fits(stored', Sent(SubSeq(line, 1, n + 1), route, Sides'), s)
<1> DEFINE Fit(n) == \A s \in EntryStores :
                Fits(stored', Sent(SubSeq(line, 1, n), route, Sides'), s)
           feasible == {n \in 1 .. Len(line) : Fit(n)}
           n == Max({0} \cup feasible)
<1>1. /\ heldRounds' = SubSeq(line, n + 1, Len(line))
      /\ onRoute' = Sent(SubSeq(line, 1, n), route, Sides')
      /\ inFlight' = flying + n
      /\ stopped' = (stopped \/ IsKnot')
  BY DEF RetryHeld
<1>2. Len(line) \in Nat
  BY LenProperties
<1> DEFINE S == {0} \cup feasible
<1>3. n = Max(S)
  OBVIOUS
<1>4. S \subseteq 0 .. Len(line) /\ 0 \in S
  BY <1>2
<1>5. \A k \in S : k # 0 => Fit(k)
  OBVIOUS
<1>6. \A k \in 1 .. Len(line) : Fit(k) => k \in S
  OBVIOUS
<1> HIDE DEF Fit, feasible, n, S
<1>7. n \in S /\ \A k \in S : k <= n
  <2>1. IsFiniteSet(0 .. Len(line))
    BY <1>2, FS_Interval
  <2>2. IsFiniteSet(S)
    BY <1>4, <2>1, FS_Subset
  <2>3. \A k \in S : k \in Int
    BY <1>2, <1>4
  <2> QED
    BY <1>3, <1>4, <2>2, <2>3, MaxFacts
<1>8. n \in 0 .. Len(line)
  BY <1>4, <1>7
<1>9. ASSUME n # 0
      PROVE  \A s \in EntryStores : Fits(stored', onRoute', s)
  <2>1. Fit(n)
    BY <1>5, <1>7, <1>9
  <2> QED
    BY <1>1, <2>1 DEF Fit
<1>10. ASSUME n # Len(line)
       PROVE  \E s \in EntryStores :
                    ~ Fits(stored', Sent(SubSeq(line, 1, n + 1), route, Sides'), s)
  <2>1. n + 1 \in 1 .. Len(line) /\ ~ (n + 1 <= n)
    BY <1>2, <1>8, <1>10
  <2>2. ~ Fit(n + 1)
    BY <1>6, <1>7, <2>1
  <2> QED
    BY <2>2 DEF Fit
<1> QED
  BY <1>1, <1>8, <1>9, <1>10

\* Some of the rounds of a line have entered.
HaveEntered(line, route, flying) ==
    \E n \in 0 .. Len(line) :
        /\ Len(heldRounds') = Len(line) - n /\ inFlight' = flying + n
        /\ Cardinality(OwnWrites(onRoute')) <= Cardinality(OwnWrites(route)) + n

\* Whoever retries the line, the rounds stay in order.
LEMMA RetryKeepsPath ==
    ASSUME config \in Settings, config' = config, NEW early, NEW all \in SUBSET Rounds,
           NEW line, NEW route, IsInOrder(line, route, early, all), NEW flying \in Nat,
           RetryHeld(line, route, flying)
    PROVE  /\ IsInOrder(heldRounds', onRoute', early, all)
           /\ Range(heldRounds') \subseteq Range(line)
           /\ HaveEntered(line, route, flying)
           /\ (\A s \in EntryStores : Fits(stored', route, s))
                => \A s \in EntryStores : Fits(stored', onRoute', s)
           /\ stopped \in BOOLEAN => stopped' \in BOOLEAN
<1>1. /\ line \in Seq(all) /\ IsInjective(line) /\ Range(line) \cap early = {}
      /\ route \in [Stores -> Seq(all)]
      /\ \A s \in Stores :
        /\ IsInjective(route[s])
        /\ Range(route[s]) \cap early = {} /\ Range(route[s]) \cap Range(line) = {}
        /\ \A r \in Range(route[s]) :
            s \in EntryStores /\ (r \in config.memory => s = OwnStore(r))
  BY DEF IsInOrder
<1>2. PICK n \in 0 .. Len(line) :
            /\ heldRounds' = SubSeq(line, n + 1, Len(line))
            /\ onRoute' = Sent(SubSeq(line, 1, n), route, Sides')
            /\ inFlight' = flying + n
            /\ stopped' = (stopped \/ IsKnot')
            /\ n # 0 => \A s \in EntryStores : Fits(stored', onRoute', s)
  BY <1>1, RetryHeldFacts
<1> DEFINE a == SubSeq(line, 1, n)
           b == SubSeq(line, n + 1, Len(line))
<1>3. /\ a \in Seq(all) /\ Len(a) = n /\ b \in Seq(all) /\ Len(b) = Len(line) - n
      /\ IsInjective(a) /\ IsInjective(b)
      /\ Range(a) \cap Range(b) = {} /\ Range(a) \cup Range(b) = Range(line)
  BY <1>1, SplitFacts, SplitApart
<1>4. heldRounds' = b /\ onRoute' = Sent(a, route, Sides')
  BY <1>2
<1> HIDE DEF a, b
<1>5. \A s \in Stores : IsInjective(route[s]) /\ Range(route[s]) \cap Range(a) = {}
  BY <1>1, <1>3
<1>6. /\ onRoute' \in [Stores -> Seq(all)]
      /\ \A s \in Stores :
            /\ IsInjective(onRoute'[s])
            /\ Range(onRoute'[s]) = Range(route[s]) \cup {r \in Range(a) : s \in Sides'[r]}
  BY <1>1, <1>3, <1>4, <1>5, SentFacts
<1>7. Range(a) \subseteq Rounds /\ \A s \in Stores : Range(route[s]) \subseteq Rounds
  <2>1. Range(a) \subseteq all
    BY <1>3, RangeFacts
  <2>2. ASSUME NEW s \in Stores
        PROVE  Range(route[s]) \subseteq all
    <3>1. route[s] \in Seq(all)
      BY <1>1
    <3> QED
      BY <3>1, RangeFacts
  <2> QED
    BY <2>1, <2>2
<1>8. ASSUME NEW s \in Stores, NEW r \in Range(onRoute'[s])
      PROVE  s \in EntryStores /\ (r \in config.memory => s = OwnStore(r))
  <2>1. CASE r \in Range(route[s])
    BY <1>1, <2>1
  <2>2. CASE r \in Range(a) /\ s \in Sides'[r]
    BY <1>7, <2>2, SidesFacts
  <2> QED
    BY <1>6, <2>1, <2>2
<1>9. IsInOrder(heldRounds', onRoute', early, all)
  <2>1. /\ heldRounds' \in Seq(all) /\ IsInjective(heldRounds')
        /\ Range(heldRounds') \cap early = {}
    BY <1>1, <1>3, <1>4
  <2>2. \A s \in Stores : /\ Range(onRoute'[s]) \cap early = {}
                          /\ Range(onRoute'[s]) \cap Range(heldRounds') = {}
    BY <1>1, <1>3, <1>4, <1>6
  <2> QED
    BY <1>6, <1>8, <2>1, <2>2 DEF IsInOrder
<1>10. Cardinality(OwnWrites(onRoute')) <= Cardinality(OwnWrites(route)) + n
  <2> DEFINE A == OwnWrites(onRoute')
             B == OwnWrites(route)
  <2>1. A \subseteq B \cup Range(a)
    BY <1>6, StoreFacts DEF OwnWrites
  <2>2. IsFiniteSet(B) /\ IsFiniteSet(Range(a))
    <3>1. B \subseteq Rounds /\ IsFiniteSet(Rounds)
      BY SettingFacts DEF OwnWrites
    <3> QED
      BY <1>3, <3>1, RangeFacts, FS_Subset
  <2>3. Cardinality(Range(a)) \in Nat /\ Cardinality(Range(a)) <= n
    BY <1>3, RangeFacts
  <2> HIDE DEF A, B
  <2>4. /\ IsFiniteSet(B \cup Range(a)) /\ Cardinality(B) \in Nat
        /\ Cardinality(B \cup Range(a)) \in Nat
        /\ Cardinality(B \cup Range(a)) <= Cardinality(B) + Cardinality(Range(a))
    <3>1. IsFiniteSet(B \cup Range(a)) /\ IsFiniteSet(B \cap Range(a))
      BY <2>2, FS_Union, FS_Subset
    <3>2. /\ Cardinality(B \cup Range(a)) = Cardinality(B) + Cardinality(Range(a))
                                            - Cardinality(B \cap Range(a))
      BY <2>2, FS_Union
    <3>3. /\ Cardinality(B) \in Nat /\ Cardinality(B \cap Range(a)) \in Nat
          /\ Cardinality(B \cup Range(a)) \in Nat
      BY <2>2, <3>1, FS_CardinalityType
    <3> QED
      BY <2>3, <3>1, <3>2, <3>3
  <2>5. Cardinality(A) \in Nat /\ Cardinality(A) <= Cardinality(B \cup Range(a))
    BY <2>1, <2>4, FS_Subset, FS_CardinalityType
  <2> QED
    BY <1>2, <2>3, <2>4, <2>5 DEF A, B
<1>11. ASSUME \A s \in EntryStores : Fits(stored', route, s), NEW s \in EntryStores
       PROVE  Fits(stored', onRoute', s)
  <2>1. CASE n # 0
    BY <1>2, <2>1
  <2>2. CASE n = 0
    <3>1. Range(a) = {}
      <4>1. DOMAIN a = {}
        BY <1>3, <2>2, LenProperties
      <4> QED
        BY <4>1 DEF Range
    <3>2. Range(onRoute'[s]) = Range(route[s])
      BY <1>6, <3>1, StoreFacts
    <3>3. Fits(stored', route, s)
      BY <1>11
    <3> QED
      BY <3>2, <3>3 DEF Fits
  <2> QED
    BY <2>1, <2>2
<1>12. stopped \in BOOLEAN => stopped' \in BOOLEAN
  BY <1>2
<1>13. HaveEntered(line, route, flying)
  BY <1>2, <1>3, <1>4, <1>10 DEF HaveEntered
<1> QED
  BY <1>1, <1>3, <1>4, <1>9, <1>11, <1>12, <1>13

-----------------------------------------------------------------------------
(* The packing stage *)

\* The rounds emitted are rounds of the run.
LEMMA EmittedFacts ==
    ASSUME config \in Settings, emitted \in 0 .. Len(config.emission)
    PROVE  /\ Emitted \subseteq Rounds /\ IsFiniteSet(Emitted)
           /\ \A i \in 1 .. emitted : config.emission[i] \in Rounds
<1>1. config.emission \in Seq((DOMAIN config.own) \X (Nat \ {0}))
  BY SettingsAssumption
<1>2. Len(config.emission) \in Nat /\ DOMAIN config.emission = 1 .. Len(config.emission)
  BY <1>1, LenProperties
<1>3. \A i \in 1 .. emitted : config.emission[i] \in Rounds
  BY <1>2 DEF Rounds, Range
<1>4. Emitted \subseteq Rounds
  BY <1>3 DEF Emitted
<1> QED
  BY <1>3, <1>4, SettingFacts, FS_Subset

\* A step that leaves the stage alone leaves it in order.
LEMMA StageStays ==
    ASSUME StageIsInOrder, config' = config, UNCHANGED stage
    PROVE  StageIsInOrder' /\ Before' = Before /\ Emitted' = Emitted
<1>1. Emitted' = Emitted /\ Before' = Before
  BY DEF stage, Emitted, Before
<1> QED
  BY <1>1 DEF StageIsInOrder, stage

\* The rounds in the stage are finitely many.
LEMMA StageIsFinite ==
    ASSUME config \in Settings, StageIsInOrder
    PROVE  /\ IsFiniteSet(inAssembly) /\ Cardinality(inAssembly) \in Nat
           /\ Before \subseteq Emitted /\ Emitted \subseteq Rounds
<1>1. Emitted \subseteq Rounds /\ IsFiniteSet(Emitted)
  BY EmittedFacts DEF StageIsInOrder
<1>2. inAssembly \subseteq Emitted /\ packingLine \in Seq(Emitted)
  BY DEF StageIsInOrder
<1>3. Range(packingLine) \subseteq Emitted
  BY <1>2, RangeFacts
<1>4. IsFiniteSet(inAssembly) /\ Cardinality(inAssembly) \in Nat
  BY <1>1, <1>2, FS_Subset, FS_CardinalityType
<1> QED
  BY <1>1, <1>2, <1>3, <1>4 DEF Before

\* A place is freed, and the first rounds of the packing line take places, as
\* many as there are.
LEMMA RetryPackingFacts ==
    ASSUME config \in Settings, StageIsInOrder, config' = config,
           UNCHANGED <<emitted, whole, expected, packed, forming>>,
           NEW flying, FreePlaces(flying) \in Int, RetryPacking(flying)
    PROVE  /\ StageIsInOrder' /\ Before' = Before /\ Emitted' = Emitted
           /\ \E n \in 0 .. Len(packingLine) :
                /\ Cardinality(inAssembly') = Cardinality(inAssembly) + n
                /\ n # 0 => n <= FreePlaces(flying)
                /\ packingLine' # <<>> => n + 1 > FreePlaces(flying)
<1> DEFINE free == FreePlaces(flying)
           S == {0} \cup {k \in 1 .. Len(packingLine) : k <= free}
           n == Max(S)
           a == SubSeq(packingLine, 1, n)
           b == SubSeq(packingLine, n + 1, Len(packingLine))
<1>1. /\ packingLine' = b
      /\ inAssembly' = inAssembly \cup Range(a)
      /\ packing' = packing \cup (Range(a) \cap whole)
  BY DEF RetryPacking, Enter
<1>2. packingLine \in Seq(Emitted) /\ IsInjective(packingLine) /\ Len(packingLine) \in Nat
  BY LenProperties DEF StageIsInOrder
<1>3. n \in 0 .. Len(packingLine) /\ (n # 0 => n <= free)
      /\ (n # Len(packingLine) => n + 1 > free)
  <2>1. IsFiniteSet(0 .. Len(packingLine))
    BY <1>2, FS_Interval
  <2>2. S \subseteq 0 .. Len(packingLine) /\ 0 \in S
    BY <1>2
  <2>3. IsFiniteSet(S) /\ \A k \in S : k \in Int
    BY <2>1, <2>2, FS_Subset
  <2>4. \A k \in S : k # 0 => k <= free
    OBVIOUS
  <2>5. \A k \in 1 .. Len(packingLine) : k <= free => k \in S
    OBVIOUS
  <2> DEFINE m == Max(S)
  <2> HIDE DEF S, free
  <2>6. m \in S /\ \A k \in S : k <= m
    BY <2>2, <2>3, MaxFacts
  <2>7. m \in 0 .. Len(packingLine) /\ (m # 0 => m <= free)
    BY <2>2, <2>4, <2>6
  <2>8. ASSUME m # Len(packingLine)
        PROVE  m + 1 > free
    <3>1. m + 1 \in 1 .. Len(packingLine) /\ ~ (m + 1 <= m)
      BY <1>2, <2>7, <2>8
    <3>2. ~ (m + 1 <= free)
      BY <2>5, <2>6, <3>1
    <3> QED
      BY <1>2, <2>7, <3>2 DEF free
  <2> QED
    BY <2>7, <2>8
<1> HIDE DEF S, n, free
<1>4. /\ a \in Seq(Emitted) /\ Len(a) = n /\ b \in Seq(Emitted)
      /\ Len(b) = Len(packingLine) - n
      /\ IsInjective(a) /\ IsInjective(b)
      /\ Range(a) \cap Range(b) = {} /\ Range(a) \cup Range(b) = Range(packingLine)
  BY <1>2, <1>3, SplitFacts, SplitApart
<1>5. /\ Range(a) \subseteq Emitted /\ IsFiniteSet(Range(a)) /\ Cardinality(Range(a)) = n
  BY <1>4, RangeFacts
<1> HIDE DEF a, b
<1>6. Emitted' = Emitted /\ Before' = Before
  <2>1. Emitted' = Emitted
    BY DEF Emitted
  <2> QED
    BY <1>1, <1>4, <2>1 DEF Before
<1>7. StageIsInOrder'
  <2>1. /\ emitted' \in 0 .. Len(config'.emission)
        /\ whole' \subseteq Emitted' /\ expected' \subseteq Emitted'
        /\ packingLine' \in Seq(Emitted') /\ IsInjective(packingLine')
    BY <1>1, <1>4, <1>6 DEF StageIsInOrder
  <2>2. /\ inAssembly' \subseteq Emitted' /\ inAssembly' \cap Range(packingLine') = {}
    BY <1>1, <1>4, <1>5, <1>6 DEF StageIsInOrder
  <2>3. Range(a) \cap inAssembly = {}
    BY <1>4 DEF StageIsInOrder
  <2>4. /\ forming \in Seq(inAssembly \cap whole) /\ IsInjective(forming)
        /\ Range(forming) \subseteq inAssembly /\ packed \subseteq inAssembly \cap whole
        /\ packing \subseteq inAssembly \cap whole
        /\ packing \cap packed = {} /\ Range(forming) \cap (packing \cup packed) = {}
    <3>1. forming \in Seq(inAssembly \cap whole)
      BY DEF StageIsInOrder
    <3>2. Range(forming) \subseteq inAssembly \cap whole
      BY <3>1, RangeFacts
    <3> QED
      BY <3>1, <3>2 DEF StageIsInOrder
  <2>5. /\ packing' \subseteq inAssembly' \cap whole' /\ packed' \subseteq inAssembly' \cap whole'
        /\ packing' \cap packed' = {} /\ Range(forming') \cap (packing' \cup packed') = {}
    BY <1>1, <2>3, <2>4
  <2>6. forming' \in Seq(inAssembly' \cap whole') /\ IsInjective(forming')
    <3>1. inAssembly \cap whole \subseteq inAssembly' \cap whole'
      BY <1>1
    <3> QED
      BY <2>4, <3>1
  <2> QED
    BY <2>1, <2>2, <2>5, <2>6 DEF StageIsInOrder
<1>8. Cardinality(inAssembly') = Cardinality(inAssembly) + n
  <2>1. IsFiniteSet(inAssembly) /\ inAssembly \cap Range(a) = {}
    BY <1>4, StageIsFinite DEF StageIsInOrder
  <2>2. Cardinality(inAssembly \cup Range(a)) =
            Cardinality(inAssembly) + Cardinality(Range(a)) - Cardinality(inAssembly \cap Range(a))
    BY <1>5, <2>1, FS_Union
  <2>3. Cardinality(inAssembly \cap Range(a)) = 0
    BY <2>1, FS_EmptySet
  <2> QED
    BY <1>1, <1>3, <1>5, <2>2, <2>3, StageIsFinite
<1>9. packingLine' # <<>> => n + 1 > free
  <2>1. CASE n = Len(packingLine)
    <3>1. Len(packingLine') = 0
      BY <1>1, <1>2, <1>4, <2>1
    <3> QED
      BY <1>1, <1>4, <3>1, EmptySeq
  <2> QED
    BY <1>3, <2>1
<1> QED
  BY <1>3, <1>6, <1>7, <1>8, <1>9 DEF free

\* The invariant of rounds and places.
RoundsAreInOrder ==
    /\ config \in Settings /\ stored \in [Stores -> SUBSET Rounds] /\ stopped \in BOOLEAN
    /\ StageIsInOrder /\ PathIsInOrder /\ FlightIsCounted
    /\ NoPlaceIsForgotten /\ EntryStoresHaveRoom

\* The places that are taken are counted.
LEMMA CountFacts ==
    ASSUME RoundsAreInOrder
    PROVE  /\ Cardinality(inAssembly) \in Nat /\ Len(heldRounds) \in Nat /\ inFlight \in Nat
           /\ config.places \in Nat /\ Count <= config.places
           /\ packingLine # <<>> => Count = config.places
           /\ Count = Cardinality(inAssembly) + Len(heldRounds) + inFlight
<1>1. heldRounds \in Seq(Emitted)
  BY DEF RoundsAreInOrder, PathIsInOrder, IsInOrder
<1> QED
  BY <1>1, StageIsFinite, StoreFacts, LenProperties
     DEF RoundsAreInOrder, FlightIsCounted, NoPlaceIsForgotten, Count

\* The settings say which store is a round's own.
LEMMA SameWrites ==
    ASSUME config' = config
    PROVE  OwnWrites(onRoute)' = OwnWrites(onRoute')
<1>1. Rounds' = Rounds /\ \A r : OwnStore(r)' = OwnStore(r)
  BY SameSetting
<1>2. OwnWrites(onRoute)' = {r \in Rounds' : r \in Range(onRoute'[OwnStore(r)'])}
  BY DEF OwnWrites
<1>3. OwnWrites(onRoute') = {r \in Rounds : r \in Range(onRoute'[OwnStore(r)])}
  BY DEF OwnWrites
<1> QED
  BY <1>1, <1>2, <1>3

\* What is off the line of the packing stage stays in order while that goes
\* on, and more is emitted.
LEMMA PathStays ==
    ASSUME RoundsAreInOrder, config' = config, UNCHANGED <<path, ends, stored>>,
           Emitted \subseteq Emitted', Before' \cap Emitted \subseteq Before
    PROVE  /\ config' \in Settings /\ stored' \in [Stores' -> SUBSET Rounds']
           /\ stopped' \in BOOLEAN
           /\ PathIsInOrder' /\ FlightIsCounted' /\ EntryStoresHaveRoom'
<1>1. /\ heldRounds' = heldRounds /\ onRoute' = onRoute /\ inFlight' = inFlight
      /\ stopped' = stopped /\ leaving' = leaving /\ outgoing' = outgoing /\ stored' = stored
  BY DEF path, ends
<1>2. /\ heldRounds \in Seq(Emitted) /\ IsInjective(heldRounds)
      /\ Range(heldRounds) \cap Before = {}
      /\ onRoute \in [Stores -> Seq(Emitted)]
      /\ \A s \in Stores :
        /\ IsInjective(onRoute[s])
        /\ Range(onRoute[s]) \cap Before = {} /\ Range(onRoute[s]) \cap Range(heldRounds) = {}
        /\ \A r \in Range(onRoute[s]) :
            s \in EntryStores /\ (r \in config.memory => s = OwnStore(r))
  BY DEF RoundsAreInOrder, PathIsInOrder, IsInOrder
<1>3. Range(heldRounds) \subseteq Emitted /\ heldRounds \in Seq(Emitted')
  BY <1>2, RangeFacts
<1>4. ASSUME NEW s \in Stores
      PROVE  Range(onRoute[s]) \subseteq Emitted /\ onRoute[s] \in Seq(Emitted')
  <2>1. onRoute[s] \in Seq(Emitted)
    BY <1>2
  <2> QED
    BY <2>1, RangeFacts
<1>5. onRoute \in [Stores -> Seq(Emitted')]
  BY <1>2, <1>4
<1>6. Range(heldRounds) \cap Before' = {} /\ \A s \in Stores : Range(onRoute[s]) \cap Before' = {}
  BY <1>2, <1>3, <1>4
<1>7. PathIsInOrder'
  BY <1>1, <1>2, <1>3, <1>5, <1>6, SameSetting DEF PathIsInOrder, IsInOrder
<1>8. FlightIsCounted'
  BY <1>1, SameSetting, SameWrites DEF FlightIsCounted, RoundsAreInOrder
<1>9. EntryStoresHaveRoom'
  BY <1>1, SameSetting DEF EntryStoresHaveRoom, Bits, RoundsAreInOrder
<1> QED
  BY <1>1, <1>7, <1>8, <1>9, SameSetting DEF RoundsAreInOrder

\* A round is emitted: it takes a place, or waits while there is none.
LEMMA ExpectRoundKeeps ==
    ASSUME RoundsAreInOrder, config' = config, ExpectRound
    PROVE  RoundsAreInOrder'
<1> DEFINE r == config.emission[emitted + 1]
<1>1. /\ emitted < Len(config.emission) /\ emitted' = emitted + 1
      /\ expected' = expected \cup {r}
      /\ UNCHANGED <<whole, packed, forming, path, ends, stored>>
      /\ \/ /\ packingLine = <<>> /\ FreePlaces(inFlight) > 0
            /\ packingLine' = packingLine
            /\ inAssembly' = inAssembly \cup {r} /\ packing' = packing \cup ({r} \cap whole)
         \/ /\ ~ (packingLine = <<>> /\ FreePlaces(inFlight) > 0)
            /\ packingLine' = Append(packingLine, r)
            /\ inAssembly' = inAssembly /\ packing' = packing
  BY DEF ExpectRound, Enter, reads
<1>2. /\ config \in Settings /\ StageIsInOrder
      /\ emitted \in 0 .. Len(config.emission) /\ Len(config.emission) \in Nat
      /\ DOMAIN config.emission = 1 .. Len(config.emission) /\ IsInjective(config.emission)
  <2>1. config \in Settings /\ StageIsInOrder /\ emitted \in 0 .. Len(config.emission)
    BY DEF RoundsAreInOrder, StageIsInOrder
  <2>2. config.emission \in Seq((DOMAIN config.own) \X (Nat \ {0}))
    BY <2>1, SettingsAssumption
  <2> QED
    BY <2>1, <2>2, StoreFacts, LenProperties
<1>3. emitted + 1 \in 1 .. Len(config.emission)
  BY <1>1, <1>2
<1>4. r \notin Emitted
  <2> SUFFICES ASSUME NEW i \in 1 .. emitted, config.emission[i] = config.emission[emitted + 1]
               PROVE  FALSE
    BY DEF Emitted
  <2>1. i \in DOMAIN config.emission /\ emitted + 1 \in DOMAIN config.emission
    BY <1>2, <1>3
  <2>2. i = emitted + 1
    BY <1>2, <2>1 DEF IsInjective
  <2> QED
    BY <1>2, <2>2
<1>5. Emitted' = Emitted \cup {r}
  <2>1. 1 .. emitted + 1 = (1 .. emitted) \cup {emitted + 1}
    BY <1>2
  <2> QED
    BY <1>1, <2>1 DEF Emitted
<1> HIDE DEF r
<1>6. /\ whole \subseteq Emitted /\ expected \subseteq Emitted
      /\ packingLine \in Seq(Emitted) /\ IsInjective(packingLine)
      /\ Range(packingLine) \subseteq Emitted
      /\ inAssembly \subseteq Emitted /\ inAssembly \cap Range(packingLine) = {}
      /\ packing \subseteq inAssembly \cap whole /\ packed \subseteq inAssembly \cap whole
      /\ forming \in Seq(inAssembly \cap whole) /\ IsInjective(forming)
      /\ packing \cap packed = {} /\ Range(forming) \cap (packing \cup packed) = {}
  <2>1. packingLine \in Seq(Emitted)
    BY <1>2 DEF StageIsInOrder
  <2> QED
    BY <1>2, <2>1, RangeFacts DEF StageIsInOrder
<1>7. r \notin whole
  BY <1>4, <1>6
<1>8. packingLine \in Seq(Emitted') /\ r \in Emitted'
  BY <1>5, <1>6
<1>9. /\ packingLine' \in Seq(Emitted') /\ IsInjective(packingLine')
      /\ inAssembly' \subseteq Emitted' /\ inAssembly' \cap Range(packingLine') = {}
      /\ packing' = packing /\ inAssembly \subseteq inAssembly'
      /\ Before' = Before \cup {r}
  <2>1. CASE packingLine = <<>> /\ packingLine' = packingLine /\ inAssembly' = inAssembly \cup {r}
             /\ packing' = packing \cup ({r} \cap whole)
    BY <1>4, <1>5, <1>6, <1>7, <1>8, <2>1 DEF Before
  <2>2. CASE packingLine' = Append(packingLine, r) /\ inAssembly' = inAssembly /\ packing' = packing
    <3>1. /\ packingLine' \in Seq(Emitted') /\ Range(packingLine') = Range(packingLine) \cup {r}
          /\ IsInjective(packingLine')
      <4>1. r \notin Range(packingLine)
        BY <1>4, <1>6
      <4> QED
        BY <1>6, <1>8, <2>2, <4>1, AppendFacts
    <3> QED
      BY <1>4, <1>5, <1>6, <2>2, <3>1 DEF Before
  <2> QED
    BY <1>1, <2>1, <2>2
<1>10. StageIsInOrder'
  <2>1. forming' \in Seq(inAssembly' \cap whole')
    <3>1. inAssembly \cap whole \subseteq inAssembly' \cap whole' /\ forming' = forming
      BY <1>1, <1>9
    <3> QED
      BY <1>6, <3>1
  <2>2. emitted' \in 0 .. Len(config'.emission)
    BY <1>1, <1>2
  <2> QED
    BY <1>1, <1>5, <1>6, <1>9, <2>1, <2>2 DEF StageIsInOrder
<1>11. Before \subseteq Emitted
  BY <1>2, StageIsFinite
<1>12. NoPlaceIsForgotten'
  <2>1. heldRounds' = heldRounds /\ inFlight' = inFlight
    BY <1>1 DEF path
  <2>2. Count' = Cardinality(inAssembly') + Len(heldRounds) + inFlight
    BY <2>1 DEF Count
  <2>3. FreePlaces(inFlight) = config.places - Count
    BY DEF FreePlaces, Count
  <2>4. CASE /\ packingLine = <<>> /\ FreePlaces(inFlight) > 0
             /\ packingLine' = packingLine /\ inAssembly' = inAssembly \cup {r}
    <3>1. Cardinality(inAssembly') = Cardinality(inAssembly) + 1
      <4>1. IsFiniteSet(inAssembly) /\ r \notin inAssembly
        BY <1>2, <1>4, <1>6, StageIsFinite
      <4> QED
        BY <2>4, <4>1, FS_AddElement
    <3> QED
      BY <2>2, <2>3, <2>4, <3>1, CountFacts DEF NoPlaceIsForgotten
  <2>5. CASE ~ (packingLine = <<>> /\ FreePlaces(inFlight) > 0) /\ inAssembly' = inAssembly
    <3>1. Count' = Count
      BY <2>2, <2>5, CountFacts
    <3>2. Count = config.places
      BY <2>3, <2>5, CountFacts
    <3> QED
      BY <3>1, <3>2, CountFacts DEF NoPlaceIsForgotten
  <2> QED
    BY <1>1, <2>4, <2>5
<1>13. UNCHANGED <<path, ends, stored>> /\ Emitted \subseteq Emitted'
       /\ Before' \cap Emitted \subseteq Before
  BY <1>1, <1>4, <1>5, <1>9
<1> QED
  BY <1>10, <1>12, <1>13, PathStays DEF RoundsAreInOrder

\* The facts of the stage, one by one.
LEMMA StageFacts ==
    ASSUME config \in Settings, StageIsInOrder
    PROVE  /\ emitted \in 0 .. Len(config.emission)
           /\ whole \subseteq Emitted /\ expected \subseteq Emitted
           /\ packingLine \in Seq(Emitted) /\ IsInjective(packingLine)
           /\ Range(packingLine) \subseteq Emitted
           /\ inAssembly \subseteq Emitted /\ inAssembly \cap Range(packingLine) = {}
           /\ packing \subseteq inAssembly \cap whole /\ packed \subseteq inAssembly \cap whole
           /\ forming \in Seq(inAssembly \cap whole) /\ IsInjective(forming)
           /\ Range(forming) \subseteq inAssembly \cap whole
           /\ packing \cap packed = {} /\ Range(forming) \cap (packing \cup packed) = {}
<1>1. packingLine \in Seq(Emitted) /\ forming \in Seq(inAssembly \cap whole)
  BY DEF StageIsInOrder
<1>2. Range(packingLine) \subseteq Emitted /\ Range(forming) \subseteq inAssembly \cap whole
  BY <1>1, RangeFacts
<1> QED
  BY <1>2 DEF StageIsInOrder

\* The last fragment of a round arrives, whether the round has its place or
\* waits for one.
LEMMA AddKeeps ==
    ASSUME RoundsAreInOrder, config' = config, NEW r, Add(r)
    PROVE  RoundsAreInOrder'
<1>1. /\ r \in Emitted \ whole /\ whole' = whole \cup {r}
      /\ packing' = IF r \in inAssembly THEN packing \cup {r} ELSE packing
      /\ UNCHANGED <<emitted, packingLine, inAssembly, expected, packed, forming>>
      /\ UNCHANGED <<path, ends, stored>>
  BY DEF Add, Emitted, reads
<1>2. Emitted' = Emitted /\ Before' = Before
  BY <1>1 DEF Emitted, Before
<1>3. config \in Settings /\ StageIsInOrder
  BY DEF RoundsAreInOrder
<1>4. /\ emitted \in 0 .. Len(config.emission)
      /\ whole \subseteq Emitted /\ expected \subseteq Emitted
      /\ packingLine \in Seq(Emitted) /\ IsInjective(packingLine)
      /\ inAssembly \subseteq Emitted /\ inAssembly \cap Range(packingLine) = {}
      /\ packing \subseteq inAssembly \cap whole /\ packed \subseteq inAssembly \cap whole
      /\ forming \in Seq(inAssembly \cap whole) /\ IsInjective(forming)
      /\ Range(forming) \subseteq inAssembly \cap whole
      /\ packing \cap packed = {} /\ Range(forming) \cap (packing \cup packed) = {}
  BY <1>3, StageFacts
<1>5. forming \in Seq(inAssembly \cap whole')
  <2>1. inAssembly \cap whole \subseteq inAssembly \cap whole'
    BY <1>1
  <2> QED
    BY <1>4, <2>1
<1>6. StageIsInOrder'
  BY <1>1, <1>2, <1>4, <1>5 DEF StageIsInOrder
<1>7. NoPlaceIsForgotten'
  BY <1>1 DEF path, NoPlaceIsForgotten, Count, RoundsAreInOrder
<1> QED
  BY <1>1, <1>2, <1>6, <1>7, PathStays DEF RoundsAreInOrder

\* A round is packed: it retires with those of its stream that waited for it.
LEMMA FinishPackingKeeps ==
    ASSUME RoundsAreInOrder, config' = config, NEW r, FinishPacking(r)
    PROVE  RoundsAreInOrder'
<1> DEFINE ready == packed \cup {r}
           now == Retired(r, ready)
           q == InReadOrder(r[1], now)
<1>1. /\ r \in packing /\ packing' = packing \ {r}
      /\ packed' = ready \ now /\ expected' = expected \ now /\ forming' = forming \o q
      /\ UNCHANGED <<emitted, whole, packingLine, inAssembly>>
      /\ UNCHANGED <<path, ends, stored>>
  BY DEF FinishPacking, reads
<1>2. Emitted' = Emitted /\ Before' = Before
  BY <1>1 DEF Emitted, Before
<1>3. config \in Settings /\ StageIsInOrder
  BY DEF RoundsAreInOrder
<1>4. /\ emitted \in 0 .. Len(config.emission)
      /\ whole \subseteq Emitted /\ expected \subseteq Emitted
      /\ packingLine \in Seq(Emitted) /\ IsInjective(packingLine)
      /\ inAssembly \subseteq Emitted /\ inAssembly \cap Range(packingLine) = {}
      /\ packing \subseteq inAssembly \cap whole /\ packed \subseteq inAssembly \cap whole
      /\ forming \in Seq(inAssembly \cap whole) /\ IsInjective(forming)
      /\ Range(forming) \subseteq inAssembly \cap whole
      /\ packing \cap packed = {} /\ Range(forming) \cap (packing \cup packed) = {}
  BY <1>3, StageFacts
<1>5. \A x \in Emitted : x[2] \in Nat
  BY <1>3, SettingFacts, StageIsFinite
<1>6. now \subseteq ready /\ now \subseteq Emitted
  <2>1. \A x \in now : x \in expected /\ (\A y \in expected : y[1] = r[1] /\ y[2] <= x[2] => y \in ready)
                       /\ x[1] = r[1]
    BY DEF Retired
  <2> HIDE DEF now
  <2>2. \A x \in now : x[2] <= x[2]
    BY <1>4, <1>5, <2>1
  <2> QED
    BY <1>4, <2>1, <2>2
<1>7. q \in Seq(now) /\ Range(q) = now /\ IsInjective(q)
  <2> HIDE DEF now
  <2>1. IsFiniteSet(now) /\ \A x \in now : x[2] \in Nat
    BY <1>3, <1>4, <1>5, <1>6, EmittedFacts, FS_Subset
  <2> QED
    BY <2>1, RegionFacts
<1> HIDE DEF now, q
<1>8. now \subseteq inAssembly \cap whole /\ now \cap Range(forming) = {}
  BY <1>1, <1>4, <1>6
<1>9. /\ forming' \in Seq(inAssembly \cap whole) /\ IsInjective(forming')
      /\ Range(forming') = Range(forming) \cup now
  <2> DEFINE A == inAssembly \cap whole
  <2>1. forming \in Seq(A) /\ q \in Seq(A)
    BY <1>4, <1>7, <1>8
  <2> HIDE DEF A
  <2>2. forming \o q \in Seq(A) /\ Range(forming \o q) = Range(forming) \cup Range(q)
    BY <2>1, ConcatFacts
  <2>3. IsInjective(forming \o q)
    BY <1>4, <1>7, <1>8, <2>1, ConcatApart
  <2> QED
    BY <1>1, <1>7, <2>2, <2>3 DEF A
<1>10. /\ packing' \subseteq inAssembly \cap whole /\ packed' \subseteq inAssembly \cap whole
       /\ packing' \cap packed' = {} /\ Range(forming') \cap (packing' \cup packed') = {}
  BY <1>1, <1>4, <1>6, <1>9
<1>11. StageIsInOrder'
  BY <1>1, <1>2, <1>4, <1>9, <1>10 DEF StageIsInOrder
<1>12. NoPlaceIsForgotten'
  BY <1>1 DEF path, NoPlaceIsForgotten, Count, RoundsAreInOrder
<1> QED
  BY <1>1, <1>2, <1>11, <1>12, PathStays DEF RoundsAreInOrder

-----------------------------------------------------------------------------
(* The way to the stores *)

\* Rounds that are in order before the held line is retried are afterwards.
LEMMA RetryKeeps ==
    ASSUME config \in Settings, config' = config, stopped \in BOOLEAN,
           stored' \in [Stores -> SUBSET Rounds],
           StageIsInOrder, StageIsInOrder', Emitted' = Emitted,
           NEW line, NEW route, NEW flying \in Nat, RetryHeld(line, route, flying),
           IsInOrder(line, route, Before', Emitted),
           leaving' \in Nat, outgoing' \subseteq config.memory \cap Rounds,
           Cardinality(OwnWrites(route)) + leaving' + Cardinality(outgoing') <= flying,
           \A s \in EntryStores : Fits(stored', route, s),
           Cardinality(inAssembly') \in Nat,
           Cardinality(inAssembly') + Len(line) + flying <= config.places,
           packingLine' # <<>> =>
               Cardinality(inAssembly') + Len(line) + flying = config.places
    PROVE  RoundsAreInOrder'
<1>1. Emitted \subseteq Rounds
  BY StageIsFinite
<1>2. /\ IsInOrder(heldRounds', onRoute', Before', Emitted)
      /\ \A s \in EntryStores : Fits(stored', onRoute', s)
      /\ stopped' \in BOOLEAN
      /\ HaveEntered(line, route, flying)
  <2> DEFINE early == Before'
  <2> HIDE DEF early
  <2>1. IsInOrder(line, route, early, Emitted)
    BY DEF early
  <2>2. IsInOrder(heldRounds', onRoute', early, Emitted)
    BY <1>1, <2>1, RetryKeepsPath
  <2>3. \A s \in EntryStores : Fits(stored', onRoute', s)
    BY <1>1, <2>1, RetryKeepsPath
  <2>4. stopped' \in BOOLEAN
    BY <1>1, <2>1, RetryKeepsPath
  <2>5. HaveEntered(line, route, flying)
    BY <1>1, <2>1, RetryKeepsPath
  <2> QED
    BY <2>2, <2>3, <2>4, <2>5 DEF early
<1>3. PICK n \in 0 .. Len(line) :
            /\ Len(heldRounds') = Len(line) - n /\ inFlight' = flying + n
            /\ Cardinality(OwnWrites(onRoute')) <= Cardinality(OwnWrites(route)) + n
  BY <1>2 DEF HaveEntered
<1>4. Len(line) \in Nat
  BY LenProperties DEF IsInOrder
<1>5. PathIsInOrder'
  BY <1>2, SameSetting DEF PathIsInOrder, IsInOrder
<1>6. EntryStoresHaveRoom'
  BY <1>2, SameSetting DEF EntryStoresHaveRoom, Fits, Bits
<1>7. FlightIsCounted'
  <2>1. \A w : Cardinality(OwnWrites(w)) \in Nat
    <3>1. \A w : OwnWrites(w) \subseteq Rounds
      BY DEF OwnWrites
    <3> QED
      BY <3>1, SettingFacts, FS_Subset, FS_CardinalityType
  <2>2. Cardinality(outgoing') \in Nat
    BY SettingFacts, FS_Subset, FS_CardinalityType
  <2>3. inFlight' \in Nat
    BY <1>3, <1>4
  <2>4. Cardinality(OwnWrites(onRoute')) + leaving' + Cardinality(outgoing') <= inFlight'
    BY <1>3, <1>4, <2>1, <2>2
  <2> QED
    BY <2>3, <2>4, SameSetting, SameWrites DEF FlightIsCounted
<1>8. NoPlaceIsForgotten'
  <2>1. Count' = Cardinality(inAssembly') + Len(heldRounds') + inFlight'
    BY DEF Count
  <2>2. Count' = Cardinality(inAssembly') + Len(line) + flying
    BY <1>3, <1>4, <2>1
  <2> QED
    BY <2>2 DEF NoPlaceIsForgotten
<1> QED
  BY <1>2, <1>5, <1>6, <1>7, <1>8, SameSetting DEF RoundsAreInOrder

\* A packed round joins the held line and leaves the stage, its place with it.
LEMMA HandOnKeeps ==
    ASSUME RoundsAreInOrder, config' = config, HandOn
    PROVE  RoundsAreInOrder'
<1> DEFINE h == Head(forming)
           line == Append(heldRounds, h)
<1>1. /\ forming # <<>> /\ forming' = Tail(forming) /\ inAssembly' = inAssembly \ {h}
      /\ UNCHANGED <<emitted, whole, packingLine, expected, packing, packed>>
      /\ UNCHANGED <<ends, stored>>
      /\ RetryHeld(line, onRoute, inFlight)
  BY DEF HandOn, reads
<1>2. config \in Settings /\ StageIsInOrder /\ stored' \in [Stores -> SUBSET Rounds]
      /\ stopped \in BOOLEAN
  BY <1>1 DEF RoundsAreInOrder
<1>3. /\ emitted \in 0 .. Len(config.emission)
      /\ whole \subseteq Emitted /\ expected \subseteq Emitted
      /\ packingLine \in Seq(Emitted) /\ IsInjective(packingLine)
      /\ inAssembly \subseteq Emitted /\ inAssembly \cap Range(packingLine) = {}
      /\ packing \subseteq inAssembly \cap whole /\ packed \subseteq inAssembly \cap whole
      /\ forming \in Seq(inAssembly \cap whole) /\ IsInjective(forming)
      /\ Range(forming) \subseteq inAssembly \cap whole
      /\ packing \cap packed = {} /\ Range(forming) \cap (packing \cup packed) = {}
  BY <1>2, StageFacts
<1>4. /\ h \in Range(forming) /\ IsInjective(Tail(forming))
      /\ Tail(forming) \in Seq(inAssembly \cap whole)
      /\ Range(Tail(forming)) = Range(forming) \ {h}
  BY <1>1, <1>3, TailFacts
<1> HIDE DEF h
<1>5. h \in inAssembly /\ h \in Emitted /\ h \notin packing \cup packed /\ h \in Before
  BY <1>3, <1>4 DEF Before
<1>6. Emitted' = Emitted /\ Before' = Before \ {h}
  BY <1>1, <1>3, <1>5 DEF Emitted, Before
<1>7. StageIsInOrder'
  <2>1. forming' \in Seq(inAssembly' \cap whole')
    <3> DEFINE f == Tail(forming)
               A == inAssembly \cap whole
               B == inAssembly' \cap whole'
    <3>1. f \in Seq(A) /\ Range(f) \subseteq B
      BY <1>1, <1>3, <1>4
    <3>2. forming' = f
      BY <1>1
    <3> HIDE DEF f, A, B
    <3>3. DOMAIN f = 1 .. Len(f) /\ Len(f) \in Nat /\ \A i \in DOMAIN f : f[i] \in B
      BY <3>1, LenProperties DEF Range
    <3>4. f = [i \in 1 .. Len(f) |-> f[i]]
      BY <3>1, <3>3, LenProperties
    <3>5. f \in Seq(B)
      BY <3>3, <3>4
    <3> QED
      BY <3>2, <3>5 DEF B
  <2> QED
    BY <1>1, <1>3, <1>4, <1>5, <1>6, <2>1 DEF StageIsInOrder
<1>8. /\ heldRounds \in Seq(Emitted) /\ IsInjective(heldRounds)
      /\ Range(heldRounds) \cap Before = {}
      /\ onRoute \in [Stores -> Seq(Emitted)]
      /\ \A s \in Stores :
        /\ IsInjective(onRoute[s])
        /\ Range(onRoute[s]) \cap Before = {} /\ Range(onRoute[s]) \cap Range(heldRounds) = {}
        /\ \A r \in Range(onRoute[s]) :
            s \in EntryStores /\ (r \in config.memory => s = OwnStore(r))
  BY DEF RoundsAreInOrder, PathIsInOrder, IsInOrder
<1>9. IsInOrder(line, onRoute, Before', Emitted)
  <2>1. /\ line \in Seq(Emitted) /\ IsInjective(line) /\ Range(line) = Range(heldRounds) \cup {h}
    <3>1. h \notin Range(heldRounds)
      BY <1>5, <1>8
    <3> QED
      BY <1>5, <1>8, <3>1, AppendFacts
  <2> HIDE DEF line
  <2>2. Range(line) \cap Before' = {}
    BY <1>6, <1>8, <2>1
  <2>3. \A s \in Stores : Range(onRoute[s]) \cap Before' = {} /\ Range(onRoute[s]) \cap Range(line) = {}
    BY <1>5, <1>6, <1>8, <2>1
  <2> QED
    BY <1>8, <2>1, <2>2, <2>3 DEF IsInOrder
<1>10. /\ Cardinality(inAssembly') = Cardinality(inAssembly) - 1
       /\ Cardinality(inAssembly') \in Nat /\ Len(line) = Len(heldRounds) + 1
  <2>1. /\ IsFiniteSet(inAssembly) /\ IsFiniteSet(inAssembly')
        /\ Cardinality(inAssembly') = Cardinality(inAssembly) - 1
    BY <1>1, <1>2, <1>5, StageIsFinite, FS_RemoveElement
  <2>2. Len(line) = Len(heldRounds) + 1
    BY <1>5, <1>8, AppendFacts
  <2> QED
    BY <2>1, <2>2, FS_CardinalityType
<1>11. /\ Cardinality(inAssembly') + Len(line) + inFlight = Count
       /\ Count <= config.places /\ (packingLine' # <<>> => Count = config.places)
  BY <1>1, <1>10, CountFacts
<1>12. \A s \in EntryStores : Fits(stored', onRoute, s)
  BY <1>1 DEF RoundsAreInOrder, EntryStoresHaveRoom, Fits
<1>13. /\ inFlight \in Nat /\ leaving' \in Nat /\ outgoing' \subseteq config.memory \cap Rounds
       /\ Cardinality(OwnWrites(onRoute)) + leaving' + Cardinality(outgoing') <= inFlight
  BY <1>1 DEF RoundsAreInOrder, FlightIsCounted, ends
<1> HIDE DEF line
<1> QED
  BY <1>1, <1>2, <1>6, <1>7, <1>9, <1>10, <1>11, <1>12, <1>13, RetryKeeps

\* What is counted in flight covers what is queued to leave and read out.
LEMMA FlightFacts ==
    ASSUME config \in Settings, FlightIsCounted
    PROVE  /\ inFlight \in Nat /\ leaving \in Nat
           /\ outgoing \subseteq config.memory \cap Rounds
           /\ IsFiniteSet(outgoing) /\ Cardinality(outgoing) \in Nat
           /\ \A route : /\ IsFiniteSet(OwnWrites(route))
                         /\ Cardinality(OwnWrites(route)) \in Nat
           /\ Cardinality(OwnWrites(onRoute)) + leaving + Cardinality(outgoing) <= inFlight
<1>1. IsFiniteSet(Rounds)
  BY SettingFacts
<1>2. \A route : OwnWrites(route) \subseteq Rounds
  BY DEF OwnWrites
<1>3. outgoing \subseteq Rounds
  BY DEF FlightIsCounted
<1>4. IsFiniteSet(outgoing) /\ Cardinality(outgoing) \in Nat
  BY <1>1, <1>3, FS_Subset, FS_CardinalityType
<1>5. \A route : IsFiniteSet(OwnWrites(route)) /\ Cardinality(OwnWrites(route)) \in Nat
  BY <1>1, <1>2, FS_Subset, FS_CardinalityType
<1> QED
  BY <1>4, <1>5 DEF FlightIsCounted

\* A written round leaves, and frees its place.
LEMMA LeaveKeeps ==
    ASSUME RoundsAreInOrder, config' = config, Leave
    PROVE  RoundsAreInOrder'
<1>1. /\ leaving > 0 /\ leaving' = leaving - 1 /\ inFlight' = inFlight - 1
      /\ RetryPacking(inFlight - 1)
      /\ UNCHANGED <<emitted, whole, expected, packed, forming>>
      /\ UNCHANGED <<heldRounds, onRoute, stopped, outgoing, stored>>
  BY DEF Leave, reads
<1>2. /\ config \in Settings /\ StageIsInOrder /\ FlightIsCounted
  BY DEF RoundsAreInOrder
<1>3. /\ inFlight \in Nat /\ leaving \in Nat /\ Cardinality(outgoing) \in Nat
      /\ Cardinality(OwnWrites(onRoute)) \in Nat
      /\ Cardinality(OwnWrites(onRoute)) + leaving + Cardinality(outgoing) <= inFlight
  BY <1>2, FlightFacts
<1>4. FreePlaces(inFlight - 1) = config.places - Count + 1 /\ FreePlaces(inFlight - 1) \in Int
  <2>1. FreePlaces(inFlight - 1)
            = config.places - (Cardinality(inAssembly) + Len(heldRounds) + (inFlight - 1))
    BY DEF FreePlaces
  <2> QED
    BY <2>1, CountFacts
<1>5. /\ StageIsInOrder' /\ Before' = Before /\ Emitted' = Emitted
      /\ \E n \in 0 .. Len(packingLine) :
            /\ Cardinality(inAssembly') = Cardinality(inAssembly) + n
            /\ n # 0 => n <= FreePlaces(inFlight - 1)
            /\ packingLine' # <<>> => n + 1 > FreePlaces(inFlight - 1)
  <2> DEFINE flying == inFlight - 1
  <2>1. RetryPacking(flying) /\ FreePlaces(flying) \in Int
    BY <1>1, <1>4
  <2> HIDE DEF flying
  <2>2. /\ StageIsInOrder' /\ Before' = Before /\ Emitted' = Emitted
        /\ \E n \in 0 .. Len(packingLine) :
            /\ Cardinality(inAssembly') = Cardinality(inAssembly) + n
            /\ n # 0 => n <= FreePlaces(flying)
            /\ packingLine' # <<>> => n + 1 > FreePlaces(flying)
    BY <1>1, <1>2, <2>1, RetryPackingFacts
  <2> QED
    BY <2>2 DEF flying
<1>6. PICK n \in 0 .. Len(packingLine) :
            /\ Cardinality(inAssembly') = Cardinality(inAssembly) + n
            /\ n # 0 => n <= FreePlaces(inFlight - 1)
            /\ packingLine' # <<>> => n + 1 > FreePlaces(inFlight - 1)
  BY <1>5
<1>7. NoPlaceIsForgotten'
  <2>1. n \in Nat
    BY <1>2, StageFacts, LenProperties
  <2>2. Count' = Cardinality(inAssembly') + Len(heldRounds) + inFlight'
    BY <1>1 DEF Count
  <2>3. Count' = Count + n - 1
    <3>1. /\ Cardinality(inAssembly) \in Nat /\ Len(heldRounds) \in Nat /\ inFlight \in Nat
          /\ Count = Cardinality(inAssembly) + Len(heldRounds) + inFlight
      BY CountFacts
    <3>2. Cardinality(inAssembly') = Cardinality(inAssembly) + n /\ inFlight' = inFlight - 1
      BY <1>1, <1>6
    <3> QED
      BY <2>1, <2>2, <3>1, <3>2, SMTT(90)
  <2>4. Count' <= config.places
    BY <1>4, <1>6, <2>1, <2>3, CountFacts
  <2>5. packingLine' # <<>> => Count' = config.places
    BY <1>4, <1>6, <2>1, <2>3, <2>4, CountFacts, SMTT(90)
  <2> QED
    BY <2>4, <2>5 DEF NoPlaceIsForgotten
<1>8. PathIsInOrder' /\ EntryStoresHaveRoom'
  BY <1>1, <1>5, SameSetting
     DEF PathIsInOrder, IsInOrder, EntryStoresHaveRoom, Bits, RoundsAreInOrder
<1>9. FlightIsCounted'
  <2>1. inFlight' \in Nat /\ leaving' \in Nat
    BY <1>1, <1>3
  <2>2. Cardinality(OwnWrites(onRoute')) + leaving' + Cardinality(outgoing') <= inFlight'
    BY <1>1, <1>3
  <2>3. OwnWrites(onRoute)' = OwnWrites(onRoute')
    BY SameWrites
  <2>4. outgoing' \subseteq config'.memory \cap Rounds'
    BY <1>1, <1>2, SameSetting DEF FlightIsCounted
  <2> QED
    BY <2>1, <2>2, <2>3, <2>4 DEF FlightIsCounted
<1> QED
  BY <1>1, <1>5, <1>7, <1>8, <1>9, SameSetting DEF RoundsAreInOrder

\* The rounds of the path, one by one.
LEMMA PathFacts ==
    ASSUME RoundsAreInOrder
    PROVE  /\ heldRounds \in Seq(Emitted) /\ IsInjective(heldRounds)
           /\ Range(heldRounds) \cap Before = {}
           /\ onRoute \in [Stores -> Seq(Emitted)]
           /\ \A s \in Stores :
                /\ IsInjective(onRoute[s]) /\ onRoute[s] \in Seq(Emitted)
                /\ Range(onRoute[s]) \subseteq Rounds
                /\ Range(onRoute[s]) \cap Before = {}
                /\ Range(onRoute[s]) \cap Range(heldRounds) = {}
                /\ \A r \in Range(onRoute[s]) :
                    s \in EntryStores /\ (r \in config.memory => s = OwnStore(r))
<1>1. Emitted \subseteq Rounds
  BY StageIsFinite DEF RoundsAreInOrder
<1>2. \A s \in Stores : onRoute[s] \in Seq(Emitted)
  BY DEF RoundsAreInOrder, PathIsInOrder, IsInOrder
<1>3. ASSUME NEW s \in Stores
      PROVE  Range(onRoute[s]) \subseteq Rounds
  <2>1. Range(onRoute[s]) \subseteq Emitted
    BY <1>2, RangeFacts
  <2> QED
    BY <1>1, <2>1
<1> QED
  BY <1>2, <1>3 DEF RoundsAreInOrder, PathIsInOrder, IsInOrder

\* Where no entry store has more to keep, what was promised has its room.
LEMMA StillFits ==
    ASSUME RoundsAreInOrder, stored' \in [Stores -> SUBSET Rounds],
           \A s \in EntryStores : stored'[s] \subseteq stored[s]
    PROVE  \A s \in EntryStores : Fits(stored', onRoute, s)
<1> SUFFICES ASSUME NEW s \in EntryStores
             PROVE  Bits(stored'[s]) + Bits(Range(onRoute[s])) <= config.capacity[s]
  BY DEF Fits
<1>1. config \in Settings /\ s \in Stores /\ stored[s] \in SUBSET Rounds
      /\ Range(onRoute[s]) \in SUBSET Rounds
  BY StoreFacts, PathFacts DEF RoundsAreInOrder
<1>2. Bits(stored[s]) + Bits(Range(onRoute[s])) <= config.capacity[s]
  BY DEF RoundsAreInOrder, EntryStoresHaveRoom
<1>3. /\ Bits(stored[s]) \in Nat /\ Bits(stored'[s]) \in Nat /\ Bits(Range(onRoute[s])) \in Nat
      /\ Bits(stored'[s]) <= Bits(stored[s]) /\ config.capacity[s] \in Nat
  BY <1>1, BitsFacts, StoreFacts
<1> QED
  BY <1>2, <1>3

\* A step of the windows or of the edges that only lets rounds of entry
\* stores go, and retries the line.
LEMMA LetGoKeeps ==
    ASSUME RoundsAreInOrder, config' = config, UNCHANGED <<stage, ends>>,
           stored' \in [Stores -> SUBSET Rounds],
           \A s \in EntryStores : stored'[s] \subseteq stored[s],
           RetryHeld(heldRounds, onRoute, inFlight)
    PROVE  RoundsAreInOrder'
<1>1. config \in Settings /\ StageIsInOrder /\ stopped \in BOOLEAN
  BY DEF RoundsAreInOrder
<1>2. StageIsInOrder' /\ Before' = Before /\ Emitted' = Emitted
  BY <1>1, StageStays
<1>3. \A s \in EntryStores : Fits(stored', onRoute, s)
  BY StillFits
<1>4. IsInOrder(heldRounds, onRoute, Before', Emitted)
  BY <1>2 DEF RoundsAreInOrder, PathIsInOrder
<1>5. /\ inFlight \in Nat /\ leaving' \in Nat /\ outgoing' \subseteq config.memory \cap Rounds
      /\ Cardinality(OwnWrites(onRoute)) + leaving' + Cardinality(outgoing') <= inFlight
  BY DEF RoundsAreInOrder, FlightIsCounted, ends
<1>6. /\ Cardinality(inAssembly') \in Nat
      /\ Cardinality(inAssembly') + Len(heldRounds) + inFlight = Count
      /\ Count <= config.places /\ (packingLine' # <<>> => Count = config.places)
  BY CountFacts DEF stage
<1> QED
  BY <1>1, <1>2, <1>3, <1>4, <1>5, <1>6, RetryKeeps

\* One that leaves the path alone.
LEMMA OffPathKeeps ==
    ASSUME RoundsAreInOrder, config' = config, UNCHANGED <<stage, path, ends>>,
           stored' \in [Stores -> SUBSET Rounds],
           \A s \in EntryStores : stored'[s] \subseteq stored[s]
    PROVE  RoundsAreInOrder'
<1>1. StageIsInOrder' /\ Before' = Before /\ Emitted' = Emitted
  BY StageStays DEF RoundsAreInOrder
<1>2. PathIsInOrder'
  BY <1>1, SameSetting DEF path, PathIsInOrder, IsInOrder, RoundsAreInOrder
<1>3. FlightIsCounted'
  BY SameSetting, SameWrites DEF FlightIsCounted, RoundsAreInOrder, path, ends
<1>4. NoPlaceIsForgotten'
  BY DEF stage, path, NoPlaceIsForgotten, Count, RoundsAreInOrder
<1>5. EntryStoresHaveRoom'
  <2>1. \A s \in EntryStores : Fits(stored', onRoute, s)
    BY StillFits
  <2> QED
    BY <2>1, SameSetting DEF EntryStoresHaveRoom, Fits, Bits, path
<1> QED
  BY <1>1, <1>2, <1>3, <1>4, <1>5, SameSetting DEF RoundsAreInOrder, path

\* The routes once the i-th write of a store completed.
Past(s, i) == [onRoute EXCEPT ![s] = RemoveAt(@, i)]

\* A write that completes leaves the route of its store, and what it stores
\* had its room.
LEMMA RouteFacts ==
    ASSUME RoundsAreInOrder, NEW s \in Stores, NEW i \in DOMAIN onRoute[s]
    PROVE  /\ onRoute[s][i] \in Range(onRoute[s]) /\ onRoute[s][i] \in Rounds
           /\ s \in EntryStores
           /\ onRoute[s][i] \in config.memory => s = OwnStore(onRoute[s][i])
           /\ Past(s, i) \in [Stores -> Seq(Emitted)]
           /\ Range(Past(s, i)[s]) = Range(onRoute[s]) \ {onRoute[s][i]}
           /\ \A x \in Stores : /\ IsInjective(Past(s, i)[x])
                                /\ Range(Past(s, i)[x]) \subseteq Range(onRoute[x])
           /\ \A x \in Stores \ {s} : Past(s, i)[x] = onRoute[x]
<1> DEFINE r == onRoute[s][i]
           route == Past(s, i)
<1>1. /\ onRoute \in [Stores -> Seq(Emitted)]
      /\ onRoute[s] \in Seq(Emitted)
      /\ \A x \in Stores : IsInjective(onRoute[x])
      /\ Range(onRoute[s]) \subseteq Rounds
      /\ \A x \in Range(onRoute[s]) : s \in EntryStores /\ (x \in config.memory => s = OwnStore(x))
  BY PathFacts
<1>2. /\ RemoveAt(onRoute[s], i) \in Seq(Emitted) /\ IsInjective(RemoveAt(onRoute[s], i))
      /\ Range(RemoveAt(onRoute[s], i)) = Range(onRoute[s]) \ {r}
  BY <1>1, RemoveAtApart
<1>3. r \in Range(onRoute[s])
  BY DEF Range
<1> HIDE DEF r
<1>4. route[s] = RemoveAt(onRoute[s], i) /\ \A x \in Stores \ {s} : route[x] = onRoute[x]
  BY <1>1 DEF Past
<1>5. route \in [Stores -> Seq(Emitted)]
  BY <1>1, <1>2 DEF Past
<1>6. ASSUME NEW x \in Stores
      PROVE  IsInjective(route[x]) /\ Range(route[x]) \subseteq Range(onRoute[x])
  <2>1. CASE x = s
    BY <1>2, <1>4, <2>1
  <2>2. CASE x # s
    BY <1>1, <1>4, <2>2
  <2> QED
    BY <2>1, <2>2
<1> QED
  BY <1>1, <1>2, <1>3, <1>4, <1>5, <1>6 DEF r, route

\* A write, a copy or a memory round is stored where it had its room.
LEMMA WriteInOrder ==
    ASSUME RoundsAreInOrder, config' = config, NEW s \in Stores, Write(s)
    PROVE  RoundsAreInOrder'
<1>1. PICK i \in DOMAIN onRoute[s] :
        /\ \/ FinishWrite(s, onRoute[s][i])
           \/ FinishCopy(s, onRoute[s][i])
           \/ SendMemoryRoundOn(s, onRoute[s][i])
        /\ UNCHANGED stage
        /\ RetryHeld(heldRounds, [onRoute EXCEPT ![s] = RemoveAt(@, i)], inFlight)
  BY DEF Write
<1> DEFINE r == onRoute[s][i]
           route == Past(s, i)
<1>2. /\ config \in Settings /\ StageIsInOrder /\ stopped \in BOOLEAN
      /\ stored \in [Stores -> SUBSET Rounds] /\ FlightIsCounted
  BY DEF RoundsAreInOrder
<1>3. /\ r \in Range(onRoute[s]) /\ r \in Rounds /\ s \in EntryStores
      /\ r \in config.memory => s = OwnStore(r)
      /\ route \in [Stores -> Seq(Emitted)]
      /\ Range(route[s]) = Range(onRoute[s]) \ {r}
      /\ \A x \in Stores : IsInjective(route[x]) /\ Range(route[x]) \subseteq Range(onRoute[x])
      /\ \A x \in Stores \ {s} : route[x] = onRoute[x]
  BY RouteFacts
<1>4. RetryHeld(heldRounds, route, inFlight)
  BY <1>1 DEF Past
<1>5. FinishWrite(s, r) \/ FinishCopy(s, r) \/ SendMemoryRoundOn(s, r)
  BY <1>1
<1> HIDE DEF r, route
<1>6. /\ \A x \in Stores \ {s} : stored'[x] = stored[x]
      /\ stored'[s] \subseteq stored[s] \cup {r}
      /\ stored' \in [Stores -> SUBSET Rounds]
  <2>1. stored' \in {stored, [stored EXCEPT ![s] = @ \cup {r}]}
    <3>1. StoredAt(s, r) \in {stored, [stored EXCEPT ![s] = @ \cup {r}]}
      <4>1. CASE r \in HeldIn(s)
        BY <4>1 DEF StoredAt
      <4>2. CASE r \notin HeldIn(s)
        BY <1>2, <4>2 DEF StoredAt
      <4> QED
        BY <4>1, <4>2
    <3> QED
      BY <1>5, <3>1 DEF FinishWrite, FinishCopy, SendMemoryRoundOn
  <2> QED
    BY <1>2, <1>3, <2>1, SMTT(90)
<1>7. StageIsInOrder' /\ Before' = Before /\ Emitted' = Emitted
  BY <1>1, <1>2, StageStays
<1>8. IsInOrder(heldRounds, route, Before', Emitted)
  <2>1. IsInOrder(heldRounds, onRoute, Before, Emitted)
    BY DEF RoundsAreInOrder, PathIsInOrder
  <2> QED
    BY <1>3, <1>7, <2>1 DEF IsInOrder
<1>9. ASSUME NEW x \in EntryStores
      PROVE  Fits(stored', route, x)
  <2>1. /\ x \in Stores /\ Range(onRoute[x]) \in SUBSET Rounds /\ stored[x] \in SUBSET Rounds
        /\ Bits(stored[x]) + Bits(Range(onRoute[x])) <= config.capacity[x]
        /\ config.capacity[x] \in Nat
    BY <1>2, StoreFacts, PathFacts DEF RoundsAreInOrder, EntryStoresHaveRoom
  <2>2. CASE x # s
    BY <1>3, <1>6, <2>1, <2>2 DEF Fits
  <2>3. CASE x = s
    <3> DEFINE A == stored[s]
               B == Range(route[s])
               C == Range(onRoute[s])
    <3>1. A \in SUBSET Rounds /\ B \in SUBSET Rounds /\ C \in SUBSET Rounds
          /\ {r} \in SUBSET Rounds /\ C = B \cup {r} /\ B \cap {r} = {}
          /\ A \cup {r} \in SUBSET Rounds
      BY <1>3, <2>1, <2>3
    <3>2. stored'[s] \in SUBSET (A \cup {r})
      BY <1>6
    <3>3. Bits(A) + Bits(C) <= config.capacity[s]
      BY <2>1, <2>3
    <3> HIDE DEF A, B, C
    <3>4. /\ Bits(B) \in Nat /\ Bits({r}) \in Nat /\ Bits(C) = Bits(B) + Bits({r})
      BY <1>2, <3>1, BitsOfTwo
    <3>5. /\ Bits(A) \in Nat /\ Bits(A \cup {r}) \in Nat
          /\ Bits(A \cup {r}) <= Bits(A) + Bits({r})
      BY <1>2, <3>1, BitsOfTwo
    <3>6. Bits(stored'[s]) <= Bits(A \cup {r}) /\ Bits(stored'[s]) \in Nat
      <4>1. Bits(stored'[s]) <= Bits(A \cup {r})
        BY <1>2, <3>1, <3>2, BitsFacts
      <4>2. stored'[s] \in SUBSET Rounds
        BY <3>1, <3>2
      <4> QED
        BY <1>2, <4>1, <4>2, BitsFacts
    <3>7. Bits(stored'[s]) + Bits(B) <= config.capacity[s]
      BY <2>1, <2>3, <3>3, <3>4, <3>5, <3>6
    <3> QED
      BY <2>3, <3>7 DEF Fits, B
  <2> QED
    BY <2>2, <2>3
<1>10. /\ inFlight \in Nat /\ leaving' \in Nat
       /\ outgoing' \subseteq config.memory \cap Rounds
       /\ Cardinality(OwnWrites(route)) + leaving' + Cardinality(outgoing') <= inFlight
  <2> DEFINE A == OwnWrites(onRoute)
             B == OwnWrites(route)
  <2>1. /\ inFlight \in Nat /\ leaving \in Nat /\ outgoing \subseteq config.memory \cap Rounds
        /\ IsFiniteSet(outgoing) /\ Cardinality(outgoing) \in Nat
        /\ IsFiniteSet(A) /\ Cardinality(A) \in Nat
        /\ IsFiniteSet(B) /\ Cardinality(B) \in Nat
        /\ Cardinality(A) + leaving + Cardinality(outgoing) <= inFlight
    BY <1>2, FlightFacts
  <2>2. B \subseteq A
    BY <1>2, <1>3, StoreFacts DEF OwnWrites
  <2>3. Cardinality(B) <= Cardinality(A)
    BY <2>1, <2>2, FS_Subset
  <2>4. ASSUME s = OwnStore(r)
        PROVE  Cardinality(B) <= Cardinality(A) - 1
    <3>1. r \in A /\ r \notin B
      BY <1>3, <2>4 DEF OwnWrites
    <3> HIDE DEF A, B
    <3>2. B \subseteq A \ {r}
      BY <2>2, <3>1
    <3>3. IsFiniteSet(A \ {r}) /\ Cardinality(A \ {r}) = Cardinality(A) - 1
      BY <2>1, <3>1, FS_RemoveElement
    <3>4. Cardinality(B) <= Cardinality(A \ {r})
      BY <3>2, <3>3, FS_Subset
    <3> QED
      BY <3>3, <3>4
  <2> HIDE DEF A, B
  <2>5. CASE FinishWrite(s, r)
    <3>1. s = OwnStore(r) /\ leaving' = leaving + 1 /\ outgoing' = outgoing
      BY <2>5 DEF FinishWrite
    <3> QED
      BY <2>1, <2>4, <3>1 DEF B
  <2>6. CASE FinishCopy(s, r)
    <3>1. leaving' = leaving /\ outgoing' = outgoing
      BY <2>6 DEF FinishCopy, ends
    <3> QED
      BY <2>1, <2>3, <3>1 DEF B
  <2>7. CASE SendMemoryRoundOn(s, r)
    <3>1. /\ r \in config.memory /\ leaving' = leaving /\ outgoing' = outgoing \cup {r}
          /\ s = OwnStore(r)
      BY <1>3, <2>7 DEF SendMemoryRoundOn
    <3>2. Cardinality(outgoing') \in Nat /\ Cardinality(outgoing') <= Cardinality(outgoing) + 1
      <4>1. /\ IsFiniteSet(outgoing \cup {r})
            /\ Cardinality(outgoing \cup {r}) \in {Cardinality(outgoing), Cardinality(outgoing) + 1}
        BY <2>1, FS_AddElement, Zenon
      <4> QED
        BY <2>1, <3>1, <4>1
    <3>3. outgoing' \subseteq config.memory \cap Rounds
      BY <1>3, <2>1, <3>1
    <3> QED
      BY <2>1, <2>4, <3>1, <3>2, <3>3 DEF B
  <2> QED
    BY <1>5, <2>5, <2>6, <2>7
<1>11. /\ Cardinality(inAssembly') \in Nat
       /\ Cardinality(inAssembly') + Len(heldRounds) + inFlight = Count
       /\ Count <= config.places /\ (packingLine' # <<>> => Count = config.places)
  BY <1>1, CountFacts DEF stage
<1> QED
  BY <1>2, <1>4, <1>6, <1>7, <1>8, <1>9, <1>10, <1>11, RetryKeeps

\* A memory round leaves its store and the path, and both lines are retried.
LEMMA DeliverMemoryInOrder ==
    ASSUME RoundsAreInOrder, config' = config, NEW r, DeliverMemory(r)
    PROVE  RoundsAreInOrder'
<1> DEFINE flying == inFlight - 1
<1>1. /\ r \in outgoing /\ outgoing' = outgoing \ {r} /\ leaving' = leaving
      /\ stored' = [stored EXCEPT ![OwnStore(r)] = @ \ {r}]
      /\ UNCHANGED <<emitted, whole, expected, packed, forming>>
      /\ RetryPacking(flying) /\ RetryHeld(heldRounds, onRoute, flying)
  BY DEF DeliverMemory
<1>2. /\ config \in Settings /\ StageIsInOrder /\ FlightIsCounted /\ stopped \in BOOLEAN
      /\ stored \in [Stores -> SUBSET Rounds]
  BY DEF RoundsAreInOrder
<1>3. /\ inFlight \in Nat /\ leaving \in Nat /\ IsFiniteSet(outgoing)
      /\ outgoing \subseteq config.memory \cap Rounds
      /\ Cardinality(outgoing) \in Nat /\ Cardinality(OwnWrites(onRoute)) \in Nat
      /\ Cardinality(OwnWrites(onRoute)) + leaving + Cardinality(outgoing) <= inFlight
  BY <1>2, FlightFacts
<1>4. /\ Cardinality(outgoing') = Cardinality(outgoing) - 1 /\ Cardinality(outgoing') \in Nat
      /\ outgoing' \subseteq config.memory \cap Rounds
  <2>1. IsFiniteSet(outgoing') /\ Cardinality(outgoing') = Cardinality(outgoing) - 1
    BY <1>1, <1>3, FS_RemoveElement
  <2> QED
    BY <1>1, <1>3, <2>1, FS_CardinalityType
<1>5. /\ flying \in Nat
      /\ Cardinality(OwnWrites(onRoute)) + leaving' + Cardinality(outgoing') <= flying
  BY <1>1, <1>3, <1>4
<1>6. FreePlaces(flying) = config.places - Count + 1 /\ FreePlaces(flying) \in Int
  <2>1. FreePlaces(flying) = config.places - (Cardinality(inAssembly) + Len(heldRounds) + flying)
    BY DEF FreePlaces
  <2> QED
    BY <2>1, CountFacts
<1>7. inFlight = flying + 1
  BY <1>3
<1> HIDE DEF flying
<1>8. /\ StageIsInOrder' /\ Before' = Before /\ Emitted' = Emitted
      /\ \E n \in 0 .. Len(packingLine) :
            /\ Cardinality(inAssembly') = Cardinality(inAssembly) + n
            /\ n # 0 => n <= FreePlaces(flying)
            /\ packingLine' # <<>> => n + 1 > FreePlaces(flying)
  BY <1>1, <1>2, <1>6, RetryPackingFacts
<1>9. PICK n \in 0 .. Len(packingLine) :
            /\ Cardinality(inAssembly') = Cardinality(inAssembly) + n
            /\ n # 0 => n <= FreePlaces(flying)
            /\ packingLine' # <<>> => n + 1 > FreePlaces(flying)
  BY <1>8
<1>10. /\ Cardinality(inAssembly') \in Nat
       /\ Cardinality(inAssembly') + Len(heldRounds) + flying <= config.places
       /\ packingLine' # <<>> =>
            Cardinality(inAssembly') + Len(heldRounds) + flying = config.places
  <2>1. n \in Nat
    BY <1>2, StageFacts, LenProperties
  <2>2. Cardinality(inAssembly') + Len(heldRounds) + flying = Count + n - 1
    <3>1. /\ Cardinality(inAssembly) \in Nat /\ Len(heldRounds) \in Nat
          /\ Count = Cardinality(inAssembly) + Len(heldRounds) + inFlight
      BY CountFacts
    <3>2. Cardinality(inAssembly') = Cardinality(inAssembly) + n
      BY <1>9
    <3> QED
      BY <1>5, <1>7, <2>1, <3>1, <3>2
  <2>3. Count + n - 1 <= config.places
    BY <1>6, <1>9, <2>1, CountFacts
  <2>4. packingLine' # <<>> => Count + n - 1 = config.places
    BY <1>6, <1>9, <2>1, <2>3, CountFacts
  <2>5. Cardinality(inAssembly') \in Nat
    BY <1>9, <2>1, CountFacts
  <2> QED
    BY <2>2, <2>3, <2>4, <2>5
<1>11. /\ stored' \in [Stores -> SUBSET Rounds]
       /\ \A s \in EntryStores : stored'[s] \subseteq stored[s]
  BY <1>1, <1>2, StoreFacts
<1>12. \A s \in EntryStores : Fits(stored', onRoute, s)
  BY <1>11, StillFits
<1>13. IsInOrder(heldRounds, onRoute, Before', Emitted)
  BY <1>8 DEF RoundsAreInOrder, PathIsInOrder
<1> QED
  BY <1>1, <1>2, <1>3, <1>4, <1>5, <1>8, <1>10, <1>11, <1>12, <1>13, RetryKeeps

\* A hold that ends only lets rounds go.
LEMMA ReleaseLetsGo ==
    ASSUME RoundsAreInOrder, NEW w, Release(w)
    PROVE  /\ stored' \in [Stores -> SUBSET Rounds]
           /\ \A s \in Stores : stored'[s] \subseteq stored[s]
  BY DEF Release, RoundsAreInOrder

\* A decode takes its input.
LEMMA TakeInputInOrder ==
    ASSUME RoundsAreInOrder, config' = config, NEW w, TakeInput(w)
    PROVE  RoundsAreInOrder'
<1>1. /\ UNCHANGED <<stage, ends>> /\ Release(w)
      /\ RetryHeld(heldRounds, onRoute, inFlight)
  BY DEF TakeInput
<1>2. /\ stored' \in [Stores -> SUBSET Rounds]
      /\ \A s \in EntryStores : stored'[s] \subseteq stored[s]
  BY <1>1, ReleaseLetsGo, StoreFacts DEF RoundsAreInOrder
<1> QED
  BY <1>1, <1>2, LetGoKeeps

\* A decode ends, and its result is kept or not.
LEMMA EndDecodeInOrder ==
    ASSUME RoundsAreInOrder, config' = config, NEW w, EndDecode(w)
    PROVE  RoundsAreInOrder'
<1>1. /\ UNCHANGED <<stage, ends>> /\ (Keep(w) \/ Escalate(w))
      /\ RetryHeld(heldRounds, onRoute, inFlight)
  BY DEF EndDecode
<1>2. Release(w) \/ stored' = stored
  BY <1>1 DEF Keep, Escalate
<1>3. /\ stored' \in [Stores -> SUBSET Rounds]
      /\ \A s \in EntryStores : stored'[s] \subseteq stored[s]
  <2>1. CASE Release(w)
    BY <2>1, ReleaseLetsGo, StoreFacts DEF RoundsAreInOrder
  <2>2. CASE stored' = stored
    BY <2>2 DEF RoundsAreInOrder
  <2> QED
    BY <1>2, <2>1, <2>2
<1> QED
  BY <1>1, <1>3, LetGoKeeps

\* A redo takes its input.
LEMMA TakeRedoInputInOrder ==
    ASSUME RoundsAreInOrder, config' = config, NEW w, TakeRedoInput(w)
    PROVE  RoundsAreInOrder'
<1>1. /\ UNCHANGED <<stage, ends>> /\ Release(w)
      /\ RetryHeld(heldRounds, onRoute, inFlight)
  BY DEF TakeRedoInput
<1>2. /\ stored' \in [Stores -> SUBSET Rounds]
      /\ \A s \in EntryStores : stored'[s] \subseteq stored[s]
  BY <1>1, ReleaseLetsGo, StoreFacts DEF RoundsAreInOrder
<1> QED
  BY <1>1, <1>2, LetGoKeeps

\* A region lands in a store that no round is written to.
LEMMA LandRegionInOrder ==
    ASSUME RoundsAreInOrder, config' = config, NEW e \in Edges, LandRegion(e)
    PROVE  RoundsAreInOrder'
<1> DEFINE l == config.edges[e]
           landed == Range(SubSeq(Head(crossing[e]), 1, Len(Head(crossing[e])))) \cap HeldIn(l)
<1>1. UNCHANGED <<stage, path, ends>> /\ stored' = [stored EXCEPT ![l] = @ \cup landed]
  BY DEF LandRegion, LandedAt
<1>2. config \in Settings /\ stored \in [Stores -> SUBSET Rounds]
  BY DEF RoundsAreInOrder
<1>3. l \in Stores /\ l \notin EntryStores
  BY <1>2, StoreFacts
<1>4. landed \subseteq Rounds
  <2>1. HeldIn(l) \subseteq Rounds
    BY <1>2, SettingFacts DEF HeldIn
  <2> QED
    BY <2>1
<1> HIDE DEF landed, l
<1>5. /\ stored' \in [Stores -> SUBSET Rounds]
      /\ \A s \in EntryStores : stored'[s] \subseteq stored[s]
  BY <1>1, <1>2, <1>3, <1>4, StoreFacts
<1> QED
  BY <1>1, <1>5, OffPathKeeps

\* Any step keeps the rounds in order.
LEMMA NextInOrder ==
    ASSUME RoundsAreInOrder, [Next]_vars
    PROVE  RoundsAreInOrder'
<1>1. CASE UNCHANGED vars
  <2>1. UNCHANGED <<stage, path, ends>> /\ stored' = stored /\ config' = config
    BY <1>1 DEF vars, reads
  <2>2. /\ stored' \in [Stores -> SUBSET Rounds]
        /\ \A s \in EntryStores : stored'[s] \subseteq stored[s]
    BY <2>1 DEF RoundsAreInOrder
  <2> QED
    BY <2>1, <2>2, OffPathKeeps
<1>2. ASSUME Next
      PROVE  RoundsAreInOrder'
  <2>1. config' = config
    BY <1>2 DEF Next
  <2>2. ASSUME UNCHANGED <<stage, path, ends, stored>>
        PROVE  RoundsAreInOrder'
    <3>1. /\ stored' \in [Stores -> SUBSET Rounds]
          /\ \A s \in EntryStores : stored'[s] \subseteq stored[s]
      BY <2>2 DEF RoundsAreInOrder
    <3>2. UNCHANGED <<stage, path, ends>>
      BY <2>2
    <3> QED
      BY <2>1, <3>1, <3>2, OffPathKeeps
  <2>3. CASE ExpectRound
    BY <2>1, <2>3, ExpectRoundKeeps
  <2>4. ASSUME NEW r \in Rounds, Add(r) \/ FinishPacking(r) \/ DeliverMemory(r)
        PROVE  RoundsAreInOrder'
    BY <2>1, <2>4, AddKeeps, FinishPackingKeeps, DeliverMemoryInOrder
  <2>5. CASE HandOn
    BY <2>1, <2>5, HandOnKeeps
  <2>6. ASSUME NEW s \in Stores, Write(s)
        PROVE  RoundsAreInOrder'
    BY <2>1, <2>6, WriteInOrder
  <2>7. CASE Leave
    BY <2>1, <2>7, LeaveKeeps
  <2>8. ASSUME NEW e \in Edges, LandRegion(e)
        PROVE  RoundsAreInOrder'
    BY <2>1, <2>8, LandRegionInOrder
  <2>9. ASSUME NEW w \in Windows, TakeInput(w) \/ EndDecode(w) \/ TakeRedoInput(w)
        PROVE  RoundsAreInOrder'
    BY <2>1, <2>9, TakeInputInOrder, EndDecodeInOrder, TakeRedoInputInOrder
  <2>10. ASSUME NEW w \in Windows, Rescue(w) \/ EndRedo(w)
         PROVE  RoundsAreInOrder'
    <3>1. UNCHANGED <<stage, path, ends, stored>>
      BY <2>10 DEF Rescue, EndRedo
    <3> QED
      BY <2>2, <3>1
  <2> QED
    BY <1>2, <2>3, <2>4, <2>5, <2>6, <2>7, <2>8, <2>9, <2>10 DEF Next
<1> QED
  BY <1>1, <1>2

\* Before the first round nothing is anywhere.
LEMMA InitInOrder ==
    ASSUME Init
    PROVE  RoundsAreInOrder
<1>1. /\ config \in Settings /\ emitted = 0 /\ whole = {} /\ packingLine = <<>>
      /\ inAssembly = {} /\ expected = {} /\ packing = {} /\ packed = {} /\ forming = <<>>
      /\ heldRounds = <<>> /\ onRoute = [s \in Stores |-> <<>>] /\ inFlight = 0 /\ leaving = 0
      /\ outgoing = {} /\ stored = [s \in Stores |-> {}] /\ stopped = FALSE
  BY DEF Init
<1>2. \A S : <<>> \in Seq(S) /\ Range(<<>>) = {} /\ IsInjective(<<>>) /\ Len(<<>>) = 0
  BY DEF Range, IsInjective
<1>3. IsFiniteSet({}) /\ Cardinality({}) = 0
  BY FS_EmptySet
<1>4. Before = {}
  BY <1>1, <1>2 DEF Before
<1>5. Len(config.emission) \in Nat
  <2>1. config.emission \in Seq((DOMAIN config.own) \X (Nat \ {0}))
    BY <1>1, SettingsAssumption
  <2> QED
    BY <2>1, LenProperties
<1>6. StageIsInOrder
  BY <1>1, <1>2, <1>5 DEF StageIsInOrder
<1>7. PathIsInOrder
  BY <1>1, <1>2, <1>4 DEF PathIsInOrder, IsInOrder
<1>8. FlightIsCounted
  <2>1. OwnWrites(onRoute) = {}
    BY <1>1, <1>2, StoreFacts DEF OwnWrites
  <2> QED
    <3>1. inFlight = 0 /\ leaving = 0 /\ outgoing = {}
      BY <1>1
    <3>2. Cardinality(OwnWrites(onRoute)) = 0 /\ Cardinality(outgoing) = 0
      BY <1>3, <2>1, <3>1
    <3> QED
      BY <3>1, <3>2 DEF FlightIsCounted
<1>9. NoPlaceIsForgotten
  <2>1. config.places \in Nat
    BY <1>1, StoreFacts
  <2>2. Count = 0
    <3>1. inFlight = 0 /\ Len(heldRounds) = 0 /\ inAssembly = {}
      BY <1>1, <1>2
    <3>2. Cardinality(inAssembly) = 0
      BY <1>3, <3>1
    <3> QED
      BY <3>1, <3>2 DEF Count
  <2> QED
    <3>1. packingLine = <<>>
      BY <1>1
    <3> QED
      BY <2>1, <2>2, <3>1 DEF NoPlaceIsForgotten
<1>10. EntryStoresHaveRoom
  <2>1. ASSUME NEW s \in EntryStores
        PROVE  /\ stored[s] = {} /\ Range(onRoute[s]) = {} /\ config.capacity[s] \in Nat
    BY <1>1, <1>2, StoreFacts
  <2>2. Bits({}) = 0
    BY <1>1, BitsFacts
  <2>3. \A s \in EntryStores : Bits(stored[s]) = 0 /\ Bits(Range(onRoute[s])) = 0
    BY <2>1, <2>2
  <2> QED
    BY <2>1, <2>3 DEF EntryStoresHaveRoom
<1>11. stored \in [Stores -> SUBSET Rounds]
  BY <1>1
<1> QED
  BY <1>1, <1>6, <1>7, <1>8, <1>9, <1>10, <1>11 DEF RoundsAreInOrder

-----------------------------------------------------------------------------
(* What a window waits for *)

\* A window asks for its input once it was told of all it reads, takes it
\* once those it waits for are decoded, and never reads again.
PhasesGoOn ==
    \A w \in Windows :
        \/ phase'[w] = phase[w]
        \/ phase[w] = "reading" /\ Reads(w) \subseteq published'
        \/ /\ phase[w] = "requested" /\ phase'[w] # "reading"
           /\ \A d \in Deps(w) : phase[d] = "decoded"
        \/ phase[w] \notin {"reading", "requested"} /\ phase'[w] # "reading"

\* What is told of was on its way; what is ahead of it there was before.
RoundsGoOn ==
    /\ Emitted \subseteq Emitted'
    /\ published \subseteq published'
    /\ \A r \in published' \ published : \E s \in Stores : r \in Range(onRoute[s])
    /\ (Before' \cup Range(heldRounds')) \cap Emitted \subseteq Before \cup Range(heldRounds)

\* A window that is woken was told of all its rounds.
LEMMA WokenWindows ==
    ASSUME config \in Settings, config' = config, WakeWindows
    PROVE  \A w \in Windows : \/ phase'[w] = phase[w]
                              \/ phase[w] = "reading" /\ Reads(w) \subseteq published'
<1> SUFFICES ASSUME NEW w \in Windows, phase'[w] # phase[w]
             PROVE  phase[w] = "reading" /\ Reads(w) \subseteq published'
  OBVIOUS
<1>1. phase'[w] = IF phase[w] = "reading" /\ IsReady(w)' THEN "requested" ELSE phase[w]
  BY DEF WakeWindows
<1>2. phase[w] = "reading" /\ IsReady(w)'
  BY <1>1
<1>3. ASSUME NEW r \in Reads(w)
      PROVE  r \in published'
  <2>1. HasArrived(r)'
    <3>1. r \in Reads(w)'
      BY <1>3, SameSetting
    <3> QED
      BY <1>2, <3>1 DEF IsReady
  <2>2. r = <<r[1], r[2]>> /\ r[2] \in Nat \ {0}
    BY SettingFacts
  <2>3. \A i \in 1 .. r[2] : <<r[1], i>> \in published'
    BY <2>1 DEF HasArrived
  <2>4. <<r[1], r[2]>> \in published'
    BY <2>2, <2>3
  <2> QED
    BY <2>2, <2>4
<1> QED
  BY <1>2, <1>3

\* How every step moves the windows.
LEMMA PhasesFacts ==
    ASSUME IInv, Next
    PROVE  PhasesGoOn
<1>1. config' = config /\ config \in Settings /\ phase = [w \in Windows |-> phase[w]]
  BY DEF Next, IInv, Types
<1>2. ASSUME phase' = phase
      PROVE  PhasesGoOn
  BY <1>2 DEF PhasesGoOn
<1>3. ASSUME UNCHANGED reads
      PROVE  PhasesGoOn
  BY <1>2, <1>3 DEF reads
<1>4. ASSUME NEW s \in Stores, Write(s)
      PROVE  PhasesGoOn
  <2>1. WakeWindows \/ phase' = phase
    BY <1>4 DEF Write, FinishWrite, FinishCopy, SendMemoryRoundOn
  <2>2. CASE WakeWindows
    BY <1>1, <2>2, WokenWindows DEF PhasesGoOn
  <2> QED
    BY <1>2, <2>1, <2>2
<1>5. ASSUME NEW w \in Windows, NEW p, phase' = [phase EXCEPT ![w] = p], p # "reading",
             \/ phase[w] \notin {"reading", "requested"}
             \/ phase[w] = "requested" /\ \A d \in Deps(w) : phase[d] = "decoded"
      PROVE  PhasesGoOn
  <2>1. \A x \in Windows \ {w} : phase'[x] = phase[x]
    BY <1>1, <1>5
  <2>2. phase'[w] = p
    BY <1>1, <1>5
  <2> QED
    BY <1>5, <2>1, <2>2 DEF PhasesGoOn
<1>6. ASSUME NEW w \in Windows, TakeInput(w)
      PROVE  PhasesGoOn
  <2>1. /\ phase' = [phase EXCEPT ![w] = "decoding"]
        /\ phase[w] = "requested" /\ \A d \in Deps(w) : phase[d] = "decoded"
    BY <1>6 DEF TakeInput, MayTakeInput
  <2> QED
    BY <1>5, <2>1
<1>7. ASSUME NEW w \in Windows, EndDecode(w)
      PROVE  PhasesGoOn
  <2>1. /\ \/ phase' = [phase EXCEPT ![w] = "decoded"]
           \/ phase' = [phase EXCEPT ![w] = "escalated"]
        /\ phase[w] = "decoding"
    BY <1>7 DEF EndDecode, Keep, Escalate
  <2> QED
    BY <1>5, <2>1
<1>8. ASSUME NEW w \in Windows, EndRedo(w)
      PROVE  PhasesGoOn
  <2>1. /\ phase' = [phase EXCEPT ![w] = "decoded"]
        /\ phase[w] \in {"escalated", "decoded"}
    BY <1>8 DEF EndRedo
  <2> QED
    BY <1>5, <2>1
<1>9. ASSUME NEW w \in Windows, Rescue(w) \/ TakeRedoInput(w)
      PROVE  PhasesGoOn
  BY <1>2, <1>9 DEF Rescue, TakeRedoInput
<1>10. ASSUME NEW e \in Edges, LandRegion(e)
       PROVE  PhasesGoOn
  BY <1>2, <1>10 DEF LandRegion
<1>11. ASSUME NEW r \in Rounds, Add(r) \/ FinishPacking(r) \/ DeliverMemory(r)
       PROVE  PhasesGoOn
  BY <1>2, <1>3, <1>11 DEF Add, FinishPacking, DeliverMemory
<1>12. ASSUME ExpectRound \/ HandOn \/ Leave
       PROVE  PhasesGoOn
  BY <1>3, <1>12 DEF ExpectRound, HandOn, Leave
<1> QED
  BY <1>4, <1>6, <1>7, <1>8, <1>9, <1>10, <1>11, <1>12 DEF Next

\* The line after a retry.
LEMMA RetriedLine ==
    ASSUME config \in Settings, config' = config, NEW all \in SUBSET Rounds, NEW early,
           NEW line, NEW route, IsInOrder(line, route, early, all),
           NEW flying, RetryHeld(line, route, flying)
    PROVE  Range(heldRounds') \subseteq Range(line)
<1>1. line \in Seq(all) /\ IsInjective(line)
  BY DEF IsInOrder
<1>2. PICK n \in 0 .. Len(line) : heldRounds' = SubSeq(line, n + 1, Len(line))
  BY <1>1, RetryHeldFacts
<1>3. Range(SubSeq(line, 1, n)) \cup Range(SubSeq(line, n + 1, Len(line))) = Range(line)
  BY <1>1, SplitApart
<1> QED
  BY <1>2, <1>3

\* The held line is retried, as it was or with a round of the stage behind
\* it; a write that completed left its round stored where that is held.
Retried(line, route) ==
    /\ \E flying : RetryHeld(line, route, flying)
    /\ IsInOrder(line, route, Before', Emitted)
    /\ \/ line = heldRounds
       \/ \E r \in Before : line = Append(heldRounds, r)
    /\ \A s \in EntryStores :
        Range(onRoute[s]) \cap HeldIn(s) \subseteq stored'[s] \cup Range(route[s])
LineGoesOn ==
    \/ UNCHANGED <<heldRounds, onRoute, stopped>>
    \/ \E line, route : Retried(line, route)

\* What a retry takes from the line it was given.
LEMMA RetriedFacts ==
    ASSUME RoundsAreInOrder, config' = config, NEW line, NEW route, Retried(line, route)
    PROVE  /\ line \in Seq(Emitted) /\ Range(heldRounds') \subseteq Range(line)
           /\ Range(line) \subseteq Before \cup Range(heldRounds)
           /\ Range(heldRounds) \subseteq Range(line)
           /\ heldRounds # <<>> => line # <<>> /\ Head(line) = Head(heldRounds)
<1>1. /\ config \in Settings /\ Emitted \in SUBSET Rounds /\ Before \subseteq Emitted
      /\ heldRounds \in Seq(Emitted)
  BY StageIsFinite, PathFacts DEF RoundsAreInOrder
<1>2. PICK flying : RetryHeld(line, route, flying)
  BY DEF Retried
<1>3. IsInOrder(line, route, Before', Emitted)
  BY DEF Retried
<1>4. line \in Seq(Emitted)
  BY <1>3 DEF IsInOrder
<1>5. Range(heldRounds') \subseteq Range(line)
  <2> DEFINE early == Before'
  <2>1. IsInOrder(line, route, early, Emitted)
    BY <1>3
  <2> HIDE DEF early
  <2> QED
    BY <1>1, <1>2, <2>1, RetriedLine
<1>6. CASE line = heldRounds
  BY <1>4, <1>5, <1>6
<1>7. ASSUME NEW r \in Before, line = Append(heldRounds, r)
      PROVE  /\ Range(line) = Range(heldRounds) \cup {r}
             /\ heldRounds # <<>> => line # <<>> /\ Head(line) = Head(heldRounds)
  <2>1. r \in Emitted /\ Range(line) = Range(heldRounds) \cup {r}
    BY <1>1, <1>7, AppendFacts
  <2>2. ASSUME heldRounds # <<>>
        PROVE  line # <<>> /\ Head(line) = Head(heldRounds)
    <3>1. Len(heldRounds) \in Nat /\ Len(heldRounds) # 0
      BY <1>1, <2>2, EmptySeq, LenProperties
    <3>2. Len(line) = Len(heldRounds) + 1 /\ line[1] = heldRounds[1]
      BY <1>1, <1>7, <2>1, <3>1, AppendProperties
    <3> QED
      BY <1>1, <1>4, <2>2, <3>1, <3>2, HeadTailProperties
  <2> QED
    BY <2>1, <2>2
<1>8. line = heldRounds \/ \E r \in Before : line = Append(heldRounds, r)
  BY DEF Retried
<1> QED
  BY <1>4, <1>5, <1>6, <1>7, <1>8

\* A step of the windows retries the line as it is.
LEMMA AsItIs ==
    ASSUME RoundsAreInOrder, config' = config, UNCHANGED stage,
           NEW flying, RetryHeld(heldRounds, onRoute, flying)
    PROVE  Retried(heldRounds, onRoute) /\ Before' = Before /\ Emitted' = Emitted
<1>1. Before' = Before /\ Emitted' = Emitted
  BY StageStays DEF RoundsAreInOrder
<1>2. IsInOrder(heldRounds, onRoute, Before', Emitted)
  BY <1>1 DEF RoundsAreInOrder, PathIsInOrder
<1> QED
  BY <1>1, <1>2 DEF Retried

\* A place is freed: rounds go from the packing line into the stage.
LEMMA FreedPlace ==
    ASSUME RoundsAreInOrder, config' = config, RetryPacking(inFlight - 1),
           UNCHANGED <<emitted, whole, expected, packed, forming>>
    PROVE  Before' = Before /\ Emitted' = Emitted
<1> DEFINE flying == inFlight - 1
<1>1. FreePlaces(flying) \in Int
  <2>1. FreePlaces(flying) = config.places - (Cardinality(inAssembly) + Len(heldRounds) + flying)
    BY DEF FreePlaces
  <2> QED
    BY <2>1, CountFacts
<1>2. RetryPacking(flying) /\ config \in Settings /\ StageIsInOrder
  BY DEF RoundsAreInOrder
<1> HIDE DEF flying
<1> QED
  BY <1>1, <1>2, RetryPackingFacts

\* A write that completes.
LEMMA WriteRetries ==
    ASSUME RoundsAreInOrder, config' = config, NEW s \in Stores, Write(s)
    PROVE  /\ LineGoesOn /\ Before' = Before /\ Emitted' = Emitted
           /\ \A r \in published' \ published : \E x \in Stores : r \in Range(onRoute[x])
           /\ published \subseteq published'
           /\ \A x \in Stores : stored[x] \subseteq stored'[x]
<1>1. PICK i \in DOMAIN onRoute[s] :
        /\ \/ FinishWrite(s, onRoute[s][i])
           \/ FinishCopy(s, onRoute[s][i])
           \/ SendMemoryRoundOn(s, onRoute[s][i])
        /\ UNCHANGED stage
        /\ RetryHeld(heldRounds, [onRoute EXCEPT ![s] = RemoveAt(@, i)], inFlight)
  BY DEF Write
<1> DEFINE r == onRoute[s][i]
           route == Past(s, i)
<1>2. config \in Settings /\ StageIsInOrder /\ stored \in [Stores -> SUBSET Rounds]
  BY DEF RoundsAreInOrder
<1>3. /\ r \in Range(onRoute[s]) /\ r \in Rounds /\ s \in EntryStores
      /\ route \in [Stores -> Seq(Emitted)]
      /\ Range(route[s]) = Range(onRoute[s]) \ {r}
      /\ \A x \in Stores : IsInjective(route[x]) /\ Range(route[x]) \subseteq Range(onRoute[x])
      /\ \A x \in Stores \ {s} : route[x] = onRoute[x]
  BY RouteFacts
<1>4. RetryHeld(heldRounds, route, inFlight)
  BY <1>1 DEF Past
<1>5. FinishWrite(s, r) \/ FinishCopy(s, r) \/ SendMemoryRoundOn(s, r)
  BY <1>1
<1> HIDE DEF r, route
<1>6. Before' = Before /\ Emitted' = Emitted
  BY <1>1, <1>2, StageStays
<1>7. IsInOrder(heldRounds, route, Before', Emitted)
  <2>1. IsInOrder(heldRounds, onRoute, Before, Emitted)
    BY DEF RoundsAreInOrder, PathIsInOrder
  <2> QED
    BY <1>3, <1>6, <2>1 DEF IsInOrder
<1>8. stored' = StoredAt(s, r) \/ stored' = [stored EXCEPT ![s] = @ \cup {r}]
  BY <1>5 DEF FinishWrite, FinishCopy, SendMemoryRoundOn
<1>9. /\ r \in HeldIn(s) => r \in stored'[s]
      /\ \A x \in Stores : stored[x] \subseteq stored'[x]
  BY <1>2, <1>8 DEF StoredAt
<1>10. ASSUME NEW x \in EntryStores
       PROVE  Range(onRoute[x]) \cap HeldIn(x) \subseteq stored'[x] \cup Range(route[x])
  <2>1. CASE x = s
    BY <1>3, <1>9, <2>1
  <2>2. CASE x # s
    BY <1>2, <1>3, <2>2, StoreFacts
  <2> QED
    BY <2>1, <2>2
<1>11. Retried(heldRounds, route)
  BY <1>4, <1>7, <1>10 DEF Retried
<1>12. published' = published \/ published' = published \cup {r}
  BY <1>5 DEF FinishWrite, FinishCopy, SendMemoryRoundOn
<1> QED
  BY <1>3, <1>6, <1>9, <1>11, <1>12 DEF LineGoesOn

\* A round of the stage goes to the end of the line.
LEMMA HandOnRetries ==
    ASSUME RoundsAreInOrder, config' = config, HandOn
    PROVE  LineGoesOn /\ Before' \subseteq Before /\ Emitted' = Emitted
<1> DEFINE h == Head(forming)
           line == Append(heldRounds, h)
<1>1. /\ forming # <<>> /\ inAssembly' = inAssembly \ {h}
      /\ UNCHANGED <<emitted, packingLine>>
      /\ RetryHeld(line, onRoute, inFlight)
  BY DEF HandOn
<1>2. config \in Settings /\ StageIsInOrder
  BY DEF RoundsAreInOrder
<1>3. /\ forming \in Seq(inAssembly \cap whole) /\ IsInjective(forming)
      /\ Range(forming) \subseteq inAssembly \cap whole
      /\ inAssembly \subseteq Emitted /\ inAssembly \cap Range(packingLine) = {}
  BY <1>2, StageFacts
<1>4. h \in Range(forming)
  BY <1>1, <1>3, TailFacts
<1> HIDE DEF h
<1>5. h \in Before /\ h \in Emitted /\ Emitted' = Emitted /\ Before' = Before \ {h}
  BY <1>1, <1>3, <1>4 DEF Before, Emitted
<1>6. /\ heldRounds \in Seq(Emitted) /\ IsInjective(heldRounds)
      /\ Range(heldRounds) \cap Before = {}
      /\ onRoute \in [Stores -> Seq(Emitted)]
      /\ \A s \in Stores :
        /\ IsInjective(onRoute[s])
        /\ Range(onRoute[s]) \cap Before = {} /\ Range(onRoute[s]) \cap Range(heldRounds) = {}
        /\ \A r \in Range(onRoute[s]) :
            s \in EntryStores /\ (r \in config.memory => s = OwnStore(r))
  BY DEF RoundsAreInOrder, PathIsInOrder, IsInOrder
<1>7. IsInOrder(line, onRoute, Before', Emitted)
  <2>1. /\ line \in Seq(Emitted) /\ IsInjective(line) /\ Range(line) = Range(heldRounds) \cup {h}
    <3>1. h \notin Range(heldRounds)
      BY <1>5, <1>6
    <3> QED
      BY <1>5, <1>6, <3>1, AppendFacts
  <2> HIDE DEF line
  <2>2. Range(line) \cap Before' = {}
    BY <1>5, <1>6, <2>1
  <2>3. \A s \in Stores : Range(onRoute[s]) \cap Before' = {} /\ Range(onRoute[s]) \cap Range(line) = {}
    BY <1>5, <1>6, <2>1
  <2> QED
    BY <1>6, <2>1, <2>2, <2>3 DEF IsInOrder
<1>8. line = heldRounds \/ \E r \in Before : line = Append(heldRounds, r)
  BY <1>5
<1> HIDE DEF line
<1>9. Retried(line, onRoute)
  BY <1>1, <1>7, <1>8 DEF Retried
<1> QED
  BY <1>5, <1>9 DEF LineGoesOn

\* A round that is emitted was nowhere before.
LEMMA EmittedGrows ==
    ASSUME RoundsAreInOrder, config' = config, ExpectRound
    PROVE  Emitted \subseteq Emitted' /\ Before' \cap Emitted \subseteq Before
<1> DEFINE r == config.emission[emitted + 1]
<1>1. /\ emitted < Len(config.emission) /\ emitted' = emitted + 1
      /\ \/ inAssembly' = inAssembly \cup {r} /\ packingLine' = packingLine
         \/ inAssembly' = inAssembly /\ packingLine' = Append(packingLine, r)
  BY DEF ExpectRound, Enter
<1>2. /\ config \in Settings /\ StageIsInOrder
      /\ emitted \in 0 .. Len(config.emission) /\ Len(config.emission) \in Nat
      /\ DOMAIN config.emission = 1 .. Len(config.emission) /\ IsInjective(config.emission)
  <2>1. config \in Settings /\ StageIsInOrder /\ emitted \in 0 .. Len(config.emission)
    BY DEF RoundsAreInOrder, StageIsInOrder
  <2>2. config.emission \in Seq((DOMAIN config.own) \X (Nat \ {0}))
    BY <2>1, SettingsAssumption
  <2> QED
    BY <2>1, <2>2, StoreFacts, LenProperties
<1>3. Emitted' = Emitted \cup {r}
  <2>1. 1 .. emitted + 1 = (1 .. emitted) \cup {emitted + 1}
    BY <1>2
  <2> QED
    BY <1>1, <2>1 DEF Emitted
<1>4. r \notin Emitted
  <2> SUFFICES ASSUME NEW i \in 1 .. emitted, config.emission[i] = config.emission[emitted + 1]
               PROVE  FALSE
    BY DEF Emitted
  <2>1. i \in DOMAIN config.emission /\ emitted + 1 \in DOMAIN config.emission
    BY <1>1, <1>2
  <2>2. i = emitted + 1
    BY <1>2, <2>1 DEF IsInjective
  <2> QED
    BY <1>2, <2>2
<1> HIDE DEF r
<1>5. packingLine \in Seq(Emitted')
  BY <1>2, <1>3, StageFacts
<1>6. Before' = Before \cup {r}
  <2>1. CASE inAssembly' = inAssembly \cup {r} /\ packingLine' = packingLine
    BY <2>1 DEF Before
  <2>2. CASE inAssembly' = inAssembly /\ packingLine' = Append(packingLine, r)
    <3>1. r \in Emitted' /\ Range(packingLine') = Range(packingLine) \cup {r}
      BY <1>3, <1>5, <2>2, AppendFacts
    <3> QED
      BY <2>2, <3>1 DEF Before
  <2> QED
    BY <1>1, <2>1, <2>2
<1> QED
  BY <1>3, <1>4, <1>6

\* A round that is still held for stays in its store.
HeldGoesOn == \A s \in EntryStores : stored[s] \cap HeldIn(s)' \subseteq stored'[s]

\* What every step does to the line, to what is told of and to what is held.
LEMMA StepFacts ==
    ASSUME RoundsAreInOrder, Next
    PROVE  LineGoesOn /\ RoundsGoOn /\ HeldGoesOn
<1>1. /\ config' = config /\ config \in Settings /\ stored \in [Stores -> SUBSET Rounds]
      /\ EntryStores \subseteq Stores
  BY StoreFacts DEF Next, RoundsAreInOrder
<1>2. ASSUME stored' = stored
      PROVE  HeldGoesOn
  BY <1>2 DEF HeldGoesOn
<1>3. ASSUME NEW w, Release(w)
      PROVE  HeldGoesOn
  BY <1>1, <1>3 DEF Release, HeldGoesOn
<1>4. ASSUME UNCHANGED <<heldRounds, published>>, Emitted \subseteq Emitted',
             Before' \cap Emitted \subseteq Before
      PROVE  RoundsGoOn
  BY <1>4 DEF RoundsGoOn
<1>5. ASSUME UNCHANGED path
      PROVE  LineGoesOn /\ heldRounds' = heldRounds
  BY <1>5 DEF LineGoesOn, path
<1>6. ASSUME UNCHANGED stage
      PROVE  Before' = Before /\ Emitted' = Emitted
  BY <1>1, <1>6, StageStays DEF RoundsAreInOrder
<1>7. ASSUME NEW line, NEW route, Retried(line, route), published' = published,
             Before' \subseteq Before, Emitted' = Emitted
      PROVE  LineGoesOn /\ RoundsGoOn
  <2>1. /\ Range(heldRounds') \subseteq Range(line)
        /\ Range(line) \subseteq Before \cup Range(heldRounds)
    BY <1>1, <1>7, RetriedFacts
  <2>2. RoundsGoOn
    BY <1>7, <2>1 DEF RoundsGoOn
  <2> QED
    BY <1>7, <2>2 DEF LineGoesOn
<1>8. ASSUME LineGoesOn, published' = published, Before' \subseteq Before, Emitted' = Emitted
      PROVE  RoundsGoOn
  BY <1>4, <1>7, <1>8 DEF LineGoesOn
<1>9. CASE ExpectRound
  <2>1. UNCHANGED path /\ stored' = stored /\ published' = published
    BY <1>9 DEF ExpectRound, reads
  <2>2. Emitted \subseteq Emitted' /\ Before' \cap Emitted \subseteq Before
    BY <1>1, <1>9, EmittedGrows
  <2> QED
    BY <1>2, <1>4, <1>5, <2>1, <2>2
<1>10. ASSUME NEW r \in Rounds, Add(r) \/ FinishPacking(r)
       PROVE  LineGoesOn /\ RoundsGoOn /\ HeldGoesOn
  <2>1. /\ UNCHANGED path /\ stored' = stored /\ published' = published
        /\ UNCHANGED <<emitted, packingLine, inAssembly>>
    BY <1>10 DEF Add, FinishPacking, reads
  <2>2. Emitted' = Emitted /\ Before' = Before
    BY <1>1, <2>1 DEF Emitted, Before
  <2> QED
    BY <1>2, <1>4, <1>5, <2>1, <2>2
<1>11. ASSUME NEW r \in Rounds, DeliverMemory(r)
       PROVE  LineGoesOn /\ RoundsGoOn /\ HeldGoesOn
  <2>1. /\ r \in outgoing /\ stored' = [stored EXCEPT ![OwnStore(r)] = @ \ {r}]
        /\ UNCHANGED <<emitted, whole, expected, packed, forming>> /\ published' = published
        /\ RetryPacking(inFlight - 1) /\ RetryHeld(heldRounds, onRoute, inFlight - 1)
    BY <1>11 DEF DeliverMemory
  <2>2. Before' = Before /\ Emitted' = Emitted
    BY <1>1, <2>1, FreedPlace
  <2>3. Retried(heldRounds, onRoute)
    <3>1. IsInOrder(heldRounds, onRoute, Before', Emitted)
      BY <2>2 DEF RoundsAreInOrder, PathIsInOrder
    <3> QED
      BY <2>1, <3>1 DEF Retried
  <2>4. r \in config.memory
    BY <2>1 DEF RoundsAreInOrder, FlightIsCounted
  <2>5. ASSUME NEW s
        PROVE  r \notin HeldIn(s)'
    <3>1. \A w \in Windows : r \notin Reads(w)
      BY <1>1, <2>4, SettingFacts
    <3> QED
      BY <1>1, <3>1, SameSetting DEF HeldIn
  <2>6. HeldGoesOn
    BY <1>1, <2>1, <2>5 DEF HeldGoesOn
  <2> QED
    BY <1>7, <2>1, <2>2, <2>3, <2>6
<1>12. CASE HandOn
  <2>1. LineGoesOn /\ Before' \subseteq Before /\ Emitted' = Emitted
    BY <1>1, <1>12, HandOnRetries
  <2>2. stored' = stored /\ published' = published
    BY <1>12 DEF HandOn, reads
  <2> QED
    BY <1>2, <1>8, <2>1, <2>2
<1>13. ASSUME NEW s \in Stores, Write(s)
       PROVE  LineGoesOn /\ RoundsGoOn /\ HeldGoesOn
  <2>1. /\ LineGoesOn /\ Before' = Before /\ Emitted' = Emitted
        /\ \A r \in published' \ published : \E x \in Stores : r \in Range(onRoute[x])
        /\ published \subseteq published'
        /\ \A x \in Stores : stored[x] \subseteq stored'[x]
    BY <1>1, <1>13, WriteRetries
  <2>2. Range(heldRounds') \subseteq Before \cup Range(heldRounds)
    BY <1>1, <2>1, RetriedFacts DEF LineGoesOn
  <2> QED
    BY <1>1, <2>1, <2>2 DEF RoundsGoOn, HeldGoesOn
<1>14. CASE Leave
  <2>1. /\ UNCHANGED <<heldRounds, onRoute, stopped>> /\ stored' = stored /\ published' = published
        /\ UNCHANGED <<emitted, whole, expected, packed, forming>>
        /\ RetryPacking(inFlight - 1)
    BY <1>14 DEF Leave, reads
  <2>2. Before' = Before /\ Emitted' = Emitted
    BY <1>1, <2>1, FreedPlace
  <2> QED
    BY <1>2, <1>4, <2>1, <2>2 DEF LineGoesOn
<1>15. ASSUME NEW e \in Edges, LandRegion(e)
       PROVE  LineGoesOn /\ RoundsGoOn /\ HeldGoesOn
  <2>1. /\ UNCHANGED <<stage, path>> /\ published' = published
        /\ stored' = LandedAt(config.edges[e], Head(crossing[e]), Len(Head(crossing[e])))
    BY <1>15 DEF LandRegion
  <2>2. \A s \in Stores : stored[s] \subseteq stored'[s]
    BY <1>1, <2>1 DEF LandedAt
  <2> QED
    BY <1>1, <1>4, <1>5, <1>6, <2>1, <2>2 DEF HeldGoesOn
<1>16. ASSUME NEW w \in Windows, TakeInput(w) \/ EndDecode(w) \/ TakeRedoInput(w)
       PROVE  LineGoesOn /\ RoundsGoOn /\ HeldGoesOn
  <2>1. /\ UNCHANGED stage /\ published' = published
        /\ RetryHeld(heldRounds, onRoute, inFlight)
        /\ Release(w) \/ stored' = stored
    BY <1>16 DEF TakeInput, EndDecode, TakeRedoInput, Keep, Escalate
  <2>2. Retried(heldRounds, onRoute) /\ Before' = Before /\ Emitted' = Emitted
    BY <1>1, <2>1, AsItIs
  <2> QED
    BY <1>2, <1>3, <1>7, <2>1, <2>2
<1>17. ASSUME NEW w \in Windows, Rescue(w) \/ EndRedo(w)
       PROVE  LineGoesOn /\ RoundsGoOn /\ HeldGoesOn
  <2>1. UNCHANGED <<stage, path>> /\ stored' = stored /\ published' = published
    BY <1>17 DEF Rescue, EndRedo
  <2> QED
    BY <1>2, <1>4, <1>5, <1>6, <2>1
<1> QED
  BY <1>9, <1>10, <1>11, <1>12, <1>13, <1>14, <1>15, <1>16, <1>17 DEF Next

\* A round that was told of is past the lines, before the step and after it.
LEMMA PublishedStays ==
    ASSUME RoundsAreInOrder, RoundsAreInOrder', config' = config, PublishedIsPast,
           RoundsGoOn, PhasesGoOn
    PROVE  PublishedIsPast'
<1>1. published' \subseteq Emitted'
  <2>1. \A s \in Stores : Range(onRoute[s]) \subseteq Emitted
    <3>1. \A s \in Stores : onRoute[s] \in Seq(Emitted)
      BY PathFacts
    <3> QED
      BY <3>1, RangeFacts
  <2> QED
    BY <2>1 DEF RoundsGoOn, PublishedIsPast
<1>2. published' \cap (Before' \cup Range(heldRounds')) = {}
  <2> SUFFICES ASSUME NEW r \in published', r \in Before' \cup Range(heldRounds')
               PROVE  FALSE
    OBVIOUS
  <2>1. \A s \in Stores : /\ onRoute[s] \in Seq(Emitted) /\ Range(onRoute[s]) \cap Before = {}
                          /\ Range(onRoute[s]) \cap Range(heldRounds) = {}
    BY PathFacts
  <2>2. \A s \in Stores : Range(onRoute[s]) \subseteq Emitted
    BY <2>1, RangeFacts
  <2>3. r \in Emitted
    BY <2>2 DEF RoundsGoOn, PublishedIsPast
  <2>4. r \in Before \cup Range(heldRounds)
    BY <2>3 DEF RoundsGoOn
  <2> QED
    BY <2>1, <2>4 DEF RoundsGoOn, PublishedIsPast
<1>3. ASSUME NEW w \in Windows, phase'[w] # "reading"
      PROVE  Reads(w) \subseteq published'
  BY <1>3 DEF PhasesGoOn, RoundsGoOn, PublishedIsPast
<1> QED
  BY <1>1, <1>2, <1>3, SameSetting DEF PublishedIsPast

-----------------------------------------------------------------------------
(* The knot *)

\* A step tells nobody of a round in the line.
LEMMA HeldUntold ==
    ASSUME RoundsAreInOrder, PublishedIsPast, RoundsGoOn
    PROVE  Range(heldRounds) \cap published' = {}
<1>1. \A s \in Stores : Range(onRoute[s]) \cap Range(heldRounds) = {}
  BY PathFacts
<1> QED
  BY <1>1 DEF RoundsGoOn, PublishedIsPast

\* The windows a round of the line keeps waiting, by what they wait for.
LEMMA WaitersFacts ==
    ASSUME NEW s, NEW w
    PROVE  w \in KeptWaiting(s) <=>
             /\ w \in Windows /\ StoreOf(w) = s
             /\ \/ /\ phase[w] = "reading"
                   /\ \E r \in Reads(w) \cap Range(heldRounds) : r[1] = Stream(w)
                \/ /\ phase[w] = "requested"
                   /\ \E d \in Deps(w) :
                        /\ d \in Windows /\ StoreOf(d) = s /\ phase[d] = "reading"
                        /\ \E r \in Reads(d) \cap Range(heldRounds) : r[1] = Stream(d)
  BY DEF KeptWaiting, Stream

\* They wait on.
LEMMA WaitersStay ==
    ASSUME RoundsAreInOrder, PublishedIsPast, RoundsGoOn, PhasesGoOn, config' = config,
           NEW s, NEW w \in KeptWaiting(s)
    PROVE  /\ w \in Windows /\ StoreOf(w) = s /\ phase'[w] = phase[w]
           /\ IsHolding(w) /\ IsHolding(w)'
           /\ Range(heldRounds) \subseteq Range(heldRounds') => w \in KeptWaiting(s)'
<1>1. Range(heldRounds) \cap published' = {}
  BY HeldUntold
<1>2. ASSUME NEW d \in Windows, phase[d] = "reading", NEW r \in Reads(d) \cap Range(heldRounds)
      PROVE  phase'[d] = "reading"
  BY <1>1, <1>2 DEF PhasesGoOn
<1>3. w \in Windows /\ StoreOf(w) = s
  BY WaitersFacts
<1>4. CASE /\ phase[w] = "reading"
           /\ \E r \in Reads(w) \cap Range(heldRounds) : r[1] = Stream(w)
  <2>1. phase'[w] = "reading"
    BY <1>2, <1>3, <1>4
  <2>2. Range(heldRounds) \subseteq Range(heldRounds') => w \in KeptWaiting(s)'
    BY <1>3, <1>4, <2>1, SameSetting DEF KeptWaiting, Stream
  <2> QED
    BY <1>3, <1>4, <2>1, <2>2 DEF IsHolding
<1>5. CASE /\ phase[w] = "requested"
           /\ \E d \in Deps(w) :
                /\ d \in Windows /\ StoreOf(d) = s /\ phase[d] = "reading"
                /\ \E r \in Reads(d) \cap Range(heldRounds) : r[1] = Stream(d)
  <2>1. PICK d \in Deps(w) :
            /\ d \in Windows /\ StoreOf(d) = s /\ phase[d] = "reading"
            /\ \E r \in Reads(d) \cap Range(heldRounds) : r[1] = Stream(d)
    BY <1>5
  <2>2. phase'[d] = "reading"
    BY <1>2, <2>1
  <2>3. phase'[w] = "requested"
    BY <1>3, <1>5, <2>1 DEF PhasesGoOn
  <2>4. d \in Deps(w)'
    BY DEF Deps
  <2>5. Range(heldRounds) \subseteq Range(heldRounds') => w \in KeptWaiting(s)'
    BY <1>3, <2>1, <2>2, <2>3, <2>4, SameSetting DEF KeptWaiting, Stream
  <2> QED
    BY <1>3, <1>5, <2>3, <2>5 DEF IsHolding
<1> QED
  BY <1>4, <1>5, WaitersFacts

\* The stores a round of the line goes to, once a step later.
LEMMA SidesStay ==
    ASSUME RoundsAreInOrder, PublishedIsPast, RoundsGoOn, PhasesGoOn, config' = config,
           NEW h \in Range(heldRounds), NEW s \in Sides[h]
    PROVE  s \in Sides'[h]
<1>1. /\ config \in Settings /\ h \in Rounds
  <2>1. heldRounds \in Seq(Emitted) /\ Emitted \subseteq Rounds
    BY PathFacts, StageIsFinite DEF RoundsAreInOrder
  <2> QED
    BY <2>1, RangeFacts DEF RoundsAreInOrder
<1>2. h \notin published' /\ h \notin published
  BY HeldUntold DEF RoundsGoOn
<1>3. s = OwnStore(h) \/ (s \in EntryStores /\ h \in HeldIn(s))
  BY <1>1 DEF Sides
<1>4. Sides'[h] = {OwnStore(h)} \cup {x \in EntryStores : h \in HeldIn(x)'}
  BY <1>1, SameSetting DEF Sides
<1>5. ASSUME s \in EntryStores, h \in HeldIn(s)
      PROVE  h \in HeldIn(s)'
  <2>1. PICK w \in Windows :
            /\ \/ IsHolding(w) /\ StoreOf(w) = s
               \/ IsHoldingForRedo(w) /\ s \in {StoreOf(w), Landing(w)}
            /\ h \in Reads(w)
    BY <1>5 DEF HeldIn
  <2>2. StoreOf(w) = s
    <3>1. ASSUME IsHoldingForRedo(w), s = Landing(w)
          PROVE  FALSE
      <4>1. StoreOf(w) \in Edges
        BY <1>1, <3>1, SettingFacts DEF IsHoldingForRedo
      <4>2. Landing(w) \notin EntryStores
        BY <1>1, <4>1, StoreFacts DEF Landing
      <4> QED
        BY <1>5, <3>1, <4>2
    <3> QED
      BY <2>1, <3>1
  <2>3. phase[w] = "reading"
    BY <1>2, <2>1 DEF PublishedIsPast
  <2>4. phase'[w] = "reading"
    BY <1>2, <2>1, <2>3 DEF PhasesGoOn
  <2>5. IsHolding(w)' /\ StoreOf(w)' = s /\ h \in Reads(w)' /\ w \in Windows'
    BY <2>1, <2>2, <2>4, SameSetting DEF IsHolding
  <2> QED
    BY <2>5 DEF HeldIn
<1> QED
  BY <1>3, <1>4, <1>5

\* A knot after the step, said of what the settings were before.
LEMMA KnottedAfter ==
    ASSUME config' = config, NEW h, NEW s
    PROVE  Knotted(h, s)' <=>
             Bits({h}) + Bits((UNION {Reads(w) : w \in KeptWaiting(s)'})
                                \cap (stored'[s] \cup Range(onRoute'[s])))
               > config.capacity[s]
<1>1. Knotted(h, s)' <=>
        Bits({h})' + Cardinality(UNION {{r} \X (1 .. config'.bits[r]) :
                r \in (UNION {config'.windows[w].reads : w \in KeptWaiting(s)'})
                        \cap (stored'[s] \cup Range(onRoute'[s]))})
          > config'.capacity[s]
  BY DEF Knotted, Bits, Reads
<1>2. Bits({h})' = Bits({h})
  BY DEF Bits
<1> QED
  BY <1>1, <1>2 DEF Bits, Reads

\* The first n rounds of the line enter, and no more find room.
Entering(line, route, n) ==
    /\ heldRounds' = SubSeq(line, n + 1, Len(line))
    /\ \A s \in Stores : Range(onRoute'[s])
            = Range(route[s]) \cup {r \in Range(SubSeq(line, 1, n)) : s \in Sides'[r]}
    /\ stopped' = (stopped \/ IsKnot')
    /\ n # 0 => \A s \in EntryStores : Fits(stored', onRoute', s)
    /\ n # Len(line) => \E s \in EntryStores :
            ~ Fits(stored', Sent(SubSeq(line, 1, n + 1), route, Sides'), s)

\* A line that is retried is let in as far as it has room, and what it leaves
\* behind is the held line.
LEMMA EnteringFacts ==
    ASSUME RoundsAreInOrder, config' = config, NEW line, NEW route, Retried(line, route)
    PROVE  \E n \in 0 .. Len(line) : Entering(line, route, n)
<1>1. PICK flying : RetryHeld(line, route, flying)
  BY DEF Retried
<1>2. /\ line \in Seq(Emitted) /\ IsInjective(line)
      /\ route \in [Stores -> Seq(Emitted)]
      /\ \A s \in Stores : IsInjective(route[s]) /\ Range(route[s]) \cap Range(line) = {}
  BY DEF Retried, IsInOrder
<1>3. PICK n \in 0 .. Len(line) :
            /\ heldRounds' = SubSeq(line, n + 1, Len(line))
            /\ onRoute' = Sent(SubSeq(line, 1, n), route, Sides')
            /\ stopped' = (stopped \/ IsKnot')
            /\ n # 0 => \A s \in EntryStores : Fits(stored', onRoute', s)
            /\ n # Len(line) => \E s \in EntryStores :
                    ~ Fits(stored', Sent(SubSeq(line, 1, n + 1), route, Sides'), s)
  BY <1>1, <1>2, RetryHeldFacts
<1> DEFINE a == SubSeq(line, 1, n)
<1>4. a \in Seq(Emitted) /\ IsInjective(a) /\ Range(a) \subseteq Range(line)
  <2>1. a \in Seq(Emitted)
    BY <1>2, SplitFacts
  <2>2. /\ IsInjective(a)
        /\ Range(a) \cup Range(SubSeq(line, n + 1, Len(line))) = Range(line)
    BY <1>2, SplitApart
  <2> HIDE DEF a
  <2> QED
    BY <2>1, <2>2
<1> HIDE DEF a
<1>5. \A s \in Stores : Range(Sent(a, route, Sides')[s])
                            = Range(route[s]) \cup {r \in Range(a) : s \in Sides'[r]}
  BY <1>2, <1>4, SentFacts
<1> QED
  BY <1>3, <1>5 DEF a, Entering

\* A store that can never take the head of the line does not take it, and the
\* knot stays.
LEMMA KnotGoesOn ==
    ASSUME RoundsAreInOrder, config' = config, stored' \in [Stores -> SUBSET Rounds],
           PublishedIsPast, RoundsGoOn, PhasesGoOn, HeldGoesOn,
           NEW line, NEW route, Retried(line, route), heldRounds # <<>>,
           NEW h, h = Head(heldRounds), NEW s \in Sides[h], Knotted(h, s)
    PROVE  /\ heldRounds' # <<>> /\ Head(heldRounds') = h
           /\ s \in Sides'[h] /\ Knotted(h, s)'
<1> DEFINE K == (UNION {Reads(w) : w \in KeptWaiting(s)}) \cap (stored[s] \cup Range(onRoute[s]))
           A == stored'[s]
           B == Range(route[s])
<1>1. /\ config \in Settings /\ Emitted \subseteq Rounds /\ heldRounds \in Seq(Emitted)
  BY PathFacts, StageIsFinite DEF RoundsAreInOrder
<1>2. h \in Range(heldRounds) /\ h \in Rounds /\ line \in Seq(Emitted)
      /\ line # <<>> /\ Head(line) = h
      /\ Range(heldRounds) \subseteq Range(line)
  <2>1. h \in Range(heldRounds) /\ Range(heldRounds) \subseteq Emitted
    <3>1. Len(heldRounds) \in Nat /\ Len(heldRounds) # 0 /\ DOMAIN heldRounds = 1 .. Len(heldRounds)
      BY <1>1, EmptySeq, LenProperties
    <3>2. h = heldRounds[1]
      BY <1>1, HeadTailProperties
    <3> QED
      BY <1>1, <3>1, <3>2, RangeFacts DEF Range
  <2>2. /\ line \in Seq(Emitted) /\ Range(heldRounds) \subseteq Range(line)
        /\ line # <<>> /\ Head(line) = Head(heldRounds)
    BY RetriedFacts
  <2> QED
    BY <1>1, <2>1, <2>2
<1>3. s \in Sides'[h] /\ s \in EntryStores /\ s \in Stores
  BY <1>1, <1>2, SidesStay, SidesFacts, StoreFacts
<1>4. /\ route \in [Stores -> Seq(Emitted)]
      /\ \A x \in Stores : IsInjective(route[x]) /\ Range(route[x]) \cap Range(line) = {}
  BY DEF Retried, IsInOrder
<1>5. K \in SUBSET Rounds /\ A \in SUBSET Rounds /\ B \in SUBSET Rounds /\ {h} \in SUBSET Rounds
  <2>1. \A w \in KeptWaiting(s) : w \in Windows
    BY DEF KeptWaiting
  <2>2. K \subseteq Rounds
    BY <1>1, <2>1, SettingFacts
  <2>3. B \subseteq Emitted
    <3>1. route[s] \in Seq(Emitted)
      BY <1>3, <1>4
    <3> QED
      BY <3>1, RangeFacts
  <2> QED
    BY <1>1, <1>2, <1>3, <2>2, <2>3
<1>6. K \subseteq A \cup B
  <2>0. K \subseteq stored[s] \cup Range(onRoute[s])
    OBVIOUS
  <2> SUFFICES ASSUME NEW r \in K
               PROVE  r \in A \cup B
    OBVIOUS
  <2>1. PICK w \in KeptWaiting(s) : r \in Reads(w)
    OBVIOUS
  <2>2. w \in Windows /\ StoreOf(w) = s /\ IsHolding(w) /\ IsHolding(w)'
    BY WaitersStay
  <2>3. r \in HeldIn(s)
    BY <2>1, <2>2 DEF HeldIn
  <2>4. r \in HeldIn(s)'
    <3>1. w \in Windows' /\ StoreOf(w)' = s /\ r \in Reads(w)'
      BY <2>1, <2>2, SameSetting
    <3> QED
      BY <2>2, <3>1 DEF HeldIn
  <2> HIDE DEF K
  <2>5. CASE r \in stored[s]
    BY <1>3, <2>4, <2>5 DEF HeldGoesOn
  <2>6. CASE r \in Range(onRoute[s])
    BY <1>3, <2>3, <2>6 DEF Retried
  <2> QED
    BY <2>0, <2>5, <2>6
<1>7. PICK n \in 0 .. Len(line) : Entering(line, route, n)
  BY EnteringFacts
<1>8. Bits({h}) + Bits(K) > config.capacity[s]
  BY DEF Knotted
<1>9. /\ Bits({h}) \in Nat /\ Bits(K) \in Nat /\ Bits(A) \in Nat /\ Bits(B) \in Nat
      /\ Bits(K) <= Bits(A) + Bits(B) /\ config.capacity[s] \in Nat
  <2> HIDE DEF K, A, B
  <2>1. /\ Bits(A) \in Nat /\ Bits(B) \in Nat /\ Bits(A \cup B) \in Nat
        /\ Bits(A \cup B) <= Bits(A) + Bits(B)
    BY <1>1, <1>5, BitsOfTwo
  <2>2. A \cup B \in SUBSET Rounds /\ K \in SUBSET (A \cup B)
    BY <1>5, <1>6
  <2>3. Bits(K) <= Bits(A \cup B) /\ Bits(K) \in Nat /\ Bits({h}) \in Nat
    BY <1>1, <1>5, <2>2, BitsFacts
  <2> QED
    BY <1>1, <1>3, <2>1, <2>3, StoreFacts
<1> HIDE DEF K, A, B
<1>10. n = 0
  <2> SUFFICES ASSUME n # 0
               PROVE  FALSE
    OBVIOUS
  <2>1. h \in Range(SubSeq(line, 1, n))
    <3>1. Len(line) \in Nat /\ Len(line) # 0 /\ line[1] = h
      BY <1>2, EmptySeq, LenProperties, HeadTailProperties
    <3>2. /\ DOMAIN SubSeq(line, 1, n) = 1 .. n /\ SubSeq(line, 1, n)[1] = line[1]
      <4>1. n \in Nat /\ n >= 1 /\ n <= Len(line)
        BY <3>1
      <4>2. \A i \in 1 .. n : line[i] \in Emitted
        BY <1>2, <3>1, <4>1
      <4> QED
        BY <1>2, <4>1, <4>2, SubSeqProperties
    <3>3. 1 \in 1 .. n
      BY <3>1
    <3> QED
      BY <3>1, <3>2, <3>3 DEF Range
  <2> DEFINE C == Range(onRoute'[s])
  <2>2. h \in C /\ B \subseteq C /\ C \subseteq B \cup Range(SubSeq(line, 1, n))
    BY <1>3, <1>7, <2>1 DEF B, Entering
  <2>3. h \notin B
    BY <1>2, <1>3, <1>4 DEF B
  <2>4. Bits(A) + Bits(C) <= config.capacity[s]
    BY <1>3, <1>7 DEF Fits, A, Entering
  <2>5. C \in SUBSET Rounds
    <3>1. SubSeq(line, 1, n) \in Seq(Emitted)
      BY <1>2, SplitFacts
    <3>2. Range(SubSeq(line, 1, n)) \subseteq Emitted
      BY <3>1, RangeFacts
    <3> QED
      BY <1>1, <1>5, <2>2, <3>2
  <2> HIDE DEF C
  <2>6. Bits(B \cup {h}) = Bits(B) + Bits({h})
    <3>1. B \cap {h} = {}
      BY <2>3
    <3> QED
      BY <1>1, <1>5, <3>1, BitsOfTwo
  <2>7. Bits(B \cup {h}) <= Bits(C) /\ Bits(C) \in Nat
    <3>1. (B \cup {h}) \in SUBSET C
      BY <2>2
    <3> QED
      BY <1>1, <2>5, <3>1, BitsFacts
  <2> QED
    BY <1>8, <1>9, <2>4, <2>6, <2>7
<1>11. heldRounds' = line
  <2>1. heldRounds' = SubSeq(line, 1, Len(line))
    BY <1>7, <1>10 DEF Entering
  <2>2. Len(line) \in Nat /\ \A i \in 1 .. Len(line) : line[i] \in Emitted
    BY <1>2, LenProperties
  <2>3. /\ SubSeq(line, 1, Len(line)) \in Seq(Emitted) /\ Len(SubSeq(line, 1, Len(line))) = Len(line)
        /\ \A i \in 1 .. Len(line) : SubSeq(line, 1, Len(line))[i] = line[i]
    BY <1>2, <2>2, SubSeqProperties
  <2> QED
    BY <1>2, <2>1, <2>3, SeqEqual
<1>12. B \subseteq Range(onRoute'[s])
  BY <1>3, <1>7 DEF B, Entering
<1>13. Knotted(h, s)'
  <2> DEFINE L == (UNION {Reads(w) : w \in KeptWaiting(s)'}) \cap (stored'[s] \cup Range(onRoute'[s]))
  <2>1. \A w \in KeptWaiting(s) : w \in KeptWaiting(s)'
    BY <1>2, <1>11, WaitersStay
  <2>2. K \subseteq L
    <3>1. K \subseteq stored'[s] \cup Range(onRoute'[s])
      BY <1>6, <1>12 DEF A
    <3>2. K \subseteq UNION {Reads(w) : w \in KeptWaiting(s)}
      BY DEF K
    <3>3. UNION {Reads(w) : w \in KeptWaiting(s)} \subseteq UNION {Reads(w) : w \in KeptWaiting(s)'}
      BY <2>1
    <3> DEFINE U == UNION {Reads(w) : w \in KeptWaiting(s)'}
    <3>4. K \subseteq U
      BY <3>2, <3>3
    <3> HIDE DEF U
    <3>5. K \subseteq U \cap (stored'[s] \cup Range(onRoute'[s]))
      BY <3>1, <3>4
    <3> QED
      BY <3>5 DEF U
  <2>3. L \in SUBSET Rounds
    <3>1. \A w \in KeptWaiting(s)' : w \in Windows
      BY SameSetting DEF KeptWaiting
    <3> QED
      BY <1>1, <3>1, SettingFacts
  <2> HIDE DEF L
  <2>4. Bits(K) <= Bits(L) /\ Bits(L) \in Nat
    <3>1. K \in SUBSET L
      BY <2>2
    <3> QED
      BY <1>1, <2>3, <3>1, BitsFacts
  <2>5. Bits({h}) + Bits(L) > config.capacity[s]
    BY <1>8, <1>9, <2>4
  <2> QED
    BY <2>5, KnottedAfter DEF L
<1> QED
  BY <1>2, <1>3, <1>11, <1>13

\* Where the head is refused and there is a knot, the store that refuses it is
\* one it goes to.
LEMMA KnotIsFound ==
    ASSUME RoundsAreInOrder, RoundsAreInOrder', config' = config,
           NEW line, NEW route, Retried(line, route), IsKnot'
    PROVE  /\ heldRounds' # <<>>
           /\ \E s \in Sides'[Head(heldRounds')] :
                \A h : h = Head(heldRounds') => Knotted(h, s)'
<1>1. heldRounds' # <<>>
  BY DEF IsKnot
<1>2. PICK h : h = Head(heldRounds')
  OBVIOUS
<1>3. Knotted(h, RefusedBy(h))'
  BY <1>2 DEF IsKnot, Knotted
<1>4. PICK n \in 0 .. Len(line) : Entering(line, route, n)
  BY EnteringFacts
<1>5. /\ config \in Settings /\ Emitted \subseteq Rounds
      /\ line \in Seq(Emitted) /\ IsInjective(line)
      /\ route \in [Stores -> Seq(Emitted)]
      /\ \A s \in Stores : IsInjective(route[s]) /\ Range(route[s]) \cap Range(line) = {}
  BY StageIsFinite DEF Retried, IsInOrder, RoundsAreInOrder
<1>6. heldRounds' = SubSeq(line, n + 1, Len(line)) /\ Len(line) \in Nat
  BY <1>4, <1>5, LenProperties DEF Entering
<1> DEFINE b == SubSeq(line, n + 1, Len(line))
<1>7. b \in Seq(Emitted) /\ Len(b) = Len(line) - n
  BY <1>5, SplitFacts
<1>8. n # Len(line)
  <2> HIDE DEF b
  <2>1. ASSUME n = Len(line)
        PROVE  b = <<>>
    <3>1. Len(b) = 0
      BY <1>6, <1>7, <2>1
    <3> QED
      BY <1>7, <3>1, EmptySeq
  <2> QED
    BY <1>1, <1>6, <2>1 DEF b
<1>9. n + 1 \in 1 .. Len(line) /\ n \in Nat
  BY <1>6, <1>8
<1>10. h = line[n + 1] /\ h \in Rounds /\ h \in Range(line)
  <2>1. \A i \in DOMAIN line : line[i] \in Emitted
    BY <1>5, LenProperties
  <2>2. DOMAIN line = 1 .. Len(line)
    BY <1>5, LenProperties
  <2>3. SubSeq(line, n + 1, Len(line))[1] = line[n + 1]
    <3>1. \A i \in n + 1 .. Len(line) : line[i] \in Emitted
      BY <1>9, <2>1, <2>2
    <3>2. n + 1 \in Nat /\ Len(line) \in Nat /\ n + 1 <= Len(line)
      BY <1>6, <1>9
    <3>3. \A i \in 1 .. Len(line) - (n + 1) + 1 :
            SubSeq(line, n + 1, Len(line))[i] = line[n + 1 + i - 1]
      BY <1>5, <3>1, <3>2, SubSeqProperties
    <3> QED
      BY <3>2, <3>3
  <2>4. h = SubSeq(line, n + 1, Len(line))[1]
    BY <1>1, <1>2, <1>6, <1>7, HeadTailProperties
  <2> QED
    BY <1>5, <1>9, <2>1, <2>2, <2>3, <2>4 DEF Range
<1>11. Range(SubSeq(line, 1, n + 1)) = Range(SubSeq(line, 1, n)) \cup {h}
  <2> DEFINE a == SubSeq(line, 1, n)
             c == SubSeq(line, 1, n + 1)
  <2>1. \A i \in 1 .. n + 1 : line[i] \in Emitted
    BY <1>5, <1>9, LenProperties
  <2>2. /\ DOMAIN a = 1 .. n /\ \A i \in 1 .. n : a[i] = line[i]
        /\ DOMAIN c = 1 .. n + 1 /\ \A i \in 1 .. n + 1 : c[i] = line[i]
    BY <1>5, <1>6, <1>9, <2>1, SubSeqProperties
  <2> HIDE DEF a, c
  <2>3. Range(a) = {line[i] : i \in 1 .. n} /\ Range(c) = {line[i] : i \in 1 .. n + 1}
    BY <2>2 DEF Range
  <2>4. 1 .. n + 1 = (1 .. n) \cup {n + 1}
    BY <1>9
  <2> QED
    BY <1>10, <2>3, <2>4 DEF a, c
<1>12. /\ SubSeq(line, 1, n + 1) \in Seq(Emitted) /\ IsInjective(SubSeq(line, 1, n + 1))
       /\ Range(SubSeq(line, 1, n + 1)) \subseteq Range(line)
  <2>1. n + 1 \in 0 .. Len(line)
    BY <1>9
  <2> DEFINE m == n + 1
  <2>2. m \in 0 .. Len(line)
    BY <2>1
  <2> HIDE DEF m
  <2>3. SubSeq(line, 1, m) \in Seq(Emitted)
    BY <1>5, <2>2, SplitFacts
  <2>4. IsInjective(SubSeq(line, 1, m)) /\ Range(SubSeq(line, 1, m)) \subseteq Range(line)
    BY <1>5, <2>2, SplitApart
  <2> QED
    BY <2>3, <2>4 DEF m
<1> HIDE DEF b
<1>13. PICK s \in EntryStores : ~ Fits(stored', Sent(SubSeq(line, 1, n + 1), route, Sides'), s)
  BY <1>4, <1>8 DEF Entering
<1>14. s \in Stores /\ stored' \in [Stores -> SUBSET Rounds]
  BY <1>5, StoreFacts, SameSetting DEF RoundsAreInOrder
<1>15. Range(Sent(SubSeq(line, 1, n + 1), route, Sides')[s])
         = Range(route[s]) \cup {r \in Range(SubSeq(line, 1, n + 1)) : s \in Sides'[r]}
  <2> DEFINE c == SubSeq(line, 1, n + 1)
  <2>1. c \in Seq(Emitted) /\ IsInjective(c)
        /\ \A x \in Stores : IsInjective(route[x]) /\ Range(route[x]) \cap Range(c) = {}
    BY <1>5, <1>12
  <2> HIDE DEF c
  <2>2. \A x \in Stores : Range(Sent(c, route, Sides')[x])
                            = Range(route[x]) \cup {r \in Range(c) : x \in Sides'[r]}
    BY <1>5, <2>1, SentFacts
  <2> QED
    BY <1>14, <2>2 DEF c
<1>16. Range(onRoute'[s]) = Range(route[s]) \cup {r \in Range(SubSeq(line, 1, n)) : s \in Sides'[r]}
  BY <1>4, <1>14 DEF Entering
<1>17. Bits(stored'[s]) + Bits(Range(onRoute'[s])) <= config.capacity[s]
  <2>1. EntryStoresHaveRoom'
    BY DEF RoundsAreInOrder
  <2>2. \A x \in EntryStores' :
            Bits(stored[x])' + Bits(Range(onRoute[x]))' <= config'.capacity[x]
    BY <2>1 DEF EntryStoresHaveRoom
  <2>3. /\ Bits(stored[s])' = Bits(stored'[s])
        /\ Bits(Range(onRoute[s]))' = Bits(Range(onRoute'[s]))
    BY DEF Bits
  <2> QED
    BY <2>2, <2>3, SameSetting
<1>18. s \in Sides'[h]
  <2> SUFFICES ASSUME s \notin Sides'[h]
               PROVE  FALSE
    OBVIOUS
  <2>1. Range(Sent(SubSeq(line, 1, n + 1), route, Sides')[s]) = Range(onRoute'[s])
    BY <1>11, <1>15, <1>16
  <2> QED
    BY <1>13, <1>17, <2>1 DEF Fits
<1>19. Range(Sent(SubSeq(line, 1, n + 1), route, Sides')[s]) = Range(onRoute'[s]) \cup {h}
  BY <1>11, <1>15, <1>16, <1>18
<1>20. /\ onRoute' \in [Stores -> Seq(Emitted')] /\ h \in Emitted'
       /\ \A x \in Stores : IsInjective(onRoute'[x]) /\ h \notin Range(onRoute'[x])
  <2>1. /\ heldRounds' \in Seq(Emitted')
        /\ onRoute' \in [Stores -> Seq(Emitted')]
        /\ \A x \in Stores : /\ IsInjective(onRoute'[x])
                             /\ Range(onRoute'[x]) \cap Range(heldRounds') = {}
    BY SameSetting DEF RoundsAreInOrder, PathIsInOrder, IsInOrder
  <2>2. Len(heldRounds') # 0 /\ Len(heldRounds') \in Nat /\ DOMAIN heldRounds' = 1 .. Len(heldRounds')
    BY <1>1, <2>1, EmptySeq, LenProperties
  <2>3. h = heldRounds'[1]
    BY <1>1, <1>2, <2>1, HeadTailProperties
  <2>4. h \in Range(heldRounds') /\ h \in Emitted'
    BY <2>1, <2>2, <2>3 DEF Range
  <2> QED
    BY <2>1, <2>4
<1>21. Range(Sent(<<h>>, onRoute', Sides')[s]) = Range(onRoute'[s]) \cup {h}
  <2> DEFINE E == Emitted'
             route2 == onRoute'
             sides == Sides'
             one == <<h>>
  <2>1. /\ one \in Seq(E) /\ IsInjective(one) /\ Range(one) = {h}
        /\ route2 \in [Stores -> Seq(E)]
        /\ s \in sides[h]
    BY <1>18, <1>20 DEF IsInjective, Range
  <2>2. \A x \in Stores : IsInjective(route2[x]) /\ Range(route2[x]) \cap Range(one) = {}
    BY <1>20, <2>1
  <2> HIDE DEF E, route2, sides, one
  <2>3. \A x \in Stores : Range(Sent(one, route2, sides)[x])
                            = Range(route2[x]) \cup {r \in Range(one) : x \in sides[r]}
    <3>1. one \in Seq(E) /\ IsInjective(one) /\ route2 \in [Stores -> Seq(E)]
      BY <2>1
    <3>2. \A q \in Seq(E) : \A x : \A y \in [Stores -> Seq(E)] :
            IsInjective(q) /\ (\A t \in Stores : IsInjective(y[t]) /\ Range(y[t]) \cap Range(q) = {})
            => \A t \in Stores : Range(Sent(q, y, x)[t])
                    = Range(y[t]) \cup {r \in Range(q) : t \in x[r]}
      BY SentFacts
    <3> QED
      BY <2>2, <3>1, <3>2
  <2>4. Range(Sent(one, route2, sides)[s]) = Range(route2[s]) \cup {h}
    BY <1>14, <2>1, <2>3
  <2>5. route2 = onRoute' /\ sides = Sides' /\ one = <<h>>
    BY DEF route2, sides, one
  <2> QED
    BY <2>4, <2>5
<1>22. ~ Fits(stored', Sent(<<h>>, onRoute', Sides'), s)
  BY <1>13, <1>19, <1>21 DEF Fits
<1>23. RefusedBy(h)' \in Sides'[h]
  <2> DEFINE full == {x \in Sides'[h] : ~ Fits(stored', Sent(<<h>>, onRoute', Sides'), x)}
  <2>1. s \in full
    BY <1>18, <1>22
  <2>2. RefusedBy(h)' = IF OwnStore(h) \in full THEN OwnStore(h) ELSE CHOOSE x \in full : TRUE
    <3>1. OwnStore(h)' = OwnStore(h)
      BY SameSetting
    <3> QED
      BY <3>1 DEF RefusedBy, Fits, Bits, Sent, Stores
  <2>3. full \subseteq Sides'[h]
    OBVIOUS
  <2> HIDE DEF full
  <2>4. (CHOOSE x \in full : TRUE) \in full
    BY <2>1
  <2> QED
    BY <2>2, <2>3, <2>4
<1>24. \A g : g = Head(heldRounds') => Knotted(g, RefusedBy(h))'
  BY <1>2, <1>3
<1> QED
  BY <1>1, <1>2, <1>23, <1>24

\* A step that leaves the path alone leaves the knot.
LEMMA KnotRests ==
    ASSUME RoundsAreInOrder, config' = config, stored' \in [Stores -> SUBSET Rounds],
           PublishedIsPast, RoundsGoOn, PhasesGoOn, HeldGoesOn,
           UNCHANGED <<heldRounds, onRoute>>,
           NEW h \in Range(heldRounds), NEW s \in Sides[h], Knotted(h, s)
    PROVE  s \in Sides'[h] /\ Knotted(h, s)'
<1> DEFINE K == (UNION {Reads(w) : w \in KeptWaiting(s)}) \cap (stored[s] \cup Range(onRoute[s]))
           L == (UNION {Reads(w) : w \in KeptWaiting(s)'}) \cap (stored'[s] \cup Range(onRoute'[s]))
<1>1. config \in Settings /\ h \in Rounds
  <2>1. heldRounds \in Seq(Emitted) /\ Emitted \subseteq Rounds
    BY PathFacts, StageIsFinite DEF RoundsAreInOrder
  <2> QED
    BY <2>1, RangeFacts DEF RoundsAreInOrder
<1>2. s \in Sides'[h] /\ s \in EntryStores /\ s \in Stores
  BY <1>1, SidesStay, SidesFacts, StoreFacts
<1>3. K \subseteq L
  <2> SUFFICES ASSUME NEW w \in KeptWaiting(s), NEW r \in Reads(w),
                      r \in stored[s] \cup Range(onRoute[s])
               PROVE  /\ w \in KeptWaiting(s)'
                      /\ r \in stored'[s] \cup Range(onRoute'[s])
    OBVIOUS
  <2>1. /\ w \in Windows /\ StoreOf(w) = s /\ IsHolding(w)' /\ w \in KeptWaiting(s)'
    BY WaitersStay
  <2>2. r \in HeldIn(s)'
    <3>1. w \in Windows' /\ StoreOf(w)' = s /\ r \in Reads(w)'
      BY <2>1, SameSetting
    <3> QED
      BY <2>1, <3>1 DEF HeldIn
  <2> QED
    BY <1>2, <2>1, <2>2 DEF HeldGoesOn
<1>4. L \in SUBSET Rounds
  <2>1. \A w \in KeptWaiting(s)' : w \in Windows
    BY SameSetting DEF KeptWaiting
  <2> QED
    BY <1>1, <2>1, SettingFacts
<1>5. Bits({h}) + Bits(K) > config.capacity[s]
  BY DEF Knotted
<1> HIDE DEF K, L
<1>6. /\ Bits(K) <= Bits(L) /\ Bits(L) \in Nat /\ Bits(K) \in Nat /\ Bits({h}) \in Nat
      /\ config.capacity[s] \in Nat
  <2>1. K \in SUBSET L /\ K \in SUBSET Rounds /\ {h} \in SUBSET Rounds
    BY <1>1, <1>3, <1>4
  <2> QED
    BY <1>1, <1>2, <1>4, <2>1, BitsFacts, StoreFacts
<1>7. Bits({h}) + Bits(L) > config.capacity[s]
  BY <1>5, <1>6
<1> QED
  BY <1>2, <1>7, KnottedAfter DEF L

\* So it does where the line and the routes rest.
LEMMA StoppedRests ==
    ASSUME RoundsAreInOrder, config' = config, stored' \in [Stores -> SUBSET Rounds],
           PublishedIsPast, RoundsGoOn, PhasesGoOn, HeldGoesOn, KnotStays,
           UNCHANGED <<heldRounds, onRoute, stopped>>
    PROVE  /\ KnotStays'
           /\ stopped => heldRounds' # <<>> /\ Head(heldRounds') = Head(heldRounds)
<1>1. ASSUME stopped
      PROVE  KnotStays' /\ heldRounds' # <<>> /\ Head(heldRounds') = Head(heldRounds)
  <2>1. heldRounds # <<>>
    BY <1>1 DEF KnotStays
  <2>2. PICK h : h = Head(heldRounds)
    OBVIOUS
  <2>3. PICK s \in Sides[h] : Knotted(h, s)
    BY <1>1, <2>2 DEF KnotStays
  <2>4. h \in Range(heldRounds)
    <3>1. heldRounds \in Seq(Emitted)
      BY PathFacts
    <3>2. Len(heldRounds) # 0 /\ Len(heldRounds) \in Nat /\ DOMAIN heldRounds = 1 .. Len(heldRounds)
      BY <2>1, <3>1, EmptySeq, LenProperties
    <3>3. h = heldRounds[1]
      BY <2>1, <2>2, <3>1, HeadTailProperties
    <3> QED
      BY <3>2, <3>3 DEF Range
  <2>5. UNCHANGED <<heldRounds, onRoute>>
    OBVIOUS
  <2>6. s \in Sides'[h] /\ Knotted(h, s)'
    BY <2>3, <2>4, <2>5, KnotRests
  <2>7. h = Head(heldRounds')
    BY <2>2
  <2> QED
    BY <2>1, <2>6, <2>7 DEF KnotStays, Knotted
<1>2. ASSUME ~ stopped
      PROVE  KnotStays'
  BY <1>2 DEF KnotStays
<1> QED
  BY <1>1, <1>2

\* Once the run has stopped the head of the line is refused by every step, and
\* it stops only so.
LEMMA KnotStaysOn ==
    ASSUME RoundsAreInOrder, RoundsAreInOrder', IInv, PublishedIsPast, KnotStays, Next
    PROVE  /\ KnotStays'
           /\ stopped => heldRounds' # <<>> /\ Head(heldRounds') = Head(heldRounds)
<1>1. config' = config /\ stored' \in [Stores -> SUBSET Rounds]
  <2>1. config' = config
    BY DEF Next
  <2> QED
    BY <2>1, SameSetting DEF RoundsAreInOrder
<1>2. LineGoesOn /\ RoundsGoOn /\ HeldGoesOn /\ PhasesGoOn
  BY StepFacts, PhasesFacts
<1>3. CASE UNCHANGED <<heldRounds, onRoute, stopped>>
  BY <1>1, <1>2, <1>3, StoppedRests
<1>4. ASSUME NEW line, NEW route, Retried(line, route)
      PROVE  /\ KnotStays'
             /\ stopped => heldRounds' # <<>> /\ Head(heldRounds') = Head(heldRounds)
  <2>1. ASSUME stopped
        PROVE  KnotStays' /\ heldRounds' # <<>> /\ Head(heldRounds') = Head(heldRounds)
    <3>1. heldRounds # <<>>
      BY <2>1 DEF KnotStays
    <3>2. PICK h : h = Head(heldRounds)
      OBVIOUS
    <3>3. PICK s \in Sides[h] : Knotted(h, s)
      BY <2>1, <3>2 DEF KnotStays
    <3>4. /\ heldRounds' # <<>> /\ Head(heldRounds') = h
          /\ s \in Sides'[h] /\ Knotted(h, s)'
      BY <1>1, <1>2, <1>4, <3>1, <3>2, <3>3, KnotGoesOn
    <3>5. h = Head(heldRounds')
      BY <3>4
    <3> QED
      BY <3>2, <3>4, <3>5 DEF KnotStays, Knotted
  <2>2. ASSUME ~ stopped, stopped'
        PROVE  KnotStays'
    <3>1. IsKnot'
      <4>1. PICK n \in 0 .. Len(line) : Entering(line, route, n)
        BY <1>1, <1>4, EnteringFacts
      <4>2. stopped' = (stopped \/ IsKnot')
        BY <4>1 DEF Entering
      <4> QED
        BY <2>2, <4>2
    <3>2. /\ heldRounds' # <<>>
          /\ \E s \in Sides'[Head(heldRounds')] :
                \A h : h = Head(heldRounds') => Knotted(h, s)'
      BY <1>1, <1>4, <3>1, KnotIsFound
    <3>3. PICK h : h = Head(heldRounds')
      OBVIOUS
    <3>4. PICK s \in Sides'[h] : Knotted(h, s)'
      BY <3>2, <3>3
    <3> QED
      BY <3>2, <3>3, <3>4 DEF KnotStays, Knotted
  <2> QED
    BY <2>1, <2>2 DEF KnotStays
<1> QED
  BY <1>2, <1>3, <1>4 DEF LineGoesOn

-----------------------------------------------------------------------------
(* Regions are carried once *)

\* The settings say what lands where.
LEMMA SameRegions ==
    ASSUME config' = config
    PROVE  /\ \A l : RedoReads(l)' = RedoReads(l)
           /\ IsCarriedApart(crossing', stored') => RegionsAreApart'
<1>1. \A l : RedoReads(l)' = RedoReads(l)
  BY SameSetting DEF RedoReads, MayRedo, Landing, StoreOf, Windows
<1>2. /\ Edges' = Edges /\ Stores' = Stores /\ EntryStores' = EntryStores
      /\ \A e : config'.edges[e] = config.edges[e]
  BY SameSetting
<1> QED
  BY <1>1, <1>2 DEF RegionsAreApart, IsCarriedApart

\* The landing stores, and what lands there.
LEMMA LandingFacts ==
    ASSUME config \in Settings
    PROVE  /\ \A e \in Edges : config.edges[e] \in Stores \ EntryStores
           /\ \A l : RedoReads(l) \subseteq Rounds
           /\ \A w \in Windows : MayRedo(w) =>
                /\ config.redo[w] \subseteq RedoReads(Landing(w)) /\ StoreOf(w) \in Edges
                /\ Landing(w) = config.edges[StoreOf(w)]
<1>1. \A e \in Edges : config.edges[e] \in Stores \ EntryStores
  BY StoreFacts
<1>2. ASSUME NEW l
      PROVE  RedoReads(l) \subseteq Rounds
  <2>1. \A w \in Windows : MayRedo(w) => config.redo[w] \subseteq Rounds
    BY SettingFacts
  <2> QED
    BY <2>1 DEF RedoReads
<1>3. ASSUME NEW w \in Windows, MayRedo(w)
      PROVE  /\ config.redo[w] \subseteq RedoReads(Landing(w)) /\ StoreOf(w) \in Edges
             /\ Landing(w) = config.edges[StoreOf(w)]
  <2>1. config.redo[w] \subseteq RedoReads(Landing(w))
    BY <1>3 DEF RedoReads
  <2> QED
    BY <1>3, <2>1, SettingFacts DEF Landing
<1> QED
  BY <1>1, <1>2, <1>3

\* A store that lets rounds go stays apart from what is carried to it.
LEMMA LettingGoIsApart ==
    ASSUME config \in Settings, config' = config, RegionsAreApart, crossing' = crossing,
           \A s \in Stores \ EntryStores : stored'[s] \subseteq stored[s]
    PROVE  RegionsAreApart'
<1>1. \A e \in Edges : stored'[config.edges[e]] \subseteq stored[config.edges[e]]
  BY LandingFacts
<1>2. IsCarriedApart(crossing, stored')
  BY <1>1 DEF RegionsAreApart, IsCarriedApart
<1> QED
  BY <1>2, SameRegions

\* A redo that is planned has those rounds carried that are not there yet and
\* not on their way.
LEMMA PlanIsApart ==
    ASSUME IInv, config' = config, stored' = stored, RegionsAreApart,
           NEW w \in Windows, MayRedo(w), Plan(w)
    PROVE  RegionsAreApart'
<1> DEFINE l == Landing(w)
           sent == (config.redo[w] \ stored[l]) \ Coming(l)
           region == InReadOrder(Stream(w), sent)
           s == StoreOf(w)
<1>1. crossing' = IF sent = {} THEN crossing ELSE [crossing EXCEPT ![s] = Append(@, region)]
  BY DEF Plan
<1>2. config \in Settings /\ crossing \in [Edges -> Seq(Seq(Rounds))]
  BY DEF IInv, Types
<1>3. /\ config.redo[w] \subseteq RedoReads(l) /\ s \in Edges /\ l = config.edges[s]
      /\ config.redo[w] \subseteq Rounds
  BY <1>2, LandingFacts, SettingFacts
<1>4. CASE sent = {}
  <2>1. crossing' = crossing
    BY <1>1, <1>4
  <2> QED
    BY <1>2, <2>1, LettingGoIsApart
<1>5. CASE sent # {}
  <2>1. crossing' = [crossing EXCEPT ![s] = Append(@, region)]
    BY <1>1, <1>5
  <2>2. /\ region \in Seq(sent) /\ Range(region) = sent /\ IsInjective(region)
    <3>1. IsFiniteSet(sent) /\ \A r \in sent : r[2] \in Nat
      BY <1>2, <1>3, SettingFacts, FS_Subset
    <3> HIDE DEF sent
    <3> QED
      BY <3>1, RegionFacts
  <2>3. /\ sent \subseteq RedoReads(l) /\ sent \cap stored[l] = {} /\ sent \cap Coming(l) = {}
    BY <1>3
  <2> DEFINE n == Len(crossing[s]) + 1
  <2>4. /\ Len(crossing[s]) \in Nat /\ DOMAIN crossing[s] = 1 .. Len(crossing[s])
        /\ DOMAIN Append(crossing[s], region) = 1 .. n
        /\ Append(crossing[s], region)[n] = region
        /\ \A i \in 1 .. Len(crossing[s]) : Append(crossing[s], region)[i] = crossing[s][i]
    <3>1. crossing[s] \in Seq(Seq(Rounds))
      BY <1>2, <1>3
    <3>2. region \in Seq(Rounds)
      <4>1. sent \subseteq Rounds
        BY <1>3
      <4> HIDE DEF sent, region
      <4> QED
        BY <2>2, <4>1
    <3> HIDE DEF region
    <3>3. Len(crossing[s]) \in Nat /\ DOMAIN crossing[s] = 1 .. Len(crossing[s])
      BY <3>1, LenProperties
    <3>4. /\ Append(crossing[s], region) \in Seq(Seq(Rounds))
          /\ Len(Append(crossing[s], region)) = n
          /\ Append(crossing[s], region)[n] = region
          /\ \A i \in 1 .. Len(crossing[s]) : Append(crossing[s], region)[i] = crossing[s][i]
      BY <3>1, <3>2, AppendProperties
    <3>5. DOMAIN Append(crossing[s], region) = 1 .. n
      BY <3>4, LenProperties
    <3> QED
      BY <3>3, <3>4, <3>5
  <2> HIDE DEF region, sent, l
  <2>5. ASSUME NEW e \in Edges, NEW i \in DOMAIN crossing'[e]
        PROVE  \/ e = s /\ i = n /\ crossing'[e][i] = region
               \/ i \in DOMAIN crossing[e] /\ crossing'[e][i] = crossing[e][i]
    <3>1. CASE e = s
      <4>1. crossing'[e] = Append(crossing[s], region)
        BY <1>2, <2>1, <3>1
      <4>2. i \in 1 .. n
        BY <2>4, <2>5, <4>1
      <4>3. i = n \/ i \in 1 .. Len(crossing[s])
        BY <2>4, <4>2
      <4> QED
        BY <2>4, <3>1, <4>1, <4>3
    <3>2. CASE e # s
      <4>1. crossing'[e] = crossing[e]
        BY <1>2, <2>1, <3>2
      <4> QED
        BY <2>5, <4>1
    <3> QED
      BY <3>1, <3>2
  <2>6. ASSUME NEW e \in Edges, config.edges[e] = l, NEW i \in DOMAIN crossing[e]
        PROVE  sent \cap Range(crossing[e][i]) = {}
    <3>1. crossing[e][i] \in Range(crossing[e])
      BY DEF Range
    <3>2. Range(crossing[e][i]) \subseteq Coming(l)
      BY <2>6, <3>1, ComingFacts
    <3> QED
      BY <2>3, <3>2
  <2>7. ASSUME NEW e \in Edges, NEW i \in DOMAIN crossing'[e]
        PROVE  /\ IsInjective(crossing'[e][i])
               /\ Range(crossing'[e][i]) \subseteq RedoReads(config.edges[e])
               /\ Range(crossing'[e][i]) \cap stored[config.edges[e]] = {}
    <3>1. CASE e = s /\ crossing'[e][i] = region
      BY <1>3, <2>2, <2>3, <3>1
    <3>2. CASE i \in DOMAIN crossing[e] /\ crossing'[e][i] = crossing[e][i]
      BY <3>2 DEF RegionsAreApart, IsCarriedApart
    <3> QED
      BY <2>5, <2>7, <3>1, <3>2
  <2>8. ASSUME NEW e \in Edges, NEW f \in Edges, config.edges[e] = config.edges[f],
               NEW i \in DOMAIN crossing'[e], NEW j \in DOMAIN crossing'[f], e # f \/ i # j
        PROVE  Range(crossing'[e][i]) \cap Range(crossing'[f][j]) = {}
    <3>1. CASE e = s /\ i = n /\ crossing'[e][i] = region
      <4>1. j \in DOMAIN crossing[f] /\ crossing'[f][j] = crossing[f][j]
        BY <2>5, <2>8, <3>1
      <4>2. sent \cap Range(crossing[f][j]) = {}
        BY <1>3, <2>6, <2>8, <3>1, <4>1
      <4> QED
        BY <2>2, <3>1, <4>1, <4>2
    <3>2. CASE f = s /\ j = n /\ crossing'[f][j] = region
      <4>1. i \in DOMAIN crossing[e] /\ crossing'[e][i] = crossing[e][i]
        BY <2>5, <2>8, <3>2
      <4>2. sent \cap Range(crossing[e][i]) = {}
        BY <1>3, <2>6, <2>8, <3>2, <4>1
      <4> QED
        BY <2>2, <3>2, <4>1, <4>2
    <3>3. CASE /\ i \in DOMAIN crossing[e] /\ crossing'[e][i] = crossing[e][i]
               /\ j \in DOMAIN crossing[f] /\ crossing'[f][j] = crossing[f][j]
      BY <2>8, <3>3 DEF RegionsAreApart, IsCarriedApart
    <3> QED
      BY <2>5, <2>8, <3>1, <3>2, <3>3
  <2>9. \A x \in Stores \ EntryStores : stored[x] \subseteq RedoReads(x)
    BY DEF RegionsAreApart, IsCarriedApart
  <2>10. IsCarriedApart(crossing', stored')
    BY <2>7, <2>8, <2>9 DEF IsCarriedApart
  <2> QED
    BY <2>10, SameRegions
<1> QED
  BY <1>4, <1>5

\* What landed of a region was of the region.
LEMMA LandedPart ==
    ASSUME config \in Settings, stored \in [Stores -> SUBSET Rounds], NEW l \in Stores,
           NEW region \in Seq(Rounds), NEW n \in 0 .. Len(region)
    PROVE  /\ LandedAt(l, region, n)[l] \subseteq
                stored[l] \cup {region[i] : i \in 1 .. n}
           /\ {region[i] : i \in 1 .. n} \subseteq Range(region)
           /\ \A s \in Stores \ {l} : LandedAt(l, region, n)[s] = stored[s]
<1> DEFINE first == SubSeq(region, 1, n)
<1>1. LandedAt(l, region, n) = [stored EXCEPT ![l] = @ \cup (Range(first) \cap HeldIn(l))]
  BY DEF LandedAt
<1>2. Len(region) \in Nat /\ DOMAIN region = 1 .. Len(region) /\ n \in Nat
  BY LenProperties
<1>3. DOMAIN first = 1 .. n /\ \A i \in 1 .. n : first[i] = region[i]
  <2>1. \A i \in 1 .. n : region[i] \in Rounds
    BY <1>2
  <2>2. first \in Seq(Rounds) /\ Len(first) = n /\ \A i \in 1 .. n : first[i] = region[i]
    BY <1>2, <2>1, SubSeqProperties
  <2> HIDE DEF first
  <2> QED
    BY <2>2, LenProperties
<1> HIDE DEF first
<1>4. Range(first) = {region[i] : i \in 1 .. n}
  BY <1>3 DEF Range
<1>5. {region[i] : i \in 1 .. n} \subseteq Range(region)
  BY <1>2 DEF Range
<1> QED
  BY <1>1, <1>4, <1>5

\* A region that landed is carried no more, and those behind it have none of
\* its rounds.
LEMMA LandingIsApart ==
    ASSUME RoundsAreInOrder, IInv, config' = config, RegionsAreApart,
           NEW e \in Edges, LandRegion(e)
    PROVE  RegionsAreApart'
<1> DEFINE l == config.edges[e]
           region == crossing[e][1]
<1>1. /\ crossing[e] # <<>> /\ crossing' = [crossing EXCEPT ![e] = Tail(@)]
      /\ stored' = LandedAt(l, Head(crossing[e]), Len(Head(crossing[e])))
  BY DEF LandRegion
<1>2. /\ crossing \in [Edges -> Seq(Seq(Rounds))] /\ config \in Settings
      /\ stored \in [Stores -> SUBSET Rounds]
  BY DEF IInv, Types, RoundsAreInOrder
<1>3. l \in Stores /\ l \notin EntryStores
  BY <1>2, LandingFacts
<1>4. /\ Len(crossing[e]) \in Nat /\ DOMAIN crossing[e] = 1 .. Len(crossing[e])
      /\ Len(crossing[e]) > 0 /\ region \in Seq(Rounds) /\ Head(crossing[e]) = region
      /\ DOMAIN Tail(crossing[e]) = 1 .. (Len(crossing[e]) - 1)
      /\ \A i \in 1 .. (Len(crossing[e]) - 1) : Tail(crossing[e])[i] = crossing[e][i + 1]
  <2>1. crossing[e] \in Seq(Seq(Rounds))
    BY <1>2
  <2>2. Len(crossing[e]) \in Nat /\ Len(crossing[e]) > 0 /\ DOMAIN crossing[e] = 1 .. Len(crossing[e])
    BY <1>1, <2>1, EmptySeq, LenProperties
  <2>3. /\ Tail(crossing[e]) \in Seq(Seq(Rounds))
        /\ Len(Tail(crossing[e])) = Len(crossing[e]) - 1
        /\ \A i \in 1 .. Len(Tail(crossing[e])) : Tail(crossing[e])[i] = crossing[e][i + 1]
    BY <1>1, <2>1, HeadTailProperties
  <2>4. DOMAIN Tail(crossing[e]) = 1 .. Len(Tail(crossing[e]))
    BY <2>3, LenProperties
  <2>5. 1 \in DOMAIN crossing[e] /\ Head(crossing[e]) = crossing[e][1]
    BY <1>1, <2>1, <2>2
  <2>6. region \in Seq(Rounds)
    BY <2>1, <2>5
  <2> HIDE DEF region
  <2> QED
    BY <2>2, <2>3, <2>4, <2>5, <2>6 DEF region
<1> HIDE DEF l, region
<1>5. stored'[l] \subseteq stored[l] \cup Range(region) /\ \A s \in Stores \ {l} : stored'[s] = stored[s]
  <2>1. Len(region) \in 0 .. Len(region)
    BY <1>4, LenProperties
  <2>2. LandedAt(l, region, Len(region))[l] \subseteq stored[l] \cup Range(region)
    BY <1>2, <1>3, <1>4, <2>1, LandedPart
  <2>3. \A s \in Stores \ {l} : LandedAt(l, region, Len(region))[s] = stored[s]
    BY <1>2, <1>3, <1>4, <2>1, LandedPart, ZenonT(180)
  <2> QED
    BY <1>1, <1>4, <2>2, <2>3
<1>6. ASSUME NEW f \in Edges, NEW i \in DOMAIN crossing'[f]
      PROVE  \E k \in DOMAIN crossing[f] :
                /\ crossing'[f][i] = crossing[f][k]
                /\ (f = e => k = i + 1 /\ k # 1) /\ (f # e => k = i)
  <2>1. CASE f = e
    <3>1. crossing'[f] = Tail(crossing[e])
      BY <1>1, <1>2, <2>1
    <3>2. i \in 1 .. (Len(crossing[e]) - 1) /\ crossing'[f][i] = crossing[e][i + 1]
      BY <1>4, <1>6, <3>1
    <3>3. i + 1 \in DOMAIN crossing[f] /\ i + 1 # 1
      BY <1>4, <2>1, <3>2
    <3> QED
      BY <2>1, <3>2, <3>3
  <2>2. CASE f # e
    <3>1. crossing'[f] = crossing[f]
      BY <1>1, <1>2, <2>2
    <3> QED
      BY <1>6, <2>2, <3>1
  <2> QED
    BY <2>1, <2>2
<1>7. ASSUME NEW f \in Edges, NEW i \in DOMAIN crossing'[f]
      PROVE  /\ IsInjective(crossing'[f][i])
             /\ Range(crossing'[f][i]) \subseteq RedoReads(config.edges[f])
             /\ Range(crossing'[f][i]) \cap stored'[config.edges[f]] = {}
  <2>1. PICK k \in DOMAIN crossing[f] :
                /\ crossing'[f][i] = crossing[f][k]
                /\ (f = e => k = i + 1 /\ k # 1) /\ (f # e => k = i)
    BY <1>6
  <2>2. /\ IsInjective(crossing[f][k])
        /\ Range(crossing[f][k]) \subseteq RedoReads(config.edges[f])
        /\ Range(crossing[f][k]) \cap stored[config.edges[f]] = {}
    BY DEF RegionsAreApart, IsCarriedApart
  <2>3. CASE config.edges[f] = l
    <3>1. 1 \in DOMAIN crossing[e] /\ (e # f \/ 1 # k)
      BY <1>4, <2>1
    <3>2. Range(region) \cap Range(crossing[f][k]) = {}
      BY <2>3, <3>1 DEF RegionsAreApart, IsCarriedApart, l, region
    <3> QED
      BY <1>5, <2>1, <2>2, <2>3, <3>2
  <2>4. CASE config.edges[f] # l
    <3>1. config.edges[f] \in Stores
      BY <1>2, LandingFacts
    <3> QED
      BY <1>5, <2>1, <2>2, <2>4, <3>1
  <2> QED
    BY <2>3, <2>4
<1>8. ASSUME NEW f \in Edges, NEW g \in Edges, config.edges[f] = config.edges[g],
             NEW i \in DOMAIN crossing'[f], NEW j \in DOMAIN crossing'[g], f # g \/ i # j
      PROVE  Range(crossing'[f][i]) \cap Range(crossing'[g][j]) = {}
  <2>1. PICK k \in DOMAIN crossing[f] :
                /\ crossing'[f][i] = crossing[f][k]
                /\ (f = e => k = i + 1 /\ k # 1) /\ (f # e => k = i)
    BY <1>6
  <2>2. PICK m \in DOMAIN crossing[g] :
                /\ crossing'[g][j] = crossing[g][m]
                /\ (g = e => m = j + 1 /\ m # 1) /\ (g # e => m = j)
    BY <1>6
  <2>3. f # g \/ k # m
    <3>1. CASE f = g
      <4>1. i # j
        BY <1>8, <3>1
      <4>2. CASE f = e
        <5>1. k = i + 1 /\ m = j + 1
          BY <2>1, <2>2, <3>1, <4>2
        <5>2. i \in Int /\ j \in Int
          <6>1. crossing'[f] = Tail(crossing[e])
            BY <1>1, <1>2, <4>2
          <6>2. i \in 1 .. (Len(crossing[e]) - 1) /\ j \in 1 .. (Len(crossing[e]) - 1)
            BY <1>4, <1>8, <3>1, <6>1
          <6> QED
            BY <6>2
        <5> QED
          BY <4>1, <5>1, <5>2
      <4>3. CASE f # e
        BY <2>1, <2>2, <3>1, <4>1, <4>3
      <4> QED
        BY <4>2, <4>3
    <3> QED
      BY <3>1
  <2>4. Range(crossing[f][k]) \cap Range(crossing[g][m]) = {}
    BY <1>8, <2>3 DEF RegionsAreApart, IsCarriedApart
  <2> QED
    BY <2>1, <2>2, <2>4
<1>9. ASSUME NEW s \in Stores \ EntryStores
      PROVE  stored'[s] \subseteq RedoReads(s)
  <2>1. stored[s] \subseteq RedoReads(s)
    BY DEF RegionsAreApart, IsCarriedApart
  <2>2. Range(region) \subseteq RedoReads(l)
    <3>1. 1 \in DOMAIN crossing[e]
      BY <1>4
    <3> QED
      BY <3>1 DEF RegionsAreApart, IsCarriedApart, l, region
  <2>3. CASE s = l
    BY <1>5, <2>1, <2>2, <2>3
  <2>4. CASE s # l
    BY <1>5, <2>1, <2>4
  <2> QED
    BY <2>3, <2>4
<1>10. IsCarriedApart(crossing', stored')
  BY <1>7, <1>8, <1>9 DEF IsCarriedApart
<1> QED
  BY <1>10, SameRegions

\* A write goes to an entry store, and the others keep what they have.
LEMMA WriteIsApart ==
    ASSUME RoundsAreInOrder, NEW s \in Stores, Write(s)
    PROVE  crossing' = crossing /\ \A x \in Stores \ EntryStores : stored'[x] = stored[x]
<1>1. PICK i \in DOMAIN onRoute[s] :
           \/ FinishWrite(s, onRoute[s][i])
           \/ FinishCopy(s, onRoute[s][i])
           \/ SendMemoryRoundOn(s, onRoute[s][i])
  BY DEF Write
<1>2. s \in EntryStores /\ stored \in [Stores -> SUBSET Rounds]
  BY RouteFacts DEF RoundsAreInOrder
<1>3. \A r : \A x \in Stores \ EntryStores : StoredAt(s, r)[x] = stored[x]
  BY <1>2 DEF StoredAt
<1>4. crossing' = crossing
  BY <1>1 DEF FinishWrite, FinishCopy, SendMemoryRoundOn, redos
<1>5. CASE SendMemoryRoundOn(s, onRoute[s][i])
  <2>1. stored' = [stored EXCEPT ![s] = @ \cup {onRoute[s][i]}]
    BY <1>5 DEF SendMemoryRoundOn
  <2> QED
    BY <1>2, <1>4, <2>1
<1>6. CASE FinishWrite(s, onRoute[s][i]) \/ FinishCopy(s, onRoute[s][i])
  <2>1. stored' = StoredAt(s, onRoute[s][i])
    BY <1>6 DEF FinishWrite, FinishCopy
  <2> QED
    BY <1>3, <1>4, <2>1
<1> QED
  BY <1>1, <1>5, <1>6

\* Any step carries every round once.
LEMMA NextIsApart ==
    ASSUME RoundsAreInOrder, IInv, RegionsAreApart, [Next]_vars
    PROVE  RegionsAreApart'
<1>1. config \in Settings /\ stored \in [Stores -> SUBSET Rounds]
  BY DEF RoundsAreInOrder
<1>2. ASSUME config' = config, crossing' = crossing,
             \A s \in Stores \ EntryStores : stored'[s] \subseteq stored[s]
      PROVE  RegionsAreApart'
  BY <1>1, <1>2, LettingGoIsApart
<1>3. CASE UNCHANGED vars
  <2>1. config' = config /\ crossing' = crossing /\ stored' = stored
    BY <1>3 DEF vars, reads, redos
  <2> QED
    BY <1>2, <2>1
<1>4. ASSUME Next
      PROVE  RegionsAreApart'
  <2>1. config' = config
    BY <1>4 DEF Next
  <2>2. ASSUME NEW w, Release(w), crossing' = crossing
        PROVE  RegionsAreApart'
    BY <1>2, <2>1, <2>2, ReleaseLetsGo
  <2>3. ASSUME UNCHANGED reads
        PROVE  RegionsAreApart'
    <3>1. crossing' = crossing /\ stored' = stored
      BY <2>3 DEF reads, redos
    <3> QED
      BY <1>2, <2>1, <3>1
  <2>4. CASE ExpectRound \/ HandOn \/ Leave
    <3>1. UNCHANGED reads
      BY <2>4 DEF ExpectRound, HandOn, Leave
    <3> QED
      BY <2>3, <3>1
  <2>5. ASSUME NEW r \in Rounds, Add(r) \/ FinishPacking(r)
        PROVE  RegionsAreApart'
    <3>1. UNCHANGED reads
      BY <2>5 DEF Add, FinishPacking
    <3> QED
      BY <2>3, <3>1
  <2>6. ASSUME NEW r \in Rounds, DeliverMemory(r)
        PROVE  RegionsAreApart'
    <3>1. stored' = [stored EXCEPT ![OwnStore(r)] = @ \ {r}] /\ crossing' = crossing
      BY <2>6 DEF DeliverMemory, redos
    <3>2. \A s \in Stores \ EntryStores : stored'[s] \subseteq stored[s]
      BY <1>1, <3>1
    <3> QED
      BY <1>2, <2>1, <3>1, <3>2
  <2>7. ASSUME NEW s \in Stores, Write(s)
        PROVE  RegionsAreApart'
    <3>1. crossing' = crossing /\ \A x \in Stores \ EntryStores : stored'[x] = stored[x]
      BY <2>7, WriteIsApart
    <3> QED
      BY <1>2, <2>1, <3>1
  <2>8. ASSUME NEW e \in Edges, LandRegion(e)
        PROVE  RegionsAreApart'
    BY <2>1, <2>8, LandingIsApart
  <2>9. ASSUME NEW w \in Windows, TakeInput(w) \/ TakeRedoInput(w)
        PROVE  RegionsAreApart'
    <3>1. Release(w) /\ crossing' = crossing
      BY <2>9 DEF TakeInput, TakeRedoInput, redos
    <3> QED
      BY <2>2, <3>1
  <2>10. ASSUME NEW w \in Windows, EndRedo(w)
         PROVE  RegionsAreApart'
    <3>1. stored' = stored /\ crossing' = crossing
      BY <2>10 DEF EndRedo
    <3> QED
      BY <1>2, <2>1, <3>1
  <2>11. ASSUME NEW w \in Windows, MayRedo(w), Plan(w), stored' = stored
         PROVE  RegionsAreApart'
    BY <2>1, <2>11, PlanIsApart
  <2>12. ASSUME NEW w \in Windows, Rescue(w)
         PROVE  RegionsAreApart'
    <3>1. Plan(w) /\ stored' = stored /\ w \in config.rescues
      BY <2>12 DEF Rescue
    <3>2. MayRedo(w)
      BY <1>1, <3>1, SettingsAssumption DEF MayRedo
    <3> QED
      BY <2>11, <3>1, <3>2
  <2>13. ASSUME NEW w \in Windows, EndDecode(w)
         PROVE  RegionsAreApart'
    <3>1. CASE Keep(w)
      <4>1. Release(w) /\ crossing' = crossing
        BY <3>1 DEF Keep
      <4> QED
        BY <2>2, <4>1
    <3>2. CASE Escalate(w)
      <4>1. MayRedo(w) /\ stored' = stored /\ (Plan(w) \/ crossing' = crossing)
        BY <3>2 DEF Escalate, redos
      <4> QED
        BY <1>2, <2>1, <2>11, <4>1
    <3> QED
      BY <2>13, <3>1, <3>2 DEF EndDecode
  <2> QED
    BY <1>4, <2>4, <2>5, <2>6, <2>7, <2>8, <2>9, <2>10, <2>12, <2>13 DEF Next
<1> QED
  BY <1>3, <1>4

\* A window's phase is one of the five, whatever happens.
LEMMA PhasesStayKnown ==
    ASSUME PhasesAreKnown, [Next]_vars
    PROVE  PhasesAreKnown'
<1>1. CASE UNCHANGED vars
  BY <1>1, SameSetting DEF vars, reads, PhasesAreKnown
<1>2. ASSUME Next
      PROVE  PhasesAreKnown'
  <2>1. config' = config
    BY <1>2 DEF Next
  <2>2. ASSUME phase' = phase
        PROVE  PhasesAreKnown'
    BY <2>1, <2>2, SameSetting DEF PhasesAreKnown
  <2>3. ASSUME NEW w, NEW p \in {"decoding", "escalated", "decoded"},
               phase' = [phase EXCEPT ![w] = p]
        PROVE  PhasesAreKnown'
    BY <2>1, <2>3, SameSetting DEF PhasesAreKnown
  <2>4. CASE ExpectRound \/ HandOn \/ Leave
    BY <2>2, <2>4 DEF ExpectRound, HandOn, Leave, reads
  <2>5. ASSUME NEW r \in Rounds, Add(r) \/ FinishPacking(r) \/ DeliverMemory(r)
        PROVE  PhasesAreKnown'
    BY <2>2, <2>5 DEF Add, FinishPacking, DeliverMemory, reads
  <2>6. ASSUME NEW s \in Stores, Write(s)
        PROVE  PhasesAreKnown'
    <3>1. WakeWindows \/ phase' = phase
      BY <2>6 DEF Write, FinishWrite, FinishCopy, SendMemoryRoundOn
    <3>2. CASE WakeWindows
      BY <2>1, <3>2, SameSetting DEF WakeWindows, PhasesAreKnown
    <3> QED
      BY <2>2, <3>1, <3>2
  <2>7. ASSUME NEW e \in Edges, LandRegion(e)
        PROVE  PhasesAreKnown'
    BY <2>2, <2>7 DEF LandRegion
  <2>8. ASSUME NEW w \in Windows, TakeInput(w) \/ EndDecode(w) \/ EndRedo(w)
        PROVE  PhasesAreKnown'
    BY <2>3, <2>8 DEF TakeInput, EndDecode, Keep, Escalate, EndRedo
  <2>9. ASSUME NEW w \in Windows, Rescue(w) \/ TakeRedoInput(w)
        PROVE  PhasesAreKnown'
    BY <2>2, <2>9 DEF Rescue, TakeRedoInput
  <2> QED
    BY <1>2, <2>4, <2>5, <2>6, <2>7, <2>8, <2>9 DEF Next
<1> QED
  BY <1>1, <1>2

-----------------------------------------------------------------------------
(* The invariant of the path, and its theorems *)

\* The invariant of the path: rounds and places in order, and a knot for ever.
PathInv ==
    RoundsAreInOrder /\ PublishedIsPast /\ KnotStays /\ RegionsAreApart /\ PhasesAreKnown

\* It holds before the first round.
LEMMA PathInvInit == Init => PathInv
<1> SUFFICES ASSUME Init
             PROVE  PathInv
  OBVIOUS
<1>1. RoundsAreInOrder
  BY InitInOrder
<1>2. PublishedIsPast /\ KnotStays
  BY DEF Init, PublishedIsPast, KnotStays
<1>3. PhasesAreKnown
  BY DEF Init, PhasesAreKnown
<1>4. RegionsAreApart
  <2>1. /\ config \in Settings /\ crossing = [e \in Edges |-> <<>>]
        /\ stored = [s \in Stores |-> {}]
    BY DEF Init
  <2>2. \A e \in Edges : DOMAIN crossing[e] = {}
    BY <2>1
  <2>3. \A s \in Stores : stored[s] = {}
    BY <2>1
  <2> QED
    BY <2>2, <2>3 DEF RegionsAreApart, IsCarriedApart
<1> QED
  BY <1>1, <1>2, <1>3, <1>4 DEF PathInv

\* Any step keeps it, and leaves the head of the line of a stopped run.
LEMMA PathInvStep ==
    ASSUME PathInv, IInv, [Next]_vars
    PROVE  /\ PathInv'
           /\ stopped => heldRounds' # <<>> /\ Head(heldRounds') = Head(heldRounds)
<1>1. /\ RoundsAreInOrder /\ RoundsAreInOrder' /\ PublishedIsPast /\ KnotStays
      /\ RegionsAreApart' /\ PhasesAreKnown'
  BY NextInOrder, NextIsApart, PhasesStayKnown DEF PathInv
<1>2. CASE Next
  <2>1. config' = config /\ RoundsGoOn /\ PhasesGoOn
    BY <1>1, <1>2, StepFacts, PhasesFacts DEF Next
  <2>2. PublishedIsPast'
    BY <1>1, <2>1, PublishedStays
  <2> QED
    BY <1>1, <1>2, <2>2, KnotStaysOn DEF PathInv
<1>3. CASE UNCHANGED vars
  <2>1. /\ config' = config /\ published' = published /\ heldRounds' = heldRounds
        /\ phase' = phase /\ stopped' = stopped /\ stored' = stored /\ onRoute' = onRoute
        /\ UNCHANGED stage /\ redo' = redo
    BY <1>3 DEF vars, path, reads, redos
  <2>2. Before' = Before /\ Emitted' = Emitted
    BY <1>1, <2>1, StageStays DEF RoundsAreInOrder
  <2>3. PublishedIsPast'
    BY <1>1, <2>1, <2>2, SameSetting DEF PublishedIsPast
  <2>4. RoundsGoOn /\ PhasesGoOn /\ HeldGoesOn
    BY <2>1, <2>2 DEF RoundsGoOn, PhasesGoOn, HeldGoesOn
  <2>5. stored' \in [Stores -> SUBSET Rounds]
    BY <1>1, <2>1 DEF RoundsAreInOrder
  <2> QED
    BY <1>1, <2>1, <2>3, <2>4, <2>5, StoppedRests DEF PathInv
<1> QED
  BY <1>2, <1>3

\* The rounds of the path are in order in every state: each is in one place,
\* what is counted in flight is there, nothing is carried twice, and a knot is
\* never undone.
THEOREM PathIsAlwaysInOrder == Spec => []PathInv
<1>1. Init => PathInv
  BY PathInvInit
<1>2. PathInv /\ IInv /\ [Next]_vars => PathInv'
  BY PathInvStep
<1>3. Spec => []IInv
  BY ReadsAreInOrder
<1> QED
  BY <1>1, <1>2, <1>3, PTL DEF Spec

\* The stop is never wrong: a run that goes on past it never lets the head of
\* the held line in (_stop_at_a_knot raises only for what waits for ever).
THEOREM StopsOnlyAtKnots == Spec => StopsOnlyAtAKnot
<1>1. PathInv /\ IInv /\ [Next]_vars =>
        [stopped => heldRounds' # <<>> /\ Head(heldRounds') = Head(heldRounds)]_vars
  BY PathInvStep
<1>2. Spec => []IInv
  BY ReadsAreInOrder
<1> QED
  BY <1>1, <1>2, PathIsAlwaysInOrder, PTL DEF Spec, StopsOnlyAtAKnot

-----------------------------------------------------------------------------
(* Room *)

\* The bits of what the redos of a store read have room in it.
LEMMA LandingRoom ==
    ASSUME config \in Settings, LandingsFit(config), NEW s \in Stores \ EntryStores
    PROVE  Bits(RedoReads(s)) <= config.capacity[s]
<1> DEFINE read == UNION {config.redo[w] : w \in {v \in DOMAIN config.windows :
                v \in DOMAIN config.redo
                /\ config.edges[config.own[config.windows[v].stream]] = s}}
<1>1. Cardinality(UNION {{r} \X (1 .. config.bits[r]) : r \in read}) <= config.capacity[s]
  BY DEF LandingsFit, Stores, EntryStores
<1>2. RedoReads(s) = read
  BY DEF RedoReads, Windows, MayRedo, Landing, StoreOf
<1> HIDE DEF read
<1> QED
  BY <1>1, <1>2 DEF Bits

\* Every variable has its type.
LEMMA TypesHold ==
    ASSUME PathInv, IInv
    PROVE  TypeOK
<1>1. /\ config \in Settings /\ stored \in [Stores -> SUBSET Rounds] /\ stopped \in BOOLEAN
      /\ StageIsInOrder /\ FlightIsCounted /\ PublishedIsPast /\ PhasesAreKnown
  BY DEF PathInv, RoundsAreInOrder
<1>2. Emitted \subseteq Rounds
  BY <1>1, StageIsFinite
<1>3. /\ emitted \in 0 .. Len(config.emission)
      /\ whole \subseteq Rounds /\ expected \subseteq Rounds /\ inAssembly \subseteq Rounds
      /\ packing \subseteq inAssembly /\ packed \subseteq inAssembly
  BY <1>1, <1>2, StageFacts
<1>4. packingLine \in Seq(Rounds) /\ heldRounds \in Seq(Rounds)
  <2>1. packingLine \in Seq(Emitted) /\ heldRounds \in Seq(Emitted)
    BY <1>1, StageFacts, PathFacts DEF PathInv
  <2> QED
    BY <1>2, <2>1
<1>5. forming \in Seq(inAssembly)
  <2>1. forming \in Seq(inAssembly \cap whole)
    BY <1>1, StageFacts
  <2> DEFINE A == inAssembly \cap whole
  <2>2. A \subseteq inAssembly /\ forming \in Seq(A)
    BY <2>1
  <2> HIDE DEF A
  <2> QED
    BY <2>2
<1>6. onRoute \in [Stores -> Seq(Rounds)]
  <2>1. onRoute \in [Stores -> Seq(Emitted)]
    BY PathFacts DEF PathInv
  <2>2. \A s \in Stores : onRoute[s] \in Seq(Rounds)
    <3> SUFFICES ASSUME NEW s \in Stores
                 PROVE  onRoute[s] \in Seq(Rounds)
      OBVIOUS
    <3>1. onRoute[s] \in Seq(Emitted)
      BY <2>1
    <3> QED
      BY <1>2, <3>1
  <2> QED
    BY <2>1, <2>2
<1>7. inFlight \in Nat /\ leaving \in Nat /\ outgoing \subseteq config.memory
  BY <1>1 DEF FlightIsCounted
<1>8. published \subseteq Rounds
  BY <1>1, <1>2 DEF PublishedIsPast
<1>9. /\ redo \in [Windows -> {"none", "held", "asked", "landed", "over"}]
      /\ crossing \in [Edges -> Seq(Seq(Rounds))]
  BY DEF IInv, Types
<1> QED
  BY <1>1, <1>3, <1>4, <1>5, <1>6, <1>7, <1>8, <1>9 DEF TypeOK, PhasesAreKnown

\* No store is promised more than it has room for.
LEMMA PromisesHold ==
    ASSUME PathInv, LandingsFit(config)
    PROVE  StoresKeepTheirPromise
<1>1. /\ config \in Settings /\ stored \in [Stores -> SUBSET Rounds]
      /\ EntryStoresHaveRoom /\ RoundsAreInOrder /\ RegionsAreApart
  BY DEF PathInv, RoundsAreInOrder
<1>2. ASSUME NEW s \in Stores \ EntryStores
      PROVE  Bits(stored[s]) + Bits(Range(onRoute[s])) <= config.capacity[s]
  <2>1. Range(onRoute[s]) = {}
    BY <1>1, PathFacts
  <2>2. Bits({}) = 0 /\ Bits(Range(onRoute[s])) = 0
    BY <1>1, <2>1, BitsFacts
  <2>3. RedoReads(s) \in SUBSET Rounds /\ stored[s] \in SUBSET RedoReads(s)
    BY <1>1, LandingFacts DEF RegionsAreApart, IsCarriedApart
  <2>4. Bits(stored[s]) <= Bits(RedoReads(s)) /\ Bits(RedoReads(s)) \in Nat
    BY <1>1, <2>3, BitsFacts
  <2>5. Bits(stored[s]) \in Nat /\ config.capacity[s] \in Nat
    BY <1>1, BitsFacts, StoreFacts
  <2>6. Bits(RedoReads(s)) <= config.capacity[s]
    BY <1>1, LandingRoom
  <2> QED
    BY <2>2, <2>4, <2>5, <2>6
<1> QED
  BY <1>1, <1>2 DEF StoresKeepTheirPromise, EntryStoresHaveRoom

\* A region that lands finds the room of every round of it.
LEMMA RegionsHaveRoom ==
    ASSUME PathInv, IInv, LandingsFit(config)
    PROVE  RegionsFindRoom
<1>1. /\ config \in Settings /\ stored \in [Stores -> SUBSET Rounds]
      /\ RegionsAreApart /\ crossing \in [Edges -> Seq(Seq(Rounds))]
  BY DEF PathInv, RoundsAreInOrder, IInv, Types
<1> SUFFICES ASSUME NEW e \in Edges, NEW i \in DOMAIN crossing[e]
             PROVE  /\ Range(crossing[e][i]) \cap stored[config.edges[e]] = {}
                    /\ \A j \in 1 .. (i - 1) :
                        Range(crossing[e][i]) \cap Range(crossing[e][j]) = {}
                    /\ \A n \in DOMAIN crossing[e][i] :
                        Bits(LandedAt(config.edges[e], crossing[e][i], n - 1)[config.edges[e]])
                            + config.bits[crossing[e][i][n]] <= config.capacity[config.edges[e]]
  BY DEF RegionsFindRoom
<1>2. PICK l : l = config.edges[e]
  OBVIOUS
<1>3. l \in Stores \ EntryStores /\ l \in Stores
  BY <1>1, <1>2, LandingFacts
<1>4. /\ IsInjective(crossing[e][i]) /\ Range(crossing[e][i]) \subseteq RedoReads(l)
      /\ Range(crossing[e][i]) \cap stored[l] = {} /\ stored[l] \subseteq RedoReads(l)
  BY <1>1, <1>2, <1>3 DEF RegionsAreApart, IsCarriedApart
<1>5. ASSUME NEW j \in 1 .. (i - 1)
      PROVE  Range(crossing[e][i]) \cap Range(crossing[e][j]) = {}
  <2>1. crossing[e] \in Seq(Seq(Rounds))
    BY <1>1
  <2>2. DOMAIN crossing[e] = 1 .. Len(crossing[e]) /\ Len(crossing[e]) \in Nat
    BY <2>1, LenProperties
  <2>3. j \in DOMAIN crossing[e] /\ i # j
    BY <2>2
  <2> QED
    BY <1>1, <2>3 DEF RegionsAreApart, IsCarriedApart
<1>6. ASSUME NEW n \in DOMAIN crossing[e][i]
      PROVE  Bits(LandedAt(l, crossing[e][i], n - 1)[l])
                + config.bits[crossing[e][i][n]] <= config.capacity[l]
  <2>1. PICK region \in Seq(Rounds) : region = crossing[e][i]
    <3>1. crossing[e] \in Seq(Seq(Rounds))
      BY <1>1
    <3> QED
      BY <3>1
  <2>2. /\ n \in 1 .. Len(region) /\ Len(region) \in Nat /\ DOMAIN region = 1 .. Len(region)
        /\ region[n] \in Rounds /\ region[n] \in Range(region)
    <3>1. Len(region) \in Nat /\ DOMAIN region = 1 .. Len(region)
      BY LenProperties
    <3> QED
      BY <1>6, <2>1, <3>1 DEF Range
  <2>3. n - 1 \in 0 .. Len(region)
    BY <2>2
  <2> DEFINE A == LandedAt(l, region, n - 1)[l]
             B == {region[n]}
  <2>4. /\ A \subseteq stored[l] \cup {region[k] : k \in 1 .. (n - 1)}
        /\ {region[k] : k \in 1 .. (n - 1)} \subseteq Range(region)
    BY <1>1, <1>3, <2>3, LandedPart
  <2>5. region[n] \notin {region[k] : k \in 1 .. (n - 1)}
    BY <1>4, <2>1, <2>2 DEF IsInjective
  <2>6. /\ RedoReads(l) \in SUBSET Rounds
        /\ A \in SUBSET RedoReads(l) /\ B \in SUBSET RedoReads(l) /\ A \cap B = {}
    BY <1>1, <1>4, <2>1, <2>2, <2>4, <2>5, LandingFacts
  <2>7. Bits(B) = config.bits[region[n]]
    BY <1>1, <2>2, BitsFacts
  <2> HIDE DEF A, B
  <2>8. A \in SUBSET Rounds /\ B \in SUBSET Rounds /\ A \cup B \in SUBSET RedoReads(l)
    BY <2>6
  <2>9. Bits(A \cup B) = Bits(A) + Bits(B)
    BY <1>1, <2>6, <2>8, BitsOfTwo
  <2>10. Bits(A \cup B) <= Bits(RedoReads(l))
    BY <1>1, <2>6, <2>8, BitsFacts
  <2>11. Bits(RedoReads(l)) <= config.capacity[l]
    BY <1>1, <1>3, LandingRoom
  <2>12. Bits(A) \in Nat /\ Bits(B) \in Nat /\ Bits(RedoReads(l)) \in Nat /\ config.capacity[l] \in Nat
    BY <1>1, <1>3, <2>6, <2>8, BitsFacts, StoreFacts
  <2>13. Bits(A) + config.bits[region[n]] <= config.capacity[l]
    BY <2>7, <2>9, <2>10, <2>11, <2>12
  <2> QED
    BY <2>1, <2>13 DEF A
<1> QED
  BY <1>2, <1>4, <1>5, <1>6

\* Every write, copy and region finds the room it was promised, a landing store
\* included where the settings size it for its redos, and no place of the
\* packing stage is forgotten (accept_packed_round never raises).
THEOREM BoundedStagesAlwaysKeepTheirRoom ==
    Spec => [](LandingsFit(config) => BoundedStagesKeepTheirRoom)
<1>1. PathInv /\ IInv => (LandingsFit(config) => BoundedStagesKeepTheirRoom)
  <2> SUFFICES ASSUME PathInv, IInv, LandingsFit(config)
               PROVE  BoundedStagesKeepTheirRoom
    OBVIOUS
  <2>1. NoPlaceIsForgotten
    BY DEF PathInv, RoundsAreInOrder
  <2> QED
    BY <2>1, TypesHold, PromisesHold, RegionsHaveRoom DEF BoundedStagesKeepTheirRoom
<1>2. Spec => []IInv
  BY ReadsAreInOrder
<1> QED
  BY <1>1, <1>2, PathIsAlwaysInOrder, PTL
=============================================================================
