----------------------------- MODULE DataLemmas -----------------------------
(***************************************************************************)
(* Facts about natural numbers, finite sets and sequences that the proofs  *)
(* of the components share.                                                *)
(*                                                                         *)
(* The provers cannot instantiate a theorem that takes an operator, so the *)
(* induction theorems of the library are of no use.  A least element does  *)
(* the same work: suppose a claim fails for some number, or some subset of *)
(* a finite set; take a least one for which it fails (LeastNatural,        *)
(* LeastSubset), and use the claim for what is below it.                   *)
(***************************************************************************)
EXTENDS Integers, Sequences, FiniteSets, SequencesExt, FiniteSetsExt,
        SequenceTheorems, FiniteSetTheorems, WellFoundedInduction, TLAPS

-----------------------------------------------------------------------------
(* Least elements *)

\* Among some subsets of a finite set there is a least one.
LEMMA LeastSubset ==
    ASSUME NEW S, IsFiniteSet(S), NEW T, T \subseteq SUBSET S, T # {}
    PROVE  \E x \in T : \A y \in T : y \subseteq x => y = x
<1>1. IsWellFoundedOn(StrictSubsetOrdering(S), FiniteSubsetsOf(S))
    BY FS_StrictSubsetOrderingWellFounded
<1>2. \E x \in T : \A y \in T : ~ (<<y, x>> \in StrictSubsetOrdering(S))
    BY <1>1, WFMin, FS_FiniteSubsetsOfFinite
<1> QED
    BY <1>2 DEF StrictSubsetOrdering

\* Among some natural numbers there is a least one.
LEMMA LeastNatural ==
    ASSUME NEW T, T \subseteq Nat, T # {}
    PROVE  \E x \in T : \A y \in T : x <= y
<1>1. PICK n \in T : TRUE
    OBVIOUS
<1> DEFINE S == 0 .. n
           F == {0 .. k : k \in {j \in T : j <= n}}
<1>2. IsFiniteSet(S)
    BY <1>1, FS_Interval
<1>3. F \subseteq SUBSET S /\ F # {}
    BY <1>1
<1> HIDE DEF F, S
<1>4. PICK x \in F : \A y \in F : y \subseteq x => y = x
    BY <1>2, <1>3, LeastSubset
<1>5. PICK k \in T : x = 0 .. k /\ k <= n
    BY DEF F
<1>6. ASSUME NEW y \in T, y < k
      PROVE  FALSE
    <2>1. 0 .. y \in F
        BY <1>5, <1>6 DEF F
    <2>2. 0 .. y \subseteq 0 .. k /\ k \in 0 .. k /\ k \notin 0 .. y
        BY <1>5, <1>6
    <2> QED
        BY <1>4, <1>5, <2>1, <2>2
<1> QED
    BY <1>5, <1>6

\* A set of natural numbers each of which has a smaller one in it is empty.
LEMMA NoLeast ==
    ASSUME NEW T, \A n \in T : n \in Nat, \A n \in T : \E k \in T : k < n
    PROVE  T = {}
<1>1. T \subseteq Nat
    OBVIOUS
<1>2. CASE T # {}
    <2>1. PICK x \in T : \A y \in T : x <= y
        BY <1>1, <1>2, LeastNatural
    <2>2. PICK k \in T : k < x
        OBVIOUS
    <2> QED
        BY <1>1, <2>1, <2>2
<1> QED
    BY <1>2

\* d is defined by its value at top and a rule that gives each value below
\* from the next one.
RunsDown(d, top, last, rule) ==
    /\ d[top] = last
    /\ \A l \in 0 .. top - 1 : d[l] = rule[l][d[l + 1]]

\* There is a function on 0 .. top that is so defined.
LEMMA DownwardRecursion ==
    ASSUME NEW top \in Nat, NEW V, NEW last \in V,
           NEW rule \in [0 .. top -> [V -> V]]
    PROVE  \E d \in [0 .. top -> V] : RunsDown(d, top, last, rule)
<1> DEFINE Defines(n, d) ==
             /\ d[top] = last
             /\ \A l \in top - n .. top - 1 : d[l] = rule[l][d[l + 1]]
           Wrong == {n \in 0 .. top : ~ \E d \in [0 .. top -> V] : Defines(n, d)}
<1>1. \A n \in Wrong : n \in Nat
    OBVIOUS
<1>2. ASSUME NEW n \in Wrong
      PROVE  \E k \in Wrong : k < n
    <2>1. n \in 0 .. top /\ ~ \E d \in [0 .. top -> V] : Defines(n, d)
        BY <1>2
    <2>2. n # 0
        <3>1. [l \in 0 .. top |-> last] \in [0 .. top -> V]
            OBVIOUS
        <3>2. Defines(0, [l \in 0 .. top |-> last])
            OBVIOUS
        <3> QED
            BY <2>1, <3>1, <3>2
    <2>3. ASSUME NEW e \in [0 .. top -> V], Defines(n - 1, e)
          PROVE  FALSE
        <3> DEFINE d == [e EXCEPT ![top - n] = rule[top - n][e[top - n + 1]]]
        <3>1. top - n \in 0 .. top - 1 /\ top - n + 1 \in 0 .. top
            BY <2>1, <2>2
        <3>2. d \in [0 .. top -> V]
            BY <3>1
        <3>3. d[top] = last
            BY <2>3, <3>1
        <3>4. \A l \in top - n .. top - 1 : d[l] = rule[l][d[l + 1]]
            <4> TAKE l \in top - n .. top - 1
            <4>1. l \in 0 .. top - 1 /\ l + 1 \in 0 .. top /\ l + 1 # top - n
                BY <2>1
            <4>2. CASE l = top - n
                BY <3>1, <4>1, <4>2
            <4>3. CASE l # top - n
                <5>1. l \in top - (n - 1) .. top - 1
                    BY <2>1, <4>3
                <5> QED
                    BY <2>3, <3>1, <4>1, <4>3, <5>1
            <4> QED
                BY <4>2, <4>3
        <3>5. Defines(n, d)
            BY <3>3, <3>4
        <3> QED
            BY <2>1, <3>2, <3>5
    <2>4. n - 1 \in Wrong
        BY <2>1, <2>2, <2>3
    <2>6. n - 1 < n
        BY <2>1
    <2> HIDE DEF Wrong
    <2> QED
        BY <2>4, <2>6
<1> HIDE DEF Wrong
<1>3. Wrong = {}
    BY <1>1, <1>2, NoLeast
<1>4. \E d \in [0 .. top -> V] : Defines(top, d)
    <2>1. top \in 0 .. top /\ top \notin Wrong
        BY <1>3
    <2> HIDE DEF Defines
    <2> QED
        BY <2>1 DEF Wrong
<1> QED
    BY <1>4 DEF RunsDown

\* ... and only one function is.
LEMMA DownwardRecursionUnique ==
    ASSUME NEW top \in Nat, NEW last, NEW rule,
           NEW d \in [0 .. top -> Nat], NEW e \in [0 .. top -> Nat],
           RunsDown(d, top, last, rule), RunsDown(e, top, last, rule)
    PROVE  d = e
<1> USE DEF RunsDown
<1> DEFINE Wrong == {n \in 0 .. top : d[top - n] # e[top - n]}
<1>1. \A n \in Wrong : n \in Nat
    OBVIOUS
<1>2. ASSUME NEW n \in Wrong
      PROVE  \E k \in Wrong : k < n
    <2>1. n \in 0 .. top /\ d[top - n] # e[top - n]
        BY <1>2
    <2>2. n # 0
        BY <2>1
    <2>3. top - n \in 0 .. top - 1 /\ top - (n - 1) = top - n + 1
        BY <2>1, <2>2
    <2>4. d[top - (n - 1)] # e[top - (n - 1)]
        BY <2>1, <2>3
    <2>5. n - 1 \in Wrong
        BY <2>1, <2>2, <2>4
    <2>6. n - 1 < n
        BY <2>1
    <2> HIDE DEF Wrong
    <2> QED
        BY <2>5, <2>6
<1> HIDE DEF Wrong
<1>3. Wrong = {}
    BY <1>1, <1>2, NoLeast
<1>4. ASSUME NEW l \in 0 .. top
      PROVE  d[l] = e[l]
    <2>1. top - l \in 0 .. top /\ top - (top - l) = l
        OBVIOUS
    <2> QED
        BY <1>3, <2>1 DEF Wrong
<1> QED
    BY <1>4

\* What holds at the start, and at each number when it holds at the one
\* before, holds up to the top.
LEMMA ClimbsUp ==
    ASSUME NEW top \in Nat, NEW T, 0 \in T,
           \A n \in 1 .. top : n - 1 \in T => n \in T
    PROVE  \A n \in 0 .. top : n \in T
<1> DEFINE Wrong == {n \in 0 .. top : n \notin T}
<1>1. \A n \in Wrong : n \in Nat
    OBVIOUS
<1>2. ASSUME NEW n \in Wrong
      PROVE  \E k \in Wrong : k < n
    <2>1. n \in 1 .. top /\ n - 1 \in 0 .. top /\ n - 1 \notin T
        BY <1>2
    <2> QED
        BY <2>1
<1> HIDE DEF Wrong
<1>3. Wrong = {}
    BY <1>1, <1>2, NoLeast
<1> QED
    BY <1>3 DEF Wrong

\* d is defined by its first value and a rule that gives each other value
\* from the one before.
RunsUp(d, top, first, rule) ==
    /\ d[0] = first
    /\ \A n \in 1 .. top : d[n] = rule[n][d[n - 1]]

\* There is a function on 0 .. top that is so defined.
LEMMA UpwardRecursion ==
    ASSUME NEW top \in Nat, NEW V, NEW first \in V,
           NEW rule \in [1 .. top -> [V -> V]]
    PROVE  \E d \in [0 .. top -> V] : RunsUp(d, top, first, rule)
<1> DEFINE back == [l \in 0 .. top |-> IF l = top THEN [v \in V |-> v] ELSE rule[top - l]]
<1>1. back \in [0 .. top -> [V -> V]]
    <2>1. ASSUME NEW l \in 0 .. top, l # top
          PROVE  top - l \in 1 .. top
        BY <2>1
    <2> QED
        BY <2>1
<1>2. \A l \in 0 .. top - 1 : back[l] = rule[top - l]
    OBVIOUS
<1> HIDE DEF back
<1>3. PICK e \in [0 .. top -> V] : RunsDown(e, top, first, back)
    BY <1>1, DownwardRecursion
<1> DEFINE d == [n \in 0 .. top |-> e[top - n]]
<1>4. d \in [0 .. top -> V] /\ d[0] = first
    BY <1>3 DEF RunsDown
<1>5. ASSUME NEW n \in 1 .. top
      PROVE  d[n] = rule[n][d[n - 1]]
    <2>1. /\ top - n \in 0 .. top - 1 /\ top - (top - n) = n
          /\ n \in 0 .. top /\ n - 1 \in 0 .. top /\ top - (n - 1) = top - n + 1
        OBVIOUS
    <2>2. e[top - n] = back[top - n][e[top - n + 1]]
        BY <1>3, <2>1 DEF RunsDown
    <2>3. back[top - n] = rule[n]
        BY <1>2, <2>1
    <2> QED
        BY <2>1, <2>2, <2>3
<1> QED
    BY <1>4, <1>5 DEF RunsUp

-----------------------------------------------------------------------------
(* Greatest and least elements of finite sets of numbers *)

\* A finite set of numbers has a greatest one.
LEMMA GreatestOfFinite ==
    ASSUME NEW S, IsFiniteSet(S), S # {}, \A x \in S : x \in Int
    PROVE  \E x \in S : \A y \in S : y <= x
<1> DEFINE Wrong == {Q \in SUBSET S : Q # {} /\ ~ \E x \in Q : \A y \in Q : y <= x}
<1> SUFFICES ASSUME Wrong # {}
             PROVE  FALSE
    OBVIOUS
<1>1. Wrong \subseteq SUBSET S
    OBVIOUS
<1> HIDE DEF Wrong
<1>2. PICK Q \in Wrong : \A y \in Wrong : y \subseteq Q => y = Q
    BY <1>1, LeastSubset
<1>3. Q \subseteq S /\ Q # {} /\ ~ \E x \in Q : \A y \in Q : y <= x
    BY DEF Wrong
<1>4. PICK q \in Q : TRUE
    BY <1>3
<1>5. Q \ {q} \notin Wrong
    BY <1>2, <1>4
<1>6. Q \ {q} # {}
    BY <1>3, <1>4
<1>7. PICK m \in Q \ {q} : \A y \in Q \ {q} : y <= m
    BY <1>3, <1>5, <1>6 DEF Wrong
<1>8. m \in Int /\ q \in Int
    BY <1>3
<1> QED
    BY <1>3, <1>4, <1>7, <1>8

\* What Max of such a set is.
LEMMA MaxFacts ==
    ASSUME NEW S, IsFiniteSet(S), S # {}, \A x \in S : x \in Int
    PROVE  Max(S) \in S /\ \A y \in S : y <= Max(S)
    BY GreatestOfFinite DEF Max

\* A finite set of numbers has a least one.
LEMMA LeastOfFinite ==
    ASSUME NEW S, IsFiniteSet(S), S # {}, \A x \in S : x \in Int
    PROVE  \E x \in S : \A y \in S : x <= y
<1> DEFINE Wrong == {Q \in SUBSET S : Q # {} /\ ~ \E x \in Q : \A y \in Q : x <= y}
<1> SUFFICES ASSUME Wrong # {}
             PROVE  FALSE
    OBVIOUS
<1>1. Wrong \subseteq SUBSET S
    OBVIOUS
<1> HIDE DEF Wrong
<1>2. PICK Q \in Wrong : \A y \in Wrong : y \subseteq Q => y = Q
    BY <1>1, LeastSubset
<1>3. Q \subseteq S /\ Q # {} /\ ~ \E x \in Q : \A y \in Q : x <= y
    BY DEF Wrong
<1>4. PICK q \in Q : TRUE
    BY <1>3
<1>5. Q \ {q} \notin Wrong
    BY <1>2, <1>4
<1>6. Q \ {q} # {}
    BY <1>3, <1>4
<1>7. PICK m \in Q \ {q} : \A y \in Q \ {q} : m <= y
    BY <1>3, <1>5, <1>6 DEF Wrong
<1>8. m \in Int /\ q \in Int
    BY <1>3
<1> QED
    BY <1>3, <1>4, <1>7, <1>8

\* What Min of such a set is.
LEMMA MinFacts ==
    ASSUME NEW S, IsFiniteSet(S), S # {}, \A x \in S : x \in Int
    PROVE  Min(S) \in S /\ \A y \in S : Min(S) <= y
    BY LeastOfFinite DEF Min

\* What a function gives for the elements of a finite set.
LEMMA FiniteImage ==
    ASSUME NEW S, IsFiniteSet(S), NEW f
    PROVE  IsFiniteSet({f[x] : x \in S}) /\ Cardinality({f[x] : x \in S}) <= Cardinality(S)
<1> DEFINE T == {f[x] : x \in S}
           g == [x \in S |-> f[x]]
<1>1. g \in Surjection(S, T)
    BY DEF Surjection
<1> HIDE DEF g, T
<1>2. IsFiniteSet(T) /\ Cardinality(T) <= Cardinality(S)
    BY <1>1, FS_Surjection
<1> QED
    BY <1>2 DEF T

\* The larger of two numbers, the smaller of two.
LEMMA OfTwo ==
    ASSUME NEW a \in Int, NEW b \in Int
    PROVE  /\ Max({a, b}) = IF a >= b THEN a ELSE b
           /\ Min({a, b}) = IF a <= b THEN a ELSE b
    BY DEF Max, Min

\* The largest and the smallest of three.
LEMMA OfThree ==
    ASSUME NEW a \in Int, NEW b \in Int, NEW c \in Int
    PROVE  /\ Max({a, b, c}) \in {a, b, c}
           /\ Max({a, b, c}) >= a /\ Max({a, b, c}) >= b /\ Max({a, b, c}) >= c
           /\ Min({a, b, c}) \in {a, b, c}
           /\ Min({a, b, c}) <= a /\ Min({a, b, c}) <= b /\ Min({a, b, c}) <= c
<1> DEFINE S == {a, b, c}
<1>1. \E x \in S : \A y \in S : x >= y
    OBVIOUS
<1>2. \E x \in S : \A y \in S : x <= y
    OBVIOUS
<1>3. Max(S) \in S /\ \A y \in S : Max(S) >= y
    BY <1>1 DEF Max
<1>4. Min(S) \in S /\ \A y \in S : Min(S) <= y
    BY <1>2 DEF Min
<1> QED
    BY <1>3, <1>4

-----------------------------------------------------------------------------
(* Sequences *)

\* Removing a place.
LEMMA RemoveAtFacts ==
    ASSUME NEW S, NEW s \in Seq(S), NEW i \in 1 .. Len(s)
    PROVE  /\ RemoveAt(s, i) \in Seq(S)
           /\ Len(RemoveAt(s, i)) = Len(s) - 1
           /\ \A j \in 1 .. Len(s) - 1 :
                RemoveAt(s, i)[j] = IF j < i THEN s[j] ELSE s[j + 1]
<1> DEFINE before == SubSeq(s, 1, i - 1)
           after == SubSeq(s, i + 1, Len(s))
<1>1. /\ before \in Seq(S) /\ Len(before) = i - 1
      /\ \A j \in 1 .. i - 1 : before[j] = s[j]
    <2>1. \A j \in 1 .. i - 1 : s[j] \in S
        OBVIOUS
    <2> QED
        BY <2>1, SubSeqProperties
<1>2. /\ after \in Seq(S) /\ Len(after) = Len(s) - i
      /\ \A j \in 1 .. Len(s) - i : after[j] = s[i + j]
    <2>1. \A j \in i + 1 .. Len(s) : s[j] \in S
        OBVIOUS
    <2>2. i + 1 \in Int /\ Len(s) \in Int
        OBVIOUS
    <2> QED
        BY <2>1, <2>2, SubSeqProperties
<1> HIDE DEF before, after
<1>3. /\ before \o after \in Seq(S)
      /\ Len(before \o after) = Len(before) + Len(after)
      /\ \A j \in 1 .. Len(before) + Len(after) :
            (before \o after)[j] = IF j <= Len(before) THEN before[j]
                                   ELSE after[j - Len(before)]
    <2>1. before \in Seq(S) /\ after \in Seq(S)
        BY <1>1, <1>2
    <2> QED
        BY <2>1, ConcatProperties
<1>4. /\ before \o after \in Seq(S)
      /\ Len(before \o after) = Len(s) - 1
      /\ \A j \in 1 .. Len(s) - 1 :
            (before \o after)[j] = IF j < i THEN s[j] ELSE s[j + 1]
    BY <1>1, <1>2, <1>3
<1> QED
    BY <1>4 DEF RemoveAt, before, after

\* A sequence is what comes up to a place and what comes after it.
LEMMA SplitFacts ==
    ASSUME NEW S, NEW s \in Seq(S), NEW n \in 0 .. Len(s)
    PROVE  /\ SubSeq(s, 1, n) \in Seq(S) /\ Len(SubSeq(s, 1, n)) = n
           /\ SubSeq(s, n + 1, Len(s)) \in Seq(S)
           /\ Len(SubSeq(s, n + 1, Len(s))) = Len(s) - n
           /\ SubSeq(s, 1, n) \o SubSeq(s, n + 1, Len(s)) = s
<1>1. Len(s) \in Nat /\ n \in Int
    OBVIOUS
<1>2. SubSeq(s, 1, n) \in Seq(S) /\ Len(SubSeq(s, 1, n)) = n
    <2>1. \A i \in 1 .. n : s[i] \in S
        BY <1>1
    <2> QED
        BY <1>1, <2>1, SubSeqProperties
<1>3. /\ SubSeq(s, n + 1, Len(s)) \in Seq(S)
      /\ Len(SubSeq(s, n + 1, Len(s))) = Len(s) - n
    <2>1. \A i \in n + 1 .. Len(s) : s[i] \in S
        BY <1>1
    <2>2. n + 1 \in Int /\ Len(s) \in Int
        BY <1>1
    <2> QED
        BY <1>1, <2>1, <2>2, SubSeqProperties
<1>4. SubSeq(s, 1, n) \o SubSeq(s, n + 1, Len(s)) = SubSeq(s, 1, Len(s))
    <2>1. 1 \in 1 .. Len(s) + 1 /\ n \in 1 - 1 .. Len(s) /\ Len(s) \in n .. Len(s)
        BY <1>1
    <2> QED
        BY <2>1, ConcatAdjacentSubSeq
<1> QED
    BY <1>2, <1>3, <1>4, SubSeqFull

\* Moving the front of a sequence to the end of another.
LEMMA ConcatMoves ==
    ASSUME NEW S, NEW s \in Seq(S), NEW a \in Seq(S), NEW b \in Seq(S)
    PROVE  (s \o a) \o b = s \o (a \o b)
    BY ConcatAssociative

\* Moving what comes up to a place from the front of t to the end of s.
LEMMA ConcatSplit ==
    ASSUME NEW S, NEW s \in Seq(S), NEW t \in Seq(S), NEW n \in 0 .. Len(t)
    PROVE  (s \o SubSeq(t, 1, n)) \o SubSeq(t, n + 1, Len(t)) = s \o t
<1> DEFINE a == SubSeq(t, 1, n)
           b == SubSeq(t, n + 1, Len(t))
<1>1. a \in Seq(S) /\ b \in Seq(S) /\ a \o b = t
    BY SplitFacts
<1> HIDE DEF a, b
<1>2. \A x, y \in Seq(S) : (s \o x) \o y = s \o (x \o y)
    BY ConcatMoves, SMTT(90)
<1>3. (s \o a) \o b = s \o t
    BY <1>1, <1>2
<1> QED
    BY <1>3 DEF a, b
-----------------------------------------------------------------------------
(* Sequences without repetition *)

\* An element added at the end.
LEMMA AppendFacts ==
    ASSUME NEW S, NEW s \in Seq(S), NEW e \in S
    PROVE  /\ Append(s, e) \in Seq(S) /\ Len(Append(s, e)) = Len(s) + 1
           /\ Range(Append(s, e)) = Range(s) \cup {e}
           /\ IsInjective(s) /\ e \notin Range(s) => IsInjective(Append(s, e))
<1> DEFINE t == Append(s, e)
<1>1. Len(s) \in Nat /\ DOMAIN s = 1 .. Len(s)
    BY LenProperties
<1>2. /\ t \in Seq(S) /\ Len(t) = Len(s) + 1 /\ DOMAIN t = 1 .. Len(s) + 1
      /\ \A i \in 1 .. Len(s) : t[i] = s[i]
      /\ t[Len(s) + 1] = e
    BY AppendProperties
<1> HIDE DEF t
<1>3. Range(t) = Range(s) \cup {e}
    BY <1>1, <1>2 DEF Range
<1>4. ASSUME IsInjective(s), e \notin Range(s)
      PROVE  IsInjective(t)
    <2> SUFFICES ASSUME NEW i \in 1 .. Len(s) + 1, NEW j \in 1 .. Len(s) + 1, t[i] = t[j]
                 PROVE  i = j
        BY <1>2 DEF IsInjective
    <2>1. \A k \in 1 .. Len(s) : t[k] # e
        BY <1>1, <1>2, <1>4 DEF Range
    <2>2. (i = Len(s) + 1 \/ i \in 1 .. Len(s)) /\ (j = Len(s) + 1 \/ j \in 1 .. Len(s))
        BY <1>1
    <2> QED
        BY <1>1, <1>2, <1>4, <2>1, <2>2 DEF IsInjective
<1> QED
    BY <1>2, <1>3, <1>4 DEF t

\* A sequence is its head and its tail.
LEMMA HeadAndTail ==
    ASSUME NEW S, NEW s \in Seq(S), s # <<>>
    PROVE  /\ Head(s) \in S /\ Tail(s) \in Seq(S)
           /\ Range(s) = {Head(s)} \cup Range(Tail(s))
<1> DEFINE t == Tail(s)
<1>1. Len(s) \in Nat /\ Len(s) >= 1 /\ DOMAIN s = 1 .. Len(s)
    BY LenProperties, EmptySeq
<1>2. Head(s) = s[1] /\ s[1] \in S
    BY <1>1
<1>3. /\ t \in Seq(S) /\ DOMAIN t = 1 .. Len(s) - 1
      /\ \A i \in 1 .. Len(s) - 1 : t[i] = s[i + 1]
    BY <1>1
<1> HIDE DEF t
<1>4. Range(t) \subseteq Range(s)
    BY <1>1, <1>3 DEF Range
<1>5. ASSUME NEW i \in 1 .. Len(s), i # 1
      PROVE  s[i] \in Range(t)
  <2>1. i - 1 \in DOMAIN t /\ t[i - 1] = s[i]
    BY <1>1, <1>3, <1>5
  <2> QED
    BY <2>1 DEF Range
<1>6. Range(s) = {Head(s)} \cup Range(t)
  <2>1. Head(s) \in Range(s)
    BY <1>1, <1>2 DEF Range
  <2>2. ASSUME NEW x \in Range(s)
        PROVE  x = Head(s) \/ x \in Range(t)
    <3>1. PICK i \in 1 .. Len(s) : x = s[i]
      BY <1>1 DEF Range
    <3> QED
      BY <1>2, <1>5, <3>1
  <2> QED
    BY <1>4, <2>1, <2>2
<1> QED
    BY <1>2, <1>3, <1>6 DEF t

\* The first element taken away.
LEMMA TailFacts ==
    ASSUME NEW S, NEW s \in Seq(S), s # <<>>, IsInjective(s)
    PROVE  /\ Head(s) \in Range(s) /\ Head(s) \in S
           /\ Tail(s) \in Seq(S) /\ IsInjective(Tail(s))
           /\ Range(Tail(s)) = Range(s) \ {Head(s)}
<1> DEFINE t == Tail(s)
<1>1. Len(s) \in Nat /\ Len(s) >= 1 /\ DOMAIN s = 1 .. Len(s)
    BY LenProperties, EmptySeq
<1>2. Head(s) = s[1] /\ s[1] \in S
    BY <1>1
<1>3. /\ t \in Seq(S) /\ Len(t) = Len(s) - 1 /\ DOMAIN t = 1 .. Len(s) - 1
      /\ \A i \in 1 .. Len(s) - 1 : t[i] = s[i + 1]
    BY <1>1
<1> HIDE DEF t
<1>4. IsInjective(t)
    <2> SUFFICES ASSUME NEW i \in 1 .. Len(s) - 1, NEW j \in 1 .. Len(s) - 1, t[i] = t[j]
                 PROVE  i = j
        BY <1>3 DEF IsInjective
    <2>1. i + 1 \in DOMAIN s /\ j + 1 \in DOMAIN s /\ s[i + 1] = s[j + 1]
        BY <1>1, <1>3
    <2>2. i + 1 = j + 1
        BY <2>1 DEF IsInjective
    <2> QED
        BY <2>2
<1>5. Range(t) = Range(s) \ {s[1]}
    <2>1. ASSUME NEW x \in Range(t)
          PROVE  x \in Range(s) /\ x # s[1]
        <3>1. PICK i \in 1 .. Len(s) - 1 : x = s[i + 1]
            BY <1>3 DEF Range
        <3>2. i + 1 \in DOMAIN s /\ 1 \in DOMAIN s /\ i + 1 # 1
            BY <1>1
        <3> QED
            BY <3>1, <3>2 DEF Range, IsInjective
    <2>2. ASSUME NEW x \in Range(s), x # s[1]
          PROVE  x \in Range(t)
        <3>1. PICK i \in 1 .. Len(s) : x = s[i]
            BY <1>1 DEF Range
        <3>2. i - 1 \in 1 .. Len(s) - 1 /\ (i - 1) + 1 = i
            BY <3>1, <2>2, <1>1
        <3>3. t[i - 1] = x
            BY <3>1, <3>2, <1>3
        <3> QED
            BY <3>2, <3>3, <1>3 DEF Range
    <2> QED
        BY <2>1, <2>2
<1>6. Head(s) \in Range(s) /\ Head(s) \in S
    <2>1. 1 \in DOMAIN s
        BY <1>1
    <2> QED
        BY <1>2, <2>1 DEF Range
<1>7. Range(t) = Range(s) \ {Head(s)}
    BY <1>2, <1>5
<1> QED
    BY <1>3, <1>4, <1>6, <1>7 DEF t

\* One element taken out, wherever it is.
LEMMA RemoveFirstFacts ==
    ASSUME NEW S, NEW s \in Seq(S), IsInjective(s), NEW e
    PROVE  /\ RemoveFirst(s, e) \in Seq(S) /\ IsInjective(RemoveFirst(s, e))
           /\ Range(RemoveFirst(s, e)) = Range(s) \ {e}
           /\ Len(RemoveFirst(s, e)) <= Len(s)
           /\ e \in Range(s) => Len(RemoveFirst(s, e)) < Len(s)
<1> DEFINE t == RemoveFirst(s, e)
<1>1. Len(s) \in Nat /\ DOMAIN s = 1 .. Len(s)
    BY LenProperties
<1>2. CASE \A i \in 1 .. Len(s) : s[i] # e
    <2>1. t = s
        BY <1>2 DEF RemoveFirst
    <2>2. e \notin Range(s)
        BY <1>2, <1>1 DEF Range
    <2> HIDE DEF t
    <2> QED
        BY <2>1, <2>2, <1>1 DEF t
<1>3. CASE \E i \in 1 .. Len(s) : s[i] = e
    <2>1. PICK k \in 1 .. Len(s) : s[k] = e
        BY <1>3
    <2>2. {i \in 1 .. Len(s) : s[i] = e} = {k}
        BY <2>1, <1>1 DEF IsInjective
    <2>3. Min({k}) = k
        BY <2>1, <1>1 DEF Min
    <2>4. t = RemoveAt(s, k)
        BY <1>3, <2>2, <2>3 DEF RemoveFirst, SelectInSeq
    <2> HIDE DEF t
    <2>5. /\ t \in Seq(S) /\ Len(t) = Len(s) - 1 /\ DOMAIN t = 1 .. Len(s) - 1
          /\ \A j \in 1 .. Len(s) - 1 : t[j] = IF j < k THEN s[j] ELSE s[j + 1]
        BY <2>4, RemoveAtFacts, LenProperties
    <2>6. ASSUME NEW j \in 1 .. Len(s) - 1
          PROVE  \E i \in 1 .. Len(s) : /\ t[j] = s[i] /\ i # k
                                        /\ i = IF j < k THEN j ELSE j + 1
        BY <2>1, <2>5, <1>1
    <2>7. IsInjective(t)
        <3> SUFFICES ASSUME NEW i \in 1 .. Len(s) - 1, NEW j \in 1 .. Len(s) - 1, t[i] = t[j]
                     PROVE  i = j
            BY <2>5 DEF IsInjective
        <3>1. PICK a \in 1 .. Len(s) : t[i] = s[a] /\ a # k /\ a = IF i < k THEN i ELSE i + 1
            BY <2>6
        <3>2. PICK b \in 1 .. Len(s) : t[j] = s[b] /\ b # k /\ b = IF j < k THEN j ELSE j + 1
            BY <2>6
        <3>3. a = b
            BY <3>1, <3>2, <1>1 DEF IsInjective
        <3> QED
            BY <3>1, <3>2, <3>3, <1>1
    <2>8. ASSUME NEW x \in Range(t)
          PROVE  x \in Range(s) /\ x # e
        <3>1. PICK j \in 1 .. Len(s) - 1 : x = t[j]
            BY <2>5 DEF Range
        <3>2. PICK i \in 1 .. Len(s) : t[j] = s[i] /\ i # k
            BY <2>6
        <3> QED
            BY <3>1, <3>2, <2>1, <1>1 DEF Range, IsInjective
    <2>9. ASSUME NEW x \in Range(s), x # e
          PROVE  x \in Range(t)
        <3>1. PICK i \in 1 .. Len(s) : x = s[i]
            BY <1>1 DEF Range
        <3>2. i # k
            BY <3>1, <2>1, <2>9
        <3>3. CASE i < k
            <4>1. i \in 1 .. Len(s) - 1
                BY <3>3, <2>1, <1>1
            <4> QED
                BY <4>1, <3>1, <3>3, <2>5 DEF Range
        <3>4. CASE i > k
            <4>1. i - 1 \in 1 .. Len(s) - 1 /\ ~ i - 1 < k /\ (i - 1) + 1 = i
                BY <3>4, <2>1, <1>1
            <4>2. t[i - 1] = s[i]
                BY <4>1, <2>5
            <4> QED
                BY <4>1, <4>2, <3>1, <2>5 DEF Range
        <3> QED
            BY <3>2, <3>3, <3>4, <2>1, <1>1
    <2>10. Range(t) = Range(s) \ {e}
        BY <2>8, <2>9
    <2> QED
        BY <2>5, <2>7, <2>10, <1>1 DEF t
<1> QED
    BY <1>2, <1>3

\* A finite set as a sequence has each of its elements once.
LEMMA SetToSeqFacts ==
    ASSUME NEW S, IsFiniteSet(S)
    PROVE  /\ SetToSeq(S) \in Seq(S) /\ IsInjective(SetToSeq(S))
           /\ Range(SetToSeq(S)) = S
<1> DEFINE n == Cardinality(S)
           t == SetToSeq(S)
<1>1. n \in Nat
    BY FS_CardinalityType
<1>2. PICK f \in Bijection(1 .. n, S) : TRUE
    BY FS_CardinalityType DEF ExistsBijection
<1>3. f \in [1 .. n -> S] /\ IsInjective(f)
    BY <1>2 DEF Bijection, Injection, IsInjective
<1>4. t \in [1 .. n -> S] /\ IsInjective(t)
    BY <1>3 DEF SetToSeq
<1> HIDE DEF t
<1>5. t \in Seq(S)
    BY <1>1, <1>4
<1>6. t \in Injection(1 .. n, S)
    BY <1>4 DEF Injection, IsInjective
<1>7. Range(t) = S
    <2>1. IsFiniteSet(1 .. n) /\ Cardinality(1 .. n) = n
        BY <1>1, FS_Interval
    <2>2. t \in Surjection(1 .. n, S)
        BY <1>6, <2>1, FS_Injection
    <2> QED
        BY <1>4, <2>2 DEF Surjection, Range
<1> QED
    BY <1>4, <1>5, <1>7 DEF t

\* Of some places of a sequence there is a first one.
LEMMA FirstPlace ==
    ASSUME NEW S, NEW s \in Seq(S), NEW P \in SUBSET DOMAIN s, P # {}
    PROVE  Min(P) \in P /\ s[Min(P)] \in Range(s)
<1>1. Len(s) \in Nat /\ DOMAIN s = 1 .. Len(s)
    BY LenProperties
<1>2. IsFiniteSet(P)
    <2>1. IsFiniteSet(1 .. Len(s)) /\ P \subseteq 1 .. Len(s)
        BY <1>1, FS_Interval
    <2> QED
        BY <2>1, FS_Subset
<1>3. \A x \in P : x \in Int
    BY <1>1
<1>4. Min(P) \in P
    BY <1>2, <1>3, MinFacts
<1> QED
    BY <1>4 DEF Range
-----------------------------------------------------------------------------
(* Multiples *)

\* Two multiples of a number are at least that far apart.
LEMMA MultiplesApart ==
    ASSUME NEW a \in Nat, NEW b \in Nat, NEW p \in Nat \ {0}, a % p = 0, b % p = 0, a < b
    PROVE  b - a >= p
<1> DEFINE q == a \div p
           r == b \div p
<1>1. q \in Nat /\ r \in Nat /\ a = p * q /\ b = p * r
    OBVIOUS
<1> HIDE DEF q, r
<1>2. r - q \in Nat /\ r - q >= 1
    BY <1>1
<1>3. \A n \in Nat : n >= 1 => p * n >= p
    OBVIOUS
<1>4. p * (r - q) >= p
    BY <1>2, <1>3
<1>5. p * (r - q) = p * r - p * q
    BY <1>1
<1> QED
    BY <1>1, <1>4, <1>5

\* A number is its quotient's multiple and its remainder.
LEMMA Division ==
    ASSUME NEW a \in Nat, NEW p \in Nat \ {0}
    PROVE  a = p * (a \div p) + (a % p)
    OBVIOUS

\* What is left when the remainder is taken away is a multiple.
LEMMA RoundedDown ==
    ASSUME NEW a \in Nat, NEW p \in Nat \ {0}
    PROVE  a % p \in 0 .. p - 1 /\ a - (a % p) \in Nat /\ (a - (a % p)) % p = 0
<1> DEFINE q == a \div p
           b == a - (a % p)
           r == b \div p
           m == b % p
<1>1. /\ a % p \in 0 .. p - 1 /\ q \in Nat /\ a = p * q + (a % p)
    <2>1. a % p \in 0 .. p - 1
        OBVIOUS
    <2>2. a \div p \in Nat
        OBVIOUS
    <2>3. a = p * (a \div p) + (a % p)
        BY Division
    <2> QED
        BY <2>1, <2>2, <2>3
<1>2. b \in Nat /\ b = p * q
    BY <1>1
<1> HIDE DEF b
<1>3. r \in Nat /\ m \in 0 .. p - 1 /\ b = p * r + m
    BY <1>2
<1> HIDE DEF q, r, m
<1>4. \A n \in Nat : n >= 1 => p * n >= p
    OBVIOUS
<1>5. \A n, k \in Nat : p * (n - k) = p * n - p * k
    OBVIOUS
<1>6. ASSUME q > r
      PROVE  FALSE
    <2>1. q - r \in Nat /\ q - r >= 1
        BY <1>1, <1>3, <1>6
    <2>2. p * (q - r) >= p /\ p * (q - r) = p * q - p * r
        BY <1>1, <1>3, <1>4, <1>5, <2>1
    <2> QED
        BY <1>2, <1>3, <2>2
<1>7. ASSUME r > q
      PROVE  FALSE
    <2>1. r - q \in Nat /\ r - q >= 1
        BY <1>1, <1>3, <1>7
    <2>2. p * (r - q) >= p /\ p * (r - q) = p * r - p * q
        BY <1>1, <1>3, <1>4, <1>5, <2>1
    <2> QED
        BY <1>2, <1>3, <2>2
<1>8. q = r
    BY <1>1, <1>3, <1>6, <1>7
<1>9. m = 0
    BY <1>2, <1>3, <1>8
<1>10. a % p \in 0 .. p - 1 /\ b \in Nat /\ b % p = 0
    BY <1>1, <1>2, <1>9 DEF m
<1> QED
    BY <1>10 DEF b

-----------------------------------------------------------------------------
(* Sequences of sequences *)

\* Of two places of s, the pair of their elements is in A.
PairsIn(s, A) == \A i, j \in 1 .. Len(s) : i < j => << s[i], s[j] >> \in A

\* One sequence after another.
LEMMA ConcatFacts ==
    ASSUME NEW S, NEW s \in Seq(S), NEW t \in Seq(S), NEW A
    PROVE  /\ s \o t \in Seq(S) /\ Range(s \o t) = Range(s) \cup Range(t)
           /\ /\ PairsIn(s, A) /\ PairsIn(t, A)
              /\ \A x \in Range(s), y \in Range(t) : << x, y >> \in A
              => PairsIn(s \o t, A)
<1> DEFINE r == s \o t
           n == Len(s)
           m == Len(t)
<1>1. /\ n \in Nat /\ DOMAIN s = 1 .. n /\ m \in Nat /\ DOMAIN t = 1 .. m
    BY LenProperties
<1>2. /\ r \in Seq(S) /\ Len(r) = n + m
      /\ \A i \in 1 .. n + m : r[i] = IF i <= n THEN s[i] ELSE t[i - n]
    BY ConcatProperties
<1>3. DOMAIN r = 1 .. n + m
    <2> HIDE DEF r
    <2> QED
        BY <1>2, LenProperties
<1>4. n = Len(s) /\ m = Len(t)
    OBVIOUS
<1> HIDE DEF r, n, m
<1>5. ASSUME NEW x \in Range(r)
      PROVE  x \in Range(s) \cup Range(t)
    <2>1. PICK i \in 1 .. n + m : x = r[i]
        BY <1>3 DEF Range
    <2>2. i \in 1 .. n \/ (i > n /\ i - n \in 1 .. m)
        BY <1>1
    <2>3. CASE i \in 1 .. n
        BY <1>1, <1>2, <2>1, <2>3 DEF Range
    <2>4. CASE i > n /\ i - n \in 1 .. m
        <3>1. x = t[i - n]
            BY <1>1, <1>2, <2>1, <2>4
        <3> QED
            BY <1>1, <2>4, <3>1 DEF Range
    <2> QED
        BY <2>2, <2>3, <2>4
<1>6. ASSUME NEW i \in 1 .. n
      PROVE  s[i] \in Range(r)
    <2>1. i \in 1 .. n + m /\ i <= n
        BY <1>1
    <2> QED
        BY <1>2, <1>3, <2>1 DEF Range
<1>7. ASSUME NEW i \in 1 .. m
      PROVE  t[i] \in Range(r)
    <2>1. n + i \in 1 .. n + m /\ ~ (n + i <= n) /\ (n + i) - n = i
        BY <1>1
    <2>2. r[n + i] = t[i]
        BY <1>2, <2>1
    <2> QED
        BY <1>3, <2>1, <2>2 DEF Range
<1>8. Range(r) = Range(s) \cup Range(t)
    BY <1>1, <1>5, <1>6, <1>7 DEF Range
<1>9. ASSUME PairsIn(s, A), PairsIn(t, A),
             \A x \in Range(s), y \in Range(t) : << x, y >> \in A
      PROVE  PairsIn(r, A)
    <2> SUFFICES ASSUME NEW i \in 1 .. n + m, NEW j \in 1 .. n + m, i < j
                 PROVE  << r[i], r[j] >> \in A
        BY <1>2 DEF PairsIn
    <2>1. CASE j <= n
        <3>1. i \in 1 .. n /\ j \in 1 .. n /\ i <= n
            BY <1>1, <2>1
        <3>2. r[i] = s[i] /\ r[j] = s[j]
            BY <1>2, <3>1
        <3> QED
            BY <1>4, <1>9, <3>1, <3>2 DEF PairsIn
    <2>2. CASE i > n
        <3>1. /\ i - n \in 1 .. m /\ j - n \in 1 .. m /\ i - n < j - n
              /\ ~ (i <= n) /\ ~ (j <= n)
            BY <1>1, <2>2
        <3>2. r[i] = t[i - n] /\ r[j] = t[j - n]
            BY <1>2, <3>1
        <3> QED
            BY <1>4, <1>9, <3>1, <3>2 DEF PairsIn
    <2>3. CASE i <= n /\ j > n
        <3>1. i \in 1 .. n /\ j - n \in 1 .. m /\ ~ (j <= n)
            BY <1>1, <2>3
        <3>2. r[i] = s[i] /\ r[j] = t[j - n]
            BY <1>2, <2>3, <3>1
        <3>3. s[i] \in Range(s) /\ t[j - n] \in Range(t)
            BY <1>1, <3>1 DEF Range
        <3> QED
            BY <1>9, <3>2, <3>3
    <2> QED
        BY <1>1, <2>1, <2>2, <2>3
<1> QED
    BY <1>2, <1>8, <1>9 DEF r

\* Some sequences one after another.
LEMMA FlattenFacts ==
    ASSUME NEW S, NEW seqs \in Seq(Seq(S)), NEW A,
           \A i \in 1 .. Len(seqs) : PairsIn(seqs[i], A),
           \A i, j \in 1 .. Len(seqs) : i < j =>
                \A x \in Range(seqs[i]), y \in Range(seqs[j]) : << x, y >> \in A
    PROVE  /\ FlattenSeq(seqs) \in Seq(S)
           /\ Range(FlattenSeq(seqs)) = UNION {Range(seqs[i]) : i \in 1 .. Len(seqs)}
           /\ PairsIn(FlattenSeq(seqs), A)
<1> DEFINE top == Len(seqs)
           V == Seq(S)
           none == <<>>
           step == [n \in 1 .. top |-> [x \in V |-> x \o seqs[n]]]
<1>1. /\ top \in Nat /\ top = Len(seqs) /\ (top = 0 <=> seqs = <<>>) /\ none \in V
      /\ \A n \in 1 .. top : seqs[n] \in V
    BY EmptySeq, LenProperties
<1>2. CASE top = 0
    <2>1. FlattenSeq(seqs) = <<>>
        BY <1>1, <1>2 DEF FlattenSeq
    <2>2. Range(<<>>) = {} /\ <<>> \in Seq(S) /\ Len(<<>>) = 0
        BY DEF Range
    <2>3. {Range(seqs[i]) : i \in 1 .. Len(seqs)} = {}
        BY <1>2
    <2> QED
        BY <2>1, <2>2, <2>3 DEF PairsIn
<1>3. CASE top # 0
    <2>1. step \in [1 .. top -> [V -> V]]
        <3>1. ASSUME NEW n \in 1 .. top, NEW x \in V
              PROVE  x \o seqs[n] \in V
            BY <1>1, ConcatProperties
        <3> QED
            BY <3>1
    <2>2. PICK d \in [0 .. top -> V] : RunsUp(d, top, none, step)
        <3> HIDE DEF top, V, step, none
        <3> QED
            BY <1>1, <2>1, UpwardRecursion
    <2>3. d[0] = <<>> /\ \A n \in 1 .. top : d[n - 1] \in V /\ d[n] = d[n - 1] \o seqs[n]
        <3>1. d[0] = <<>>
            BY <2>2 DEF RunsUp
        <3>2. ASSUME NEW n \in 1 .. top
              PROVE  d[n - 1] \in V /\ d[n] = d[n - 1] \o seqs[n]
            <4>1. n - 1 \in 0 .. top
                BY <1>1
            <4> HIDE DEF V
            <4>2. d[n - 1] \in V
                BY <4>1
            <4>3. d[n] = step[n][d[n - 1]]
                BY <2>2 DEF RunsUp
            <4> QED
                BY <4>2, <4>3
        <3> QED
            BY <3>1, <3>2
    <2> HIDE DEF none, step
    <2> DEFINE body(f) == [i \in 1 .. top |-> IF i = 1 THEN seqs[i] ELSE f[i - 1] \o seqs[i]]
               flatten == CHOOSE f : f = body(f)
               e == [n \in 1 .. top |-> d[n]]
    <2>4. e = body(e)
        <3>1. ASSUME NEW n \in 1 .. top
              PROVE  e[n] = body(e)[n]
            <4>1. CASE n = 1
                <5>2. 1 \in 1 .. top /\ 1 - 1 = 0
                    BY <4>1
                <5>3. d[1] = d[0] \o seqs[1] /\ seqs[1] \in V
                    BY <1>1, <2>3, <5>2
                <5>1. d[1] = <<>> \o seqs[1] /\ seqs[1] \in Seq(S)
                    BY <2>3, <5>3
                <5> QED
                    BY <4>1, <5>1, ConcatEmptySeq
            <4>2. CASE n # 1
                <5>1. n - 1 \in 1 .. top
                    BY <1>1, <4>2
                <5> QED
                    BY <2>3, <4>2, <5>1
            <4> QED
                BY <4>1, <4>2
        <3> QED
            BY <3>1
    <2>5. flatten = body(flatten)
        <3> HIDE DEF body
        <3> QED
            BY <2>4
    <2>6. FlattenSeq(seqs) = flatten[top]
        BY <1>1, <1>3 DEF FlattenSeq
    <2> HIDE DEF flatten
    <2>7. \A n \in 1 .. top : flatten[n] = IF n = 1 THEN seqs[n] ELSE flatten[n - 1] \o seqs[n]
        BY <2>5
    <2> HIDE DEF body, e, step, top
    <2> DEFINE Right(n) == /\ flatten[n] \in Seq(S)
                           /\ Range(flatten[n]) = UNION {Range(seqs[i]) : i \in 1 .. n}
                           /\ PairsIn(flatten[n], A)
               T == {n \in 0 .. top : n # 0 => Right(n)}
    <2>8. 0 \in T
        BY <1>1
    <2>9. ASSUME NEW n \in 1 .. top, n - 1 \in T
          PROVE  n \in T
        <3>1. CASE n = 1
            <4>1. flatten[1] = seqs[1] /\ seqs[1] \in Seq(S) /\ PairsIn(seqs[1], A)
                BY <1>1, <2>7, <3>1
            <4>2. UNION {Range(seqs[i]) : i \in 1 .. 1} = Range(seqs[1])
                OBVIOUS
            <4> QED
                BY <1>1, <3>1, <4>1, <4>2
        <3>2. CASE n # 1
            <4> DEFINE x == flatten[n - 1]
                       y == seqs[n]
            <4>1. /\ n - 1 \in 1 .. top /\ x \in Seq(S) /\ PairsIn(x, A)
                  /\ Range(x) = UNION {Range(seqs[i]) : i \in 1 .. n - 1}
                BY <1>1, <2>9, <3>2
            <4>2. flatten[n] = x \o y /\ y \in Seq(S) /\ PairsIn(y, A)
                BY <1>1, <2>7, <3>2
            <4>3. ASSUME NEW a \in Range(x), NEW b \in Range(y)
                  PROVE  << a, b >> \in A
                <5>1. PICK i \in 1 .. n - 1 : a \in Range(seqs[i])
                    BY <4>1
                <5>2. i \in 1 .. top /\ i < n
                    BY <1>1
                <5> QED
                    BY <1>1, <5>1, <5>2
            <4>4. UNION {Range(seqs[i]) : i \in 1 .. n} = Range(x) \cup Range(y)
                <5>1. 1 .. n = (1 .. n - 1) \cup {n}
                    BY <1>1
                <5> QED
                    BY <4>1, <5>1
            <4> HIDE DEF x, y
            <4>5. /\ x \o y \in Seq(S) /\ Range(x \o y) = Range(x) \cup Range(y)
                  /\ PairsIn(x \o y, A)
                BY <4>1, <4>2, <4>3, ConcatFacts, ZenonT(180)
            <4>6. Right(n)
                BY <4>2, <4>4, <4>5
            <4> HIDE DEF Right
            <4> QED
                BY <1>1, <4>6
        <3> QED
            BY <3>1, <3>2
    <2>10. top \in Nat /\ top \in 0 .. top
        BY <1>1
    <2> HIDE DEF T
    <2>11. top \in T
        BY <2>8, <2>9, <2>10, ClimbsUp
    <2> QED
        BY <1>1, <1>3, <2>6, <2>11 DEF T
<1> QED
    BY <1>2, <1>3

-----------------------------------------------------------------------------
(* Sequences without repetition, taken apart and joined *)

\* The front and the rest of a sequence without repetition.
LEMMA SplitApart ==
    ASSUME NEW S, NEW s \in Seq(S), IsInjective(s), NEW n \in 0 .. Len(s)
    PROVE  /\ IsInjective(SubSeq(s, 1, n)) /\ IsInjective(SubSeq(s, n + 1, Len(s)))
           /\ Range(SubSeq(s, 1, n)) \cap Range(SubSeq(s, n + 1, Len(s))) = {}
           /\ Range(SubSeq(s, 1, n)) \cup Range(SubSeq(s, n + 1, Len(s))) = Range(s)
<1> DEFINE a == SubSeq(s, 1, n)
           b == SubSeq(s, n + 1, Len(s))
<1>1. Len(s) \in Nat /\ DOMAIN s = 1 .. Len(s) /\ n \in Nat /\ n <= Len(s)
  BY LenProperties
<1>2. /\ DOMAIN a = 1 .. n /\ \A i \in 1 .. n : a[i] = s[i]
  <2>1. \A i \in 1 .. n : s[i] \in S
    BY <1>1
  <2> QED
    BY <1>1, <2>1, SubSeqProperties
<1>3. DOMAIN b = 1 .. Len(s) - n /\ \A i \in 1 .. Len(s) - n : b[i] = s[n + i]
  <2>1. \A i \in n + 1 .. Len(s) : s[i] \in S
    BY <1>1
  <2>2. n + 1 \in Int /\ Len(s) \in Int
    BY <1>1
  <2>3. b \in Seq(S) /\ Len(b) = Len(s) - n
    BY SplitFacts
  <2>4. \A i \in 1 .. Len(s) - n : b[i] = s[n + 1 + i - 1]
    BY <1>1, <2>1, <2>2, SubSeqProperties
  <2>5. \A i \in 1 .. Len(s) - n : n + 1 + i - 1 = n + i
    BY <1>1
  <2> HIDE DEF b
  <2> QED
    BY <2>3, <2>4, <2>5, LenProperties
<1> HIDE DEF a, b
<1>4. IsInjective(a)
  BY <1>1, <1>2 DEF IsInjective
<1>5. IsInjective(b)
  <2> SUFFICES ASSUME NEW i \in 1 .. Len(s) - n, NEW j \in 1 .. Len(s) - n, b[i] = b[j]
               PROVE  i = j
    BY <1>3 DEF IsInjective
  <2>1. n + i \in 1 .. Len(s) /\ n + j \in 1 .. Len(s) /\ s[n + i] = s[n + j]
    BY <1>1, <1>3
  <2>2. n + i = n + j
    BY <1>1, <2>1 DEF IsInjective
  <2> QED
    BY <1>1, <2>2
<1>6. Range(a) \cap Range(b) = {}
  <2> SUFFICES ASSUME NEW i \in 1 .. n, NEW j \in 1 .. Len(s) - n, a[i] = b[j]
               PROVE  FALSE
    BY <1>2, <1>3 DEF Range
  <2>1. i \in 1 .. Len(s) /\ n + j \in 1 .. Len(s) /\ s[i] = s[n + j] /\ i # n + j
    BY <1>1, <1>2, <1>3
  <2> QED
    BY <1>1, <2>1 DEF IsInjective
<1>7. Range(a) \cup Range(b) = Range(s)
  <2>1. a \in Seq(S) /\ b \in Seq(S) /\ a \o b = s
    BY SplitFacts DEF a, b
  <2>2. Range(a \o b) = Range(a) \cup Range(b)
    BY <2>1, ConcatFacts, ZenonT(60)
  <2> QED
    BY <2>1, <2>2
<1> QED
  BY <1>4, <1>5, <1>6, <1>7 DEF a, b

\* One sequence after another, with no element of both.
LEMMA ConcatApart ==
    ASSUME NEW S, NEW s \in Seq(S), NEW t \in Seq(S), IsInjective(s), IsInjective(t),
           Range(s) \cap Range(t) = {}
    PROVE  IsInjective(s \o t)
<1> DEFINE A == {p \in S \X S : p[1] # p[2]}
<1>1. PairsIn(s, A) /\ PairsIn(t, A)
  BY LenProperties DEF PairsIn, IsInjective
<1>2. Range(s) \subseteq S /\ Range(t) \subseteq S
  BY LenProperties DEF Range
<1>3. \A x \in Range(s), y \in Range(t) : << x, y >> \in A
  BY <1>2
<1> HIDE DEF A
<1>4. s \o t \in Seq(S) /\ PairsIn(s \o t, A)
  BY <1>1, <1>3, ConcatFacts
<1> DEFINE r == s \o t
<1> HIDE DEF r
<1>5. \A i, j \in 1 .. Len(r) : i < j => r[i] # r[j]
  BY <1>4 DEF PairsIn, A, r
<1>6. DOMAIN r = 1 .. Len(r) /\ Len(r) \in Nat
  BY <1>4, LenProperties DEF r
<1>7. ASSUME NEW i \in 1 .. Len(r), NEW j \in 1 .. Len(r), r[i] = r[j]
      PROVE  i = j
  <2>1. ~ (i < j) /\ ~ (j < i)
    BY <1>5, <1>7
  <2> QED
    BY <1>6, <2>1
<1> QED
  BY <1>6, <1>7 DEF r, IsInjective

\* Another place taken out of a sequence without repetition.
LEMMA RemoveAtApart ==
    ASSUME NEW S, NEW s \in Seq(S), IsInjective(s), NEW i \in DOMAIN s
    PROVE  /\ RemoveAt(s, i) \in Seq(S) /\ IsInjective(RemoveAt(s, i))
           /\ Range(RemoveAt(s, i)) = Range(s) \ {s[i]}
<1> DEFINE t == RemoveAt(s, i)
<1>1. Len(s) \in Nat /\ DOMAIN s = 1 .. Len(s) /\ i \in 1 .. Len(s)
  BY LenProperties
<1>2. /\ t \in Seq(S) /\ Len(t) = Len(s) - 1
      /\ \A j \in 1 .. Len(s) - 1 : t[j] = IF j < i THEN s[j] ELSE s[j + 1]
  BY <1>1, RemoveAtFacts
<1> HIDE DEF t
<1>3. DOMAIN t = 1 .. Len(s) - 1
  BY <1>2, LenProperties
<1>4. ASSUME NEW j \in 1 .. Len(s) - 1
      PROVE  \E k \in 1 .. Len(s) : t[j] = s[k] /\ k # i /\ k = IF j < i THEN j ELSE j + 1
  <2>1. CASE j < i
    BY <1>1, <1>2, <2>1
  <2>2. CASE ~ (j < i)
    <3>1. j + 1 \in 1 .. Len(s) /\ j + 1 # i /\ t[j] = s[j + 1]
      BY <1>1, <1>2, <2>2
    <3> QED
      BY <2>2, <3>1
  <2> QED
    BY <2>1, <2>2
<1>5. IsInjective(t)
  <2> SUFFICES ASSUME NEW j \in 1 .. Len(s) - 1, NEW l \in 1 .. Len(s) - 1, t[j] = t[l]
               PROVE  j = l
    BY <1>3 DEF IsInjective
  <2>1. PICK k \in 1 .. Len(s) : t[j] = s[k] /\ k = IF j < i THEN j ELSE j + 1
    BY <1>4
  <2>2. PICK m \in 1 .. Len(s) : t[l] = s[m] /\ m = IF l < i THEN l ELSE l + 1
    BY <1>4
  <2>3. k = m
    BY <1>1, <2>1, <2>2 DEF IsInjective
  <2> QED
    BY <1>1, <2>1, <2>2, <2>3
<1>6. Range(t) \subseteq Range(s) \ {s[i]}
  <2> SUFFICES ASSUME NEW j \in 1 .. Len(s) - 1
               PROVE  t[j] \in Range(s) \ {s[i]}
    BY <1>3 DEF Range
  <2>1. PICK k \in 1 .. Len(s) : t[j] = s[k] /\ k # i
    BY <1>4
  <2> QED
    BY <1>1, <2>1 DEF IsInjective, Range
<1>7. ASSUME NEW k \in 1 .. Len(s), k # i
      PROVE  s[k] \in Range(t)
  <2> DEFINE j == IF k < i THEN k ELSE k - 1
  <2>1. j \in 1 .. Len(s) - 1 /\ t[j] = s[k]
    BY <1>1, <1>2, <1>7
  <2> HIDE DEF j
  <2> QED
    BY <1>3, <2>1 DEF Range
<1>8. Range(s) \ {s[i]} \subseteq Range(t)
  BY <1>1, <1>7 DEF Range
<1> QED
  BY <1>2, <1>5, <1>6, <1>8 DEF t

\* The elements of a sequence are no more than its places, and as many if it
\* repeats none.
LEMMA RangeFacts ==
    ASSUME NEW S, NEW s \in Seq(S)
    PROVE  /\ Range(s) \subseteq S /\ IsFiniteSet(Range(s))
           /\ Cardinality(Range(s)) \in Nat /\ Cardinality(Range(s)) <= Len(s)
           /\ IsInjective(s) => Cardinality(Range(s)) = Len(s)
<1>1. Len(s) \in Nat /\ DOMAIN s = 1 .. Len(s) /\ s \in [1 .. Len(s) -> S]
  BY LenProperties
<1>2. IsFiniteSet(1 .. Len(s)) /\ Cardinality(1 .. Len(s)) = Len(s)
  BY <1>1, FS_Interval
<1>3. s \in Surjection(1 .. Len(s), Range(s))
  BY <1>1 DEF Surjection, Range
<1>4. IsFiniteSet(Range(s)) /\ Cardinality(Range(s)) <= Len(s)
  BY <1>2, <1>3, FS_Surjection
<1>5. ASSUME IsInjective(s)
      PROVE  Cardinality(Range(s)) = Len(s)
  <2>1. s \in Bijection(1 .. Len(s), Range(s))
    BY <1>1, <1>3, <1>5 DEF Bijection, Injection, Surjection, IsInjective
  <2> QED
    BY <1>2, <2>1, FS_Bijection DEF ExistsBijection
<1>6. Range(s) \subseteq S
  BY <1>1 DEF Range
<1>7. Cardinality(Range(s)) \in Nat
  BY <1>4, FS_CardinalityType
<1> QED
  BY <1>4, <1>5, <1>6, <1>7

-----------------------------------------------------------------------------
(* Weights: the units of the elements of a set, counted one by one *)

Grains(w, S) == UNION {{x} \X (1 .. w[x]) : x \in S}
Weight(w, S) == Cardinality(Grains(w, S))

\* A unit is an element's, and there are as many as it weighs.
LEMMA UnitFacts ==
    ASSUME NEW w, NEW S
    PROVE  \A p : p \in Grains(w, S) <=> \E x \in S : p \in {x} \X (1 .. w[x])
    BY DEF Grains

\* The weight of finitely many elements is a natural number.
LEMMA WeightFacts ==
    ASSUME NEW w, NEW S, IsFiniteSet(S), \A x \in S : w[x] \in Nat
    PROVE  IsFiniteSet(Grains(w, S)) /\ Weight(w, S) \in Nat
<1> DEFINE f == [x \in S |-> {x} \X (1 .. w[x])]
           T == {f[x] : x \in S}
<1>1. Grains(w, S) = UNION T
  BY DEF Grains
<1>2. IsFiniteSet(T)
  <2> HIDE DEF f
  <2> QED
    BY FiniteImage
<1>3. ASSUME NEW x \in S
      PROVE  IsFiniteSet(f[x])
  <2>0. w[x] \in Int /\ 1 \in Int
    OBVIOUS
  <2>1. IsFiniteSet({x}) /\ IsFiniteSet(1 .. w[x])
    BY <2>0, FS_Singleton, FS_Interval
  <2> QED
    BY <2>1, FS_Product
<1>4. IsFiniteSet(UNION T)
  <2> HIDE DEF f
  <2> QED
    BY <1>2, <1>3, FS_UNION
<1> QED
  BY <1>1, <1>4, FS_CardinalityType DEF Weight

\* The empty set weighs nothing, and one element what it weighs.
LEMMA WeightOfOne ==
    ASSUME NEW w, NEW x, w[x] \in Nat
    PROVE  Weight(w, {}) = 0 /\ Weight(w, {x}) = w[x]
<1>1. Grains(w, {}) = {} /\ Grains(w, {x}) = {x} \X (1 .. w[x])
  BY DEF Grains
<1>2. IsFiniteSet({x}) /\ Cardinality({x}) = 1
  BY FS_Singleton
<1>3. IsFiniteSet(1 .. w[x]) /\ Cardinality(1 .. w[x]) = w[x]
  BY FS_Interval
<1>4. Cardinality({x} \X (1 .. w[x])) = Cardinality({x}) * Cardinality(1 .. w[x])
  BY <1>2, <1>3, FS_Product
<1> QED
  <2>1. Weight(w, {}) = 0
    BY <1>1, FS_EmptySet DEF Weight
  <2>2. Weight(w, {x}) = 1 * w[x]
    BY <1>1, <1>2, <1>3, <1>4 DEF Weight
  <2> QED
    BY <2>1, <2>2

\* A part weighs no more than the whole.
LEMMA WeightOfPart ==
    ASSUME NEW w, NEW S, IsFiniteSet(S), \A x \in S : w[x] \in Nat, NEW T \in SUBSET S
    PROVE  /\ IsFiniteSet(T) /\ Weight(w, T) \in Nat /\ Weight(w, S) \in Nat
           /\ Weight(w, T) <= Weight(w, S)
<1>1. IsFiniteSet(T)
  BY FS_Subset
<1>2. Grains(w, T) \subseteq Grains(w, S)
  BY DEF Grains
<1> QED
  BY <1>1, <1>2, WeightFacts, FS_Subset DEF Weight

\* Two sets weigh no less than their union, and as much if they are apart.
LEMMA WeightOfTwo ==
    ASSUME NEW w, NEW S, IsFiniteSet(S), \A x \in S : w[x] \in Nat,
           NEW T, IsFiniteSet(T), \A x \in T : w[x] \in Nat
    PROVE  /\ IsFiniteSet(S \cup T)
           /\ Weight(w, S) \in Nat /\ Weight(w, T) \in Nat /\ Weight(w, S \cup T) \in Nat
           /\ Weight(w, S \cup T) <= Weight(w, S) + Weight(w, T)
           /\ S \cap T = {} => Weight(w, S \cup T) = Weight(w, S) + Weight(w, T)
<1> DEFINE A == Grains(w, S)
           B == Grains(w, T)
<1>1. IsFiniteSet(A) /\ IsFiniteSet(B) /\ Weight(w, S) \in Nat /\ Weight(w, T) \in Nat
  BY WeightFacts
<1>2. Grains(w, S \cup T) = A \cup B
  BY UnitFacts
<1>3. /\ IsFiniteSet(A \cup B) /\ Cardinality(A \cup B) \in Nat
      /\ Cardinality(A \cup B) = Cardinality(A) + Cardinality(B) - Cardinality(A \cap B)
  <2> HIDE DEF A, B
  <2> QED
    BY <1>1, FS_Union, FS_CardinalityType
<1>4. Cardinality(A \cap B) \in Nat
  <2>1. IsFiniteSet(A \cap B)
    <3> HIDE DEF A, B
    <3> QED
      BY <1>1, FS_Subset
  <2> QED
    BY <2>1, FS_CardinalityType
<1>5. S \cap T = {} => A \cap B = {}
  BY UnitFacts
<1>6. IsFiniteSet(S \cup T)
  BY FS_Union
<1> HIDE DEF A, B
<1>7. S \cap T = {} => Cardinality(A \cap B) = 0
  BY <1>5, FS_EmptySet
<1>8. Weight(w, S) = Cardinality(A) /\ Weight(w, T) = Cardinality(B)
      /\ Weight(w, S \cup T) = Cardinality(A \cup B)
  BY <1>2 DEF Weight, A, B
<1> QED
  BY <1>1, <1>3, <1>4, <1>6, <1>7, <1>8

\* What is lost of one set weighs no more than what another gains instead.
LEMMA WeightMoves ==
    ASSUME NEW w, NEW All, IsFiniteSet(All), \A x \in All : w[x] \in Nat,
           NEW A \in SUBSET All, NEW B \in SUBSET All,
           NEW C \in SUBSET All, NEW D \in SUBSET All,
           A \subseteq C, B \ D \subseteq C \ A
    PROVE  Weight(w, A) + Weight(w, B) <= Weight(w, C) + Weight(w, D)
<1> DEFINE kept == B \cap D
           lost == B \ D
           more == C \ A
<1>1. /\ kept \in SUBSET All /\ lost \in SUBSET All /\ more \in SUBSET All
      /\ kept \in SUBSET D /\ lost \in SUBSET more /\ B = kept \cup lost
      /\ C = A \cup more /\ A \cap more = {}
  OBVIOUS
<1> HIDE DEF kept, lost, more
<1>2. \A T \in SUBSET All : IsFiniteSet(T) /\ \A x \in T : w[x] \in Nat
  BY FS_Subset
<1>2a. \A T \in SUBSET All : Weight(w, T) \in Nat
  <2> SUFFICES ASSUME NEW T \in SUBSET All
               PROVE  Weight(w, T) \in Nat
    OBVIOUS
  <2>1. IsFiniteSet(T) /\ \A x \in T : w[x] \in Nat
    BY <1>2
  <2> QED
    BY <2>1, WeightFacts
<1>3. Weight(w, kept) <= Weight(w, D) /\ Weight(w, lost) <= Weight(w, more)
  <2>1. Weight(w, kept) <= Weight(w, D)
    BY <1>1, <1>2, WeightOfPart
  <2>2. Weight(w, lost) <= Weight(w, more)
    BY <1>1, <1>2, WeightOfPart
  <2> QED
    BY <2>1, <2>2
<1>4. Weight(w, B) <= Weight(w, kept) + Weight(w, lost)
  <2>1. /\ IsFiniteSet(kept) /\ \A x \in kept : w[x] \in Nat
        /\ IsFiniteSet(lost) /\ \A x \in lost : w[x] \in Nat
    BY <1>1, <1>2
  <2>2. Weight(w, kept \cup lost) <= Weight(w, kept) + Weight(w, lost)
    BY <2>1, WeightOfTwo
  <2> QED
    BY <1>1, <2>2
<1>5. Weight(w, C) = Weight(w, A) + Weight(w, more)
  <2>1. /\ IsFiniteSet(A) /\ \A x \in A : w[x] \in Nat
        /\ IsFiniteSet(more) /\ \A x \in more : w[x] \in Nat
    BY <1>1, <1>2
  <2>2. Weight(w, A \cup more) = Weight(w, A) + Weight(w, more)
    BY <1>1, <2>1, WeightOfTwo
  <2> QED
    BY <1>1, <2>2
<1>6. /\ Weight(w, kept) \in Nat /\ Weight(w, lost) \in Nat /\ Weight(w, more) \in Nat
      /\ Weight(w, A) \in Nat /\ Weight(w, B) \in Nat /\ Weight(w, C) \in Nat
      /\ Weight(w, D) \in Nat
  BY <1>1, <1>2a
<1> QED
  BY <1>3, <1>4, <1>5, <1>6

\* What weighs nothing may get lost as well.
LEMMA WeightMovesOrIsNone ==
    ASSUME NEW w, NEW All, IsFiniteSet(All), \A x \in All : w[x] \in Nat,
           NEW A \in SUBSET All, NEW B \in SUBSET All,
           NEW C \in SUBSET All, NEW D \in SUBSET All,
           A \subseteq C, \A x \in B \ D : x \in C \ A \/ w[x] = 0
    PROVE  Weight(w, A) + Weight(w, B) <= Weight(w, C) + Weight(w, D)
<1> DEFINE P == {x \in B : w[x] # 0}
<1>1. P \in SUBSET All /\ P \ D \subseteq C \ A
  OBVIOUS
<1>2. Grains(w, P) = Grains(w, B)
  <2>1. \A x \in B : w[x] = 0 => {x} \X (1 .. w[x]) = {}
    OBVIOUS
  <2>2. \A p : (\E x \in B : p \in {x} \X (1 .. w[x])) <=> \E x \in P : p \in {x} \X (1 .. w[x])
    BY <2>1
  <2> HIDE DEF P
  <2> QED
    BY <2>2 DEF Grains
<1> HIDE DEF P
<1>3. Weight(w, A) + Weight(w, P) <= Weight(w, C) + Weight(w, D)
  BY <1>1, WeightMoves
<1> QED
  BY <1>2, <1>3 DEF Weight
=============================================================================
