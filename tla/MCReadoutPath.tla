---------------------------- MODULE MCReadoutPath ----------------------------
EXTENDS ReadoutPath, TLC

Unbounded == 99

\* a run that escalates nothing
NoEdge == [edges |-> <<>>, redo |-> <<>>, rescues |-> {}, cancels |-> TRUE]

\* two streams, a memory round and overlapping windows share a store of two
\* write ports and a stage of two places
Shared == [
    emission |-> <<<<"a", 1>>, <<"b", 1>>, <<"m", 1>>, <<"a", 2>>, <<"a", 3>>>>,
    memory |-> {<<"m", 1>>},
    bits |-> (<<"a", 1>> :> 2 @@ <<"a", 2>> :> 1 @@ <<"a", 3>> :> 1
              @@ <<"b", 1>> :> 1 @@ <<"m", 1>> :> 1),
    own |-> ("a" :> "S" @@ "b" :> "S" @@ "m" :> "S"),
    capacity |-> ("S" :> 4),
    ports |-> 2, places |-> 2,
    windows |-> ("a1" :> [stream |-> "a", reads |-> {<<"a", 1>>, <<"a", 2>>},
                          deps |-> {}]
              @@ "a2" :> [stream |-> "a", reads |-> {<<"a", 2>>, <<"a", 3>>},
                          deps |-> {"a1"}]
              @@ "b1" :> [stream |-> "b", reads |-> {<<"b", 1>>},
                          deps |-> {"a1"}]),
    runsOn |-> FALSE] @@ NoEdge

\* two pools with a store each; a window of a reads a round of b
Copied == [
    emission |-> <<<<"a", 1>>, <<"b", 1>>, <<"b", 2>>, <<"a", 2>>>>,
    memory |-> {},
    bits |-> [r \in {"a", "b"} \X {1, 2} |-> 1],
    own |-> ("a" :> "S" @@ "b" :> "T"),
    capacity |-> ("S" :> 3 @@ "T" :> 1),
    ports |-> 1, places |-> Unbounded,
    windows |-> ("a1" :> [stream |-> "a",
                          reads |-> {<<"a", 1>>, <<"a", 2>>, <<"b", 1>>},
                          deps |-> {}]
              @@ "b1" :> [stream |-> "b", reads |-> {<<"b", 1>>}, deps |-> {}]
              @@ "b2" :> [stream |-> "b", reads |-> {<<"b", 2>>},
                          deps |-> {"b1"}]),
    runsOn |-> FALSE] @@ NoEdge

\* two streams share a store too small for them: the windows of b keep rounds
\* of it while they wait, the second for the window waitedFor, on window a1,
\* which no longer finds room for its own
Tight(places, waitedFor, runsOn) == [
    emission |-> <<<<"b", 1>>, <<"a", 1>>, <<"b", 2>>, <<"a", 2>>>>,
    memory |-> {},
    bits |-> [r \in {"a", "b"} \X {1, 2} |-> 1],
    own |-> ("a" :> "S" @@ "b" :> "S"),
    capacity |-> ("S" :> 2),
    ports |-> 1, places |-> places,
    windows |-> ("a1" :> [stream |-> "a", reads |-> {<<"a", 1>>, <<"a", 2>>},
                          deps |-> {}]
              @@ "b1" :> [stream |-> "b", reads |-> {<<"b", 1>>},
                          deps |-> {"a1"}]
              @@ "b2" :> [stream |-> "b", reads |-> {<<"b", 2>>},
                          deps |-> {waitedFor}]),
    runsOn |-> runsOn] @@ NoEdge

\* overlapping windows that may be decoded again on one edge, the first before
\* its verdict; the landing store has room for the widest of their holds
Redone(cancels) == [
    emission |-> <<<<"a", 1>>, <<"a", 2>>, <<"a", 3>>>>,
    memory |-> {},
    bits |-> [r \in {"a"} \X {1, 2, 3} |-> 1],
    own |-> ("a" :> "S"),
    capacity |-> ("S" :> 3 @@ "L" :> 3),
    ports |-> 1, places |-> Unbounded,
    windows |-> ("a1" :> [stream |-> "a", reads |-> {<<"a", 1>>, <<"a", 2>>},
                          deps |-> {}]
              @@ "a2" :> [stream |-> "a", reads |-> {<<"a", 2>>, <<"a", 3>>},
                          deps |-> {"a1"}]),
    edges |-> ("S" :> "L"),
    redo |-> ("a1" :> {<<"a", 1>>, <<"a", 2>>} @@ "a2" :> {<<"a", 2>>, <<"a", 3>>}),
    rescues |-> {"a1", "a2"}, cancels |-> cancels,
    runsOn |-> FALSE]

\* the edges of two entry stores into one landing store; a window of a reads
\* a round of b, and its redo only its own
TwoEdges == [
    emission |-> <<<<"b", 1>>, <<"a", 1>>, <<"b", 2>>>>,
    memory |-> {},
    bits |-> (<<"a", 1>> :> 2 @@ <<"b", 1>> :> 1 @@ <<"b", 2>> :> 1),
    own |-> ("a" :> "S" @@ "b" :> "T"),
    capacity |-> ("S" :> 3 @@ "T" :> 2 @@ "L" :> 4),
    ports |-> 1, places |-> Unbounded,
    windows |-> ("a1" :> [stream |-> "a", reads |-> {<<"a", 1>>, <<"b", 1>>},
                          deps |-> {}]
              @@ "b1" :> [stream |-> "b", reads |-> {<<"b", 1>>, <<"b", 2>>},
                          deps |-> {}]),
    edges |-> ("S" :> "L" @@ "T" :> "L"),
    redo |-> ("a1" :> {<<"a", 1>>} @@ "b1" :> {<<"b", 1>>, <<"b", 2>>}),
    rescues |-> {"b1"}, cancels |-> FALSE,
    runsOn |-> FALSE]

PathSettings ==
    {Shared, Copied, TwoEdges} \cup {Tight(Unbounded, "a1", b) : b \in BOOLEAN}
    \cup {Redone(b) : b \in BOOLEAN}
ASSUME HypothesesAssumption == \A c \in PathSettings : LandingsFit(c)

\* the last window of a looks ahead into its successor b
LookAhead == [
    emission |-> <<<<"a", 1>>, <<"b", 1>>>>,
    memory |-> {},
    bits |-> [r \in {"a", "b"} \X {1} |-> 1],
    own |-> ("a" :> "S" @@ "b" :> "S"),
    capacity |-> ("S" :> Unbounded @@ "L" :> Unbounded),
    ports |-> 1, places |-> Unbounded,
    windows |-> ("a1" :> [stream |-> "a", reads |-> {<<"a", 1>>, <<"b", 1>>},
                          deps |-> {}]
              @@ "b1" :> [stream |-> "b", reads |-> {<<"b", 1>>},
                          deps |-> {"a1"}]),
    edges |-> ("S" :> "L"),
    redo |-> ("a1" :> {<<"a", 1>>, <<"b", 1>>} @@ "b1" :> {<<"b", 1>>}),
    rescues |-> {}, cancels |-> TRUE,
    runsOn |-> FALSE]
LookAheadSettings == {LookAhead}

=============================================================================
