------------------------- MODULE MCProgramExecution --------------------------
(* Programs small enough for TLC, each with what the others do not have.  *)
EXTENDS ProgramExecution, TLC

Program(operations, patches) ==
    [operations |-> operations, patches |-> patches, streams |-> <<>>,
     regions |-> <<>>, lives |-> <<>>, sourceLimit |-> <<>>,
     areJobs |-> TRUE, commit |-> 2, stock |-> 0, landsOnEdges |-> TRUE,
     horizon |-> 8]

OnP == [PlainOperation EXCEPT !.patches = {"p"}]
OnQ == [PlainOperation EXCEPT !.patches = {"q"}]
OnBoth == [PlainOperation EXCEPT !.patches = {"p", "q"}]
Quiet(operation) == [operation EXCEPT !.emits = FALSE]
After(operation, predecessors) == [operation EXCEPT !.predecessors = predecessors]
Region(first, last) == [first |-> first, last |-> last]

\* A memory whose patch is protected while it waits for a decision on its
\* own rounds, read out at a scheduled round.
ProtectedMemory ==
    [Program(<<[OnP EXCEPT !.stream = 100, !.offset = 0, !.rounds = 2],
               After(Quiet([OnP EXCEPT !.rounds = 0]), {1}),
               After(Quiet([OnP EXCEPT !.blockedBy = 1]), {2}),
               After(Quiet([OnP EXCEPT !.rounds = 0, !.startRound = 6]), {3})>>,
             <<"p">>)
       EXCEPT !.streams = 100 :> {"p"}, !.regions = 100 :> Region(2, 4)]

\* The region starts with the operation a decision between edges releases.
ReleasedRegion ==
    [Program(<<[OnP EXCEPT !.stream = 100, !.offset = 0, !.rounds = 2],
               After(Quiet([OnP EXCEPT !.blockedBy = 1]), {1}),
               After(Quiet([OnP EXCEPT !.rounds = 0, !.startRound = 6]), {2})>>,
             <<"p">>)
       EXCEPT !.streams = 100 :> {"p"}, !.regions = 100 :> Region(2, 3),
              !.landsOnEdges = FALSE]

\* Two patches in one region, beside an operation that waits on another one;
\* the operation between the region's ends holds one of its patches.
ProtectedPair ==
    [Program(<<[OnBoth EXCEPT !.stream = 100, !.offset = 0],
               After(Quiet([OnBoth EXCEPT !.rounds = 0]), {1}),
               [PlainOperation EXCEPT !.patches = {"r"}, !.rounds = 2],
               After(Quiet([OnP EXCEPT !.blockedBy = 3]), {2, 3}),
               After(Quiet([OnBoth EXCEPT !.rounds = 0, !.blockedBy = 1]), {4})>>,
             <<"p", "q", "r">>)
       EXCEPT !.streams = 100 :> {"p", "q"}, !.regions = 100 :> Region(2, 5),
              !.horizon = 6]

\* A feedback source inside its own region: the next release waits for the
\* protected rounds it reads.
ProtectedSource ==
    [Program(<<After(Quiet([OnP EXCEPT !.rounds = 0]), {}),
               After(Quiet([OnP EXCEPT !.rounds = 2]), {1}),
               After(Quiet([OnP EXCEPT !.rounds = 0, !.blockedBy = 2]), {2}),
               After(Quiet([OnP EXCEPT !.blockedBy = 3]), {3})>>,
             <<"p">>)
       EXCEPT !.streams = 100 :> {"p"}, !.regions = 100 :> Region(1, 4), !.horizon = 8]

\* Two patches measured as one stream, which a second segment continues
\* and a third operation splits.
SharedStream ==
    [Program(<<[OnBoth EXCEPT !.stream = 100, !.offset = 0],
               After([OnBoth EXCEPT !.stream = 100, !.blockedBy = 1], {1}),
               After([OnQ EXCEPT !.blockedBy = 2], {2}),
               After([OnP EXCEPT !.startRound = 6], {2})>>,
             <<"p", "q">>)
       EXCEPT !.streams = 100 :> {"p", "q"}]

\* A stream whose source holds three rounds.
FiniteStream ==
    [Program(<<[OnP EXCEPT !.stream = 100, !.offset = 0, !.rounds = 2],
               [Quiet([OnQ EXCEPT !.blockedBy = 1]) EXCEPT !.predecessors = {1}]>>,
             <<"p", "q">>)
       EXCEPT !.streams = 100 :> {"p"}, !.sourceLimit = 100 :> 3, !.areJobs = FALSE]

\* Patches with no stream: magic states, a joint operation, a discard.
StaticPatches(areJobs) ==
    [Program(<<[OnP EXCEPT !.needsState = TRUE],
               [OnQ EXCEPT !.rounds = 2, !.needsState = TRUE, !.startRound = 1],
               After([OnBoth EXCEPT !.blockedBy = 1], {1, 2}),
               After(Quiet([OnQ EXCEPT !.rounds = 0, !.isDiscard = TRUE]), {3}),
               After([OnP EXCEPT !.blockedBy = 3], {3})>>,
             <<"p", "q">>)
       EXCEPT !.areJobs = areJobs, !.stock = 1, !.horizon = 6]

\* Each patch's life is a stream of its own.
PatchLives ==
    [Program(<<OnP, OnQ,
               After([OnBoth EXCEPT !.blockedBy = 1], {1, 2}),
               After(Quiet([OnQ EXCEPT !.rounds = 0, !.isDiscard = TRUE, !.blockedBy = 2]), {3}),
               After([OnP EXCEPT !.blockedBy = 3], {3})>>,
             <<"p", "q">>)
       EXCEPT !.streams = (101 :> {"p"}) @@ (102 :> {"q"}),
              !.lives = (101 :> <<1, 3, 5>>) @@ (102 :> <<2, 3, 4>>), !.horizon = 6]

\* One region after another on the same patch: the second one's first
\* operation is held until the first one's patch is released.
RegionAfterRegion ==
    [Program(<<Quiet(OnP), After(Quiet([OnP EXCEPT !.rounds = 2]), {1}),
               After(Quiet(OnP), {2}), After(Quiet([OnP EXCEPT !.blockedBy = 2]), {3})>>,
             <<"p">>)
       EXCEPT !.streams = (100 :> {"p"}) @@ (200 :> {"p"}),
              !.regions = (100 :> Region(1, 2)) @@ (200 :> Region(3, 4))]

\* Two regions: the operation that ends the first one's holds the second
\* one's patch too.
CrossingRegions ==
    [Program(<<[Quiet(OnP) EXCEPT !.rounds = 0],
               After(Quiet([OnBoth EXCEPT !.blockedBy = 1]), {1}),
               After(Quiet([OnQ EXCEPT !.rounds = 1, !.blockedBy = 2]), {2}),
               After(Quiet([OnQ EXCEPT !.rounds = 1]), {3})>>,
             <<"p", "q">>)
       EXCEPT !.streams = (100 :> {"p"}) @@ (200 :> {"q"}),
              !.regions = (100 :> Region(1, 2)) @@ (200 :> Region(3, 4)),
              !.landsOnEdges = FALSE, !.horizon = 5]

PassingPrograms ==
    {ProtectedMemory, ReleasedRegion, ProtectedPair, ProtectedSource, SharedStream, FiniteStream,
     StaticPatches(TRUE), StaticPatches(FALSE), PatchLives, RegionAfterRegion,
     CrossingRegions}

\* The region starts with an operation that has a scheduled start.
ScheduledRegion ==
    {[ReleasedRegion EXCEPT !.operations[2].blockedBy = None,
                            !.operations[2].startRound = 4]}

=============================================================================
