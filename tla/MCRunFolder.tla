---------------------------- MODULE MCRunFolder ----------------------------
(***************************************************************************)
(* Folder histories for TLC.                                               *)
(***************************************************************************)
EXTENDS RunFolder, TLC

Rule(shots, failures, pieceShots) ==
    [maxShots |-> shots, maxFailures |-> failures, minShots |-> 2,
     pieceShots |-> pieceShots, firstSeed |-> 3]
From(first, rule) == [rule EXCEPT !.firstSeed = first]
Entry(name, rule) == [name |-> name, id |-> name, rule |-> rule]
As(id, entry) == [entry EXCEPT !.id = id]

Does(verb, file) ==
    [verb |-> verb, file |-> file, only |-> "all", processes |-> 2,
     seeds |-> <<"share", 0, 1>>]
Share(file, i, n) == [Does("job", file) EXCEPT !.seeds = <<"share", i, n>>]
Seeds(file, a, b) == [Does("job", file) EXCEPT !.seeds = <<"range", a, b>>]

\* a fails on its second scored seed, and seed 6 is not scored; b learns online
Tasks == "a" :> [failing |-> {4, 7}, scored |-> {3, 4, 5, 7, 8, 9}, adaptive |-> FALSE]
      @@ "b" :> [failing |-> {5, 6}, scored |-> 3..9, adaptive |-> TRUE]
      @@ "a2" :> [failing |-> {3}, scored |-> 3..9, adaptive |-> FALSE]

Folder(runFiles, shells, commands, kills) ==
    [tasks |-> Tasks, files |-> runFiles, shells |-> shells,
     commands |-> commands, kills |-> kills]

\* a pilot, killed at any step, and a run with its caps and its pieces raised
Raised == Folder(
    "pilot" :> <<Entry("a", Rule(4, 1, 2)), Entry("b", Rule(3, 0, 2))>>
    @@ "final" :> <<Entry("a", Rule(6, 2, 3)), Entry("b", Rule(5, 0, 1))>>,
    "shell" :> {Does("collect", "pilot"), Does("collect", "final")}, 3, 1)

\* the pool of one task takes its pieces in any order of their ends
Pool == Folder(
    "run" :> <<Entry("a", Rule(7, 2, 1)), Entry("a2", Rule(3, 3, 2))>>,
    "shell" :> {[Does("collect", "run") EXCEPT !.processes = 3]}, 3, 2)

\* a cluster: one record, shares as jobs, one of them sent twice, and a fold
Cluster == Folder(
    "run" :> <<Entry("a", Rule(7, 0, 2))>>,
    "login" :> {Does("record", "run"), Does("fold", "run")}
    @@ "node 1" :> {Share("run", 0, 2), Seeds("run", 0, 5)}
    @@ "node 2" :> {Share("run", 0, 2), Share("run", 1, 2)}, 5, 1)

\* one name meant for another task, and a narrated shot of a recorded one
Renamed == Folder(
    "run" :> <<Entry("a", Rule(3, 1, 2))>>
    @@ "other" :> <<As("a2", Entry("a", Rule(3, 1, 2)))>>,
    "shell" :> {Does("collect", "run"), Does("collect", "other"),
                Does("fold", "run"), Does("shot", "run")}, 3, 1)

FolderSettings == {Raised, Pool, Cluster, Renamed}
ASSUME HypothesesAssumption ==
    \A c \in FolderSettings : OneDesk(c) /\ FirstSeedsAgree(c) /\ SeedsAreShared(c)

\* a shot into the folder of another task's collect, which is folded again
ShotSettings == {Folder(
    "run" :> <<Entry("a", Rule(3, 1, 2))>>
    @@ "more" :> <<Entry("a2", Rule(3, 1, 2))>>,
    "shell" :> {Does("collect", "run"), Does("shot", "run"), Does("fold", "run"),
                [Does("shot", "more") EXCEPT !.only = "a2"]}, 3, 0)}

=============================================================================
