-------------------------- MODULE RunFolderProofs --------------------------
(***************************************************************************)
(* What is proved of a results folder for every history of commands: the   *)
(* shape of the state and where its commands are, the files of a fold, the *)
(* prefix that a collect counts, the pools of collects and jobs, the types *)
(* of what is written, that no shot is saved twice, and that cut runs give *)
(* the rows of uncut ones.  Three of the theorems have what the programs   *)
(* leave to their users as a hypothesis.                                   *)
(***************************************************************************)
EXTENDS RunFolder, DataLemmas

-----------------------------------------------------------------------------
(* The shape of the state *)

Places == Resting \cup
    {"starting", "recording", "shot record", "starting run", "writing run",
     "accepting", "collecting", "job", "running", "fold", "folding", "staged",
     "clearing", "moving", "seeds"}

\* Where a command of each form can be.
VerbFits(s) ==
    /\ at[s] \in {"starting", "starting run", "writing run"} =>
        command[s].verb \in {"collect", "record", "shot"}
    /\ at[s] \in {"recording", "accepting"} => command[s].verb \in {"collect", "record"}
    /\ at[s] = "shot record" => command[s].verb = "shot"
    /\ at[s] = "collecting" => command[s].verb = "collect"
    /\ at[s] \in {"job", "running"} => command[s].verb = "job"
    /\ at[s] \in {"fold", "folding", "staged", "clearing", "moving", "seeds"} =>
        command[s].verb \in {"collect", "fold"}

RestingMemory(s) ==
    /\ toWrite[s] = <<>> /\ collection[s] = <<>> /\ running[s] = {}
    /\ queued[s] = <<>> /\ folders[s] = {} /\ staged[s] = <<>> /\ files[s] = {}

ShapeOf(s) ==
    /\ at[s] \in Places
    /\ at[s] \notin Resting => command[s] \in config.shells[s] /\ VerbFits(s)
    /\ at[s] \in Resting => RestingMemory(s)

OwnDomains ==
    /\ DOMAIN command = Shells /\ DOMAIN at = Shells /\ DOMAIN toWrite = Shells
    /\ DOMAIN collection = Shells /\ DOMAIN running = Shells
    /\ DOMAIN queued = Shells /\ DOMAIN folders = Shells
    /\ DOMAIN staged = Shells /\ DOMAIN files = Shells
Shape ==
    /\ config \in Settings
    /\ DOMAIN record = Names /\ DOMAIN root = CsvFiles
    /\ OwnDomains
    /\ \A s \in Shells : ShapeOf(s)

\* What shell t has of its own is left alone.
Keeps(t) ==
    /\ command'[t] = command[t] /\ at'[t] = at[t] /\ toWrite'[t] = toWrite[t]
    /\ collection'[t] = collection[t] /\ running'[t] = running[t]
    /\ queued'[t] = queued[t] /\ folders'[t] = folders[t]
    /\ staged'[t] = staged[t] /\ files'[t] = files[t]

\* A step of one shell.
Moves(s) == Runs(s) \/ Kill(s) \/ \E k \in config.shells[s] : Give(s, k)

\* A process that is gone has kept nothing, and the others have what they had.
LEMMA LeavingIsResting ==
    ASSUME Shape, NEW s \in Shells, NEW how \in Resting, Leaves(s, how),
           config' = config
    PROVE  /\ at'[s] = how /\ command' = command /\ RestingMemory(s)'
           /\ \A t \in Shells \ {s} : Keeps(t)
           /\ OwnDomains' /\ ShapeOf(s)'
<1>1. /\ at'[s] = how /\ command' = command /\ RestingMemory(s)'
      /\ \A t \in Shells \ {s} : Keeps(t)
      /\ OwnDomains'
    BY DEF Leaves, Shape, OwnDomains, RestingMemory, Keeps, Shells
<1> QED
    BY <1>1 DEF ShapeOf, Places

\* A shell whose command only goes on keeps the shape.
LEMMA GoingOnFits ==
    ASSUME Shape, NEW s \in Shells, NEW where \in Places \ Resting, config' = config,
           at' = [at EXCEPT ![s] = where], command' = command,
           at[s] \notin Resting, VerbFits(s)'
    PROVE  at'[s] = where /\ ShapeOf(s)'
    BY DEF Shape, ShapeOf, OwnDomains, Shells


\* What a step of shell s leaves.
Moved(s) ==
    /\ config' = config /\ DOMAIN record' = Names /\ DOMAIN root' = CsvFiles
    /\ OwnDomains' /\ ShapeOf(s)' /\ \A t \in Shells \ {s} : Keeps(t)

\* One shell moves at a time, and the state keeps its shape.
LEMMA OneShellMoves ==
    ASSUME Shape, NEW s \in Shells, Moves(s)
    PROVE  Shape' /\ config' = config /\ \A t \in Shells \ {s} : Keeps(t)
<1>1. ASSUME Moved(s)
      PROVE  Shape' /\ config' = config /\ \A t \in Shells \ {s} : Keeps(t)
  <2>1. Shells' = Shells /\ Names' = Names
    BY <1>1 DEF Shells, Names, Moved
  <2>2. ASSUME NEW t \in Shells \ {s}
        PROVE  ShapeOf(t)'
    <3>1. ShapeOf(t) /\ Keeps(t)
      BY <1>1 DEF Moved, Shape
    <3> QED
      BY <1>1, <3>1 DEF ShapeOf, Keeps, VerbFits, RestingMemory, Moved
  <2> QED
    BY <1>1, <2>1, <2>2 DEF Moved, Shape
<1>2. ShapeOf(s) /\ (at[s] \notin Resting => command[s] \in config.shells[s] /\ VerbFits(s))
  BY DEF ShapeOf, Shape
<1> USE DEF Shape, Moved
<1>3. ASSUME CheckNames(s)
      PROVE  Moved(s)
  <2>0. config' = config /\ record' = record /\ root' = root
    BY <1>3 DEF CheckNames, disk
  <2>1. ASSUME NEW how \in Resting, Leaves(s, how)
        PROVE  Moved(s)
    BY <2>0, <2>1, LeavingIsResting DEF Names
  <2>2. ASSUME ~ \E how \in Resting : Leaves(s, how)
        PROVE  Moved(s)
    BY <1>2, <1>3, <2>0, <2>2, ZenonT(180) DEF CheckNames, Goes, inMemory, OwnDomains, ShapeOf, VerbFits,
          RestingMemory, Keeps, Shells, Names, Places, Resting
  <2> QED
    BY <2>1, <2>2
<1>4. ASSUME OpenRecord(s)
      PROVE  Moved(s)
  BY <1>2, <1>4, ZenonT(180) DEF OpenRecord, Leaves, Goes, inMemory, ledgers, disk, own, OwnDomains, ShapeOf, VerbFits, RestingMemory, Keeps, Shells, Names, Places, Resting
<1>5. ASSUME WriteRecord(s)
      PROVE  Moved(s)
  BY <1>2, <1>5, ZenonT(180) DEF WriteRecord, Leaves, Goes, inMemory, ledgers, disk, own, OwnDomains, ShapeOf, VerbFits, RestingMemory, Keeps, Shells, Names, Places, Resting
<1>6. ASSUME ReadSaved(s)
      PROVE  Moved(s)
  BY <1>2, <1>6, ZenonT(180) DEF ReadSaved, Leaves, Goes, inMemory, ledgers, disk, own, OwnDomains, ShapeOf, VerbFits, RestingMemory, Keeps, Shells, Names, Places, Resting
<1>7. ASSUME AcceptRaisedStopRules(s)
      PROVE  Moved(s)
  BY <1>2, <1>7, ZenonT(180) DEF AcceptRaisedStopRules, Leaves, Goes, inMemory, ledgers, disk, own, OwnDomains, ShapeOf, VerbFits, RestingMemory, Keeps, Shells, Names, Places, Resting
<1>8. ASSUME CopyTheRunFile(s)
      PROVE  Moved(s)
  BY <1>2, <1>8, ZenonT(180) DEF CopyTheRunFile, Leaves, Goes, inMemory, ledgers, disk, own, OwnDomains, ShapeOf, VerbFits, RestingMemory, Keeps, Shells, Names, Places, Resting
<1>9. ASSUME WriteRunRecord(s)
      PROVE  Moved(s)
  BY <1>2, <1>9, ZenonT(180) DEF WriteRunRecord, Leaves, Goes, inMemory, ledgers, disk, own, OwnDomains, ShapeOf, VerbFits, RestingMemory, Keeps, Shells, Names, Places, Resting
<1>10. ASSUME ShotEnds(s)
      PROVE  Moved(s)
  BY <1>2, <1>10, ZenonT(180) DEF ShotEnds, Leaves, Goes, inMemory, ledgers, disk, own, OwnDomains, ShapeOf, VerbFits, RestingMemory, Keeps, Shells, Names, Places, Resting
<1>11. ASSUME JobStarts(s)
      PROVE  Moved(s)
  <2>0. config' = config /\ record' = record /\ root' = root
    BY <1>11 DEF JobStarts, disk
  <2>1. ASSUME NEW how \in Resting, Leaves(s, how)
        PROVE  Moved(s)
    BY <2>0, <2>1, LeavingIsResting DEF Names
  <2>2. ASSUME ~ \E how \in Resting : Leaves(s, how)
        PROVE  Moved(s)
    BY <1>2, <1>11, <2>0, <2>2, ZenonT(180) DEF JobStarts, Goes, inMemory, OwnDomains, ShapeOf, VerbFits,
          RestingMemory, Keeps, Shells, Names, Places, Resting
  <2> QED
    BY <2>1, <2>2
<1>12. ASSUME HandOut(s)
      PROVE  Moved(s)
  BY <1>2, <1>12, ZenonT(180) DEF HandOut, Leaves, Goes, inMemory, ledgers, disk, own, OwnDomains, ShapeOf, VerbFits, RestingMemory, Keeps, Shells, Names, Places, Resting
<1>13. ASSUME CollectStops(s)
      PROVE  Moved(s)
  BY <1>2, <1>13, ZenonT(180) DEF CollectStops, Leaves, Goes, inMemory, ledgers, disk, own, OwnDomains, ShapeOf, VerbFits, RestingMemory, Keeps, Shells, Names, Places, Resting
<1>14. ASSUME JobEnds(s)
      PROVE  Moved(s)
  BY <1>2, <1>14, ZenonT(180) DEF JobEnds, Leaves, Goes, inMemory, ledgers, disk, own, OwnDomains, ShapeOf, VerbFits, RestingMemory, Keeps, Shells, Names, Places, Resting
<1>15. ASSUME FoldLists(s)
      PROVE  Moved(s)
  <2>0. config' = config /\ record' = record /\ root' = root
    BY <1>15 DEF FoldLists, disk
  <2>1. ASSUME NEW how \in Resting, Leaves(s, how)
        PROVE  Moved(s)
    BY <2>0, <2>1, LeavingIsResting DEF Names
  <2>2. ASSUME ~ \E how \in Resting : Leaves(s, how)
        PROVE  Moved(s)
    BY <1>2, <1>15, <2>0, <2>2 DEF FoldLists, Goes, inMemory, OwnDomains, ShapeOf, VerbFits,
          RestingMemory, Keeps, Shells, Names, Places, Resting
  <2> QED
    BY <2>1, <2>2
<1>16. ASSUME FoldStages(s)
      PROVE  Moved(s)
  BY <1>2, <1>16, ZenonT(180) DEF FoldStages, Leaves, Goes, inMemory, ledgers, disk, own, OwnDomains, ShapeOf, VerbFits, RestingMemory, Keeps, Shells, Names, Places, Resting
<1>17. ASSUME ListOldFiles(s)
      PROVE  Moved(s)
  BY <1>2, <1>17, ZenonT(180) DEF ListOldFiles, Leaves, Goes, inMemory, ledgers, disk, own, OwnDomains, ShapeOf, VerbFits, RestingMemory, Keeps, Shells, Names, Places, Resting
<1>13a. ASSUME ListNewFiles(s)
      PROVE  Moved(s)
  BY <1>2, <1>13a, ZenonT(180) DEF ListNewFiles, Leaves, Goes, inMemory, ledgers, disk, own, OwnDomains, ShapeOf, VerbFits, RestingMemory, Keeps, Shells, Names, Places, Resting
<1>19. ASSUME ReadRecords(s)
      PROVE  Moved(s)
  BY <1>2, <1>19, ZenonT(180) DEF ReadRecords, Leaves, Goes, inMemory, ledgers, disk, own, OwnDomains, ShapeOf, VerbFits, RestingMemory, Keeps, Shells, Names, Places, Resting
<1>20. ASSUME FoldEnds(s)
      PROVE  Moved(s)
  BY <1>2, <1>20, ZenonT(180) DEF FoldEnds, Leaves, Goes, inMemory, ledgers, disk, own, OwnDomains, ShapeOf, VerbFits, RestingMemory, Keeps, Shells, Names, Places, Resting
<1>21. ASSUME NEW u \in running[s], PieceEnds(s, u)
      PROVE  Moved(s)
  BY <1>2, <1>21, ZenonT(180) DEF PieceEnds, Leaves, Goes, inMemory, ledgers, disk, own, OwnDomains, ShapeOf, VerbFits, RestingMemory, Keeps, Shells, Names, Places, Resting
<1>22. ASSUME NEW u \in running[s], JobPieceEnds(s, u)
      PROVE  Moved(s)
  BY <1>2, <1>22, ZenonT(180) DEF JobPieceEnds, Leaves, Goes, inMemory, ledgers, disk, own, OwnDomains, ShapeOf, VerbFits, RestingMemory, Keeps, Shells, Names, Places, Resting
<1>23. ASSUME NEW f \in CsvFiles, RemoveFile(s, f)
      PROVE  Moved(s)
  BY <1>2, <1>23, ZenonT(180) DEF RemoveFile, Leaves, Goes, inMemory, ledgers, disk, own, OwnDomains, ShapeOf, VerbFits, RestingMemory, Keeps, Shells, Names, Places, Resting
<1>24. ASSUME NEW f \in CsvFiles, MoveFile(s, f)
      PROVE  Moved(s)
  BY <1>2, <1>24, ZenonT(180) DEF MoveFile, Leaves, Goes, inMemory, ledgers, disk, own, OwnDomains, ShapeOf, VerbFits, RestingMemory, Keeps, Shells, Names, Places, Resting
<1>25. ASSUME NEW n \in Names, RecordSeeds(s, n)
      PROVE  Moved(s)
  BY <1>2, <1>25, ZenonT(180) DEF RecordSeeds, Leaves, Goes, inMemory, ledgers, disk, own, OwnDomains, ShapeOf, VerbFits, RestingMemory, Keeps, Shells, Names, Places, Resting
<1>26. ASSUME Kill(s)
      PROVE  Moved(s)
  BY <1>2, <1>26, ZenonT(180) DEF Kill, Leaves, Goes, inMemory, ledgers, disk, own, OwnDomains, ShapeOf, VerbFits, RestingMemory, Keeps, Shells, Names, Places, Resting
<1>27. ASSUME NEW k \in config.shells[s], Give(s, k)
      PROVE  Moved(s)
  <2>1. k.verb \in {"collect", "record", "job", "fold", "shot"}
    BY SettingsAssumption DEF Shells
  <2>2. RestingMemory(s) /\ s \in DOMAIN at /\ s \in DOMAIN command
    BY <1>2, <1>27 DEF ShapeOf, Give, OwnDomains
  <2>3. /\ config' = config /\ DOMAIN record' = Names /\ DOMAIN root' = CsvFiles
        /\ OwnDomains' /\ \A t \in Shells \ {s} : Keeps(t)
    BY <1>27, <2>2 DEF Give, disk, inMemory, OwnDomains, Keeps, Shells, Names
  <2>4. ShapeOf(s)'
    BY <1>27, <2>1, <2>2, <2>3 DEF Give, inMemory, ShapeOf, VerbFits, RestingMemory, Places, Resting
  <2> QED
    BY <2>3, <2>4
<1> QED
  BY <1>1, <1>3, <1>4, <1>5, <1>6, <1>7, <1>8, <1>9, <1>10, <1>11, <1>12, <1>13, <1>14, <1>15, <1>16, <1>17, <1>13a, <1>19, <1>20, <1>21, <1>22, <1>23, <1>24, <1>25, <1>26, <1>27 DEF Moves, Runs, Prepares, Collects, Folds

LEMMA InitHasShape == Init => Shape
<1> SUFFICES ASSUME NEW c \in Settings, InitFor(c)
             PROVE  Shape
    BY DEF Init
<1> QED
    BY DEF InitFor, Shape, ShapeOf, OwnDomains, RestingMemory, Shells, Names, Places, Resting

\* A step of the whole is a step of a shell, or it leaves everything alone.
LEMMA ShellsMove ==
    ASSUME [Next]_vars
    PROVE  (\E s \in Shells : Moves(s)) \/ UNCHANGED vars
    BY DEF Next, Moves, Rests

LEMMA StutterKeepsShape ==
    ASSUME Shape, UNCHANGED vars
    PROVE  Shape'
<1>1. UNCHANGED <<config, record, root, command, at, toWrite, collection, running, queued,
                  folders, staged, files>>
    BY DEF vars, disk, own
<1> QED
    BY <1>1, ZenonT(180) DEF Shape, ShapeOf, OwnDomains, RestingMemory, Shells, Names, VerbFits

\* Every variable has its shape in every state.
THEOREM ShapeIsKept == Spec => []Shape
<1>1. ASSUME Shape, [Next]_vars
      PROVE  Shape'
    BY <1>1, ShellsMove, OneShellMoves, StutterKeepsShape
<1> QED
    BY <1>1, InitHasShape, PTL DEF Spec

-----------------------------------------------------------------------------
(* The steps of a shell *)

\* The command of s has come to its end, and its process is gone.
Rested(s) ==
    /\ at'[s] \in Resting /\ RestingMemory(s)' /\ command' = command
    /\ UNCHANGED <<config, record, saved, root>>
    /\ at'[s] = "done" /\ command[s].verb = "job" => at[s] = "running" /\ running[s] = {}

\* The command of s has gone from one place to the next, and nothing else that
\* is about pieces, folds or records has changed.
WentOn(s) ==
    /\ UNCHANGED <<config, record, saved, root>>
    /\ collection'[s] = collection[s] /\ running'[s] = running[s]
    /\ queued'[s] = queued[s] /\ folders'[s] = folders[s]
    /\ staged'[s] = staged[s] /\ files'[s] = files[s]
    /\ \/ /\ at[s] \in Resting /\ at'[s] \in {"starting", "job", "fold"}
          /\ toWrite'[s] = toWrite[s]
       \/ /\ at[s] = "starting" /\ at'[s] = "recording" /\ toWrite'[s] = Chosen(s)
          /\ \A e \in Range(Chosen(s)) : record[e.name] # Torn /\ ~NamesAnother(e)
          /\ command' = command
       \/ /\ at[s] = "writing run" /\ at'[s] = "shot record"
          /\ toWrite'[s] = IF record[Chosen(s)[1].name] = None THEN <<Chosen(s)[1]>> ELSE <<>>
          /\ command' = command
       \/ /\ << at[s], at'[s] >> \in
                {<<"starting", "starting run">>, <<"accepting", "starting run">>,
                 <<"starting run", "writing run">>, <<"writing run", "collecting">>}
          /\ toWrite'[s] = toWrite[s] /\ command' = command

\* A step that does neither is one of these.
Works(s) ==
    \/ OpenRecord(s) \/ WriteRecord(s) \/ ReadSaved(s)
    \/ HandOut(s) \/ (\E u \in running[s] : PieceEnds(s, u)) \/ CollectStops(s)
    \/ JobStarts(s) \/ \E u \in running[s] : JobPieceEnds(s, u)
    \/ FoldLists(s) \/ FoldStages(s) \/ ListOldFiles(s) \/ ListNewFiles(s)
    \/ (\E f \in CsvFiles : RemoveFile(s, f) \/ MoveFile(s, f))
    \/ ReadRecords(s) \/ \E n \in Names : RecordSeeds(s, n)

LEMMA StepsOfAShell ==
    ASSUME Shape, NEW s \in Shells, Moves(s)
    PROVE  \/ Rested(s)
           \/ WentOn(s) /\ at'[s] \notin Resting
           \/ Works(s) /\ at'[s] \notin Resting /\ command' = command
<1> DEFINE Done == \/ Rested(s)
                   \/ WentOn(s) /\ at'[s] \notin Resting
                   \/ Works(s) /\ at'[s] \notin Resting /\ command' = command
<1>1. /\ ShapeOf(s) /\ OwnDomains /\ at[s] \in Places
      /\ at[s] \notin Resting => VerbFits(s)
    BY DEF Shape, ShapeOf
<1>2. ASSUME NEW how \in Resting, Leaves(s, how), UNCHANGED <<config, record, saved, root>>,
             how = "done" /\ command[s].verb = "job" => at[s] = "running" /\ running[s] = {}
      PROVE  Rested(s)
    BY <1>2, LeavingIsResting DEF Rested
<1>3. ASSUME AcceptRaisedStopRules(s)
      PROVE  Done
  <2>1. UNCHANGED <<config, record, saved, root>>
    BY <1>3 DEF AcceptRaisedStopRules, disk
  <2>2. ASSUME NEW how \in Resting, Leaves(s, how)
        PROVE  Done
    <3>1. how = "done" /\ command[s].verb = "job" => at[s] = "running" /\ running[s] = {}
      BY <1>1, <1>3, <2>2 DEF AcceptRaisedStopRules, VerbFits, Leaves, Goes, Resting, OwnDomains, Shells
    <3> QED
      BY <1>2, <2>1, <2>2, <3>1
  <2>3. ASSUME ~ \E how \in Resting : Leaves(s, how)
        PROVE  WentOn(s) /\ at'[s] \notin Resting
    BY <1>1, <1>3, <2>1, <2>3 DEF AcceptRaisedStopRules, WentOn, Goes, inMemory, OwnDomains, Shells, Resting
  <2> QED
    BY <2>2, <2>3
<1>4. ASSUME CopyTheRunFile(s)
      PROVE  Done
  <2>1. UNCHANGED <<config, record, saved, root>>
    BY <1>4 DEF CopyTheRunFile, disk
  <2>2. ASSUME NEW how \in Resting, Leaves(s, how)
        PROVE  Done
    <3>1. how = "done" /\ command[s].verb = "job" => at[s] = "running" /\ running[s] = {}
      BY <1>1, <1>4, <2>2 DEF CopyTheRunFile, VerbFits, Leaves, Goes, Resting, OwnDomains, Shells
    <3> QED
      BY <1>2, <2>1, <2>2, <3>1
  <2>3. ASSUME ~ \E how \in Resting : Leaves(s, how)
        PROVE  WentOn(s) /\ at'[s] \notin Resting
    BY <1>1, <1>4, <2>1, <2>3 DEF CopyTheRunFile, WentOn, Goes, inMemory, OwnDomains, Shells, Resting
  <2> QED
    BY <2>2, <2>3
<1>5. ASSUME WriteRunRecord(s)
      PROVE  Done
  <2>1. UNCHANGED <<config, record, saved, root>>
    BY <1>5 DEF WriteRunRecord, disk
  <2>2. ASSUME NEW how \in Resting, Leaves(s, how)
        PROVE  Done
    <3>1. how = "done" /\ command[s].verb = "job" => at[s] = "running" /\ running[s] = {}
      BY <1>1, <1>5, <2>2 DEF WriteRunRecord, VerbFits, Leaves, Goes, Resting, OwnDomains, Shells
    <3> QED
      BY <1>2, <2>1, <2>2, <3>1
  <2>3. ASSUME ~ \E how \in Resting : Leaves(s, how)
        PROVE  WentOn(s) /\ at'[s] \notin Resting
    BY <1>1, <1>5, <2>1, <2>3 DEF WriteRunRecord, WentOn, Goes, inMemory, OwnDomains, Shells, Resting
  <2> QED
    BY <2>2, <2>3
<1>6. ASSUME ShotEnds(s)
      PROVE  Done
  <2>1. UNCHANGED <<config, record, saved, root>>
    BY <1>6 DEF ShotEnds, disk
  <2>2. ASSUME NEW how \in Resting, Leaves(s, how)
        PROVE  Done
    <3>1. how = "done" /\ command[s].verb = "job" => at[s] = "running" /\ running[s] = {}
      BY <1>1, <1>6, <2>2 DEF ShotEnds, VerbFits, Leaves, Goes, Resting, OwnDomains, Shells
    <3> QED
      BY <1>2, <2>1, <2>2, <3>1
  <2>3. ASSUME ~ \E how \in Resting : Leaves(s, how)
        PROVE  WentOn(s) /\ at'[s] \notin Resting
    BY <1>1, <1>6, <2>1, <2>3 DEF ShotEnds, WentOn, Goes, inMemory, OwnDomains, Shells, Resting
  <2> QED
    BY <2>2, <2>3
<1>7. ASSUME JobEnds(s)
      PROVE  Done
  <2>1. UNCHANGED <<config, record, saved, root>>
    BY <1>7 DEF JobEnds, disk
  <2>2. ASSUME NEW how \in Resting, Leaves(s, how)
        PROVE  Done
    <3>1. how = "done" /\ command[s].verb = "job" => at[s] = "running" /\ running[s] = {}
      BY <1>1, <1>7, <2>2 DEF JobEnds, VerbFits, Leaves, Goes, Resting, OwnDomains, Shells
    <3> QED
      BY <1>2, <2>1, <2>2, <3>1
  <2>3. ASSUME ~ \E how \in Resting : Leaves(s, how)
        PROVE  WentOn(s) /\ at'[s] \notin Resting
    BY <1>1, <1>7, <2>1, <2>3 DEF JobEnds, WentOn, Goes, inMemory, OwnDomains, Shells, Resting
  <2> QED
    BY <2>2, <2>3
<1>8. ASSUME FoldEnds(s)
      PROVE  Done
  <2>1. UNCHANGED <<config, record, saved, root>>
    BY <1>8 DEF FoldEnds, disk
  <2>2. ASSUME NEW how \in Resting, Leaves(s, how)
        PROVE  Done
    <3>1. how = "done" /\ command[s].verb = "job" => at[s] = "running" /\ running[s] = {}
      BY <1>1, <1>8, <2>2 DEF FoldEnds, VerbFits, Leaves, Goes, Resting, OwnDomains, Shells
    <3> QED
      BY <1>2, <2>1, <2>2, <3>1
  <2>3. ASSUME ~ \E how \in Resting : Leaves(s, how)
        PROVE  WentOn(s) /\ at'[s] \notin Resting
    BY <1>1, <1>8, <2>1, <2>3 DEF FoldEnds, WentOn, Goes, inMemory, OwnDomains, Shells, Resting
  <2> QED
    BY <2>2, <2>3
<1>9. ASSUME CheckNames(s)
      PROVE  Done
  <2>1. UNCHANGED <<config, record, saved, root>>
    BY <1>9 DEF CheckNames, disk
  <2>2. ASSUME NEW how \in Resting, Leaves(s, how)
        PROVE  Done
    <3>1. how = "done" /\ command[s].verb = "job" => at[s] = "running" /\ running[s] = {}
      BY <1>1, <1>9, <2>2 DEF CheckNames, VerbFits, Leaves, Goes, Resting, OwnDomains, Shells
    <3> QED
      BY <1>2, <2>1, <2>2, <3>1
  <2>3. ASSUME ~ \E how \in Resting : Leaves(s, how)
        PROVE  WentOn(s) /\ at'[s] \notin Resting
    BY <1>1, <1>9, <2>1, <2>3 DEF CheckNames, WentOn, Goes, inMemory, OwnDomains, Shells, Resting
  <2> QED
    BY <2>2, <2>3
<1>10. ASSUME Kill(s)
      PROVE  Done
  <2>1. UNCHANGED <<config, record, saved, root>> /\ Leaves(s, "idle") /\ "idle" \in Resting
    BY <1>10 DEF Kill, disk, Resting
  <2> QED
    BY <1>2, <2>1
<1>11. ASSUME NEW k \in config.shells[s], Give(s, k)
      PROVE  Done
  <2>1. k.verb \in {"collect", "record", "job", "fold", "shot"}
    BY SettingsAssumption DEF Shape, Shells
  <2>2. UNCHANGED <<config, record, saved, root>>
    BY <1>11 DEF Give, disk
  <2> QED
    BY <1>1, <1>11, <2>1, <2>2 DEF Give, inMemory, WentOn, OwnDomains, Shells, Resting
<1>12. ASSUME OpenRecord(s)
      PROVE  Done
  <2>1. at'[s] \notin Resting /\ command' = command
    BY <1>1, <1>12 DEF OpenRecord, Goes, inMemory, own, OwnDomains, Shells, Resting
  <2> QED
    BY <1>12, <2>1 DEF Works
<1>13. ASSUME WriteRecord(s)
      PROVE  Done
  <2>1. at'[s] \notin Resting /\ command' = command
    BY <1>1, <1>13 DEF WriteRecord, Goes, inMemory, own, OwnDomains, Shells, Resting
  <2> QED
    BY <1>13, <2>1 DEF Works
<1>14. ASSUME ReadSaved(s)
      PROVE  Done
  <2>1. at'[s] \notin Resting /\ command' = command
    BY <1>1, <1>14 DEF ReadSaved, Goes, inMemory, own, OwnDomains, Shells, Resting
  <2> QED
    BY <1>14, <2>1 DEF Works
<1>15. ASSUME HandOut(s)
      PROVE  Done
  <2>1. at'[s] \notin Resting /\ command' = command
    BY <1>1, <1>15 DEF HandOut, Goes, inMemory, own, OwnDomains, Shells, Resting
  <2> QED
    BY <1>15, <2>1 DEF Works
<1>16. ASSUME CollectStops(s)
      PROVE  Done
  <2>1. at'[s] \notin Resting /\ command' = command
    BY <1>1, <1>16 DEF CollectStops, Goes, inMemory, own, OwnDomains, Shells, Resting
  <2> QED
    BY <1>16, <2>1 DEF Works
<1>17. ASSUME JobStarts(s)
      PROVE  Done
  <2>1. UNCHANGED <<config, record, saved, root>>
    BY <1>17 DEF JobStarts, disk
  <2>2. ASSUME NEW how \in Resting, Leaves(s, how)
        PROVE  Done
    <3>1. how # "done"
      BY <1>1, <1>17, <2>2 DEF JobStarts, Leaves, Goes, OwnDomains, Shells
    <3> QED
      BY <1>2, <2>1, <2>2, <3>1
  <2>3. ASSUME ~ \E how \in Resting : Leaves(s, how)
        PROVE  at'[s] \notin Resting /\ command' = command
    BY <1>1, <1>17, <2>3 DEF JobStarts, Goes, OwnDomains, Shells, Resting
  <2> QED
    BY <1>17, <2>2, <2>3 DEF Works
<1>13a. ASSUME FoldLists(s)
      PROVE  Done
  <2>1. UNCHANGED <<config, record, saved, root>>
    BY <1>13a DEF FoldLists, disk
  <2>2. ASSUME NEW how \in Resting, Leaves(s, how)
        PROVE  Done
    <3>1. how # "done"
      BY <1>1, <1>13a, <2>2 DEF FoldLists, Leaves, Goes, OwnDomains, Shells
    <3> QED
      BY <1>2, <2>1, <2>2, <3>1
  <2>3. ASSUME ~ \E how \in Resting : Leaves(s, how)
        PROVE  at'[s] \notin Resting /\ command' = command
    BY <1>1, <1>13a, <2>3 DEF FoldLists, Goes, OwnDomains, Shells, Resting
  <2> QED
    BY <1>13a, <2>2, <2>3 DEF Works
<1>19. ASSUME FoldStages(s)
      PROVE  Done
  <2>1. UNCHANGED <<config, record, saved, root>>
    BY <1>19 DEF FoldStages, disk
  <2>2. ASSUME NEW how \in Resting, Leaves(s, how)
        PROVE  Done
    <3>1. how # "done"
      BY <1>1, <1>19, <2>2 DEF FoldStages, Leaves, Goes, OwnDomains, Shells
    <3> QED
      BY <1>2, <2>1, <2>2, <3>1
  <2>3. ASSUME ~ \E how \in Resting : Leaves(s, how)
        PROVE  at'[s] \notin Resting /\ command' = command
    BY <1>1, <1>19, <2>3 DEF FoldStages, Goes, OwnDomains, Shells, Resting
  <2> QED
    BY <1>19, <2>2, <2>3 DEF Works
<1>20. ASSUME ListOldFiles(s)
      PROVE  Done
  <2>1. at'[s] \notin Resting /\ command' = command
    BY <1>1, <1>20 DEF ListOldFiles, Goes, inMemory, own, OwnDomains, Shells, Resting
  <2> QED
    BY <1>20, <2>1 DEF Works
<1>21. ASSUME ListNewFiles(s)
      PROVE  Done
  <2>1. at'[s] \notin Resting /\ command' = command
    BY <1>1, <1>21 DEF ListNewFiles, Goes, inMemory, own, OwnDomains, Shells, Resting
  <2> QED
    BY <1>21, <2>1 DEF Works
<1>22. ASSUME ReadRecords(s)
      PROVE  Done
  <2>1. UNCHANGED <<config, record, saved, root>>
    BY <1>22 DEF ReadRecords, disk
  <2>2. ASSUME NEW how \in Resting, Leaves(s, how)
        PROVE  Done
    <3>1. how # "done"
      BY <1>1, <1>22, <2>2 DEF ReadRecords, Leaves, Goes, OwnDomains, Shells
    <3> QED
      BY <1>2, <2>1, <2>2, <3>1
  <2>3. ASSUME ~ \E how \in Resting : Leaves(s, how)
        PROVE  at'[s] \notin Resting /\ command' = command
    BY <1>1, <1>22, <2>3 DEF ReadRecords, Goes, OwnDomains, Shells, Resting
  <2> QED
    BY <1>22, <2>2, <2>3 DEF Works
<1>23. ASSUME NEW u \in running[s], PieceEnds(s, u)
      PROVE  Done
  <2>1. at'[s] \notin Resting /\ command' = command
    BY <1>1, <1>23 DEF PieceEnds, own, OwnDomains, Shells, Resting
  <2> QED
    BY <1>23, <2>1 DEF Works
<1>24. ASSUME NEW u \in running[s], JobPieceEnds(s, u)
      PROVE  Done
  <2>1. at'[s] \notin Resting /\ command' = command
    BY <1>1, <1>24 DEF JobPieceEnds, own, OwnDomains, Shells, Resting
  <2> QED
    BY <1>24, <2>1 DEF Works
<1>25. ASSUME NEW f \in CsvFiles, MoveFile(s, f)
      PROVE  Done
  <2>1. at'[s] \notin Resting /\ command' = command
    BY <1>1, <1>25 DEF MoveFile, own, OwnDomains, Shells, Resting
  <2> QED
    BY <1>25, <2>1 DEF Works
<1>26. ASSUME NEW n \in Names, RecordSeeds(s, n)
      PROVE  Done
  <2>1. at'[s] \notin Resting /\ command' = command
    BY <1>1, <1>26 DEF RecordSeeds, own, OwnDomains, Shells, Resting
  <2> QED
    BY <1>26, <2>1 DEF Works
<1>27. ASSUME NEW f \in CsvFiles, RemoveFile(s, f)
      PROVE  Done
  <2>1. CASE root[f] = None
    <3>1. Leaves(s, "broken") /\ UNCHANGED <<config, record, saved, root>> /\ "broken" \in Resting
      BY <1>27, <2>1 DEF RemoveFile, Resting
    <3> QED
      BY <1>2, <3>1
  <2>2. CASE root[f] # None
    <3>1. at'[s] \notin Resting /\ command' = command
      BY <1>1, <1>27, <2>2 DEF RemoveFile, OwnDomains, Shells, Resting
    <3> QED
      BY <1>27, <3>1 DEF Works
  <2> QED
    BY <2>1, <2>2
<1> QED
    BY <1>3, <1>4, <1>5, <1>6, <1>7, <1>8, <1>9, <1>10, <1>11, <1>12, <1>13, <1>14, <1>15, <1>16, <1>17, <1>13a, <1>19, <1>20, <1>21, <1>22, <1>23, <1>24, <1>25, <1>26, <1>27 DEF Moves, Runs, Prepares, Collects, Folds

-----------------------------------------------------------------------------
(* The root *)

\* What a fold that puts its files in place has removed and moved in so far.
FoldInPlace(s) ==
    /\ at[s] = "clearing" =>
        files[s] \subseteq CsvFiles /\ \A f \in CsvFiles \ files[s] : root[f] = None
    /\ at[s] = "moving" =>
        /\ files[s] \subseteq CsvFiles
        /\ \A f \in CsvFiles : root[f] = IF f \in files[s] THEN None ELSE staged[s]
FoldsInPlace == \A s \in Shells : FoldInPlace(s)

\* In a folder with one desk a step that changes the root is the one fold's.
LEMMA OneFolds ==
    ASSUME Shape, OneDesk(config), NEW s \in Shells, NEW t \in Shells, s # t,
           at[s] \notin Resting \cup {"job", "running"},
           at[t] \notin Resting \cup {"job", "running"}
    PROVE  FALSE
<1>1. ASSUME NEW r \in Shells, at[r] \notin Resting \cup {"job", "running"}
      PROVE  command[r] \in config.shells[r] /\ command[r].verb # "job"
    <2>1. at[r] \in Places /\ command[r] \in config.shells[r] /\ VerbFits(r)
        BY <1>1 DEF Shape, ShapeOf
    <2> QED
        BY <1>1, <2>1 DEF VerbFits, Places, Resting
<1> QED
    BY <1>1 DEF OneDesk, Shells

LEMMA RootStep ==
    ASSUME Shape, OneDesk(config), FoldsInPlace, RootIsOfOneFold, NEW s \in Shells, Moves(s)
    PROVE  FoldsInPlace' /\ RootIsOfOneFold'
<1>1. /\ Shape' /\ config' = config /\ Shells' = Shells
      /\ \A t \in Shells \ {s} : Keeps(t)
    BY OneShellMoves DEF Shells
<1>2. /\ s \in DOMAIN at /\ s \in DOMAIN files /\ s \in DOMAIN staged
      /\ DOMAIN root = CsvFiles /\ FoldInPlace(s)
    BY DEF Shape, OwnDomains, FoldsInPlace
<1>3. ASSUME root' = root, at'[s] \notin {"clearing", "moving"}
      PROVE  FoldsInPlace' /\ RootIsOfOneFold'
    <2>1. ASSUME NEW t \in Shells
          PROVE  FoldInPlace(t)'
        <3>1. FoldInPlace(t) /\ (t # s => Keeps(t))
            BY <1>1 DEF FoldsInPlace
        <3> QED
            BY <1>3, <3>1 DEF FoldInPlace, Keeps
    <2> QED
        BY <1>1, <1>3, <2>1 DEF FoldsInPlace, RootIsOfOneFold
<1>4. ASSUME at[s] \in {"staged", "clearing", "moving"}, FoldInPlace(s)', RootIsOfOneFold'
      PROVE  FoldsInPlace' /\ RootIsOfOneFold'
    <2>1. ASSUME NEW t \in Shells
          PROVE  FoldInPlace(t)'
        <3>1. t = s \/ at[t] \notin {"clearing", "moving"}
            BY <1>4, OneFolds DEF Resting
        <3> QED
            BY <1>1, <1>4, <3>1 DEF FoldInPlace, Keeps
    <2> QED
        BY <1>1, <1>4, <2>1 DEF FoldsInPlace
<1>5. CASE Rested(s)
    BY <1>3, <1>5 DEF Rested, Resting
<1>6. CASE WentOn(s)
    BY <1>3, <1>6 DEF WentOn, Resting
<1>7. ASSUME \/ OpenRecord(s) \/ WriteRecord(s) \/ ReadSaved(s) \/ HandOut(s) \/ CollectStops(s)
             \/ (\E u \in running[s] : PieceEnds(s, u) \/ JobPieceEnds(s, u))
             \/ \E n \in Names : RecordSeeds(s, n)
      PROVE  FoldsInPlace' /\ RootIsOfOneFold'
    <2>1. root' = root /\ at'[s] \notin {"clearing", "moving"}
        BY <1>2, <1>7 DEF OpenRecord, WriteRecord, ReadSaved, HandOut, CollectStops, PieceEnds,
            JobPieceEnds, RecordSeeds, disk, own, Goes, Shells
    <2> QED
        BY <1>3, <2>1
<1>8. ASSUME JobStarts(s) \/ FoldLists(s) \/ FoldStages(s) \/ ReadRecords(s)
      PROVE  FoldsInPlace' /\ RootIsOfOneFold'
    <2>1. root' = root
        BY <1>8 DEF JobStarts, FoldLists, FoldStages, ReadRecords, disk
    <2>2. at'[s] \notin {"clearing", "moving"}
        BY <1>2, <1>8 DEF JobStarts, FoldLists, FoldStages, ReadRecords, Goes, Leaves
    <2> QED
        BY <1>3, <2>1, <2>2
<1>9. ASSUME ListOldFiles(s)
      PROVE  FoldsInPlace' /\ RootIsOfOneFold'
    <2>1. at[s] = "staged" /\ FoldInPlace(s)' /\ root' = root
        BY <1>2, <1>9 DEF ListOldFiles, Goes, FoldInPlace, disk
    <2> QED
        BY <1>4, <2>1 DEF RootIsOfOneFold
<1>10. ASSUME ListNewFiles(s)
      PROVE  FoldsInPlace' /\ RootIsOfOneFold'
    <2>1. at[s] = "clearing" /\ root' = root
        BY <1>10 DEF ListNewFiles, disk
    <2>2. FoldInPlace(s)'
        BY <1>2, <1>10 DEF ListNewFiles, Goes, FoldInPlace, disk
    <2> QED
        BY <1>4, <2>1, <2>2 DEF RootIsOfOneFold
<1>11. ASSUME NEW f \in CsvFiles, RemoveFile(s, f), at'[s] \notin Resting
       PROVE  FoldsInPlace' /\ RootIsOfOneFold'
    <2>1. /\ at[s] = "clearing" /\ at' = at /\ root' = [root EXCEPT ![f] = None]
          /\ files' = [files EXCEPT ![s] = @ \ {f}]
        <3>1. root[f] # None
            BY <1>2, <1>11 DEF RemoveFile, Leaves, Resting
        <3> QED
            BY <1>11, <3>1 DEF RemoveFile
    <2>2. FoldInPlace(s)'
        BY <1>2, <2>1 DEF FoldInPlace
    <2>3. RootIsOfOneFold'
        BY <1>2, <2>1 DEF RootIsOfOneFold
    <2> QED
        BY <1>4, <2>1, <2>2, <2>3
<1>12. ASSUME NEW f \in CsvFiles, MoveFile(s, f)
       PROVE  FoldsInPlace' /\ RootIsOfOneFold'
    <2>1. /\ at[s] = "moving" /\ at' = at /\ root' = [root EXCEPT ![f] = staged[s]]
          /\ files' = [files EXCEPT ![s] = @ \ {f}] /\ staged' = staged
        BY <1>12 DEF MoveFile
    <2>2. FoldInPlace(s)'
        BY <1>2, <2>1 DEF FoldInPlace
    <2>3. ASSUME NEW g \in CsvFiles
          PROVE  root'[g] \in {None, staged[s]}
        BY <1>2, <2>1 DEF FoldInPlace
    <2>4. RootIsOfOneFold'
        BY <2>3 DEF RootIsOfOneFold
    <2> QED
        BY <1>4, <2>1, <2>2, <2>4
<1>13. CASE Works(s) /\ at'[s] \notin Resting
    BY <1>7, <1>8, <1>9, <1>10, <1>11, <1>12, <1>13 DEF Works
<1> QED
    BY <1>5, <1>6, <1>13, StepsOfAShell

\* RootIsOfOneFold, for every history of a folder whose commands other than
\* jobs are given in one shell: two folds at once could each move in a file.
THEOREM RootStaysOfOneFold == Spec => [](OneDesk(config) => RootIsOfOneFold)
<1> DEFINE IInv == OneDesk(config) => FoldsInPlace /\ RootIsOfOneFold
<1>1. Init => IInv
    <2> SUFFICES ASSUME NEW c \in Settings, InitFor(c)
                 PROVE  FoldsInPlace /\ RootIsOfOneFold
        BY DEF Init
    <2> QED
        BY DEF InitFor, FoldsInPlace, FoldInPlace, RootIsOfOneFold, Shells
<1>2. ASSUME Shape, IInv, [Next]_vars
      PROVE  IInv'
    <2>1. CASE UNCHANGED vars
        BY <1>2, <2>1 DEF vars, disk, own, FoldsInPlace, FoldInPlace, RootIsOfOneFold, Shells
    <2>2. ASSUME NEW s \in Shells, Moves(s)
          PROVE  IInv'
        <3>1. config' = config
            BY <1>2, <2>2, OneShellMoves
        <3> QED
            BY <1>2, <2>2, <3>1, RootStep
    <2> QED
        BY <1>2, <2>1, <2>2, ShellsMove
<1>3. IInv => (OneDesk(config) => RootIsOfOneFold)
    OBVIOUS
<1> HIDE DEF IInv
<1> QED
    BY <1>1, <1>2, <1>3, ShapeIsKept, PTL DEF Spec

-----------------------------------------------------------------------------
(* The counted prefix *)

Trackers == [shots : Nat, scored : Nat, failures : Nat,
             stop : {None, "minimum", "target", "cap"}, open : BOOLEAN]

\* What the run files say of an entry.
EntriesOfFiles == UNION {Range(config.files[f]) : f \in DOMAIN config.files}

LEMMA EntryFacts ==
    ASSUME config \in Settings, NEW e \in EntriesOfFiles
    PROVE  /\ e.rule \in RuleType /\ e.id \in DOMAIN config.tasks
           /\ IsAdaptive(e.id) => e.rule.maxFailures = 0
    BY SettingsAssumption DEF EntriesOfFiles, IsAdaptive

\* The kind of stop, and that its order of tests leaves one of four.
LEMMA StopKindFacts ==
    ASSUME NEW rule \in RuleType, NEW t, t.shots \in Nat, t.scored \in Nat, t.failures \in Nat
    PROVE  /\ StopKind(rule, t) \in {None, "minimum", "target", "cap"}
           /\ t.shots >= rule.maxShots => StopKind(rule, t) # None
           /\ \A r : r.shots = t.shots /\ r.scored = t.scored /\ r.failures = t.failures
                => StopKind(rule, r) = StopKind(rule, t)
    BY ValuesAssumption DEF StopKind, ReachedTarget, RuleType

\* One more seed in a set that others of them are in.
LEMMA OneMoreSeed ==
    ASSUME NEW X, NEW first \in Nat, NEW n \in Nat
    PROVE  /\ Cardinality((first .. first + n - 1) \cap X) \in Nat
           /\ Cardinality((first .. first + (n + 1) - 1) \cap X)
                = Cardinality((first .. first + n - 1) \cap X)
                    + (IF first + n \in X THEN 1 ELSE 0)
<1> DEFINE S == (first .. first + n - 1) \cap X
           T == (first .. first + (n + 1) - 1) \cap X
<1>1. IsFiniteSet(S)
    <2>1. IsFiniteSet(first .. first + n - 1) /\ S \subseteq first .. first + n - 1
        BY FS_Interval
    <2> QED
        BY <2>1, FS_Subset
<1>2. T = IF first + n \in X THEN S \cup {first + n} ELSE S
    <2>1. first .. first + (n + 1) - 1 = (first .. first + n - 1) \cup {first + n}
        OBVIOUS
    <2> QED
        BY <2>1
<1>3. first + n \notin S
    OBVIOUS
<1>4. Cardinality(S) \in Nat
    BY <1>1, FS_CardinalityType
<1> HIDE DEF S, T
<1>5. Cardinality(S \cup {first + n}) = Cardinality(S) + 1
    BY <1>1, <1>3, FS_AddElement
<1>6. Cardinality(T) = Cardinality(S) + (IF first + n \in X THEN 1 ELSE 0)
    BY <1>2, <1>4, <1>5
<1> QED
    BY <1>4, <1>6 DEF S, T

\* The counts of an uncut run are numbers, and go up by one seed at a time.
LEMMA UncutCountsFacts ==
    ASSUME NEW id, NEW rule \in RuleType, NEW n \in Nat
    PROVE  LET a == UncutCounts(id, rule, n)
               b == UncutCounts(id, rule, n + 1)
               seed == rule.firstSeed + n
           IN  /\ a.shots = n /\ a.scored \in Nat /\ a.failures \in Nat
               /\ b.shots = n + 1
               /\ b.scored = a.scored + (IF seed \in config.tasks[id].scored THEN 1 ELSE 0)
               /\ b.failures = a.failures + (IF seed \in config.tasks[id].failing THEN 1 ELSE 0)
<1> DEFINE X == config.tasks[id].scored
           Y == config.tasks[id].failing
           first == rule.firstSeed
<1>1. first \in Nat /\ n + 1 \in Nat
    BY DEF RuleType
<1> HIDE DEF X, Y, first
<1>2. \A Z : /\ Cardinality((first .. first + n - 1) \cap Z) \in Nat
             /\ Cardinality((first .. first + (n + 1) - 1) \cap Z)
                    = Cardinality((first .. first + n - 1) \cap Z)
                        + (IF first + n \in Z THEN 1 ELSE 0)
    BY <1>1, OneMoreSeed
<1> QED
    BY <1>2 DEF UncutCounts, X, Y, first

\* Where an uncut run stops: nowhere before it.
LEMMA UncutStopFacts ==
    ASSUME NEW id, NEW rule \in RuleType
    PROVE  /\ UncutStop(id, rule) \in 1 .. rule.maxShots
           /\ StopKind(rule, UncutCounts(id, rule, UncutStop(id, rule))) # None
           /\ \A n \in 1 .. UncutStop(id, rule) - 1 :
                StopKind(rule, UncutCounts(id, rule, n)) = None
<1> DEFINE stop(n) == StopKind(rule, UncutCounts(id, rule, n))
           S == {n \in 1 .. rule.maxShots : stop(n) # None}
<1>1. rule.maxShots \in Nat \ {0}
    BY DEF RuleType
<1>2. rule.maxShots \in S
    <2>1. LET a == UncutCounts(id, rule, rule.maxShots)
          IN  a.shots = rule.maxShots /\ a.scored \in Nat /\ a.failures \in Nat
        BY <1>1, UncutCountsFacts
    <2>2. stop(rule.maxShots) # None
        BY <1>1, <2>1, StopKindFacts
    <2> QED
        BY <1>1, <2>2
<1> HIDE DEF stop
<1>3. IsFiniteSet(S)
    <2>1. IsFiniteSet(1 .. rule.maxShots) /\ S \subseteq 1 .. rule.maxShots
        BY <1>1, FS_Interval
    <2> QED
        BY <2>1, FS_Subset
<1>4. \A n \in S : n \in Int
    BY <1>1
<1>5. Min(S) \in S /\ \A n \in S : Min(S) <= n
    BY <1>2, <1>3, <1>4, MinFacts
<1>6. \A n \in 1 .. Min(S) - 1 : stop(n) = None
    BY <1>1, <1>5
<1>7. UncutStop(id, rule) = Min(S)
    BY DEF UncutStop, stop
<1> QED
    BY <1>5, <1>6, <1>7 DEF stop

\* A prefix that goes on has not stopped, and is an uncut run's.
UncutPrefix(id, rule, t) ==
    t \in Trackers /\ IsAnUncutRun(id, rule, t) /\ (t.open => t.stop = None)

LEMMA StartIsUncut ==
    ASSUME NEW id, NEW rule \in RuleType
    PROVE  UncutPrefix(id, rule, StartOfPrefix)
<1>1. StartOfPrefix \in Trackers
    BY DEF StartOfPrefix, Trackers
<1>2. UncutStop(id, rule) \in 1 .. rule.maxShots /\ rule.maxShots \in Nat
    BY UncutStopFacts DEF RuleType
<1>3. rule.firstSeed .. rule.firstSeed + 0 - 1 = {}
    BY DEF RuleType
<1>4. UncutCounts(id, rule, 0).scored = 0 /\ UncutCounts(id, rule, 0).failures = 0
    BY <1>3, FS_EmptySet DEF UncutCounts
<1> QED
    BY <1>1, <1>2, <1>4 DEF UncutPrefix, IsAnUncutRun, StartOfPrefix

\* A row that follows the prefix goes on with it, one that does not closes it,
\* and the prefix stays that of an uncut run.
LEMMA AddShotFacts ==
    ASSUME NEW id, NEW rule \in RuleType, NEW t, UncutPrefix(id, rule, t), NEW seed \in Nat
    PROVE  LET r == AddShot(id, rule, t, seed)
           IN  /\ UncutPrefix(id, rule, r)
               /\ ~t.open => r = t
               /\ t.open /\ seed = rule.firstSeed + t.shots
                    => r.shots = t.shots + 1 /\ (r.open <=> r.stop = None)
               /\ t.open /\ seed # rule.firstSeed + t.shots
                    => r.shots = t.shots /\ ~r.open /\ r.stop = None
<1> DEFINE r == AddShot(id, rule, t, seed)
           a == UncutCounts(id, rule, t.shots)
           b == UncutCounts(id, rule, t.shots + 1)
           end == UncutStop(id, rule)
<1>1. /\ t \in Trackers /\ t.shots <= end /\ t.scored = a.scored /\ t.failures = a.failures
      /\ t.stop = IF t.shots = end THEN StopKind(rule, a) ELSE None
      /\ t.open => t.stop = None
    BY DEF UncutPrefix, IsAnUncutRun
<1>2. t.shots \in Nat /\ rule.firstSeed \in Nat
    BY <1>1 DEF Trackers, RuleType
<1>3. CASE ~t.open
    BY <1>3 DEF AddShot
<1>4. CASE t.open /\ seed # rule.firstSeed + t.shots
    <2>1. r = [t EXCEPT !.open = FALSE]
        BY <1>4 DEF AddShot
    <2>2. r \in Trackers /\ r.shots = t.shots /\ r.scored = t.scored /\ r.failures = t.failures
          /\ r.stop = t.stop /\ ~r.open
        BY <1>1, <2>1 DEF Trackers
    <2> HIDE DEF r
    <2>3. UncutPrefix(id, rule, r)
        BY <1>1, <2>2 DEF UncutPrefix, IsAnUncutRun
    <2> QED
        BY <1>1, <1>4, <2>2, <2>3 DEF r
<1>5. CASE t.open /\ seed = rule.firstSeed + t.shots
    <2> DEFINE n == [t EXCEPT !.shots = @ + 1,
                              !.scored = @ + (IF seed \in config.tasks[id].scored THEN 1 ELSE 0),
                              !.failures = @ + (IF seed \in config.tasks[id].failing THEN 1 ELSE 0)]
               stop == StopKind(rule, n)
    <2>1. r = [n EXCEPT !.stop = stop, !.open = (stop = None)]
        BY <1>5 DEF AddShot
    <2>2. /\ n \in Trackers /\ n.shots = t.shots + 1
          /\ n.scored = t.scored + (IF seed \in config.tasks[id].scored THEN 1 ELSE 0)
          /\ n.failures = t.failures + (IF seed \in config.tasks[id].failing THEN 1 ELSE 0)
        <3> DEFINE one == IF seed \in config.tasks[id].scored THEN 1 ELSE 0
                   two == IF seed \in config.tasks[id].failing THEN 1 ELSE 0
        <3>1. /\ one \in Nat /\ two \in Nat
              /\ n = [t EXCEPT !.shots = @ + 1, !.scored = @ + one, !.failures = @ + two]
            OBVIOUS
        <3> HIDE DEF one, two, n, r, stop
        <3>4. /\ t.shots \in Nat /\ t.scored \in Nat /\ t.failures \in Nat
              /\ t.stop \in {None, "minimum", "target", "cap"} /\ t.open \in BOOLEAN
              /\ t = [shots |-> t.shots, scored |-> t.scored, failures |-> t.failures,
                      stop |-> t.stop, open |-> t.open]
            BY <1>1 DEF Trackers
        <3>5. n = [shots |-> t.shots + 1, scored |-> t.scored + one,
                   failures |-> t.failures + two, stop |-> t.stop, open |-> t.open]
            BY <3>1, <3>4
        <3>2. /\ n \in Trackers /\ n.shots = t.shots + 1
              /\ n.scored = t.scored + one /\ n.failures = t.failures + two
            BY <3>1, <3>4, <3>5 DEF Trackers
        <3> QED
            BY <3>2 DEF one, two
    <2> HIDE DEF n
    <2>3. /\ stop \in {None, "minimum", "target", "cap"}
          /\ \A x : x.shots = n.shots /\ x.scored = n.scored /\ x.failures = n.failures
                => StopKind(rule, x) = stop
        <3>1. n.shots \in Nat /\ n.scored \in Nat /\ n.failures \in Nat
            BY <2>2 DEF Trackers
        <3> QED
            BY <3>1, StopKindFacts
    <2> HIDE DEF stop
    <2>4. /\ r \in Trackers /\ r.shots = t.shots + 1 /\ r.scored = n.scored
          /\ r.failures = n.failures /\ r.stop = stop /\ (r.open <=> stop = None)
        BY <2>1, <2>2, <2>3 DEF Trackers
    <2>5. b.shots = n.shots /\ b.scored = n.scored /\ b.failures = n.failures
        <3>1. seed = rule.firstSeed + t.shots
            BY <1>5
        <3>2. /\ b.shots = t.shots + 1
              /\ b.scored = a.scored + (IF seed \in config.tasks[id].scored THEN 1 ELSE 0)
              /\ b.failures = a.failures + (IF seed \in config.tasks[id].failing THEN 1 ELSE 0)
            BY <1>2, <3>1, UncutCountsFacts
        <3> QED
            BY <1>1, <2>2, <3>2
    <2>6. StopKind(rule, b) = stop
        BY <2>3, <2>5
    <2>7. t.shots # end
        <3>1. StopKind(rule, UncutCounts(id, rule, end)) # None
            BY UncutStopFacts
        <3> QED
            BY <1>1, <1>5, <3>1
    <2>8. end \in Nat /\ t.shots + 1 <= end
        <3>1. end \in 1 .. rule.maxShots /\ rule.maxShots \in Nat
            BY UncutStopFacts DEF RuleType
        <3> HIDE DEF end
        <3> QED
            BY <1>1, <1>2, <2>7, <3>1
    <2>9. stop = IF t.shots + 1 = end THEN StopKind(rule, b) ELSE None
        <3>1. ASSUME t.shots + 1 # end
              PROVE  StopKind(rule, b) = None
            <4>1. t.shots + 1 \in 1 .. end - 1
                BY <1>2, <2>8, <3>1
            <4> QED
                BY <4>1, UncutStopFacts
        <3> QED
            BY <2>6, <3>1
    <2> HIDE DEF r, b, end
    <2>10. UncutPrefix(id, rule, r)
        BY <2>4, <2>5, <2>8, <2>9 DEF UncutPrefix, IsAnUncutRun, b, end
    <2> QED
        BY <1>5, <2>4, <2>10 DEF r
<1> QED
    BY <1>3, <1>4, <1>5

\* Where a prefix stands after the first n rows of a piece that follows it.
GoesOn(rule, t, r, n) ==
    \/ r.open /\ r.stop = None /\ r.shots = t.shots + n
    \/ ~r.open /\ r.stop # None /\ r.shots <= t.shots + n

\* The rows of a piece that follows the prefix, one by one.
LEMMA AddPieceFacts ==
    ASSUME NEW id, NEW rule \in RuleType, NEW t, UncutPrefix(id, rule, t), NEW p \in Spans
    PROVE  LET r == AddPiece(id, rule, t, p)
           IN  /\ UncutPrefix(id, rule, r)
               /\ t.open /\ p.first = rule.firstSeed + t.shots => GoesOn(rule, t, r, p.count)
<1> DEFINE V == {x \in Trackers : UncutPrefix(id, rule, x)}
           top == p.count
           step == [n \in 1 .. top |-> [x \in V |-> AddShot(id, rule, x, p.first + n - 1)]]
<1>1. p.first \in Nat /\ top \in Nat /\ t \in V
    BY DEF Spans, UncutPrefix
<1>2. ASSUME NEW n \in 1 .. top, NEW x \in V
      PROVE  AddShot(id, rule, x, p.first + n - 1) \in V
    <2>1. p.first + n - 1 \in Nat
        BY <1>1
    <2>2. UncutPrefix(id, rule, AddShot(id, rule, x, p.first + n - 1))
        BY <2>1, AddShotFacts
    <2> QED
        BY <2>2 DEF UncutPrefix
<1>3. step \in [1 .. top -> [V -> V]]
    BY <1>2
<1> HIDE DEF V
<1>4. PICK d \in [0 .. top -> V] : RunsUp(d, top, t, step)
    <2> HIDE DEF top, step
    <2> QED
        BY <1>1, <1>3, UpwardRecursion
<1>5. ASSUME NEW n \in 1 .. top
      PROVE  d[n] = AddShot(id, rule, d[n - 1], p.first + n - 1)
    <2>1. n - 1 \in 0 .. top
        BY <1>1
    <2> QED
        BY <1>4, <2>1 DEF RunsUp
<1> DEFINE body(f) == [n \in 0 .. top |->
                IF n = 0 THEN t ELSE AddShot(id, rule, f[n - 1], p.first + n - 1)]
           after == CHOOSE f : f = body(f)
<1>6. d = body(d)
    <2>1. ASSUME NEW n \in 0 .. top
          PROVE  d[n] = body(d)[n]
        <3>1. n = 0 \/ n \in 1 .. top
            BY <1>1
        <3> QED
            BY <1>4, <1>5, <3>1 DEF RunsUp
    <2> QED
        BY <1>4, <2>1
<1>7. after = body(after)
    <2> HIDE DEF body
    <2> QED
        BY <1>6
<1>8. AddPiece(id, rule, t, p) = after[top]
    BY DEF AddPiece
<1> HIDE DEF after
<1>9. after[0] = t
    BY <1>1, <1>7
<1>10. ASSUME NEW n \in 1 .. top
       PROVE  after[n] = AddShot(id, rule, after[n - 1], p.first + n - 1)
    BY <1>1, <1>7
<1> HIDE DEF top
<1>11. \A n \in 0 .. top : UncutPrefix(id, rule, after[n])
    <2> DEFINE T == {n \in 0 .. top : UncutPrefix(id, rule, after[n])}
    <2>1. 0 \in T
        BY <1>1, <1>9
    <2>2. ASSUME NEW n \in 1 .. top, n - 1 \in T
          PROVE  n \in T
        <3>1. p.first + n - 1 \in Nat
            BY <1>1
        <3> QED
            BY <1>10, <2>2, <3>1, AddShotFacts
    <2> HIDE DEF T
    <2>3. \A n \in 0 .. top : n \in T
        BY <1>1, <2>1, <2>2, ClimbsUp
    <2> QED
        BY <2>3 DEF T
<1>12. ASSUME t.open, p.first = rule.firstSeed + t.shots
       PROVE  \A n \in 0 .. top : GoesOn(rule, t, after[n], n)
    <2> DEFINE T == {n \in 0 .. top : GoesOn(rule, t, after[n], n)}
    <2>1. rule.firstSeed \in Nat /\ t.shots \in Nat /\ t.stop = None
        BY <1>12 DEF RuleType, UncutPrefix, Trackers
    <2>2. 0 \in T
        BY <1>1, <1>9, <1>12, <2>1 DEF GoesOn
    <2>3. ASSUME NEW n \in 1 .. top, n - 1 \in T
          PROVE  n \in T
        <3> DEFINE x == after[n - 1]
                   seed == p.first + n - 1
        <3>1. seed \in Nat /\ n \in 0 .. top /\ n - 1 \in 0 .. top
            BY <1>1
        <3>2. UncutPrefix(id, rule, x) /\ GoesOn(rule, t, x, n - 1)
            BY <1>11, <2>3, <3>1
        <3>3. after[n] = AddShot(id, rule, x, seed)
            BY <1>10
        <3> HIDE DEF x, seed
        <3>4. CASE ~x.open /\ x.stop # None
            <4>1. after[n] = x
                BY <3>1, <3>2, <3>3, <3>4, AddShotFacts
            <4>2. x.shots \in Nat /\ x.shots <= t.shots + (n - 1)
                BY <3>2, <3>4 DEF GoesOn, UncutPrefix, Trackers
            <4>3. x.shots <= t.shots + n
                BY <2>1, <4>2
            <4> QED
                BY <3>1, <3>4, <4>1, <4>3 DEF GoesOn
        <3>5. CASE x.open /\ x.shots = t.shots + (n - 1)
            <4>1. seed = rule.firstSeed + x.shots
                BY <1>12, <2>1, <3>5 DEF seed
            <4>2. /\ after[n].shots = x.shots + 1 /\ (after[n].open <=> after[n].stop = None)
                  /\ UncutPrefix(id, rule, after[n])
                BY <3>1, <3>2, <3>3, <3>5, <4>1, AddShotFacts
            <4>3. after[n].shots = t.shots + n /\ after[n].shots <= t.shots + n
                BY <2>1, <3>5, <4>2
            <4> QED
                BY <3>1, <4>2, <4>3 DEF GoesOn
        <3> QED
            BY <3>2, <3>4, <3>5 DEF GoesOn
    <2> HIDE DEF T
    <2>4. \A n \in 0 .. top : n \in T
        BY <1>1, <2>2, <2>3, ClimbsUp
    <2> QED
        BY <2>4 DEF T
<1>13. top \in 0 .. top /\ top = p.count
    BY <1>1 DEF top
<1> QED
    BY <1>8, <1>11, <1>12, <1>13

-----------------------------------------------------------------------------
(* The pieces of a task that wait for their turn *)

Collections ==
    [entry : EntriesOfFiles, saved : SUBSET Spans, next : Nat, pending : Seq(Spans),
     finished : SUBSET Spans, handedOut : Nat, last : Spans \cup {None}, tracker : Trackers]

\* Spans that follow one another.
IsChain(s) == \A i \in 1 .. Len(s) - 1 : s[i + 1].first = s[i].first + s[i].count

LEMMA ChainsIncrease ==
    ASSUME NEW s \in Seq(Spans), IsChain(s)
    PROVE  /\ \A i, j \in 1 .. Len(s) : i < j => s[i].first + s[i].count <= s[j].first
           /\ IsInjective(s)
<1>1. Len(s) \in Nat /\ DOMAIN s = 1 .. Len(s)
    BY LenProperties
<1>2. \A i \in 1 .. Len(s) : s[i].first \in Nat /\ s[i].count \in Nat \ {0}
    <2>1. \A i \in 1 .. Len(s) : s[i] \in Spans
        BY <1>1
    <2> QED
        BY <2>1 DEF Spans
<1>3. ASSUME NEW i \in 1 .. Len(s), NEW j \in 1 .. Len(s), i < j
      PROVE  s[i].first + s[i].count <= s[j].first
    <2> DEFINE T == {n \in 0 .. Len(s) : i < n => s[i].first + s[i].count <= s[n].first}
    <2>1. 0 \in T
        BY <1>1
    <2>2. ASSUME NEW n \in 1 .. Len(s), n - 1 \in T
          PROVE  n \in T
        <3>1. CASE i >= n
            BY <1>1, <3>1
        <3>2. CASE i < n
            <4>1. n - 1 \in 1 .. Len(s) - 1 /\ (n - 1) + 1 = n
                BY <1>1, <3>2
            <4>2. s[n].first = s[n - 1].first + s[n - 1].count
                BY <4>1 DEF IsChain
            <4>3. n - 1 \in 1 .. Len(s) /\ n \in 1 .. Len(s)
                BY <1>1, <4>1
            <4>4. n - 1 = i \/ s[i].first + s[i].count <= s[n - 1].first
                BY <1>1, <2>2, <3>2
            <4>5. s[i].first + s[i].count <= s[n].first
                BY <1>2, <4>2, <4>3, <4>4
            <4> QED
                BY <1>1, <4>5
        <3> QED
            BY <1>1, <3>1, <3>2
    <2> DEFINE top == Len(s)
    <2>3. top \in Nat /\ j \in 0 .. top /\ \A n \in 1 .. top : n - 1 \in T => n \in T
        BY <1>1, <2>2
    <2> HIDE DEF T, top
    <2>4. j \in T
        BY <2>1, <2>3, ClimbsUp
    <2> QED
        BY <1>3, <2>4 DEF T
<1>4. ASSUME NEW i \in 1 .. Len(s), NEW j \in 1 .. Len(s), s[i] = s[j], i < j
      PROVE  FALSE
    <2>1. s[i].first + s[i].count <= s[i].first
        BY <1>3, <1>4
    <2> QED
        BY <1>2, <2>1
<1>5. IsInjective(s)
    <2> SUFFICES ASSUME NEW i \in 1 .. Len(s), NEW j \in 1 .. Len(s), s[i] = s[j]
                 PROVE  i = j
        BY <1>1 DEF IsInjective
    <2>1. ~ (i < j) /\ ~ (j < i)
        BY <1>4
    <2> QED
        BY <1>1, <2>1
<1> QED
    BY <1>3, <1>5

\* What count_the_finished takes and leaves.
Counts(c, taken, after) ==
    LET id == c.entry.id  rule == c.entry.rule
    IN  /\ after[0] = c.tracker
        /\ \A n \in 1 .. Len(c.pending) :
            after[n] = AddPiece(id, rule, after[n - 1], c.pending[n])
        /\ \A i \in 1 .. taken : c.pending[i] \in c.finished /\ after[i - 1].stop = None
        /\ taken < Len(c.pending)
            => ~(c.pending[taken + 1] \in c.finished /\ after[taken].stop = None)
        /\ CountTheFinished(c) =
            [c EXCEPT !.tracker = after[taken],
                      !.finished = @ \ {c.pending[i] : i \in 1 .. taken},
                      !.pending = SubSeq(@, taken + 1, Len(@))]

LEMMA CountFacts ==
    ASSUME config \in Settings, NEW c \in Collections,
           UncutPrefix(c.entry.id, c.entry.rule, c.tracker)
    PROVE  \E taken \in 0 .. Len(c.pending) : \E after :
                /\ Counts(c, taken, after)
                /\ \A n \in 0 .. Len(c.pending) :
                    UncutPrefix(c.entry.id, c.entry.rule, after[n])
<1> DEFINE id == c.entry.id
           rule == c.entry.rule
           top == Len(c.pending)
           V == {x \in Trackers : UncutPrefix(id, rule, x)}
           step == [n \in 1 .. top |-> [x \in V |-> AddPiece(id, rule, x, c.pending[n])]]
<1>1. /\ c.entry \in EntriesOfFiles /\ rule \in RuleType /\ c.pending \in Seq(Spans)
      /\ top \in Nat /\ c.tracker \in V
    BY EntryFacts DEF Collections, UncutPrefix
<1>2. ASSUME NEW n \in 1 .. top, NEW x \in V
      PROVE  AddPiece(id, rule, x, c.pending[n]) \in V
    <2>1. c.pending[n] \in Spans
        BY <1>1
    <2>2. UncutPrefix(id, rule, AddPiece(id, rule, x, c.pending[n]))
        BY <1>1, <2>1, AddPieceFacts
    <2> QED
        BY <2>2 DEF UncutPrefix
<1>3. step \in [1 .. top -> [V -> V]]
    BY <1>2
<1> HIDE DEF V
<1>4. PICK d \in [0 .. top -> V] : RunsUp(d, top, c.tracker, step)
    <2> DEFINE first == c.tracker
    <2>1. top \in Nat /\ first \in V
        BY <1>1
    <2> HIDE DEF top, step, first
    <2>2. \E d \in [0 .. top -> V] : RunsUp(d, top, first, step)
        BY <1>3, <2>1, UpwardRecursion
    <2> QED
        BY <2>2 DEF first
<1>5. ASSUME NEW n \in 1 .. top
      PROVE  d[n] = AddPiece(id, rule, d[n - 1], c.pending[n])
    <2>1. n - 1 \in 0 .. top
        BY <1>1
    <2> QED
        BY <1>4, <2>1 DEF RunsUp
<1> DEFINE body(f) == [n \in 0 .. top |->
                IF n = 0 THEN c.tracker ELSE AddPiece(id, rule, f[n - 1], c.pending[n])]
           after == CHOOSE f : f = body(f)
           counts(n) == c.pending[n] \in c.finished /\ after[n - 1].stop = None
           ends(n) == /\ \A i \in 1 .. n : counts(i)
                      /\ n < top => ~ counts(n + 1)
           taken == CHOOSE n \in 0 .. top : ends(n)
<1>6. d = body(d)
    <2>1. ASSUME NEW n \in 0 .. top
          PROVE  d[n] = body(d)[n]
        <3>1. n = 0 \/ n \in 1 .. top
            BY <1>1
        <3> QED
            BY <1>4, <1>5, <3>1 DEF RunsUp
    <2> QED
        BY <1>4, <2>1
<1>7. after = body(after)
    <2> HIDE DEF body
    <2> QED
        BY <1>6
<1>8. CountTheFinished(c) =
        [c EXCEPT !.tracker = after[taken],
                  !.finished = @ \ {c.pending[i] : i \in 1 .. taken},
                  !.pending = SubSeq(@, taken + 1, Len(@))]
    BY DEF CountTheFinished
<1> HIDE DEF after
<1>9. after[0] = c.tracker
    BY <1>1, <1>7
<1>10. ASSUME NEW n \in 1 .. top
       PROVE  after[n] = AddPiece(id, rule, after[n - 1], c.pending[n])
    BY <1>1, <1>7
<1>11. \A n \in 0 .. top : UncutPrefix(id, rule, after[n])
    <2> DEFINE T == {n \in 0 .. top : UncutPrefix(id, rule, after[n])}
    <2>1. 0 \in T
        BY <1>1, <1>9
    <2>2. ASSUME NEW n \in 1 .. top, n - 1 \in T
          PROVE  n \in T
        <3>1. c.pending[n] \in Spans /\ UncutPrefix(id, rule, after[n - 1])
            BY <1>1, <2>2
        <3>2. UncutPrefix(id, rule, after[n])
            BY <1>1, <1>10, <3>1, AddPieceFacts
        <3> QED
            BY <1>1, <3>2
    <2> HIDE DEF T
    <2>3. \A n \in 0 .. top : n \in T
        BY <1>1, <2>1, <2>2, ClimbsUp
    <2> QED
        BY <2>3 DEF T
<1> HIDE DEF counts
<1>12. \E n \in 0 .. top : ends(n)
    <2> DEFINE S == {n \in 0 .. top : n < top => ~ counts(n + 1)}
    <2>1. S \subseteq Nat /\ top \in S
        BY <1>1
    <2>2. PICK n \in S : \A m \in S : n <= m
        BY <2>1, LeastNatural
    <2>3. ASSUME NEW i \in 1 .. n
          PROVE  counts(i)
        <3>1. i - 1 \in 0 .. top /\ i - 1 < top /\ (i - 1) + 1 = i /\ ~ (n <= i - 1)
            BY <1>1, <2>1
        <3> QED
            BY <2>2, <3>1
    <2> QED
        BY <2>2, <2>3
<1>13. taken \in 0 .. top /\ ends(taken)
    BY <1>12
<1> HIDE DEF taken
<1>14. Counts(c, taken, after)
    BY <1>8, <1>9, <1>10, <1>13 DEF Counts, counts
<1> QED
    BY <1>11, <1>13, <1>14

\* The spans handed out of which no result has come.
Waits(c) == Range(c.pending) \ c.finished

\* A collection whose waiting pieces follow its counted prefix.
Counting(c) ==
    /\ c \in Collections
    /\ UncutPrefix(c.entry.id, c.entry.rule, c.tracker)
    /\ IsChain(c.pending) /\ c.finished \subseteq Range(c.pending)
    /\ c.pending # <<>> =>
        c.next = c.pending[Len(c.pending)].first + c.pending[Len(c.pending)].count
    /\ c.entry.rule.firstSeed + c.tracker.shots <= c.next
    /\ c.tracker.stop = None =>
        /\ c.tracker.open
        /\ c.entry.rule.firstSeed + c.tracker.shots
            = IF c.pending = <<>> THEN c.next ELSE c.pending[1].first

\* Its first waiting piece has not ended.
HeadWaits(c) ==
    c.tracker.stop = None /\ c.pending # <<>> => c.pending[1] \notin c.finished

LEMMA CountKeeps ==
    ASSUME config \in Settings, NEW c, Counting(c)
    PROVE  LET r == CountTheFinished(c)
           IN  /\ Counting(r) /\ HeadWaits(r) /\ Waits(r) = Waits(c)
               /\ r.entry = c.entry /\ r.saved = c.saved /\ r.next = c.next
               /\ r.last = c.last /\ r.handedOut = c.handedOut
<1> DEFINE id == c.entry.id
           rule == c.entry.rule
           s == c.pending
           top == Len(s)
           r == CountTheFinished(c)
           first == rule.firstSeed
<1>1. /\ c \in Collections /\ UncutPrefix(id, rule, c.tracker)
      /\ c.finished \subseteq Range(s) /\ s \in Seq(Spans) /\ IsChain(s)
      /\ c.entry \in EntriesOfFiles /\ rule \in RuleType
    BY EntryFacts DEF Counting, Collections
<1>2. /\ top \in Nat /\ top = Len(s) /\ DOMAIN s = 1 .. top /\ (s = <<>> <=> top = 0)
      /\ first \in Nat /\ c.next \in Nat
      /\ \A i \in 1 .. top : s[i] \in Spans /\ s[i].first \in Nat /\ s[i].count \in Nat \ {0}
    <2>1. top \in Nat /\ DOMAIN s = 1 .. top /\ (s = <<>> <=> top = 0)
        BY <1>1, EmptySeq, LenProperties
    <2>2. \A i \in 1 .. top : s[i] \in Spans
        BY <1>1, <2>1
    <2> QED
        BY <1>1, <2>1, <2>2 DEF Spans, RuleType, Collections
<1>3. IsInjective(s)
    BY <1>1, ChainsIncrease
<1>0. PICK taken \in 0 .. top : \E after :
        /\ Counts(c, taken, after)
        /\ \A n \in 0 .. top : UncutPrefix(id, rule, after[n])
    BY <1>1, CountFacts
<1>4. PICK after :
        /\ Counts(c, taken, after)
        /\ \A n \in 0 .. top : UncutPrefix(id, rule, after[n])
    BY <1>0
<1>5. /\ after[0] = c.tracker
      /\ \A n \in 1 .. top : after[n] = AddPiece(id, rule, after[n - 1], s[n])
      /\ \A i \in 1 .. taken : s[i] \in c.finished /\ after[i - 1].stop = None
      /\ taken < top => ~(s[taken + 1] \in c.finished /\ after[taken].stop = None)
      /\ r = [c EXCEPT !.tracker = after[taken],
                       !.finished = c.finished \ {s[i] : i \in 1 .. taken},
                       !.pending = SubSeq(s, taken + 1, top)]
    BY <1>4 DEF Counts
<1> DEFINE left == SubSeq(s, taken + 1, top)
<1>6. /\ left \in Seq(Spans) /\ Len(left) = top - taken /\ DOMAIN left = 1 .. top - taken
      /\ \A i \in 1 .. top - taken : left[i] = s[taken + i]
      /\ left = <<>> <=> taken = top
    <2> HIDE DEF s, left
    <2>1. left \in Seq(Spans) /\ Len(left) = top - taken
        BY <1>1, <1>2, <1>4, SplitFacts DEF left
    <2>2. \A i \in 1 .. top - taken : left[i] = s[taken + i]
        BY <1>1, <1>2, <1>4, SubSeqProperties DEF left
    <2>3. left = <<>> <=> Len(left) = 0
        BY <2>1, EmptySeq
    <2>4. DOMAIN left = 1 .. top - taken
        BY <1>2, <2>1, LenProperties
    <2>5. left = <<>> <=> taken = top
        <3>1. Len(left) = top - taken /\ top \in Nat /\ taken \in Nat
            BY <1>2, <1>4, <2>1
        <3> HIDE DEF top
        <3>2. Len(left) = 0 <=> taken = top
            BY <3>1
        <3> QED
            BY <2>3, <3>2
    <2> QED
        BY <2>1, <2>2, <2>4, <2>5
<1> HIDE DEF s, top, left, r, first, id, rule
<1>7. /\ r \in Collections /\ r.tracker = after[taken] /\ r.pending = left
      /\ r.finished = c.finished \ {s[i] : i \in 1 .. taken}
      /\ r.entry = c.entry /\ r.saved = c.saved /\ r.next = c.next
      /\ r.last = c.last /\ r.handedOut = c.handedOut
    <2>1. after[taken] \in Trackers
        BY <1>4 DEF UncutPrefix
    <2>2. left \in Seq(Spans) /\ r = [c EXCEPT !.tracker = after[taken],
                       !.finished = c.finished \ {s[i] : i \in 1 .. taken},
                       !.pending = left]
        BY <1>5, <1>6 DEF left
    <2> QED
        BY <1>1, <2>1, <2>2 DEF Collections
<1>8. Range(s) = {s[i] : i \in 1 .. taken} \cup Range(left)
    <2>1. ASSUME NEW x \in Range(s)
          PROVE  x \in {s[i] : i \in 1 .. taken} \cup Range(left)
        <3>1. PICK i \in 1 .. top : x = s[i]
            BY <1>2 DEF Range
        <3>2. CASE i > taken
            <4>1. i - taken \in 1 .. top - taken /\ taken + (i - taken) = i
                BY <1>2, <1>4, <3>2
            <4>2. left[i - taken] = x
                BY <1>6, <3>1, <4>1
            <4> QED
                BY <1>6, <4>1, <4>2 DEF Range
        <3>3. CASE i <= taken
            BY <1>4, <3>1, <3>3
        <3> QED
            BY <1>2, <1>4, <3>2, <3>3
    <2>2. ASSUME NEW i \in 1 .. top - taken
          PROVE  left[i] \in Range(s)
        <3>1. taken + i \in 1 .. top
            BY <1>2, <1>4
        <3> QED
            BY <1>2, <1>6, <3>1 DEF Range
    <2>3. ASSUME NEW i \in 1 .. taken
          PROVE  s[i] \in Range(s)
        BY <1>2, <1>4 DEF Range
    <2> QED
        BY <1>6, <2>1, <2>2, <2>3 DEF Range
<1>9. ASSUME NEW i \in 1 .. taken
      PROVE  s[i] \notin Range(left)
    <2>1. ASSUME NEW j \in 1 .. top - taken
          PROVE  left[j] # s[i]
        <3>1. taken + j \in 1 .. top /\ i \in 1 .. top /\ taken + j # i
            BY <1>2, <1>4
        <3> QED
            BY <1>2, <1>3, <1>6, <3>1 DEF IsInjective
    <2> QED
        BY <1>6, <2>1 DEF Range
<1>10. r.finished \subseteq Range(left) /\ Waits(r) = Waits(c)
    <2>1. Range(left) \ r.finished = Range(s) \ c.finished
        BY <1>5, <1>7, <1>8, <1>9
    <2>2. r.finished \subseteq Range(left)
        BY <1>1, <1>7, <1>8
    <2> QED
        BY <1>7, <2>1, <2>2 DEF Waits, s
<1>11. IsChain(left)
    <2> SUFFICES ASSUME NEW i \in 1 .. (top - taken) - 1
                 PROVE  left[i + 1].first = left[i].first + left[i].count
        BY <1>6 DEF IsChain
    <2>1. /\ i \in 1 .. top - taken /\ i + 1 \in 1 .. top - taken
          /\ taken + i \in 1 .. top - 1 /\ taken + (i + 1) = (taken + i) + 1
        BY <1>2, <1>4
    <2>2. s[(taken + i) + 1].first = s[taken + i].first + s[taken + i].count
        BY <1>1, <2>1 DEF IsChain, top
    <2> QED
        BY <1>6, <2>1, <2>2
<1>12. left # <<>> => c.next = left[Len(left)].first + left[Len(left)].count
    <2> SUFFICES ASSUME left # <<>>
                 PROVE  c.next = left[Len(left)].first + left[Len(left)].count
        OBVIOUS
    <2>1. top - taken \in 1 .. top - taken /\ taken + (top - taken) = top /\ top # 0
        BY <1>2, <1>4, <1>6
    <2>2. left[Len(left)] = s[top]
        BY <1>6, <2>1
    <2>3. c.next = s[top].first + s[top].count
        BY <1>2, <2>1 DEF Counting, s, top
    <2> QED
        BY <2>2, <2>3
<1> DEFINE start(n) == IF n = top THEN c.next ELSE s[n + 1].first
           Follows(n) ==
             /\ after[n].stop = None => after[n].open /\ first + after[n].shots = start(n)
             /\ n # 0 => first + after[n].shots <= start(n)
<1>13. \A n \in 0 .. taken : Follows(n)
    <2> DEFINE T == {n \in 0 .. taken : Follows(n)}
    <2>1. 0 \in T
        <3>1. c.tracker.stop = None =>
                /\ c.tracker.open
                /\ first + c.tracker.shots = IF s = <<>> THEN c.next ELSE s[1].first
            BY DEF Counting, s, first, rule
        <3> QED
            BY <1>2, <1>4, <1>5, <3>1
    <2>2. ASSUME NEW n \in 1 .. taken, n - 1 \in T
          PROVE  n \in T
        <3> DEFINE x == after[n - 1]
                   y == after[n]
                   p == s[n]
        <3>1. n \in 1 .. top /\ n - 1 \in 0 .. top /\ n \in 0 .. top /\ n - 1 # top
            BY <1>2, <1>4
        <3>2. /\ x.stop = None /\ y = AddPiece(id, rule, x, p) /\ p \in Spans
              /\ UncutPrefix(id, rule, x) /\ UncutPrefix(id, rule, y)
            BY <1>2, <1>4, <1>5, <3>1
        <3>3. x.open /\ first + x.shots = p.first
            <4>1. Follows(n - 1) /\ (n - 1) + 1 = n
                BY <2>2
            <4> QED
                BY <3>1, <3>2, <4>1
        <3>4. x.shots \in Nat /\ p.first \in Nat /\ p.count \in Nat /\ y.shots \in Nat
            BY <3>2 DEF UncutPrefix, Trackers, Spans
        <3>5. start(n) = p.first + p.count
            <4>1. CASE n = top
                <5>1. c.next = s[top].first + s[top].count
                    BY <1>2, <3>1 DEF Counting, s, top
                <5> QED
                    BY <4>1, <5>1
            <4>2. CASE n # top
                <5>1. n \in 1 .. top - 1
                    BY <1>2, <3>1, <4>2
                <5> QED
                    BY <1>1, <1>2, <4>2, <5>1 DEF IsChain
            <4> QED
                BY <4>1, <4>2
        <3> HIDE DEF x, y, p, start
        <3>6. GoesOn(rule, x, y, p.count)
            BY <1>1, <3>2, <3>3, AddPieceFacts DEF first
        <3>7. /\ y.stop = None => y.open /\ first + y.shots = start(n)
              /\ first + y.shots <= start(n)
            BY <1>2, <3>3, <3>4, <3>5, <3>6, SMTT(90) DEF GoesOn
        <3> QED
            BY <3>7 DEF y
    <2>3. taken \in Nat
        BY <1>2, <1>4
    <2> HIDE DEF T
    <2>4. \A n \in 0 .. taken : n \in T
        BY <2>1, <2>2, <2>3, ClimbsUp
    <2> QED
        BY <2>4 DEF T
<1>14. r.tracker.stop = None =>
            /\ r.tracker.open
            /\ r.entry.rule.firstSeed + r.tracker.shots
                = IF r.pending = <<>> THEN r.next ELSE r.pending[1].first
    <2>1. Follows(taken)
        BY <1>2, <1>4, <1>13
    <2>2. taken # top => left[1] = s[taken + 1]
        BY <1>2, <1>4, <1>6
    <2> QED
        BY <1>6, <1>7, <2>1, <2>2 DEF first, rule
<1>15. HeadWaits(r)
    <2> SUFFICES ASSUME after[taken].stop = None, left # <<>>
                 PROVE  left[1] \notin r.finished
        BY <1>7 DEF HeadWaits
    <2>1. taken < top /\ left[1] = s[taken + 1]
        BY <1>2, <1>4, <1>6
    <2> QED
        BY <1>5, <1>7, <2>1
<1>16. UncutPrefix(r.entry.id, r.entry.rule, r.tracker)
    BY <1>2, <1>4, <1>7 DEF id, rule
<1>17. r.entry.rule.firstSeed + r.tracker.shots <= r.next
    <2>1. CASE taken = 0
        BY <1>5, <1>7, <2>1 DEF Counting
    <2>2. CASE taken # 0
        <3>1. first + after[taken].shots <= start(taken) /\ after[taken].shots \in Nat
            BY <1>2, <1>4, <1>13, <2>2 DEF UncutPrefix, Trackers
        <3>2. start(taken) <= c.next /\ start(taken) \in Nat
            <4>1. CASE taken = top
                BY <1>2, <4>1
            <4>2. CASE taken # top
                <5>1. taken + 1 \in 1 .. top /\ top \in 1 .. top /\ (taken + 1 < top \/ taken + 1 = top)
                    BY <1>2, <1>4, <4>2
                <5>2. c.next = s[top].first + s[top].count
                    BY <1>2, <5>1 DEF Counting, s, top
                <5>3. taken + 1 < top => s[taken + 1].first + s[taken + 1].count <= s[top].first
                    BY <1>1, <5>1, ChainsIncrease DEF top
                <5>4. /\ s[taken + 1].first \in Nat /\ s[taken + 1].count \in Nat
                      /\ s[top].first \in Nat /\ s[top].count \in Nat
                    BY <1>2, <5>1
                <5>5. s[taken + 1].first <= s[top].first
                    BY <5>1, <5>3, <5>4
                <5> QED
                    BY <4>2, <5>2, <5>4, <5>5
            <4> QED
                BY <4>1, <4>2
        <3> HIDE DEF start
        <3> QED
            BY <1>2, <1>7, <3>1, <3>2 DEF first, rule
    <2> QED
        BY <2>1, <2>2
<1> QED
    BY <1>7, <1>10, <1>11, <1>12, <1>14, <1>15, <1>16, <1>17 DEF Counting, r

-----------------------------------------------------------------------------
(* Handing out, and the end of a piece *)

\* The span handed out next is the saved one that starts there, or one that
\* ends before the next saved one starts.
LEMMA NextSpanFacts ==
    ASSUME config \in Settings, NEW c \in Collections, IsFiniteSet(c.saved), TakesAPiece(c)
    PROVE  LET p == PieceToHandOut(c)
           IN  /\ p \in Spans /\ p.first = c.next
               /\ p \notin c.saved =>
                    \A q \in c.saved : /\ q.first # c.next
                                       /\ q.first > c.next => p.first + p.count <= q.first
               /\ p \notin c.saved =>
                    p.first + p.count <= c.entry.rule.firstSeed + c.entry.rule.maxShots
<1> DEFINE p == PieceToHandOut(c)
           here == {q \in c.saved : q.first = c.next}
           ahead == {q \in c.saved : q.first > c.next}
           f == [q \in ahead |-> q.first - c.next]
           later == {f[q] : q \in ahead}
           counts == {NextPieceCount(c)} \cup later
<1>1. /\ c.saved \subseteq Spans /\ c.next \in Nat /\ c.entry.rule \in RuleType
      /\ \A q \in c.saved : q.first \in Nat /\ q.count \in Nat \ {0}
    BY EntryFacts DEF Collections, Spans
<1>2. CASE here # {}
    BY <1>1, <1>2 DEF PieceToHandOut
<1>3. CASE here = {}
    <2>0. NextPieceCount(c) <= c.entry.rule.firstSeed + c.entry.rule.maxShots - c.next
        <3> DEFINE left == c.entry.rule.firstSeed + c.entry.rule.maxShots - c.next
                   most == Max({left, 0})
                   size == c.entry.rule.pieceShots
        <3>1. left \in Int /\ size \in Nat \ {0}
            BY <1>1 DEF RuleType
        <3>2. NextPieceCount(c) = Min({size, most}) /\ NextPieceCount(c) > 0
            BY DEF NextPieceCount, TakesAPiece
        <3> HIDE DEF left, size
        <3>3. most = IF left >= 0 THEN left ELSE 0
            BY <3>1, OfTwo
        <3> HIDE DEF most
        <3>4. most \in Int
            BY <3>1, <3>3
        <3>5. Min({size, most}) = IF size <= most THEN size ELSE most
            BY <3>1, <3>4, OfTwo
        <3>6. NextPieceCount(c) <= left
            BY <3>1, <3>2, <3>3, <3>4, <3>5
        <3> QED
            BY <3>6 DEF left
    <2>1. NextPieceCount(c) \in Nat \ {0}
        <3> DEFINE left == c.entry.rule.firstSeed + c.entry.rule.maxShots - c.next
                   most == Max({left, 0})
                   size == c.entry.rule.pieceShots
        <3>1. left \in Int /\ size \in Nat
            BY <1>1 DEF RuleType
        <3> HIDE DEF left, size
        <3>2. most \in Int
            BY <3>1, OfTwo
        <3> HIDE DEF most
        <3>3. Min({size, most}) \in Int
            <4>1. size \in Int /\ most \in Int
                BY <3>1, <3>2
            <4>2. Min({size, most}) = IF size <= most THEN size ELSE most
                BY <4>1, OfTwo
            <4> QED
                BY <4>1, <4>2
        <3>4. NextPieceCount(c) = Min({size, most})
            BY DEF NextPieceCount, most, left, size
        <3> QED
            BY <3>3, <3>4 DEF TakesAPiece
    <2>2. IsFiniteSet(counts)
        <3>1. IsFiniteSet(ahead)
            BY FS_Subset
        <3> HIDE DEF ahead, f
        <3>2. IsFiniteSet(later)
            BY <3>1, FiniteImage
        <3> DEFINE one == {NextPieceCount(c)}
        <3>3. IsFiniteSet(one)
            BY FS_Singleton
        <3> HIDE DEF later, one
        <3>4. IsFiniteSet(one \cup later)
            BY <3>2, <3>3, FS_Union
        <3> QED
            BY <3>4 DEF one
    <2>3. \A n \in counts : n \in Nat \ {0}
        <3>1. ASSUME NEW q \in ahead
              PROVE  f[q] \in Nat \ {0}
            BY <1>1
        <3> HIDE DEF ahead, f
        <3> QED
            BY <2>1, <3>1
    <2>4. Min(counts) \in counts /\ \A n \in counts : Min(counts) <= n
        <3> HIDE DEF counts
        <3>1. \A n \in counts : n \in Int
            BY <2>3
        <3>2. counts # {}
            BY DEF counts
        <3> QED
            BY <2>2, <3>1, <3>2, MinFacts
    <2>5. p = Span(c.next, Min(counts))
        <3>1. later = {q.first - c.next : q \in ahead}
            OBVIOUS
        <3> QED
            BY <1>3, <3>1 DEF PieceToHandOut
    <2>6. \A q \in ahead : Min(counts) <= q.first - c.next
        <3>1. \A q \in ahead : q.first - c.next \in counts
            OBVIOUS
        <3> QED
            BY <2>4, <3>1
    <2>7. Min(counts) \in Nat \ {0}
        BY <2>3, <2>4
    <2>7a. Min(counts) <= NextPieceCount(c)
        BY <2>4
    <2> HIDE DEF counts, p
    <2>8. p \in Spans /\ p.first = c.next /\ p.count = Min(counts)
        BY <1>1, <2>5, <2>7 DEF Span, Spans
    <2>9. p.first + p.count <= c.entry.rule.firstSeed + c.entry.rule.maxShots
        BY <1>1, <2>0, <2>1, <2>7, <2>7a, <2>8 DEF RuleType
    <2> QED
        BY <1>1, <1>3, <2>6, <2>7, <2>8, <2>9 DEF p
<1> QED
    BY <1>2, <1>3

\* The piece handed out joins those that wait.
LEMMA PendingKeeps ==
    ASSUME config \in Settings, NEW c, Counting(c), HeadWaits(c), NEW p \in Spans, p.first = c.next
    PROVE  LET d == MakePending(c, p)
           IN  /\ Counting(d) /\ HeadWaits(d) /\ Waits(d) = Waits(c) \cup {p} /\ p \notin Waits(c)
               /\ d.entry = c.entry /\ d.saved = c.saved /\ d.next = p.first + p.count
               /\ d.last = p /\ d.handedOut = c.handedOut /\ d.tracker = c.tracker
<1> DEFINE s == c.pending
           top == Len(s)
           t == Append(s, p)
           d == MakePending(c, p)
<1>1. /\ c \in Collections /\ s \in Seq(Spans) /\ IsChain(s) /\ c.finished \subseteq Range(s)
      /\ c.next \in Nat
    BY DEF Counting, Collections
<1>2. /\ top \in Nat /\ top = Len(s) /\ DOMAIN s = 1 .. top /\ (s = <<>> <=> top = 0)
      /\ \A i \in 1 .. top : s[i] \in Spans /\ s[i].first \in Nat /\ s[i].count \in Nat \ {0}
      /\ p.first \in Nat /\ p.count \in Nat \ {0}
    <2>1. top \in Nat /\ DOMAIN s = 1 .. top /\ (s = <<>> <=> top = 0)
        BY <1>1, EmptySeq, LenProperties
    <2>2. \A i \in 1 .. top : s[i] \in Spans
        BY <1>1, <2>1
    <2> QED
        BY <1>1, <2>1, <2>2 DEF Spans
<1>3. /\ t \in Seq(Spans) /\ Len(t) = top + 1 /\ DOMAIN t = 1 .. top + 1
      /\ Range(t) = Range(s) \cup {p} /\ t # <<>>
      /\ \A i \in 1 .. top : t[i] = s[i]
      /\ t[top + 1] = p
    <2> HIDE DEF s, t
    <2>1. /\ t \in Seq(Spans) /\ Len(t) = Len(s) + 1
          /\ Range(t) = Range(s) \cup {p}
        BY <1>1, AppendFacts DEF t
    <2>2. /\ \A i \in 1 .. Len(s) : t[i] = s[i]
          /\ t[Len(s) + 1] = p
        BY <1>1, AppendProperties DEF t
    <2>3. DOMAIN t = 1 .. Len(t) /\ (t = <<>> <=> Len(t) = 0)
        BY <2>1, LenProperties, EmptySeq
    <2> QED
        BY <1>2, <2>1, <2>2, <2>3
<1>4. s # <<>> => c.next = s[top].first + s[top].count
    BY DEF Counting
<1>5. p \notin Range(s)
    <2>1. ASSUME NEW i \in 1 .. top
          PROVE  s[i] # p
        <3>1. i = top \/ s[i].first + s[i].count <= s[top].first
            <4>1. \A i_1, j \in 1 .. Len(s) : i_1 < j => s[i_1].first + s[i_1].count <= s[j].first
                BY <1>1, ChainsIncrease
            <4> QED
                BY <1>2, <4>1, SMTT(90)
        <3>2. c.next = s[top].first + s[top].count /\ top \in 1 .. top
            BY <1>2, <1>4
        <3>3. /\ s[i].first \in Nat /\ s[i].count \in Nat \ {0}
              /\ s[top].first \in Nat /\ s[top].count \in Nat \ {0}
            BY <1>2, <3>2
        <3> HIDE DEF s, top
        <3>4. s[i].first < c.next
            BY <3>1, <3>2, <3>3
        <3> QED
            BY <3>4, <1>2, <1>1
    <2> QED
        BY <1>2, <2>1 DEF Range
<1>6. /\ d \in Collections /\ d.pending = t /\ d.finished = c.finished
      /\ d.entry = c.entry /\ d.saved = c.saved /\ d.next = p.first + p.count
      /\ d.last = p /\ d.handedOut = c.handedOut /\ d.tracker = c.tracker
    <2>1. d = [c EXCEPT !.next = p.first + p.count, !.pending = t, !.last = p]
        BY DEF MakePending
    <2>2. p.first + p.count \in Nat
        BY <1>2
    <2> HIDE DEF t, d
    <2> QED
        BY <1>1, <1>3, <2>1, <2>2 DEF Collections
<1> HIDE DEF d, t, s, top
<1>7. IsChain(t)
    <2> SUFFICES ASSUME NEW i \in 1 .. top
                 PROVE  t[i + 1].first = t[i].first + t[i].count
        BY <1>2, <1>3 DEF IsChain
    <2>1. CASE i = top
        <3>1. s # <<>>
            BY <1>2
        <3> QED
            BY <1>3, <1>4, <2>1, <3>1
    <2>2. CASE i # top
        <3>1. i \in 1 .. top - 1 /\ i + 1 \in 1 .. top
            BY <1>2, <2>2
        <3> QED
            BY <1>1, <1>2, <1>3, <3>1 DEF IsChain
    <2> QED
        BY <2>1, <2>2
<1>8. HeadWaits(d)
    <2>1. CASE s = <<>>
        <3>1. Range(s) = {} /\ t[1] = p
            BY <1>2, <1>3, <2>1 DEF Range
        <3> QED
            BY <1>1, <1>6, <3>1 DEF HeadWaits
    <2>2. CASE s # <<>>
        <3>1. t[1] = s[1]
            BY <1>2, <1>3, <2>2
        <3> QED
            BY <1>6, <2>2, <3>1 DEF HeadWaits, s
    <2> QED
        BY <2>1, <2>2
<1>9. c.tracker.stop = None =>
        /\ d.tracker.open
        /\ d.entry.rule.firstSeed + d.tracker.shots = t[1].first
    <2>1. c.tracker.stop = None =>
            /\ c.tracker.open
            /\ c.entry.rule.firstSeed + c.tracker.shots = IF s = <<>> THEN c.next ELSE s[1].first
        BY DEF Counting, s
    <2>2. IF s = <<>> THEN t[1] = p ELSE t[1] = s[1]
        BY <1>2, <1>3
    <2> QED
        BY <1>6, <2>1, <2>2
<1>10. Counting(d)
    <2>1. UncutPrefix(d.entry.id, d.entry.rule, d.tracker)
        BY <1>6 DEF Counting
    <2>2. d.finished \subseteq Range(t) /\ d.next = t[Len(t)].first + t[Len(t)].count
        BY <1>1, <1>2, <1>3, <1>6
    <2>3. d.entry.rule.firstSeed + d.tracker.shots <= d.next
        <3> DEFINE below == c.entry.rule.firstSeed + c.tracker.shots
        <3>1. below <= c.next
            BY DEF Counting
        <3>2. below \in Int
            <4>1. c.entry \in EntriesOfFiles /\ c.tracker.shots \in Nat
                BY <1>1 DEF Collections, Trackers
            <4>2. c.entry.rule \in RuleType
                BY <4>1, EntryFacts
            <4> QED
                BY <4>1, <4>2 DEF RuleType
        <3> HIDE DEF below
        <3>3. below <= p.first + p.count
            BY <1>1, <1>2, <3>1, <3>2
        <3> QED
            BY <1>6, <3>3 DEF below
    <2> QED
        BY <1>3, <1>6, <1>7, <1>9, <2>1, <2>2, <2>3 DEF Counting
<1>11. Waits(d) = Waits(c) \cup {p} /\ p \notin Waits(c)
    BY <1>1, <1>3, <1>5, <1>6 DEF Waits, s
<1> QED
    BY <1>6, <1>8, <1>10, <1>11 DEF d

\* A piece that ended waits no more.
LEMMA EndedKeeps ==
    ASSUME config \in Settings, NEW c, Counting(c), NEW p \in Waits(c)
    PROVE  LET r == PieceEnded(c, p)
           IN  /\ Counting(r) /\ HeadWaits(r) /\ Waits(r) = Waits(c) \ {p}
               /\ r.entry = c.entry /\ r.saved = c.saved /\ r.next = c.next
               /\ r.last = c.last /\ r.handedOut = c.handedOut
<1> DEFINE d == [c EXCEPT !.finished = @ \cup {p}]
<1>1. c \in Collections /\ c.pending \in Seq(Spans) /\ p \in Range(c.pending)
    BY DEF Counting, Collections, Waits
<1>2. p \in Spans
    BY <1>1 DEF Range
<1>3. /\ d \in Collections /\ d.pending = c.pending /\ d.finished = c.finished \cup {p}
      /\ d.entry = c.entry /\ d.saved = c.saved /\ d.next = c.next /\ d.last = c.last
      /\ d.handedOut = c.handedOut /\ d.tracker = c.tracker
    BY <1>1, <1>2 DEF Collections
<1> HIDE DEF d
<1>4. Counting(d) /\ Waits(d) = Waits(c) \ {p}
    BY <1>1, <1>3 DEF Counting, Waits
<1>5. PieceEnded(c, p) = CountTheFinished(d)
    BY DEF PieceEnded, d
<1> QED
    BY <1>3, <1>4, <1>5, CountKeeps

\* A task that goes on and has nothing running has nothing waiting.
LEMMA IdleFacts ==
    ASSUME NEW c, Counting(c), HeadWaits(c), c.tracker.stop = None,
           RunningCount(c) = 0 \/ Waits(c) = {}
    PROVE  c.pending = <<>> /\ Waits(c) = {}
<1> DEFINE s == c.pending
<1>1. /\ s \in Seq(Spans) /\ c.finished \subseteq Range(s) /\ IsInjective(s)
      /\ (s # <<>> => s[1] \notin c.finished)
    BY ChainsIncrease DEF Counting, Collections, HeadWaits
<1>2. /\ Len(s) \in Nat /\ DOMAIN s = 1 .. Len(s) /\ (s = <<>> <=> Len(s) = 0)
    BY <1>1, EmptySeq, LenProperties
<1>3. ASSUME RunningCount(c) = 0
      PROVE  c.finished = Range(s)
    <2> DEFINE n == Len(s)
    <2>1. s \in Bijection(1 .. n, Range(s))
        <3>1. s \in [1 .. n -> Range(s)]
            BY <1>1, <1>2 DEF Range
        <3>2. \A a, b \in 1 .. n : s[a] = s[b] => a = b
            BY <1>1, <1>2 DEF IsInjective
        <3>3. \A y \in Range(s) : \E a \in 1 .. n : s[a] = y
            BY <1>2 DEF Range
        <3> QED
            BY <3>1, <3>2, <3>3 DEF Bijection, Injection, Surjection, IsInjective
    <2>2. IsFiniteSet(1 .. n) /\ Cardinality(1 .. n) = n
        BY <1>2, FS_Interval
    <2> DEFINE I == 1 .. n
               R == Range(s)
    <2>5. s \in Bijection(I, R) /\ IsFiniteSet(I) /\ Cardinality(I) = n
        BY <2>1, <2>2
    <2> HIDE DEF n, I, R
    <2>6. IsFiniteSet(R) /\ Cardinality(R) = n
        BY <2>5, FS_Bijection DEF ExistsBijection
    <2>3. IsFiniteSet(Range(s)) /\ Cardinality(Range(s)) = n
        BY <2>6 DEF R
    <2>4. Cardinality(c.finished) = n
        <3>1. Cardinality(c.finished) \in Nat
            BY <1>1, <2>3, FS_Subset, FS_CardinalityType
        <3>2. n - Cardinality(c.finished) = 0 /\ n \in Nat
            BY <1>2, <1>3 DEF RunningCount, n
        <3> QED
            BY <3>1, <3>2
    <2> QED
        BY <1>1, <2>3, <2>4, FS_Subset
<1>4. s = <<>>
    <2>1. ASSUME s # <<>>
          PROVE  s[1] \in Range(s)
        BY <1>2, <2>1 DEF Range
    <2> QED
        BY <1>1, <1>3, <2>1 DEF Waits
<1> QED
    BY <1>4, <1>2 DEF Waits, Range

-----------------------------------------------------------------------------
(* The seeds of a job that no piece holds *)

\* A finite set of numbers from the least up has each of them once.
LEMMA InOrderFacts ==
    ASSUME NEW S, IsFiniteSet(S), \A x \in S : x \in Int
    PROVE  /\ InOrder(S) \in Seq(S) /\ IsInjective(InOrder(S))
           /\ Range(InOrder(S)) = S
<1> DEFINE n == Cardinality(S)
           below(x) == {y \in S : y < x}
           I == 0 .. n - 1
           rank == [x \in S |-> Cardinality(below(x))]
           t == InOrder(S)
<1>1. n \in Nat
    BY FS_CardinalityType
<1>2. ASSUME NEW x \in S
      PROVE  IsFiniteSet(below(x)) /\ Cardinality(below(x)) \in I
    <2>1. IsFiniteSet(S \ {x}) /\ Cardinality(S \ {x}) = n - 1
        BY FS_RemoveElement
    <2>2. below(x) \subseteq S \ {x}
        OBVIOUS
    <2> DEFINE b == below(x)
               r == S \ {x}
    <2> HIDE DEF b, r
    <2>3. IsFiniteSet(b) /\ Cardinality(b) <= Cardinality(r)
        BY <2>1, <2>2, FS_Subset DEF b, r
    <2>4. Cardinality(b) \in Nat
        BY <2>3, FS_CardinalityType
    <2> QED
        BY <1>1, <2>1, <2>3, <2>4 DEF b, r
<1>3. ASSUME NEW x \in S, NEW y \in S, x < y
      PROVE  Cardinality(below(x)) # Cardinality(below(y))
    <2>1. below(x) \subseteq below(y) /\ x \in below(y) /\ x \notin below(x)
        BY <1>3
    <2> DEFINE b == below(x)
               c == below(y)
    <2>2. IsFiniteSet(c) /\ b \subseteq c /\ b # c
        BY <1>2, <2>1
    <2> HIDE DEF b, c
    <2>3. Cardinality(b) # Cardinality(c)
        BY <2>2, FS_Subset
    <2> QED
        BY <2>3 DEF b, c
<1>4. rank \in Injection(S, I)
    <2>1. rank \in [S -> I]
        BY <1>2
    <2>2. ASSUME NEW x \in S, NEW y \in S, rank[x] = rank[y]
          PROVE  x = y
        BY <1>3, <2>2
    <2> HIDE DEF rank
    <2> QED
        BY <2>1, <2>2 DEF Injection, IsInjective
<1>5. IsFiniteSet(I) /\ Cardinality(I) = n
    BY <1>1, FS_Interval
<1>6. rank \in Surjection(S, I)
    <2> HIDE DEF rank, I
    <2> QED
        BY <1>4, <1>5, FS_Injection
<1>7. ASSUME NEW i \in 1 .. n
      PROVE  t[i] \in S /\ Cardinality(below(t[i])) = i - 1
    <2>1. i - 1 \in I
        BY <1>1
    <2>2. \E x \in S : rank[x] = i - 1
        <3> HIDE DEF rank, I
        <3> QED
            BY <1>6, <2>1 DEF Surjection
    <2>3. \E x \in S : Cardinality(below(x)) = i - 1
        BY <2>2
    <2> DEFINE has(x) == Cardinality(below(x)) = i - 1
               y == CHOOSE x \in S : has(x)
    <2>4. t[i] = y
        <3>1. t[i] = CHOOSE x \in S : Cardinality(below(x)) = i - 1
            BY DEF InOrder
        <3>2. y = CHOOSE x \in S : Cardinality(below(x)) = i - 1
            OBVIOUS
        <3> HIDE DEF t, below
        <3> QED
            BY <3>1, <3>2
    <2>5. \E x \in S : has(x)
        BY <2>3
    <2>6. y \in S /\ has(y)
        <3> HIDE DEF has
        <3> QED
            BY <2>5
    <2> HIDE DEF y, t
    <2> QED
        BY <2>4, <2>6
<1>8. t \in [1 .. n -> S]
    <2> DEFINE of(i) == CHOOSE x \in S : Cardinality({y \in S : y < x}) = i - 1
    <2>2. t = [i \in 1 .. n |-> of(i)]
        BY DEF InOrder
    <2> HIDE DEF t, of
    <2>1. t = [i \in 1 .. n |-> t[i]]
        BY <2>2
    <2> QED
        BY <1>7, <2>1
<1>9. \A i, j \in 1 .. n : t[i] = t[j] => i = j
    <2> SUFFICES ASSUME NEW i \in 1 .. n, NEW j \in 1 .. n, t[i] = t[j]
                 PROVE  i = j
        OBVIOUS
    <2> HIDE DEF t, below
    <2>1. i - 1 = j - 1
        BY <1>7
    <2> QED
        BY <1>1, <2>1
<1> HIDE DEF t, below, rank
<1>10. t \in Seq(S) /\ DOMAIN t = 1 .. n /\ IsInjective(t)
    BY <1>1, <1>8, <1>9 DEF IsInjective
<1>11. t \in Injection(1 .. n, S)
    BY <1>8, <1>9, <1>10 DEF Injection
<1>12. Range(t) = S
    <2> DEFINE J == 1 .. n
    <2>1. IsFiniteSet(J) /\ Cardinality(J) = n /\ t \in Injection(J, S)
        BY <1>1, <1>11, FS_Interval
    <2> HIDE DEF J
    <2>2. t \in Surjection(J, S)
        BY <2>1, FS_Injection
    <2> QED
        BY <1>8, <2>2 DEF Surjection, Range, J
<1> QED
    BY <1>10, <1>12 DEF t

\* Where the numbers that lead up to x begin, the numbers that a piece of p
\* starts at, and the numbers of the piece that starts at x.
StartIn(G, x) == Max({y \in G : y <= x /\ y - 1 \notin G})
FirstsIn(G, p) == {x \in G : (x - StartIn(G, x)) % p = 0}
RunIn(G, p, x) == {y \in G : x <= y /\ y < x + p /\ x .. y \subseteq G}

\* The numbers of a set from one of them on, as far as they follow one another
\* and at most p of them.
LEMMA RunFacts ==
    ASSUME NEW G, \A y \in G : y \in Int, NEW x \in G, NEW p \in Nat \ {0}
    PROVE  /\ Cardinality(RunIn(G, p, x)) \in Nat \ {0}
           /\ RunIn(G, p, x) = x .. x + Cardinality(RunIn(G, p, x)) - 1
<1> DEFINE run == {y \in G : x <= y /\ y < x + p /\ x .. y \subseteq G}
<1>0. run = RunIn(G, p, x)
    BY DEF RunIn
<1>1. x \in Int /\ x \in run /\ run \subseteq x .. x + p - 1
    <2>1. x \in Int
        OBVIOUS
    <2>2. x .. x = {x}
        BY <2>1
    <2>3. ASSUME NEW y \in run
          PROVE  y \in x .. x + p - 1
        BY <2>1
    <2>4. x <= x /\ x < x + p /\ x .. x \subseteq G
        BY <2>1, <2>2
    <2>5. x \in run
        BY <2>4
    <2>6. run \subseteq x .. x + p - 1
        BY <2>3
    <2> QED
        BY <2>1, <2>5, <2>6
<1>2. IsFiniteSet(run)
    <2>1. IsFiniteSet(x .. x + p - 1)
        BY <1>1, FS_Interval
    <2> DEFINE J == x .. x + p - 1
    <2> HIDE DEF J, run
    <2> QED
        BY <1>1, <2>1, FS_Subset DEF J
<1> DEFINE m == Max(run)
<1>3. m \in run /\ \A y \in run : y <= m
    <2>1. \A y \in run : y \in Int
        OBVIOUS
    <2> HIDE DEF run
    <2> QED
        BY <1>1, <1>2, <2>1, MaxFacts
<1> HIDE DEF m
<1>4. m \in Int /\ x <= m /\ m < x + p /\ x .. m \subseteq G
    BY <1>3
<1>5. run = x .. m
    <2>1. ASSUME NEW y \in x .. m
          PROVE  y \in run
        <3>1. y \in G /\ x <= y /\ y < x + p
            BY <1>1, <1>4
        <3>2. x .. y \subseteq x .. m
            BY <1>1, <1>4
        <3> QED
            BY <1>4, <3>1, <3>2
    <2>2. ASSUME NEW y \in run
          PROVE  y \in x .. m
        BY <1>1, <1>3
    <2> QED
        BY <2>1, <2>2
<1>6. Cardinality(x .. m) = m - x + 1
    BY <1>1, <1>4, FS_Interval
<1> DEFINE n == Cardinality(run)
<1>7. n = m - x + 1
    BY <1>5, <1>6
<1> HIDE DEF run, n
<1>8. n \in Nat \ {0} /\ run = x .. x + n - 1
    <2>1. x + n - 1 = m
        BY <1>1, <1>4, <1>7
    <2> QED
        BY <1>1, <1>4, <1>5, <1>7, <2>1
<1> QED
    BY <1>0, <1>8 DEF n

\* Where the numbers that lead up to one of a set begin.
LEMMA StartFacts ==
    ASSUME NEW G, IsFiniteSet(G), \A y \in G : y \in Int, NEW x \in G
    PROVE  LET s == Max({y \in G : y <= x /\ y - 1 \notin G})
           IN  /\ s \in G /\ s <= x /\ s .. x \subseteq G /\ s - 1 \notin G
               /\ \A y \in G : y <= x /\ y - 1 \notin G => y <= s
<1> DEFINE S == {y \in G : y <= x /\ y - 1 \notin G}
           s == Max(S)
           Z == {z \in G : z <= x /\ z .. x \subseteq G}
<1>1. x \in Int /\ x \in Z
    <2>1. x \in Int /\ x .. x = {x}
        OBVIOUS
    <2> QED
        BY <2>1
<1>2. PICK z \in Z : \A y \in Z : z <= y
    <2>1. IsFiniteSet(Z) /\ \A y \in Z : y \in Int
        BY FS_Subset
    <2> HIDE DEF Z
    <2> QED
        BY <1>1, <2>1, LeastOfFinite
<1>3. z - 1 \notin G
    <2>1. ASSUME z - 1 \in G
          PROVE  z - 1 \in Z
        <3>1. z \in Int /\ z <= x /\ z .. x \subseteq G
            OBVIOUS
        <3>2. (z - 1) .. x \subseteq {z - 1} \cup (z .. x)
            BY <1>1, <3>1
        <3> QED
            BY <1>1, <2>1, <3>1, <3>2
    <2> QED
        BY <1>2, <2>1
<1>4. s \in S /\ \A y \in S : y <= s
    <2>1. IsFiniteSet(S) /\ (\A y \in S : y \in Int) /\ z \in S
        BY <1>3, FS_Subset
    <2> HIDE DEF S
    <2> QED
        BY <2>1, MaxFacts
<1> HIDE DEF s
<1>5. s .. x \subseteq G
    <2> DEFINE W == {w \in s .. x : w \notin G}
    <2> SUFFICES ASSUME W # {}
                 PROVE  FALSE
        OBVIOUS
    <2>1. s \in Int
        BY <1>4
    <2>2. IsFiniteSet(W) /\ \A w \in W : w \in Int
        <3>1. IsFiniteSet(s .. x) /\ W \subseteq s .. x
            BY <1>1, <2>1, FS_Interval
        <3> DEFINE J == s .. x
        <3> HIDE DEF W
        <3>2. W \subseteq J /\ IsFiniteSet(J)
            BY <3>1
        <3> HIDE DEF J
        <3>3. IsFiniteSet(W)
            BY <3>2, FS_Subset
        <3> QED
            BY <3>3 DEF W
    <2>3. PICK w \in W : \A y \in W : y <= w
        <3> HIDE DEF W
        <3> QED
            BY <2>2, GreatestOfFinite
    <2>4. w \in Int /\ s <= w /\ w <= x /\ w \notin G /\ w # x
        BY <2>1
    <2>5. w + 1 \in s .. x /\ (w + 1) - 1 = w
        BY <1>1, <2>1, <2>4
    <2>6. w + 1 \in G
        <3>1. ~ (w + 1 <= w)
            BY <2>4
        <3> QED
            BY <2>3, <2>5, <3>1
    <2>7. w + 1 \in S
        BY <1>1, <2>4, <2>5, <2>6
    <2> QED
        BY <1>4, <2>1, <2>4, <2>7
<1> QED
    BY <1>4, <1>5 DEF s

\* The pieces cut out of the gaps have each number of theirs once.
LEMMA CutFacts ==
    ASSUME NEW G, IsFiniteSet(G), \A y \in G : y \in Nat, NEW p \in Nat \ {0}
    PROVE  /\ \A y \in G : \E x \in FirstsIn(G, p) : y \in RunIn(G, p, x)
           /\ \A x, y \in FirstsIn(G, p) : x < y => RunIn(G, p, x) \cap RunIn(G, p, y) = {}
<1>1. ASSUME NEW x \in G
      PROVE  /\ StartIn(G, x) \in G /\ StartIn(G, x) \in Nat /\ StartIn(G, x) <= x
             /\ StartIn(G, x) .. x \subseteq G /\ StartIn(G, x) - 1 \notin G
             /\ \A y \in G : y <= x /\ y - 1 \notin G => y <= StartIn(G, x)
    <2>1. \A y \in G : y \in Int
        OBVIOUS
    <2>2. /\ StartIn(G, x) \in G /\ StartIn(G, x) <= x
          /\ StartIn(G, x) .. x \subseteq G /\ StartIn(G, x) - 1 \notin G
          /\ \A y \in G : y <= x /\ y - 1 \notin G => y <= StartIn(G, x)
        BY <2>1, StartFacts DEF StartIn
    <2> QED
        BY <2>2
<1>2. ASSUME NEW y \in G
      PROVE  \E x \in FirstsIn(G, p) : y \in RunIn(G, p, x)
    <2> DEFINE s == StartIn(G, y)
               r == (y - s) % p
               x == y - r
               a == y - s
    <2>1. /\ s \in G /\ s \in Nat /\ s <= y /\ s .. y \subseteq G /\ y \in Nat /\ s - 1 \notin G
          /\ \A z \in G : z <= y /\ z - 1 \notin G => z <= s
        BY <1>1
    <2>2. a \in Nat
        BY <2>1
    <2> HIDE DEF s
    <2>3. r \in 0 .. p - 1 /\ a - r \in Nat /\ (a - r) % p = 0
        <3> HIDE DEF a
        <3>1. a % p \in 0 .. p - 1 /\ a - (a % p) \in Nat /\ (a - (a % p)) % p = 0
            BY <2>2, RoundedDown
        <3> QED
            BY <3>1 DEF a
    <2> HIDE DEF r
    <2>4. x \in Nat /\ s <= x /\ x <= y /\ y < x + p /\ x - s = a - r
        BY <2>1, <2>3
    <2> HIDE DEF x, a
    <2>5. x \in G /\ x .. y \subseteq G
        BY <2>1, <2>4
    <2>6. StartIn(G, x) = s
        <3> DEFINE t == StartIn(G, x)
        <3>1. /\ t \in Nat /\ t \in G /\ t <= x /\ t - 1 \notin G
              /\ \A z \in G : z <= x /\ z - 1 \notin G => z <= t
            BY <1>1, <2>5
        <3> HIDE DEF t
        <3>2. t <= s /\ s <= t
            BY <2>1, <2>4, <3>1
        <3>3. t = s
            BY <2>1, <3>1, <3>2
        <3> QED
            BY <3>3 DEF t
    <2>7. x \in FirstsIn(G, p)
        BY <2>3, <2>4, <2>5, <2>6 DEF FirstsIn
    <2>8. y \in RunIn(G, p, x)
        BY <2>4, <2>5 DEF RunIn
    <2> QED
        BY <2>7, <2>8
<1>3. ASSUME NEW x \in FirstsIn(G, p), NEW y \in FirstsIn(G, p), x < y,
             NEW z \in RunIn(G, p, x), z \in RunIn(G, p, y)
      PROVE  FALSE
    <2> DEFINE s == StartIn(G, x)
               t == StartIn(G, y)
    <2>1. /\ x \in G /\ y \in G /\ x \in Nat /\ y \in Nat /\ z \in Nat
          /\ y <= z /\ z < x + p /\ x .. z \subseteq G
        BY <1>3 DEF FirstsIn, RunIn
    <2>2. (x - s) % p = 0 /\ (y - t) % p = 0
        BY DEF FirstsIn
    <2>3. /\ s \in G /\ s \in Nat /\ s <= x /\ s - 1 \notin G
          /\ \A w \in G : w <= x /\ w - 1 \notin G => w <= s
        BY <1>1, <2>1
    <2>4. /\ t \in G /\ t \in Nat /\ t <= y /\ t - 1 \notin G
          /\ \A w \in G : w <= y /\ w - 1 \notin G => w <= t
        BY <1>1, <2>1
    <2> HIDE DEF s, t
    <2>5. s <= t
        BY <1>3, <2>1, <2>3, <2>4
    <2>6. t <= x
        <3> SUFFICES ASSUME x < t
                     PROVE  FALSE
            BY <2>1, <2>4
        <3>1. t - 1 \in x .. z
            BY <2>1, <2>4
        <3> QED
            BY <2>1, <2>4, <3>1
    <2>7. t = s
        BY <2>3, <2>4, <2>5, <2>6
    <2> DEFINE a == x - s
               b == y - s
    <2>8. a \in Nat /\ b \in Nat /\ a % p = 0 /\ b % p = 0 /\ a < b
        BY <1>3, <2>1, <2>2, <2>3, <2>7
    <2>9. b - a = y - x
        BY <2>1, <2>3
    <2> HIDE DEF a, b
    <2>10. b - a >= p
        BY <2>8, MultiplesApart
    <2> QED
        BY <2>1, <2>8, <2>9, <2>10
<1> QED
    BY <1>2, <1>3

\* The pieces on the disk, and the units that a process runs.
Pieces == [id : DOMAIN config.tasks, first : Nat, count : Nat \ {0}, learned : Seq(Nat)]
Units == [id : DOMAIN config.tasks, name : Names, first : Nat, count : Nat \ {0},
          learned : Seq(Nat)]
PiecesFit == IsFiniteSet(saved) /\ saved \subseteq Pieces
SavedSeeds(id) == UNION {SeedsOf(p) : p \in PiecesOf(id, saved)}

\* The longest pieces of each first seed hold what all of them hold.
LEMMA SavedCountsFacts ==
    ASSUME PiecesFit, NEW id
    PROVE  /\ SavedCounts(id) \subseteq Spans /\ IsFiniteSet(SavedCounts(id))
           /\ UNION {SeedsOf(p) : p \in SavedCounts(id)} = SavedSeeds(id)
           /\ \A p \in SavedCounts(id) : \E q \in PiecesOf(id, saved) :
                Span(q.first, q.count) = p
<1> DEFINE Q == PiecesOf(id, saved)
           f == [q \in Q |-> Span(q.first, q.count)]
           g == [q \in Q |-> q.count]
           H == {f[q] : q \in Q}
           C == SavedCounts(id)
<1>1. IsFiniteSet(Q) /\ \A q \in Q : q.first \in Nat /\ q.count \in Nat \ {0} /\ q \in saved
    <2>1. Q \subseteq saved /\ IsFiniteSet(saved)
        BY DEF PiecesFit, PiecesOf
    <2>2. IsFiniteSet(Q)
        <3> HIDE DEF Q
        <3> QED
            BY <2>1, FS_Subset
    <2>3. \A q \in Q : q.first \in Nat /\ q.count \in Nat \ {0}
        BY <2>1 DEF PiecesFit, Pieces
    <2> QED
        BY <2>1, <2>2, <2>3
<1>2. H = {Span(q.first, q.count) : q \in Q}
    OBVIOUS
<1>3. C \subseteq H
    BY <1>2 DEF SavedCounts
<1>4. C \subseteq Spans
    BY <1>1, <1>2, <1>3 DEF Span, Spans
<1>5. IsFiniteSet(C)
    <2> HIDE DEF Q, f
    <2>1. IsFiniteSet(H)
        BY <1>1, FiniteImage
    <2> HIDE DEF H, C
    <2> QED
        BY <1>3, <2>1, FS_Subset
<1>6. \A p \in C : \E q \in Q : Span(q.first, q.count) = p
    BY <1>2, <1>3
<1>7. ASSUME NEW p \in C, NEW x \in SeedsOf(p)
      PROVE  x \in SavedSeeds(id)
    <2>1. PICK q \in Q : Span(q.first, q.count) = p
        BY <1>6
    <2>2. x \in SeedsOf(q)
        BY <1>7, <2>1 DEF SeedsOf, Span
    <2> QED
        BY <2>1, <2>2 DEF SavedSeeds
<1>8. ASSUME NEW q \in Q, NEW x \in SeedsOf(q)
      PROVE  \E p \in C : x \in SeedsOf(p)
    <2> DEFINE R == {r \in Q : r.first = q.first}
               N == {g[r] : r \in R}
               m == Max(N)
    <2>1. IsFiniteSet(N)
        <3>1. R \subseteq Q
            OBVIOUS
        <3> HIDE DEF Q, R, g
        <3>2. IsFiniteSet(R)
            BY <1>1, <3>1, FS_Subset
        <3> QED
            BY <3>2, FiniteImage
    <2>2. q.count \in N /\ \A n \in N : n \in Int
        BY <1>1
    <2>3. m \in N /\ \A n \in N : n <= m
        <3> HIDE DEF N
        <3> QED
            BY <2>1, <2>2, MaxFacts
    <2> HIDE DEF m
    <2>4. PICK r \in Q : r.first = q.first /\ r.count = m
        BY <2>3
    <2>5. \A s \in Q : s.first = r.first => s.count <= r.count
        <3>1. ASSUME NEW s \in Q, s.first = r.first
              PROVE  s.count <= m
            <4>1. s \in R /\ g[s] = s.count
                BY <2>4, <3>1
            <4>2. s.count \in N
                BY <4>1
            <4> QED
                BY <2>3, <4>2
        <3> QED
            BY <2>4, <3>1
    <2> DEFINE p == Span(r.first, r.count)
    <2>6. p \in C
        <3>1. p.first = r.first /\ p.count = r.count
            BY DEF Span
        <3> QED
            BY <2>4, <2>5, <3>1 DEF SavedCounts
    <2>7. q.count <= r.count /\ r.first = q.first
        BY <2>4, <2>5
    <2>8. x \in SeedsOf(p)
        BY <1>1, <1>8, <2>4, <2>7 DEF SeedsOf, Span
    <2> QED
        BY <2>6, <2>8
<1>9. UNION {SeedsOf(p) : p \in C} = SavedSeeds(id)
    <2>1. \A x \in UNION {SeedsOf(p) : p \in C} : x \in SavedSeeds(id)
        BY <1>7
    <2>2. ASSUME NEW x \in SavedSeeds(id)
          PROVE  x \in UNION {SeedsOf(p) : p \in C}
        <3>1. PICK q \in Q : x \in SeedsOf(q)
            BY DEF SavedSeeds
        <3>2. \E p \in C : x \in SeedsOf(p)
            BY <1>8, <3>1
        <3> QED
            BY <3>2
    <2> QED
        BY <2>1, <2>2
<1> QED
    BY <1>4, <1>5, <1>6, <1>9

\* A job that its shell may give, and an entry of a run file.
JobFits(k) ==
    \/ k.seeds[1] = "range" /\ {k.seeds[2], k.seeds[3]} \subseteq Nat
    \/ k.seeds[1] = "share" /\ k.seeds[2] \in Nat /\ k.seeds[3] \in Nat \ {0}

\* The seeds it asks for are finitely many, in a row, and not before the first.
LEMMA SelectedFacts ==
    ASSUME NEW k, JobFits(k), NEW rule \in RuleType
    PROVE  /\ IsFiniteSet(SelectedSeeds(k, rule)) /\ \A x \in SelectedSeeds(k, rule) : x \in Nat
           /\ \E a \in Nat : \E b \in Int :
                rule.firstSeed <= a /\ SelectedSeeds(k, rule) = a .. b - 1
<1>1. rule.firstSeed \in Nat /\ rule.maxShots \in Nat
    BY DEF RuleType
<1> DEFINE first == IF k.seeds[1] = "range" THEN Max({k.seeds[2], rule.firstSeed})
                    ELSE rule.firstSeed + (k.seeds[2] * rule.maxShots) \div k.seeds[3]
           end == IF k.seeds[1] = "range"
                  THEN Min({k.seeds[3], rule.firstSeed + rule.maxShots})
                  ELSE rule.firstSeed + ((k.seeds[2] + 1) * rule.maxShots) \div k.seeds[3]
<1>2. first \in Nat /\ end \in Int /\ rule.firstSeed <= first
    <2>1. CASE k.seeds[1] = "range"
        <3>1. k.seeds[2] \in Nat /\ k.seeds[3] \in Nat
            BY <2>1 DEF JobFits
        <3> DEFINE a == k.seeds[2]
                   b == k.seeds[3]
                   c == rule.firstSeed
                   d == rule.firstSeed + rule.maxShots
        <3>2. a \in Nat /\ b \in Nat /\ c \in Nat /\ d \in Nat
            BY <1>1, <3>1
        <3> HIDE DEF a, b, c, d
        <3>3. Max({a, c}) = IF a >= c THEN a ELSE c
            BY <3>2, OfTwo
        <3>4. Min({b, d}) = IF b <= d THEN b ELSE d
            BY <3>2, OfTwo
        <3>5. Max({a, c}) \in Nat /\ Min({b, d}) \in Nat /\ c <= Max({a, c})
            BY <3>2, <3>3, <3>4
        <3>6. first = Max({a, c}) /\ end = Min({b, d}) /\ c = rule.firstSeed
            BY <2>1 DEF a, b, c, d
        <3> QED
            BY <3>5, <3>6
    <2>2. CASE k.seeds[1] # "range"
        <3>1. k.seeds[2] \in Nat /\ k.seeds[3] \in Nat \ {0}
            BY <2>2 DEF JobFits
        <3> DEFINE a == k.seeds[2] * rule.maxShots
                   b == (k.seeds[2] + 1) * rule.maxShots
        <3>2. a \in Nat /\ b \in Nat
            BY <1>1, <3>1
        <3> HIDE DEF a, b
        <3>3. a \div k.seeds[3] \in Nat /\ b \div k.seeds[3] \in Nat
            BY <3>1, <3>2
        <3>4. /\ first = rule.firstSeed + a \div k.seeds[3]
              /\ end = rule.firstSeed + b \div k.seeds[3]
            BY <2>2 DEF a, b
        <3> QED
            BY <1>1, <3>3, <3>4
    <2> QED
        BY <2>1, <2>2
<1>3. SelectedSeeds(k, rule) = first .. end - 1
    <2>1. CASE k.seeds[1] = "range"
        BY <2>1, Zenon DEF SelectedSeeds
    <2>2. CASE k.seeds[1] # "range"
        <3>1. SelectedSeeds(k, rule)
                = rule.firstSeed + (k.seeds[2] * rule.maxShots) \div k.seeds[3] ..
                  rule.firstSeed + ((k.seeds[2] + 1) * rule.maxShots) \div k.seeds[3] - 1
            <4> HIDE DEF first, end
            <4> QED
                BY <2>2, Zenon DEF SelectedSeeds
        <3> DEFINE a == (k.seeds[2] * rule.maxShots) \div k.seeds[3]
                   b == ((k.seeds[2] + 1) * rule.maxShots) \div k.seeds[3]
        <3>2. first = rule.firstSeed + a /\ end = rule.firstSeed + b
            BY <2>2
        <3>3. SelectedSeeds(k, rule) = rule.firstSeed + a .. rule.firstSeed + (b - 1)
            BY <3>1, Zenon
        <3>4. a \in Nat /\ b \in Nat
            <4>1. k.seeds[2] \in Nat /\ k.seeds[3] \in Nat \ {0}
                BY <2>2 DEF JobFits
            <4> DEFINE x == k.seeds[2] * rule.maxShots
                       y == (k.seeds[2] + 1) * rule.maxShots
                       n == k.seeds[3]
            <4>2. x \in Nat /\ y \in Nat /\ n \in Nat \ {0}
                BY <1>1, <4>1
            <4>3. a = x \div n /\ b = y \div n
                OBVIOUS
            <4> HIDE DEF x, y, n, a, b
            <4> QED
                BY <4>2, <4>3
        <3> HIDE DEF a, b
        <3>5. rule.firstSeed + (b - 1) = (rule.firstSeed + b) - 1
            BY <1>1, <3>4
        <3> HIDE DEF first, end
        <3> QED
            BY <3>2, <3>3, <3>5
    <2> QED
        BY <2>1, <2>2
<1> HIDE DEF first, end
<1>4. IsFiniteSet(first .. end - 1)
    BY <1>2, FS_Interval
<1>5. \E a \in Nat : \E b \in Int :
        rule.firstSeed <= a /\ SelectedSeeds(k, rule) = a .. b - 1
    BY <1>2, <1>3
<1> QED
    BY <1>2, <1>3, <1>4, <1>5

\* Two units of one task that hold no seed of each other.
Apart == {w \in Units \X Units : w[1].id = w[2].id => SeedsOf(w[1]) \cap SeedsOf(w[2]) = {}}

\* A job's units for one entry have each seed of the gaps once.
LEMMA UnsavedFacts ==
    ASSUME config \in Settings, PiecesFit, NEW e \in EntriesOfFiles, NEW k, JobFits(k)
    PROVE  LET us == UnsavedUnits(e, k)
           IN  /\ us \in Seq(Units)
               /\ \A u \in Range(us) : u.id = e.id /\ u.name = e.name /\ u.learned = <<>>
               /\ UNION {SeedsOf(u) : u \in Range(us)}
                    = SelectedSeeds(k, e.rule) \ SavedSeeds(e.id)
               /\ PairsIn(us, Apart)
               /\ \A u \in Range(us) :
                    \E x \in FirstsIn(SelectedSeeds(k, e.rule) \ SavedSeeds(e.id), e.rule.pieceShots) :
                        Span(u.first, u.count) =
                            Span(x, Cardinality(RunIn(SelectedSeeds(k, e.rule) \ SavedSeeds(e.id),
                                                      e.rule.pieceShots, x)))
<1> DEFINE G == SelectedSeeds(k, e.rule) \ SavedSeeds(e.id)
           p == e.rule.pieceShots
           F == FirstsIn(G, p)
           xs == InOrder(F)
           n == [x \in F |-> Cardinality(RunIn(G, p, x))]
           us == UnsavedUnits(e, k)
<1>1. e.rule \in RuleType /\ p \in Nat \ {0} /\ e.id \in DOMAIN config.tasks /\ e.name \in Names
    BY EntryFacts DEF RuleType, Names, EntriesOfFiles
<1>2. IsFiniteSet(G) /\ \A x \in G : x \in Nat
    <2> DEFINE S == SelectedSeeds(k, e.rule)
    <2>1. IsFiniteSet(S) /\ \A x \in S : x \in Nat
        BY <1>1, SelectedFacts
    <2>2. G \subseteq S
        OBVIOUS
    <2> HIDE DEF S, G
    <2> QED
        BY <2>1, <2>2, FS_Subset
<1>3. us = [i \in DOMAIN xs |-> Unit(e, Span(xs[i], Cardinality(RunIn(G, p, xs[i]))), <<>>)]
    <2> DEFINE held == UNION {SeedsOf(q) : q \in SavedCounts(e.id)}
               H == SelectedSeeds(k, e.rule) \ held
               ys == InOrder(FirstsIn(H, e.rule.pieceShots))
    <2>1. held = SavedSeeds(e.id)
        BY SavedCountsFacts
    <2>2. us = [i \in DOMAIN ys |->
                Unit(e, Span(ys[i], Cardinality(RunIn(H, e.rule.pieceShots, ys[i]))), <<>>)]
        BY Zenon DEF UnsavedUnits, FirstsIn, RunIn, StartIn
    <2>3. H = G
        BY <2>1
    <2>4. ys = xs
        BY <2>3
    <2> HIDE DEF H, G, ys, xs, us
    <2> QED
        BY <2>2, <2>3, <2>4
<1> HIDE DEF G, p, us
<1>4. /\ \A y \in G : \E x \in F : y \in RunIn(G, p, x)
      /\ \A x, y \in F : x < y => RunIn(G, p, x) \cap RunIn(G, p, y) = {}
    BY <1>1, <1>2, CutFacts
<1>5. IsFiniteSet(F) /\ F \subseteq G
    <2>1. F \subseteq G
        BY DEF FirstsIn
    <2> HIDE DEF F
    <2> QED
        BY <1>2, <2>1, FS_Subset
<1>6. ASSUME NEW x \in F
      PROVE  /\ Cardinality(RunIn(G, p, x)) \in Nat \ {0} /\ x \in Nat
             /\ RunIn(G, p, x) = x .. x + Cardinality(RunIn(G, p, x)) - 1
             /\ RunIn(G, p, x) \subseteq G
    <2>1. x \in G /\ \A y \in G : y \in Int
        BY <1>2, <1>5
    <2> HIDE DEF F
    <2>2. /\ Cardinality(RunIn(G, p, x)) \in Nat \ {0}
          /\ RunIn(G, p, x) = x .. x + Cardinality(RunIn(G, p, x)) - 1
        BY <1>1, <2>1, RunFacts
    <2> QED
        BY <1>2, <2>1, <2>2 DEF RunIn
<1> HIDE DEF F
<1>7. xs \in Seq(F) /\ IsInjective(xs) /\ Range(xs) = F
    <2>1. \A x \in F : x \in Int
        BY <1>6
    <2> QED
        BY <1>5, <2>1, InOrderFacts
<1> HIDE DEF xs
<1>8. Len(xs) \in Nat /\ DOMAIN xs = 1 .. Len(xs) /\ DOMAIN us = 1 .. Len(xs)
    BY <1>3, <1>7, LenProperties
<1>9. ASSUME NEW i \in 1 .. Len(xs)
      PROVE  /\ us[i] \in Units /\ us[i].id = e.id /\ us[i].name = e.name /\ us[i].learned = <<>>
             /\ xs[i] \in F /\ SeedsOf(us[i]) = RunIn(G, p, xs[i])
             /\ us[i].first = xs[i] /\ us[i].count = Cardinality(RunIn(G, p, xs[i]))
    <2>1. xs[i] \in F
        BY <1>7, <1>8
    <2> DEFINE m == Cardinality(RunIn(G, p, xs[i]))
    <2>2. us[i] = Unit(e, Span(xs[i], m), <<>>)
        BY <1>3, <1>8
    <2>3. m \in Nat \ {0} /\ xs[i] \in Nat /\ RunIn(G, p, xs[i]) = xs[i] .. xs[i] + m - 1
        BY <1>6, <2>1
    <2> HIDE DEF m
    <2>4. us[i] = [id |-> e.id, name |-> e.name, first |-> xs[i], count |-> m, learned |-> <<>>]
        BY <2>2 DEF Unit, Span
    <2>5. us[i] \in Units
        BY <1>1, <2>3, <2>4 DEF Units
    <2> QED
        BY <2>1, <2>3, <2>4, <2>5 DEF SeedsOf, m
<1>10. us \in Seq(Units) /\ Len(us) = Len(xs)
    <2>1. us \in [1 .. Len(xs) -> Units]
        <3>1. us = [i \in 1 .. Len(xs) |-> us[i]]
            BY <1>3, <1>8
        <3> QED
            BY <1>9, <3>1
    <2> QED
        BY <1>8, <2>1
<1>11. Range(us) = {us[i] : i \in 1 .. Len(xs)}
    BY <1>8 DEF Range
<1>12. UNION {SeedsOf(u) : u \in Range(us)} = G
    <2>1. ASSUME NEW y \in UNION {SeedsOf(u) : u \in Range(us)}
          PROVE  y \in G
        <3>1. PICK i \in 1 .. Len(xs) : y \in SeedsOf(us[i])
            BY <1>11
        <3> QED
            BY <1>6, <1>9, <3>1
    <2>2. ASSUME NEW y \in G
          PROVE  \E u \in Range(us) : y \in SeedsOf(u)
        <3>1. PICK x \in F : y \in RunIn(G, p, x)
            BY <1>4
        <3>2. PICK i \in 1 .. Len(xs) : xs[i] = x
            BY <1>7, <1>8 DEF Range
        <3> QED
            BY <1>9, <1>11, <3>1, <3>2
    <2> QED
        BY <2>1, <2>2
<1>13. PairsIn(us, Apart)
    <2> SUFFICES ASSUME NEW i \in 1 .. Len(xs), NEW j \in 1 .. Len(xs), i < j
                 PROVE  << us[i], us[j] >> \in Apart
        BY <1>10 DEF PairsIn
    <2>1. xs[i] # xs[j] /\ xs[i] \in F /\ xs[j] \in F /\ xs[i] \in Nat /\ xs[j] \in Nat
        <3>1. xs[i] # xs[j]
            BY <1>7, <1>8 DEF IsInjective
        <3> QED
            BY <1>6, <1>9, <3>1
    <2>2. RunIn(G, p, xs[i]) \cap RunIn(G, p, xs[j]) = {}
        <3>1. xs[i] < xs[j] \/ xs[j] < xs[i]
            BY <2>1
        <3> QED
            BY <1>4, <2>1, <3>1
    <2> QED
        BY <1>9, <2>2 DEF Apart
<1>14. \A u \in Range(us) : \E x \in F :
          Span(u.first, u.count) = Span(x, Cardinality(RunIn(G, p, x)))
    BY <1>9, <1>11
<1>15. /\ us \in Seq(Units) /\ UNION {SeedsOf(u) : u \in Range(us)} = G /\ PairsIn(us, Apart)
       /\ \A u \in Range(us) : u.id = e.id /\ u.name = e.name /\ u.learned = <<>>
    BY <1>9, <1>10, <1>11, <1>12, <1>13
<1> QED
    BY <1>14, <1>15 DEF us, G, F, p

-----------------------------------------------------------------------------
(* The pools *)

\* The tasks of a command are some of its run file's, each once.
LEMMA ChosenFacts ==
    ASSUME config \in Settings, NEW s, s \in Shells, command[s] \in config.shells[s],
           command[s].verb # "fold"
    PROVE  /\ Chosen(s) \in Seq(EntriesOfFiles)
           /\ Range(Chosen(s)) \subseteq Range(Entries(s))
           /\ Range(Entries(s)) \subseteq EntriesOfFiles
           /\ \A i, j \in DOMAIN Chosen(s) : i # j =>
                Chosen(s)[i].id # Chosen(s)[j].id /\ Chosen(s)[i].name # Chosen(s)[j].name
           /\ \A e, f \in Range(Entries(s)) : e.id = f.id \/ e.name = f.name => e = f
           /\ Range(IdsOf(command[s].file)) = {e.id : e \in Range(Entries(s))}
<1> DEFINE k == command[s]
           es == config.files[k.file]
<1>1. /\ k.file \in DOMAIN config.files
      /\ k.only \in {"all"} \cup {e.name : e \in Range(es)}
    BY SettingsAssumption DEF Shells
<1>2. /\ es \in Seq(Range(es))
      /\ \A i, j \in DOMAIN es : i # j => es[i].name # es[j].name /\ es[i].id # es[j].id
    BY <1>1, SettingsAssumption
<1>3. Range(es) \subseteq EntriesOfFiles
    BY <1>1 DEF EntriesOfFiles
<1>4. Entries(s) = es
    BY DEF Entries
<1> HIDE DEF es
<1>5. es \in Seq(EntriesOfFiles)
    BY <1>2, <1>3
<1>6. \A e, f \in Range(es) : e.id = f.id \/ e.name = f.name => e = f
    BY <1>2 DEF Range
<1>7. Range(IdsOf(k.file)) = {e.id : e \in Range(es)}
    BY DEF IdsOf, Range, es
<1>8. CASE k.only = "all"
    BY <1>2, <1>3, <1>4, <1>5, <1>6, <1>7, <1>8 DEF Chosen
<1>9. CASE k.only # "all"
    <2> DEFINE named(e) == e.name = k.only
               e == CHOOSE e \in Range(es) : named(e)
    <2>1. \E x \in Range(es) : named(x)
        BY <1>1, <1>9 DEF es
    <2>2. e \in Range(es)
        <3> HIDE DEF named
        <3> QED
            BY <2>1
    <2>3. Chosen(s) = <<e>>
        BY <1>4, <1>9 DEF Chosen
    <2> HIDE DEF e, k
    <2>4. Range(<<e>>) = {e} /\ <<e>> \in Seq(EntriesOfFiles) /\ DOMAIN <<e>> = {1} /\ <<e>> # <<>>
        BY <1>3, <2>2 DEF Range
    <2> QED
        BY <1>3, <1>4, <1>6, <1>7, <2>2, <2>3, <2>4 DEF k
<1> QED
    BY <1>8, <1>9

\* The files' entries of a task.
Holders(id) == {e \in EntriesOfFiles : e.id = id}

\* A calibrator that learned from every seed from the first one of its task up
\* to, and without, x.
LearnedUpTo(id, learned, x) ==
    /\ learned \in Seq(Nat)
    /\ \A i \in 1 .. Len(learned) : learned[i] = x - Len(learned) + i - 1
    /\ \E e \in Holders(id) : x - Len(learned) = e.rule.firstSeed

SpanOf(u) == Span(u.first, u.count)

\* The pieces on the disk, each of a unit that ended.
SavedFits ==
    /\ PiecesFit
    /\ \A p \in saved : IsAdaptive(p.id) =>
        LearnedUpTo(p.id, p.learned, p.first + p.count) /\ p.learned # <<>>

\* A unit that a process holds.
UnitFits(u) ==
    /\ u \in Units
    /\ IsAdaptive(u.id) => LearnedUpTo(u.id, u.learned, u.first)

\* A task of a collect, what waits of it, and the units that run of it.
TaskFits(s, n, c) ==
    /\ Counting(c) /\ HeadWaits(c) /\ IsFiniteSet(c.saved)
    /\ c.entry \in Range(Chosen(s)) /\ c.entry.name = n
    /\ \A q \in c.saved : \E p \in PiecesOf(c.entry.id, saved) : SpanOf(p) = q
    /\ \A u \in running[s] : u.name = n => u.id = c.entry.id /\ SpanOf(u) \in Waits(c)
    /\ \A q \in Waits(c) : \E u \in running[s] : u.name = n /\ SpanOf(u) = q
    /\ \A u, v \in running[s] : u.name = n /\ v.name = n /\ SpanOf(u) = SpanOf(v) => u = v
    /\ c.last = None => c.next = c.entry.rule.firstSeed
    /\ c.last # None =>
        /\ c.next = c.last.first + c.last.count
        /\ \/ c.last \in Waits(c)
           \/ \E p \in PiecesOf(c.entry.id, saved) : SpanOf(p) = c.last

\* Where a command has a collection.
CollectPlaces == {"accepting", "starting run", "writing run", "collecting", "fold",
                  "folding", "staged", "clearing", "moving", "seeds"}

\* The pool of shell s.
PoolOf(s) ==
    /\ \A n \in DOMAIN collection[s] : \A c \in {collection[s][n]} : TaskFits(s, n, c)
    /\ \A u \in running[s] : UnitFits(u)
    /\ queued[s] \in Seq(Units) /\ \A u \in Range(queued[s]) : UnitFits(u)
    /\ \/ DOMAIN collection[s] = {}
       \/ at[s] \in CollectPlaces /\ command[s].verb \in {"collect", "record"}
    /\ running[s] # {} => at[s] \in {"collecting", "running"}
    /\ queued[s] # <<>> => at[s] = "running"
    /\ at[s] = "collecting" => \A u \in running[s] : u.name \in DOMAIN collection[s]

PoolsFit == SavedFits /\ \A s \in Shells : PoolOf(s)

\* What is said of a collection, a unit or a calibrator is about the settings.
LEMMA SettingsStay ==
    ASSUME config' = config
    PROVE  /\ \A c : Counting(c)' <=> Counting(c)
           /\ \A u : UnitFits(u)' <=> UnitFits(u)
           /\ \A id, l, x : LearnedUpTo(id, l, x)' <=> LearnedUpTo(id, l, x)
           /\ \A id : IsAdaptive(id)' = IsAdaptive(id)
           /\ Units' = Units /\ Pieces' = Pieces /\ Names' = Names
           /\ EntriesOfFiles' = EntriesOfFiles
<1>1. EntriesOfFiles' = EntriesOfFiles /\ Names' = Names
    BY DEF EntriesOfFiles, Names
<1>2. Collections' = Collections
    BY <1>1 DEF Collections
<1>3. \A id, rule, n : UncutCounts(id, rule, n)' = UncutCounts(id, rule, n)
    BY DEF UncutCounts
<1>4. \A id, rule : UncutStop(id, rule)' = UncutStop(id, rule)
    BY <1>3 DEF UncutStop
<1>5. \A id, rule, t : UncutPrefix(id, rule, t)' <=> UncutPrefix(id, rule, t)
    BY <1>3, <1>4 DEF UncutPrefix, IsAnUncutRun
<1>6. \A c : Counting(c)' <=> Counting(c)
    BY <1>2, <1>5 DEF Counting
<1>7. \A id : Holders(id)' = Holders(id)
    BY <1>1 DEF Holders
<1>8. \A id, l, x : LearnedUpTo(id, l, x)' <=> LearnedUpTo(id, l, x)
    BY <1>7 DEF LearnedUpTo
<1>9. \A id : IsAdaptive(id)' = IsAdaptive(id)
    BY DEF IsAdaptive
<1>10. Units' = Units /\ Pieces' = Pieces
    BY <1>1 DEF Units, Pieces
<1>11. \A u : UnitFits(u)' <=> UnitFits(u)
    BY <1>8, <1>9, <1>10 DEF UnitFits
<1> QED
    BY <1>1, <1>6, <1>8, <1>9, <1>10, <1>11

LEMMA TaskStays ==
    ASSUME config' = config, NEW s, Chosen(s)' = Chosen(s), running'[s] = running[s],
           saved \subseteq saved', NEW n, NEW c, TaskFits(s, n, c)
    PROVE  TaskFits(s, n, c)'
<1>1. Counting(c)'
    BY SettingsStay DEF TaskFits
<1>2. \A id : PiecesOf(id, saved) \subseteq PiecesOf(id, saved')
    BY DEF PiecesOf
<1> QED
    BY <1>1, <1>2 DEF TaskFits, HeadWaits, Waits

\* Another shell's steps leave a pool as it was.
LEMMA PoolStays ==
    ASSUME config' = config, NEW s, Keeps(s), saved \subseteq saved', PoolOf(s)
    PROVE  PoolOf(s)'
<1>1. Chosen(s)' = Chosen(s)
    BY DEF Chosen, Entries, Keeps
<1>2. running'[s] = running[s] /\ collection'[s] = collection[s] /\ queued'[s] = queued[s]
      /\ at'[s] = at[s] /\ command'[s] = command[s]
    BY DEF Keeps
<1>3. \A n \in DOMAIN collection[s] : \A c \in {collection[s][n]} : TaskFits(s, n, c)'
    BY <1>1, <1>2, TaskStays DEF PoolOf
<1>4. /\ \A u \in running[s] : UnitFits(u)'
      /\ Units' = Units /\ \A u \in Range(queued[s]) : UnitFits(u)'
    BY SettingsStay DEF PoolOf
<1> QED
    BY <1>2, <1>3, <1>4 DEF PoolOf

\* A calibrator after its unit.
LEMMA LearnedAfterFacts ==
    ASSUME NEW u, UnitFits(u)
    PROVE  /\ LearnedAfter(u) \in Seq(Nat)
           /\ IsAdaptive(u.id) =>
                LearnedUpTo(u.id, LearnedAfter(u), u.first + u.count) /\ LearnedAfter(u) # <<>>
<1> DEFINE a == u.learned
           n == u.count
           first == u.first
           b == [i \in 1 .. n |-> first + i - 1]
           r == a \o b
<1>1. first \in Nat /\ n \in Nat \ {0} /\ a \in Seq(Nat)
    BY DEF UnitFits, Units
<1> HIDE DEF a, n, first
<1>2. b \in Seq(Nat) /\ Len(b) = n /\ \A i \in 1 .. n : b[i] = first + i - 1
    <2>1. b \in [1 .. n -> Nat]
        BY <1>1
    <2> HIDE DEF b
    <2>2. \A i \in 1 .. n : b[i] = first + i - 1
        BY DEF b
    <2> QED
        BY <1>1, <2>1, <2>2
<1>3. CASE ~IsAdaptive(u.id)
    BY <1>3 DEF LearnedAfter
<1>4. CASE IsAdaptive(u.id)
    <2>1. LearnedAfter(u) = r
        BY <1>4 DEF LearnedAfter, a, n, first
    <2>2. LearnedUpTo(u.id, a, first)
        BY <1>4 DEF UnitFits, a, first
    <2>3. Len(a) \in Nat /\ \A i \in 1 .. Len(a) : a[i] = first - Len(a) + i - 1
        BY <1>1, <2>2, LenProperties DEF LearnedUpTo
    <2> HIDE DEF b
    <2>4. r \in Seq(Nat) /\ Len(r) = Len(a) + n
        BY <1>1, <1>2
    <2>5. ASSUME NEW i \in 1 .. Len(r)
          PROVE  r[i] = (first + n) - Len(r) + i - 1
        <3>1. CASE i <= Len(a)
            <4>1. r[i] = a[i] /\ i \in 1 .. Len(a)
                BY <1>1, <1>2, <2>3, <2>4, <3>1
            <4> QED
                BY <1>1, <2>3, <2>4, <4>1
        <3>2. CASE i > Len(a)
            <4>1. r[i] = b[i - Len(a)] /\ i - Len(a) \in 1 .. n
                BY <1>1, <1>2, <2>3, <2>4, <3>2
            <4> QED
                BY <1>1, <1>2, <2>3, <2>4, <4>1
        <3> QED
            BY <2>3, <3>1, <3>2
    <2>6. (first + n) - Len(r) = first - Len(a)
        BY <1>1, <2>3, <2>4
    <2>7. \E e \in Holders(u.id) : (first + n) - Len(r) = e.rule.firstSeed
        BY <2>2, <2>6 DEF LearnedUpTo
    <2>8. LearnedUpTo(u.id, r, first + n)
        BY <2>4, <2>5, <2>7 DEF LearnedUpTo
    <2>9. r # <<>>
        BY <1>1, <2>3, <2>4
    <2> QED
        BY <2>1, <2>4, <2>8, <2>9 DEF first, n
<1> QED
    BY <1>3, <1>4

\* A unit that ends is on the disk, and nothing else has changed there.
LEMMA SaveFacts ==
    ASSUME config' = config, NEW u, UnitFits(u), Save(u), SavedFits
    PROVE  /\ SavedFits' /\ saved \subseteq saved'
           /\ \E p \in PiecesOf(u.id, saved') : SpanOf(p) = SpanOf(u)
           /\ \A p \in saved' \ saved : p.id = u.id /\ SpanOf(p) = SpanOf(u)
           /\ saved' # saved => \A p \in PiecesOf(u.id, saved) : SpanOf(p) # SpanOf(u)
           /\ \A p, q \in saved' \ saved : p = q
<1> DEFINE piece == [id |-> u.id, first |-> u.first, count |-> u.count,
                     learned |-> LearnedAfter(u)]
<1>1. /\ piece \in Pieces /\ SpanOf(piece) = SpanOf(u) /\ piece.id = u.id
      /\ IsAdaptive(piece.id) =>
            LearnedUpTo(piece.id, piece.learned, piece.first + piece.count) /\ piece.learned # <<>>
    <2>1. u \in Units
        BY DEF UnitFits
    <2>2. /\ LearnedAfter(u) \in Seq(Nat)
          /\ IsAdaptive(u.id) =>
                LearnedUpTo(u.id, LearnedAfter(u), u.first + u.count) /\ LearnedAfter(u) # <<>>
        BY LearnedAfterFacts
    <2> QED
        BY <2>1, <2>2 DEF Units, Pieces, SpanOf
<1>2. \/ saved' = saved /\ \E p \in PiecesOf(u.id, saved) : SpanOf(p) = SpanOf(u)
      \/ /\ saved' = saved \cup {piece}
         /\ \A p \in PiecesOf(u.id, saved) : SpanOf(p) # SpanOf(u)
    BY DEF Save, SpanOf
<1> HIDE DEF piece
<1>3. PiecesFit /\ \A p \in saved : IsAdaptive(p.id) =>
            LearnedUpTo(p.id, p.learned, p.first + p.count) /\ p.learned # <<>>
    BY DEF SavedFits
<1>4. /\ Pieces' = Pieces /\ \A id : IsAdaptive(id)' = IsAdaptive(id)
      /\ \A id, l, x : LearnedUpTo(id, l, x)' <=> LearnedUpTo(id, l, x)
    BY SettingsStay
<1>5. CASE saved' = saved /\ \E p \in PiecesOf(u.id, saved) : SpanOf(p) = SpanOf(u)
    BY <1>3, <1>4, <1>5 DEF SavedFits, PiecesFit
<1>6. CASE /\ saved' = saved \cup {piece}
           /\ \A p \in PiecesOf(u.id, saved) : SpanOf(p) # SpanOf(u)
    <2>1. IsFiniteSet(saved') /\ saved' \subseteq Pieces
        BY <1>1, <1>3, <1>6, FS_AddElement DEF PiecesFit
    <2>2. SavedFits'
        BY <1>1, <1>3, <1>4, <1>6, <2>1 DEF SavedFits, PiecesFit
    <2>3. piece \in PiecesOf(u.id, saved')
        BY <1>1, <1>6 DEF PiecesOf
    <2> QED
        BY <1>1, <1>6, <2>2, <2>3
<1> QED
    BY <1>2, <1>5, <1>6

\* A pool at the start.
LEMMA PoolAtRest ==
    ASSUME NEW s, RestingMemory(s)
    PROVE  PoolOf(s)
    BY DEF RestingMemory, PoolOf, Range

LEMMA InitHasPools == Init => PoolsFit
<1> SUFFICES ASSUME Init
             PROVE  PoolsFit
    OBVIOUS
<1>1. \A s \in Shells : RestingMemory(s)
    BY DEF Init, InitFor, RestingMemory, Shells
<1>2. SavedFits
    BY FS_EmptySet DEF Init, InitFor, SavedFits, PiecesFit
<1> QED
    BY <1>1, <1>2, PoolAtRest DEF PoolsFit

\* A step that neither touches a pool nor a piece.
LEMMA QuietPool ==
    ASSUME config' = config, saved' = saved, NEW s, PoolOf(s),
           collection'[s] = collection[s], running'[s] = running[s], queued'[s] = queued[s],
           command'[s] = command[s] \/ DOMAIN collection[s] = {},
           at'[s] \in CollectPlaces \/ DOMAIN collection[s] = {},
           running[s] # {} => at'[s] \in {"collecting", "running"},
           queued[s] # <<>> => at'[s] = "running",
           at'[s] = "collecting" => at[s] = "collecting" \/ running[s] = {}
    PROVE  PoolOf(s)'
<1>0. Chosen(s)' = Chosen(s) \/ DOMAIN collection[s] = {}
    <2>1. ASSUME command'[s] = command[s]
          PROVE  Chosen(s)' = Chosen(s)
        BY <2>1 DEF Chosen, Entries
    <2> QED
        BY <2>1
<1>1. \A n \in DOMAIN collection[s] : \A c \in {collection[s][n]} : TaskFits(s, n, c)'
    BY <1>0, TaskStays DEF PoolOf
<1>2. /\ \A u \in running[s] : UnitFits(u)'
      /\ Units' = Units /\ \A u \in Range(queued[s]) : UnitFits(u)'
    BY SettingsStay DEF PoolOf
<1>3. at[s] = "collecting" => \A u \in running[s] : u.name \in DOMAIN collection[s]
    BY DEF PoolOf
<1>4. \/ DOMAIN collection'[s] = {}
      \/ at'[s] \in CollectPlaces /\ command'[s].verb \in {"collect", "record"}
    BY DEF PoolOf
<1>5. at'[s] = "collecting" => \A u \in running'[s] : u.name \in DOMAIN collection'[s]
    BY <1>3
<1>6. queued'[s] \in Seq(Units)' /\ \A u \in Range(queued'[s]) : UnitFits(u)'
    BY <1>2 DEF PoolOf
<1>7. \A n \in DOMAIN collection'[s] : \A c \in {collection'[s][n]} : TaskFits(s, n, c)'
    BY <1>1
<1>8. \A u \in running'[s] : UnitFits(u)'
    BY <1>2
<1>9. /\ running'[s] # {} => at'[s] \in {"collecting", "running"}
      /\ queued'[s] # <<>> => at'[s] = "running"
    OBVIOUS
<1> QED
    BY <1>4, <1>5, <1>6, <1>7, <1>8, <1>9 DEF PoolOf

\* A task whose pieces on the disk have just been read.
LEMMA NewTaskFits ==
    ASSUME config \in Settings, SavedFits, NEW s, running[s] = {}, NEW e \in Range(Chosen(s)),
           e \in EntriesOfFiles
    PROVE  TaskFits(s, e.name, NewCollection(e))
<1> DEFINE c == NewCollection(e)
<1>1. /\ SavedCounts(e.id) \subseteq Spans /\ IsFiniteSet(SavedCounts(e.id))
      /\ \A p \in SavedCounts(e.id) : \E q \in PiecesOf(e.id, saved) : SpanOf(q) = p
    BY SavedCountsFacts DEF SavedFits, SpanOf
<1>2. /\ c.entry = e /\ c.saved = SavedCounts(e.id) /\ c.next = e.rule.firstSeed
      /\ c.pending = <<>> /\ c.finished = {} /\ c.last = None /\ c.tracker = StartOfPrefix
    BY DEF NewCollection
<1>3. UncutPrefix(e.id, e.rule, StartOfPrefix) /\ e.rule.firstSeed \in Nat
    BY EntryFacts, StartIsUncut DEF RuleType
<1>4. c \in Collections
    BY <1>1, <1>3 DEF NewCollection, Collections, UncutPrefix
<1> HIDE DEF c
<1>5. Counting(c)
    BY <1>2, <1>3, <1>4 DEF Counting, IsChain, StartOfPrefix
<1>6. HeadWaits(c) /\ Waits(c) = {}
    BY <1>2 DEF HeadWaits, Waits, Range
<1> QED
    BY <1>1, <1>2, <1>5, <1>6 DEF TaskFits, c

LEMMA ReadSavedPool ==
    ASSUME Shape, PoolsFit, NEW s \in Shells, ReadSaved(s), config' = config
    PROVE  PoolOf(s)'
<1>1. /\ at[s] = "recording" /\ at'[s] = "accepting" /\ saved' = saved /\ command' = command
      /\ running' = running /\ queued' = queued
      /\ collection'[s] = [n \in {e.name : e \in Range(Chosen(s))} |->
                            NewCollection(CHOOSE e \in Range(Chosen(s)) : e.name = n)]
    BY DEF ReadSaved, Goes, disk, Shape, OwnDomains
<1>2. /\ PoolOf(s) /\ SavedFits /\ running[s] = {} /\ queued[s] = <<>>
    BY <1>1 DEF PoolsFit, PoolOf
<1>3. /\ config \in Settings /\ command[s] \in config.shells[s] /\ command[s].verb # "fold"
    BY <1>1 DEF Shape, ShapeOf, VerbFits, Resting
<1>4. Range(Chosen(s)) \subseteq EntriesOfFiles
    BY <1>3, ChosenFacts
<1>5. Chosen(s)' = Chosen(s)
    BY <1>1 DEF Chosen, Entries
<1>6. ASSUME NEW n \in DOMAIN collection'[s], NEW c \in {collection'[s][n]}
      PROVE  TaskFits(s, n, c)'
    <2> DEFINE named(x) == x.name = n
               e == CHOOSE x \in Range(Chosen(s)) : named(x)
    <2>1. \E x \in Range(Chosen(s)) : named(x)
        BY <1>1
    <2>2. e \in Range(Chosen(s)) /\ named(e)
        <3> HIDE DEF named
        <3> QED
            BY <2>1
    <2>3. c = NewCollection(e)
        BY <1>1
    <2> HIDE DEF e
    <2>4. TaskFits(s, n, c)
        BY <1>2, <1>3, <1>4, <2>2, <2>3, NewTaskFits
    <2> QED
        BY <1>1, <1>5, <2>4, TaskStays
<1>7. /\ running'[s] = {} /\ queued'[s] = <<>> /\ at'[s] = "accepting"
      /\ command'[s].verb \in {"collect", "record"}
    BY <1>1, <1>2 DEF Shape, ShapeOf, VerbFits, Resting
<1> QED
    BY <1>6, <1>7 DEF PoolOf, CollectPlaces, Range

\* Where the units of another task come and go.
LEMMA OtherTaskStays ==
    ASSUME config' = config, NEW s, Chosen(s)' = Chosen(s), saved \subseteq saved',
           NEW n, NEW c, TaskFits(s, n, c),
           \A u : u.name = n => (u \in running'[s] <=> u \in running[s])
    PROVE  TaskFits(s, n, c)'
<1>1. Counting(c)'
    BY SettingsStay DEF TaskFits
<1>2. \A id : PiecesOf(id, saved) \subseteq PiecesOf(id, saved')
    BY DEF PiecesOf
<1>3. \A u \in running'[s] : u.name = n => u.id = c.entry.id /\ SpanOf(u) \in Waits(c)
    BY DEF TaskFits
<1>4. \A q \in Waits(c) : \E u \in running'[s] : u.name = n /\ SpanOf(u) = q
    BY DEF TaskFits
<1>5. \A u, v \in running'[s] : u.name = n /\ v.name = n /\ SpanOf(u) = SpanOf(v) => u = v
    BY DEF TaskFits
<1> QED
    BY <1>1, <1>2, <1>3, <1>4, <1>5 DEF TaskFits, HeadWaits, Waits

\* The calibrator that the next piece of a task starts with.
LEMMA StartStateFacts ==
    ASSUME config \in Settings, SavedFits, NEW s, NEW n, NEW c, TaskFits(s, n, c), TakesAPiece(c)
    PROVE  /\ StateToStartFrom(c) \in Seq(Nat)
           /\ IsAdaptive(c.entry.id) => LearnedUpTo(c.entry.id, StateToStartFrom(c), c.next)
<1>1. /\ Counting(c) /\ HeadWaits(c) /\ c.entry \in EntriesOfFiles /\ c.entry.rule.firstSeed \in Nat
      /\ c.tracker.stop = None
    BY EntryFacts DEF TaskFits, Counting, Collections, TakesAPiece, RuleType
<1>2. CASE ~IsAdaptive(c.entry.id)
    BY <1>2 DEF StateToStartFrom
<1>3. CASE IsAdaptive(c.entry.id) /\ c.last = None
    <2>1. StateToStartFrom(c) = <<>> /\ c.next = c.entry.rule.firstSeed
        BY <1>3 DEF StateToStartFrom, TaskFits
    <2>2. c.entry \in Holders(c.entry.id)
        BY <1>1 DEF Holders
    <2>3. LearnedUpTo(c.entry.id, <<>>, c.next)
        BY <1>1, <2>1, <2>2 DEF LearnedUpTo
    <2> QED
        BY <2>1, <2>3
<1>4. CASE IsAdaptive(c.entry.id) /\ c.last # None
    <2>1. Waits(c) = {}
        BY <1>1, <1>4, IdleFacts DEF TakesAPiece
    <2> DEFINE left(p) == Span(p.first, p.count) = c.last
               q == CHOOSE p \in PiecesOf(c.entry.id, saved) : left(p)
    <2>2. \E p \in PiecesOf(c.entry.id, saved) : left(p)
        BY <1>4, <2>1 DEF TaskFits, SpanOf
    <2>3. q \in PiecesOf(c.entry.id, saved) /\ left(q)
        <3> HIDE DEF left
        <3> QED
            BY <2>2
    <2>4. StateToStartFrom(c) = q.learned
        BY <1>4 DEF StateToStartFrom
    <2> HIDE DEF q
    <2>5. q.id = c.entry.id /\ q \in saved /\ q.first + q.count = c.next
        BY <1>4, <2>3 DEF PiecesOf, TaskFits, Span
    <2>6. LearnedUpTo(c.entry.id, q.learned, c.next)
        BY <1>4, <2>5 DEF SavedFits
    <2> QED
        BY <2>4, <2>6 DEF LearnedUpTo
<1> QED
    BY <1>2, <1>3, <1>4

\* A piece is handed out once more.
LEMMA HandedOutKeeps ==
    ASSUME NEW c, Counting(c), HeadWaits(c)
    PROVE  LET r == [c EXCEPT !.handedOut = @ + 1]
           IN  /\ Counting(r) /\ HeadWaits(r) /\ Waits(r) = Waits(c)
               /\ r.entry = c.entry /\ r.saved = c.saved /\ r.next = c.next /\ r.last = c.last
<1> DEFINE r == [c EXCEPT !.handedOut = @ + 1]
<1>1. c \in Collections
    BY DEF Counting
<1>2. /\ r \in Collections /\ r.entry = c.entry /\ r.saved = c.saved /\ r.next = c.next
      /\ r.last = c.last /\ r.pending = c.pending /\ r.finished = c.finished
      /\ r.tracker = c.tracker
    BY <1>1 DEF Collections
<1> HIDE DEF r
<1>3. Counting(r) /\ HeadWaits(r) /\ Waits(r) = Waits(c)
    BY <1>2 DEF Counting, HeadWaits, Waits
<1> QED
    BY <1>2, <1>3 DEF r

\* Span p of task n is handed out: a saved one ends at once, and a new one is a
\* unit that runs.
HandsOut(s, n, c, p, r, more) ==
    /\ n \in DOMAIN collection[s] /\ c = collection[s][n] /\ p = PieceToHandOut(c)
    /\ TaskFits(s, n, c) /\ TakesAPiece(c) /\ p \in Spans /\ p.first = c.next
    /\ at[s] = "collecting" /\ at' = at /\ saved' = saved /\ command' = command
    /\ queued' = queued /\ queued[s] = <<>> /\ running'[s] = running[s] \cup more
    /\ collection'[s][n] = r /\ DOMAIN collection'[s] = DOMAIN collection[s]
    /\ \A m \in DOMAIN collection[s] : m # n => collection'[s][m] = collection[s][m]
    /\ r.entry = c.entry /\ r.saved = c.saved /\ r.next = p.first + p.count
    /\ Waits(r) = Waits(c) \cup {SpanOf(v) : v \in more}
    /\ \A v \in more : UnitFits(v) /\ v.name = n /\ v.id = c.entry.id /\ SpanOf(v) = p
    /\ more = {} <=> p \in c.saved

LEMMA HandOutPool ==
    ASSUME Shape, PoolsFit, NEW s \in Shells, HandOut(s), config' = config
    PROVE  PoolOf(s)' /\ \E n, c, p, r, more : HandsOut(s, n, c, p, r, more)
<1>1. PICK n \in Neediest(s) :
        LET c == collection[s][n]
            p == PieceToHandOut(c)
            pending == MakePending(c, p)
        IN  IF p \in c.saved
            THEN /\ collection' = [collection EXCEPT ![s][n] = PieceEnded(pending, p)]
                 /\ UNCHANGED running
            ELSE /\ collection' = [collection EXCEPT ![s][n] =
                                      [pending EXCEPT !.handedOut = @ + 1]]
                 /\ running' = [running EXCEPT ![s] = @ \cup
                                  {Unit(c.entry, p, StateToStartFrom(c))}]
    BY DEF HandOut
<1> DEFINE c == collection[s][n]
           p == PieceToHandOut(c)
           d == MakePending(c, p)
           u == Unit(c.entry, p, StateToStartFrom(c))
           r == IF p \in c.saved THEN PieceEnded(d, p) ELSE [d EXCEPT !.handedOut = @ + 1]
           more == IF p \in c.saved THEN {} ELSE {u}
<1>2. /\ at[s] = "collecting" /\ at' = at /\ saved' = saved /\ command' = command
      /\ queued' = queued /\ collection' = [collection EXCEPT ![s][n] = r]
      /\ running'[s] = running[s] \cup more
    BY <1>1 DEF HandOut, disk, Shape, OwnDomains
<1>3. n \in DOMAIN collection[s] /\ TakesAPiece(c)
    BY DEF Neediest, Takers
<1>4. TaskFits(s, n, c) /\ SavedFits /\ PoolOf(s) /\ queued[s] = <<>> /\ config \in Settings
    BY <1>2, <1>3 DEF PoolsFit, PoolOf, Shape
<1>5. /\ collection'[s][n] = r /\ DOMAIN collection'[s] = DOMAIN collection[s]
      /\ \A m \in DOMAIN collection[s] : m # n => collection'[s][m] = collection[s][m]
    <2>1. DOMAIN collection = Shells
        BY DEF Shape, OwnDomains
    <2> HIDE DEF r
    <2> QED
        BY <1>2, <1>3, <2>1
<1>6. Chosen(s)' = Chosen(s)
    BY <1>2 DEF Chosen, Entries
<1>7. /\ Counting(c) /\ HeadWaits(c) /\ IsFiniteSet(c.saved) /\ c \in Collections
      /\ c.entry \in EntriesOfFiles /\ c.entry.name = n
    BY <1>4 DEF TaskFits, Counting, Collections
<1>8. p \in Spans /\ p.first = c.next
    <2> HIDE DEF c
    <2> QED
        BY <1>3, <1>4, <1>7, NextSpanFacts
<1>9. /\ StateToStartFrom(c) \in Seq(Nat)
      /\ IsAdaptive(c.entry.id) => LearnedUpTo(c.entry.id, StateToStartFrom(c), c.next)
    BY <1>3, <1>4, StartStateFacts
<1> HIDE DEF c
<1>10. UnitFits(u) /\ u.name = n /\ u.id = c.entry.id /\ SpanOf(u) = p
    <2>1. c.entry.id \in DOMAIN config.tasks /\ c.entry.name \in Names
        BY <1>4, <1>7, EntryFacts DEF Names, EntriesOfFiles
    <2> DEFINE l == StateToStartFrom(c)
    <2>2. u = [id |-> c.entry.id, name |-> c.entry.name, first |-> p.first, count |-> p.count,
               learned |-> l]
        BY DEF Unit
    <2> HIDE DEF p, u, l
    <2>3. u \in Units
        BY <1>8, <1>9, <2>1, <2>2 DEF Units, Spans, l
    <2>4. IsAdaptive(u.id) => LearnedUpTo(u.id, u.learned, u.first)
        BY <1>8, <1>9, <2>2 DEF l
    <2>5. SpanOf(u) = p
        BY <1>8, <2>2 DEF SpanOf, Span, Spans
    <2> QED
        BY <1>7, <2>2, <2>3, <2>4, <2>5 DEF UnitFits
<1> HIDE DEF p, u
<1>11. /\ Counting(d) /\ HeadWaits(d) /\ Waits(d) = Waits(c) \cup {p} /\ p \notin Waits(c)
       /\ d.entry = c.entry /\ d.saved = c.saved /\ d.next = p.first + p.count /\ d.last = p
    BY <1>4, <1>7, <1>8, PendingKeeps
<1> HIDE DEF d
<1>12. /\ Counting(r) /\ HeadWaits(r) /\ r.entry = c.entry /\ r.saved = c.saved
       /\ r.next = p.first + p.count /\ r.last = p
       /\ Waits(r) = Waits(c) \cup {SpanOf(v) : v \in more}
    <2>1. CASE p \in c.saved
        <3>1. p \in Waits(d)
            BY <1>11
        <3> DEFINE x == PieceEnded(d, p)
        <3>2. /\ Counting(x) /\ HeadWaits(x) /\ Waits(x) = Waits(d) \ {p}
              /\ x.entry = d.entry /\ x.saved = d.saved /\ x.next = d.next /\ x.last = d.last
            BY <1>4, <1>11, <3>1, EndedKeeps
        <3>3. x = r /\ more = {}
            BY <2>1
        <3> HIDE DEF x, r, more
        <3> QED
            BY <1>11, <3>2, <3>3
    <2>2. CASE p \notin c.saved
        <3> DEFINE x == [d EXCEPT !.handedOut = @ + 1]
        <3>2. /\ Counting(x) /\ HeadWaits(x) /\ Waits(x) = Waits(d)
              /\ x.entry = d.entry /\ x.saved = d.saved /\ x.next = d.next /\ x.last = d.last
            BY <1>11, HandedOutKeeps
        <3>3. x = r /\ more = {u}
            BY <2>2
        <3> HIDE DEF x, r, more
        <3> QED
            BY <1>10, <1>11, <3>2, <3>3
    <2> QED
        BY <2>1, <2>2
<1>13. /\ \A v \in more : v = u
       /\ more = {} => \E q \in PiecesOf(c.entry.id, saved) : SpanOf(q) = p
       /\ more = {} <=> p \in c.saved
    BY <1>4 DEF TaskFits
<1> HIDE DEF r, more
<1>13a. PICK y : y = r
    OBVIOUS
<1>14. TaskFits(s, n, y)'
    <2>1. Counting(y)'
        BY <1>12, <1>13a, SettingsStay
    <2>2. \A v \in running'[s] : v.name = n => v.id = y.entry.id /\ SpanOf(v) \in Waits(y)
        BY <1>2, <1>4, <1>10, <1>12, <1>13a, <1>13 DEF TaskFits
    <2>3. \A q \in Waits(y) : \E v \in running'[s] : v.name = n /\ SpanOf(v) = q
        <3>1. ASSUME NEW q \in Waits(y)
              PROVE  \E v \in running'[s] : v.name = n /\ SpanOf(v) = q
            <4>1. CASE q \in Waits(c)
                BY <1>2, <1>4, <4>1 DEF TaskFits
            <4>2. CASE q \notin Waits(c)
                BY <1>2, <1>10, <1>12, <1>13a, <1>13, <4>2
            <4> QED
                BY <4>1, <4>2
        <3> QED
            BY <3>1
    <2>4. \A v, w \in running'[s] : v.name = n /\ w.name = n /\ SpanOf(v) = SpanOf(w) => v = w
        BY <1>2, <1>4, <1>10, <1>11, <1>13 DEF TaskFits
    <2>5. /\ y.next = y.last.first + y.last.count
          /\ y.last \in Waits(y) \/ \E q \in PiecesOf(y.entry.id, saved') : SpanOf(q) = y.last
        BY <1>2, <1>10, <1>12, <1>13a, <1>13
    <2>6. y.last # None
        BY <1>8, <1>12, <1>13a, ValuesAssumption
    <2>7. /\ HeadWaits(y) /\ IsFiniteSet(y.saved) /\ y.entry \in Range(Chosen(s)') /\ y.entry.name = n
          /\ \A q \in y.saved : \E x \in PiecesOf(y.entry.id, saved') : SpanOf(x) = q
        BY <1>2, <1>4, <1>6, <1>7, <1>12, <1>13a DEF TaskFits
    <2> QED
        BY <2>1, <2>2, <2>3, <2>4, <2>5, <2>6, <2>7 DEF TaskFits
<1>15. ASSUME NEW m \in DOMAIN collection'[s], NEW x \in {collection'[s][m]}
       PROVE  TaskFits(s, m, x)'
    <2>1. CASE m = n
        <3>1. x = y
            BY <1>5, <1>13a, <2>1
        <3> QED
            BY <1>14, <2>1, <3>1
    <2>2. CASE m # n
        <3>1. TaskFits(s, m, x)
            BY <1>4, <1>5, <2>2 DEF PoolOf
        <3>2. \A v : v.name = m => (v \in running'[s] <=> v \in running[s])
            BY <1>2, <1>10, <1>13, <2>2
        <3> QED
            BY <1>2, <1>6, <3>1, <3>2, OtherTaskStays
    <2> QED
        BY <2>1, <2>2
<1>16. \A v \in running'[s] : UnitFits(v)' /\ v.name \in DOMAIN collection'[s]
    <2>1. \A v \in running'[s] : UnitFits(v) /\ v.name \in DOMAIN collection'[s]
        BY <1>2, <1>3, <1>4, <1>5, <1>10, <1>13 DEF PoolOf
    <2> QED
        BY <2>1, SettingsStay
<1>17. at'[s] = "collecting" /\ queued'[s] = <<>> /\ command'[s].verb \in {"collect", "record"}
    BY <1>2, <1>3, <1>4 DEF PoolOf
<1>18. PoolOf(s)'
    BY <1>15, <1>16, <1>17 DEF PoolOf, CollectPlaces, Range
<1>19. c = collection[s][n] /\ p = PieceToHandOut(c) /\ TakesAPiece(c)
    BY <1>3 DEF c, p
<1>20. HandsOut(s, n, c, p, r, more)
    BY <1>2, <1>3, <1>4, <1>5, <1>8, <1>10, <1>12, <1>13, <1>19 DEF HandsOut
<1> QED
    BY <1>18, <1>20

\* Unit u of a collect has ended.
UnitEnds(s, u, c, r) ==
    LET n == u.name
    IN  /\ n \in DOMAIN collection[s] /\ c = collection[s][n] /\ TaskFits(s, n, c)
        /\ at[s] = "collecting" /\ at' = at /\ command' = command /\ Save(u)
        /\ queued' = queued /\ queued[s] = <<>> /\ running'[s] = running[s] \ {u}
        /\ UnitFits(u) /\ u.id = c.entry.id /\ SpanOf(u) \in Waits(c)
        /\ collection'[s][n] = r /\ DOMAIN collection'[s] = DOMAIN collection[s]
        /\ \A m \in DOMAIN collection[s] : m # n => collection'[s][m] = collection[s][m]
        /\ r.entry = c.entry /\ r.saved = c.saved /\ r.next = c.next
        /\ Waits(r) = Waits(c) \ {SpanOf(u)}

LEMMA PieceEndsPool ==
    ASSUME Shape, PoolsFit, NEW s \in Shells, NEW u \in running[s], PieceEnds(s, u),
           config' = config
    PROVE  /\ PoolOf(s)' /\ SavedFits' /\ saved \subseteq saved'
           /\ \E c, r : UnitEnds(s, u, c, r)
<1> DEFINE n == u.name
           c == collection[s][n]
           p == SpanOf(u)
           r == PieceEnded(c, p)
<1>1. /\ at[s] = "collecting" /\ at' = at /\ command' = command
      /\ queued' = queued /\ Save(u) /\ running'[s] = running[s] \ {u}
    BY DEF PieceEnds, Shape, OwnDomains
<1>2. collection' = [collection EXCEPT ![s][n] = r]
    BY DEF PieceEnds, SpanOf
<1>3. PoolOf(s) /\ SavedFits /\ queued[s] = <<>> /\ UnitFits(u) /\ n \in DOMAIN collection[s]
    BY <1>1 DEF PoolsFit, PoolOf
<1>4. TaskFits(s, n, c) /\ config \in Settings
    BY <1>3 DEF PoolOf, Shape
<1>5. /\ SavedFits' /\ saved \subseteq saved'
      /\ \E q \in PiecesOf(u.id, saved') : SpanOf(q) = p
    BY <1>1, <1>3, SaveFacts
<1> HIDE DEF n
<1>6. /\ collection'[s][n] = r /\ DOMAIN collection'[s] = DOMAIN collection[s]
      /\ \A m \in DOMAIN collection[s] : m # n => collection'[s][m] = collection[s][m]
    <2>1. DOMAIN collection = Shells
        BY DEF Shape, OwnDomains
    <2> HIDE DEF r
    <2> QED
        BY <1>2, <1>3, <2>1
<1>7. Chosen(s)' = Chosen(s)
    BY <1>1 DEF Chosen, Entries
<1> HIDE DEF c, p
<1>8. /\ Counting(c) /\ p \in Waits(c) /\ u.id = c.entry.id
    BY <1>4 DEF TaskFits, n, p
<1>9. /\ Counting(r) /\ HeadWaits(r) /\ Waits(r) = Waits(c) \ {p}
      /\ r.entry = c.entry /\ r.saved = c.saved /\ r.next = c.next /\ r.last = c.last
    BY <1>4, <1>8, EndedKeeps
<1>10. PICK y : y = r
    OBVIOUS
<1> HIDE DEF r
<1>11. TaskFits(s, n, y)'
    <2>1. Counting(y)'
        BY <1>9, <1>10, SettingsStay
    <2>2. \A v \in running'[s] : v.name = n => v.id = y.entry.id /\ SpanOf(v) \in Waits(y)
        <3>1. \A v \in running'[s] : v.name = n => v \in running[s] /\ v # u
            BY <1>1
        <3>2. \A v \in running[s] : v.name = n /\ v # u => SpanOf(v) # p
            BY <1>4 DEF TaskFits, n, p
        <3> QED
            BY <1>4, <1>9, <1>10, <3>1, <3>2 DEF TaskFits
    <2>3. \A q \in Waits(y) : \E v \in running'[s] : v.name = n /\ SpanOf(v) = q
        <3>1. ASSUME NEW q \in Waits(y)
              PROVE  \E v \in running'[s] : v.name = n /\ SpanOf(v) = q
            <4>1. q \in Waits(c) /\ q # p
                BY <1>9, <1>10
            <4>2. PICK v \in running[s] : v.name = n /\ SpanOf(v) = q
                BY <1>4, <4>1 DEF TaskFits
            <4> QED
                BY <1>1, <4>1, <4>2 DEF p
        <3> QED
            BY <3>1
    <2>4. \A v, w \in running'[s] : v.name = n /\ w.name = n /\ SpanOf(v) = SpanOf(w) => v = w
        BY <1>1, <1>4 DEF TaskFits
    <2>5. \A q \in PiecesOf(c.entry.id, saved) : q \in PiecesOf(c.entry.id, saved')
        BY <1>5 DEF PiecesOf
    <2>6. ASSUME y.last # None
          PROVE  /\ y.next = y.last.first + y.last.count
                 /\ \/ y.last \in Waits(y)
                    \/ \E q \in PiecesOf(y.entry.id, saved') : SpanOf(q) = y.last
        BY <1>4, <1>5, <1>8, <1>9, <1>10, <2>5, <2>6 DEF TaskFits
    <2>7. y.last = None => y.next = y.entry.rule.firstSeed
        BY <1>4, <1>9, <1>10 DEF TaskFits
    <2>8. /\ HeadWaits(y) /\ IsFiniteSet(y.saved) /\ y.entry \in Range(Chosen(s)') /\ y.entry.name = n
          /\ \A q \in y.saved : \E x \in PiecesOf(y.entry.id, saved') : SpanOf(x) = q
        BY <1>4, <1>7, <1>9, <1>10, <2>5 DEF TaskFits
    <2> QED
        BY <2>1, <2>2, <2>3, <2>4, <2>6, <2>7, <2>8 DEF TaskFits
<1>12. ASSUME NEW m \in DOMAIN collection'[s], NEW x \in {collection'[s][m]}
       PROVE  TaskFits(s, m, x)'
    <2>1. CASE m = n
        <3>1. x = y
            BY <1>6, <1>10, <2>1
        <3> QED
            BY <1>11, <2>1, <3>1
    <2>2. CASE m # n
        <3>1. TaskFits(s, m, x)
            BY <1>3, <1>6, <2>2 DEF PoolOf
        <3>2. \A v : v.name = m => (v \in running'[s] <=> v \in running[s])
            BY <1>1, <2>2 DEF n
        <3> QED
            BY <1>5, <1>7, <3>1, <3>2, OtherTaskStays
    <2> QED
        BY <2>1, <2>2
<1>13. \A v \in running'[s] : UnitFits(v)' /\ v.name \in DOMAIN collection'[s]
    <2>1. \A v \in running'[s] : UnitFits(v) /\ v.name \in DOMAIN collection'[s]
        BY <1>1, <1>3, <1>6 DEF PoolOf
    <2> QED
        BY <2>1, SettingsStay
<1>14. at'[s] = "collecting" /\ queued'[s] = <<>> /\ command'[s].verb \in {"collect", "record"}
    BY <1>1, <1>3 DEF PoolOf
<1>15. PoolOf(s)'
    BY <1>12, <1>13, <1>14 DEF PoolOf, CollectPlaces, Range
<1>16. c = collection[s][u.name] /\ p = SpanOf(u) /\ u.name = n
    BY DEF c, p, n
<1>17. UnitEnds(s, u, c, r)
    BY <1>1, <1>3, <1>4, <1>6, <1>8, <1>9, <1>16 DEF UnitEnds
<1> QED
    BY <1>5, <1>15, <1>17

\* A job's units, all of tasks that do not learn online.
LEMMA JobUnitsFacts ==
    ASSUME config \in Settings, PiecesFit, NEW s \in Shells, command[s] \in config.shells[s],
           command[s].verb = "job"
    PROVE  LET units == FlattenSeq([i \in DOMAIN Chosen(s) |->
                                    UnsavedUnits(Chosen(s)[i], command[s])])
           IN  /\ units \in Seq(Units)
               /\ \A u \in Range(units) :
                    /\ u.learned = <<>>
                    /\ \E e \in Range(Chosen(s)) :
                        u.id = e.id /\ u \in Range(UnsavedUnits(e, command[s]))
               /\ \A e \in Range(Chosen(s)) :
                    UNION {SeedsOf(u) : u \in {v \in Range(units) : v.id = e.id}}
                        = SelectedSeeds(command[s], e.rule) \ SavedSeeds(e.id)
               /\ PairsIn(units, Apart)
<1> DEFINE es == Chosen(s)
           k == command[s]
           seqs == [i \in DOMAIN es |-> UnsavedUnits(es[i], k)]
           units == FlattenSeq(seqs)
<1>1. JobFits(k)
    BY SettingsAssumption DEF JobFits, Shells
<1>2. /\ es \in Seq(EntriesOfFiles)
      /\ \A i, j \in DOMAIN es : i # j => es[i].id # es[j].id
    BY ChosenFacts
<1> HIDE DEF es, k
<1>3. Len(es) \in Nat /\ DOMAIN es = 1 .. Len(es)
    BY <1>2, LenProperties
<1>4. ASSUME NEW i \in 1 .. Len(es)
      PROVE  /\ es[i] \in EntriesOfFiles /\ seqs[i] \in Seq(Units)
             /\ \A u \in Range(seqs[i]) : u.id = es[i].id /\ u.learned = <<>>
             /\ UNION {SeedsOf(u) : u \in Range(seqs[i])}
                    = SelectedSeeds(k, es[i].rule) \ SavedSeeds(es[i].id)
             /\ PairsIn(seqs[i], Apart) /\ seqs[i] = UnsavedUnits(es[i], k)
    <2>1. es[i] \in EntriesOfFiles /\ seqs[i] = UnsavedUnits(es[i], k)
        BY <1>2, <1>3
    <2> DEFINE e == es[i]
               us == UnsavedUnits(e, k)
    <2>2. e \in EntriesOfFiles
        BY <2>1
    <2> HIDE DEF e
    <2>3. /\ us \in Seq(Units)
          /\ \A u \in Range(us) : u.id = e.id /\ u.name = e.name /\ u.learned = <<>>
          /\ UNION {SeedsOf(u) : u \in Range(us)} = SelectedSeeds(k, e.rule) \ SavedSeeds(e.id)
          /\ PairsIn(us, Apart)
        BY <1>1, <2>2, UnsavedFacts
    <2>4. seqs[i] = us
        BY <2>1 DEF e
    <2> HIDE DEF us, seqs
    <2> QED
        BY <2>1, <2>3, <2>4 DEF e
<1>5. DOMAIN seqs = 1 .. Len(es)
    BY <1>3
<1>6. seqs \in Seq(Seq(Units)) /\ Len(seqs) = Len(es)
    <2>1. seqs = [i \in 1 .. Len(es) |-> seqs[i]]
        BY <1>3
    <2> HIDE DEF seqs
    <2>2. seqs \in [1 .. Len(es) -> Seq(Units)]
        BY <1>4, <2>1
    <2> QED
        BY <1>3, <2>2
<1> HIDE DEF seqs
<1>7. \A i, j \in 1 .. Len(seqs) : i < j =>
        \A x \in Range(seqs[i]), y \in Range(seqs[j]) : << x, y >> \in Apart
    <2> SUFFICES ASSUME NEW i \in 1 .. Len(seqs), NEW j \in 1 .. Len(seqs), i < j,
                        NEW x \in Range(seqs[i]), NEW y \in Range(seqs[j])
                 PROVE  << x, y >> \in Apart
        OBVIOUS
    <2>1. x.id # y.id
        <3>1. i \in 1 .. Len(es) /\ j \in 1 .. Len(es) /\ i # j
            BY <1>3, <1>6
        <3>2. x.id = es[i].id /\ y.id = es[j].id
            BY <1>4, <3>1
        <3>3. es[i].id # es[j].id
            BY <1>2, <1>3, <3>1
        <3> QED
            BY <3>2, <3>3
    <2>2. x \in Units /\ y \in Units
        BY <1>4, <1>6 DEF Range
    <2> QED
        BY <2>1, <2>2 DEF Apart
<1>8. /\ units \in Seq(Units)
      /\ Range(units) = UNION {Range(seqs[i]) : i \in 1 .. Len(seqs)}
      /\ PairsIn(units, Apart)
    BY <1>4, <1>6, <1>7, FlattenFacts
<1> HIDE DEF units
<1>9. ASSUME NEW e \in Range(es)
      PROVE  UNION {SeedsOf(u) : u \in {v \in Range(units) : v.id = e.id}}
                = SelectedSeeds(k, e.rule) \ SavedSeeds(e.id)
    <2>1. PICK i \in 1 .. Len(es) : es[i] = e
        BY <1>3 DEF Range
    <2>2. {v \in Range(units) : v.id = e.id} = Range(seqs[i])
        <3>1. ASSUME NEW v \in Range(units), v.id = e.id
              PROVE  v \in Range(seqs[i])
            <4>1. PICK j \in 1 .. Len(seqs) : v \in Range(seqs[j])
                BY <1>8
            <4>2. es[j].id = es[i].id
                BY <1>4, <1>6, <2>1, <3>1, <4>1
            <4>3. j = i
                BY <1>2, <1>3, <1>6, <4>2
            <4> QED
                BY <4>1, <4>3
        <3>2. ASSUME NEW v \in Range(seqs[i])
              PROVE  v \in Range(units) /\ v.id = e.id
            BY <1>4, <1>6, <1>8, <2>1
        <3> QED
            BY <3>1, <3>2
    <2> QED
        BY <1>4, <2>1, <2>2
<1>10. \A u \in Range(units) :
         u.learned = <<>> /\ \E e \in Range(es) : u.id = e.id /\ u \in Range(UnsavedUnits(e, k))
    <2> SUFFICES ASSUME NEW u \in Range(units)
                 PROVE  /\ u.learned = <<>>
                        /\ \E e \in Range(es) : u.id = e.id /\ u \in Range(UnsavedUnits(e, k))
        OBVIOUS
    <2>1. PICK i \in 1 .. Len(es) : u \in Range(seqs[i])
        BY <1>6, <1>8
    <2>2. es[i] \in Range(es)
        BY <1>3 DEF Range
    <2> QED
        BY <1>4, <2>1, <2>2
<1> QED
    BY <1>8, <1>9, <1>10 DEF units, seqs, es, k

\* A job's units as it starts, those that its pool takes, and the rest.
JobUnits(s) == FlattenSeq([i \in DOMAIN Chosen(s) |-> UnsavedUnits(Chosen(s)[i], command[s])])

LEMMA JobStartsFacts ==
    ASSUME Shape, PiecesFit, NEW s \in Shells, JobStarts(s), at'[s] \notin Resting
    PROVE  /\ at[s] = "job" /\ at'[s] = "running"
           /\ command[s] \in config.shells[s] /\ command[s].verb = "job"
           /\ UNCHANGED <<config, command, collection, saved, record, root>>
           /\ \A e \in Range(Chosen(s)) :
                ~IsAdaptive(e.id) /\ record[e.name] \notin {None, Torn} /\ ~NamesAnother(e)
           /\ running'[s] \subseteq Range(JobUnits(s)) /\ queued'[s] \in Seq(Units)
           /\ Range(JobUnits(s)) = running'[s] \cup Range(queued'[s])
           /\ PairsIn(queued'[s], Apart)
           /\ \A u \in running'[s], v \in Range(queued'[s]) : << u, v >> \in Apart
           /\ running'[s] = {} => queued'[s] = <<>>
<1> DEFINE units == JobUnits(s)
           m == command[s].processes
           room == Min({Len(units), m})
           a == SubSeq(units, 1, room)
           b == SubSeq(units, room + 1, Len(units))
<1>1. at[s] = "job" /\ command[s] \in config.shells[s] /\ command[s].verb = "job"
    BY DEF JobStarts, Shape, ShapeOf, VerbFits, Resting
<1>2. config \in Settings /\ m \in Nat \ {0}
    BY <1>1, SettingsAssumption DEF Shape, Shells
<1>3. units \in Seq(Units) /\ PairsIn(units, Apart)
    BY <1>1, <1>2, JobUnitsFacts DEF JobUnits
<1>4. \A how \in Resting : ~Leaves(s, how)
    BY DEF Leaves, Shape, OwnDomains
<1>5. /\ UNCHANGED <<config, command, collection, saved, record, root>> /\ at'[s] = "running"
      /\ \A e \in Range(Chosen(s)) :
            ~IsAdaptive(e.id) /\ record[e.name] \notin {None, Torn} /\ ~NamesAnother(e)
    BY <1>4 DEF JobStarts, Goes, Shape, OwnDomains, Resting
<1>6. /\ running' = [running EXCEPT ![s] = Range(a)] /\ queued' = [queued EXCEPT ![s] = b]
    BY <1>4 DEF JobStarts, Resting, JobUnits
<1> HIDE DEF a, b
<1>7. running'[s] = Range(a) /\ queued'[s] = b
    BY <1>6 DEF Shape, OwnDomains
<1> HIDE DEF units, m
<1>8. Len(units) \in Nat /\ room \in 0 .. Len(units) /\ (room = 0 => Len(units) = 0)
    <2> DEFINE n == Len(units)
    <2>1. n \in Nat
        BY <1>3, LenProperties
    <2> HIDE DEF n
    <2>2. Min({n, m}) = IF n <= m THEN n ELSE m
        BY <1>2, <2>1, OfTwo
    <2>3. Min({n, m}) \in 0 .. n /\ (Min({n, m}) = 0 => n = 0)
        BY <1>2, <2>1, <2>2
    <2> QED
        BY <2>1, <2>3 DEF n
<1> HIDE DEF room
<1>9. /\ a \in Seq(Units) /\ Len(a) = room /\ b \in Seq(Units) /\ Len(b) = Len(units) - room
      /\ a \o b = units
    BY <1>3, <1>8, SplitFacts DEF a, b
<1>10. Range(units) = Range(a) \cup Range(b)
    BY <1>9, ConcatFacts
<1>11. \A i \in 1 .. room : a[i] = units[i]
    BY <1>3, <1>8 DEF a
<1>12. \A i \in 1 .. Len(b) : b[i] = units[room + i]
    BY <1>3, <1>8, <1>9 DEF b
<1>13. PairsIn(b, Apart)
    <2> SUFFICES ASSUME NEW i \in 1 .. Len(b), NEW j \in 1 .. Len(b), i < j
                 PROVE  << b[i], b[j] >> \in Apart
        BY DEF PairsIn
    <2>1. room + i \in 1 .. Len(units) /\ room + j \in 1 .. Len(units) /\ room + i < room + j
        BY <1>8, <1>9
    <2> QED
        BY <1>3, <1>12, <2>1 DEF PairsIn
<1>14. ASSUME NEW u \in Range(a), NEW v \in Range(b)
       PROVE  << u, v >> \in Apart
    <2>1. PICK i \in 1 .. room : u = a[i]
        BY <1>9 DEF Range
    <2>2. PICK j \in 1 .. Len(b) : v = b[j]
        BY <1>9 DEF Range
    <2>3. i \in 1 .. Len(units) /\ room + j \in 1 .. Len(units) /\ i < room + j
        BY <1>8, <1>9
    <2> QED
        BY <1>3, <1>11, <1>12, <2>1, <2>2, <2>3 DEF PairsIn
<1>15. Range(a) = {} => b = <<>>
    <2> SUFFICES ASSUME Range(a) = {}
                 PROVE  b = <<>>
        OBVIOUS
    <2>1. room = 0
        <3> SUFFICES ASSUME room # 0
                     PROVE  FALSE
            OBVIOUS
        <3>1. 1 \in DOMAIN a
            BY <1>8, <1>9
        <3> QED
            BY <3>1 DEF Range
    <2>2. Len(b) = 0
        BY <1>8, <1>9, <2>1
    <2> QED
        BY <1>9, <2>2, EmptySeq
<1> QED
    BY <1>1, <1>5, <1>7, <1>9, <1>10, <1>13, <1>14, <1>15 DEF units

LEMMA JobStartsPool ==
    ASSUME Shape, PoolsFit, NEW s \in Shells, JobStarts(s), at'[s] \notin Resting
    PROVE  PoolOf(s)'
<1>1. PiecesFit /\ PoolOf(s) /\ config \in Settings
    BY DEF PoolsFit, SavedFits, Shape
<1>2. /\ at[s] = "job" /\ at'[s] = "running"
      /\ command[s] \in config.shells[s] /\ command[s].verb = "job"
      /\ config' = config /\ collection'[s] = collection[s]
      /\ \A e \in Range(Chosen(s)) : ~IsAdaptive(e.id)
      /\ queued'[s] \in Seq(Units)
      /\ Range(JobUnits(s)) = running'[s] \cup Range(queued'[s])
    BY <1>1, JobStartsFacts
<1>3. DOMAIN collection'[s] = {}
    BY <1>1, <1>2 DEF PoolOf
<1>4. /\ JobUnits(s) \in Seq(Units)
      /\ \A u \in Range(JobUnits(s)) : u.learned = <<>> /\ \E e \in Range(Chosen(s)) : u.id = e.id
    BY <1>1, <1>2, JobUnitsFacts DEF JobUnits
<1>5. \A u \in Range(JobUnits(s)) : UnitFits(u)
    <2>1. \A u \in Range(JobUnits(s)) : u \in Units
        BY <1>4 DEF Range
    <2> QED
        BY <1>2, <1>4, <2>1 DEF UnitFits
<1>7. Units' = Units
    BY <1>2, SettingsStay
<1>8. \A u \in Range(queued'[s]) : UnitFits(u)'
    BY <1>2, <1>5, SettingsStay
<1>9. \A u \in running'[s] : UnitFits(u)'
    BY <1>2, <1>5, SettingsStay
<1> QED
    BY <1>2, <1>3, <1>7, <1>8, <1>9 DEF PoolOf

LEMMA JobPieceEndsPool ==
    ASSUME Shape, PoolsFit, NEW s \in Shells, NEW u \in running[s], JobPieceEnds(s, u),
           config' = config
    PROVE  PoolOf(s)' /\ SavedFits' /\ saved \subseteq saved'
<1> DEFINE q == queued[s]
           n == Min({1, Len(q)})
           a == SubSeq(q, 1, n)
           b == SubSeq(q, n + 1, Len(q))
<1>1. PoolOf(s) /\ SavedFits /\ UnitFits(u) /\ q \in Seq(Units) /\ (\A v \in Range(q) : UnitFits(v))
    BY DEF PoolsFit, PoolOf
<1>2. /\ at[s] = "running" /\ at'[s] = "running" /\ Save(u)
      /\ collection'[s] = collection[s]
    BY DEF JobPieceEnds
<1>3. /\ SavedFits' /\ saved \subseteq saved'
    BY <1>1, <1>2, SaveFacts
<1>4. DOMAIN collection[s] = {}
    BY <1>1, <1>2 DEF PoolOf, CollectPlaces
<1>5. Len(q) \in Nat /\ n \in 0 .. Len(q)
    <2> DEFINE m == Len(q)
    <2>1. m \in Nat
        BY <1>1, LenProperties
    <2> HIDE DEF m
    <2>2. Min({1, m}) = IF 1 <= m THEN 1 ELSE m
        BY <2>1, OfTwo
    <2>3. Min({1, m}) \in 0 .. m
        BY <2>1, <2>2
    <2> QED
        BY <2>1, <2>3 DEF m
<1> HIDE DEF n
<1>6. a \in Seq(Units) /\ Len(a) = n /\ b \in Seq(Units) /\ a \o b = q
    <2> HIDE DEF q
    <2> QED
        BY <1>1, <1>5, SplitFacts
<1>7. /\ running'[s] = (running[s] \ {u}) \cup Range(a)
      /\ queued'[s] = b
    <2>1. Len(a) = n
        BY <1>6
    <2> QED
        BY <2>1 DEF JobPieceEnds, Shape, OwnDomains, n
<1> HIDE DEF q, a, b
<1>8. Range(q) = Range(a) \cup Range(b)
    BY <1>6, ConcatFacts
<1>9. /\ \A v \in running'[s] : UnitFits(v)'
      /\ \A v \in Range(queued'[s]) : UnitFits(v)'
    <2>1. /\ \A v \in running'[s] : UnitFits(v)
          /\ \A v \in Range(queued'[s]) : UnitFits(v)
        BY <1>1, <1>7, <1>8 DEF PoolOf
    <2> QED
        BY <2>1, SettingsStay
<1>10. queued'[s] \in Seq(Units)' /\ DOMAIN collection'[s] = {} /\ at'[s] = "running"
    BY <1>2, <1>4, <1>6, <1>7, SettingsStay
<1>11. PoolOf(s)'
    BY <1>9, <1>10 DEF PoolOf
<1> QED
    BY <1>3, <1>11

\* A step of a shell keeps its pool, and the pieces on the disk.
LEMMA PoolStep ==
    ASSUME Shape, PoolsFit, NEW s \in Shells, Moves(s)
    PROVE  PoolOf(s)' /\ SavedFits' /\ saved \subseteq saved'
<1> DEFINE Kept == PoolOf(s)' /\ SavedFits' /\ saved \subseteq saved'
<1>1. /\ config' = config /\ Shape' /\ PoolOf(s) /\ SavedFits
      /\ ShapeOf(s) /\ at[s] \in Places
    BY OneShellMoves DEF PoolsFit, Shape, ShapeOf
<1>2. ASSUME saved' = saved
      PROVE  SavedFits' /\ saved \subseteq saved'
    <2>1. /\ Pieces' = Pieces /\ \A id : IsAdaptive(id)' = IsAdaptive(id)
          /\ \A id, l, x : LearnedUpTo(id, l, x)' <=> LearnedUpTo(id, l, x)
        BY <1>1, SettingsStay
    <2> QED
        BY <1>1, <1>2, <2>1 DEF SavedFits, PiecesFit
<1>3. CASE Rested(s)
    <2>1. saved' = saved /\ RestingMemory(s)'
        BY <1>3 DEF Rested
    <2>2. PoolOf(s)'
        BY <2>1 DEF RestingMemory, PoolOf, Range
    <2> QED
        BY <1>2, <2>1, <2>2
<1>4. CASE WentOn(s) /\ at'[s] \notin Resting
    <2>1. /\ saved' = saved /\ collection'[s] = collection[s] /\ running'[s] = running[s]
          /\ queued'[s] = queued[s]
        BY <1>4 DEF WentOn
    <2>2. CASE at[s] \in Resting
        <3>1. RestingMemory(s)
            BY <1>1, <2>2 DEF ShapeOf
        <3>2. DOMAIN collection[s] = {} /\ running[s] = {} /\ queued[s] = <<>>
            BY <3>1 DEF RestingMemory
        <3> QED
            BY <1>1, <1>2, <2>1, <3>2, QuietPool
    <2>3. CASE at[s] \notin Resting
        <3>1. command' = command
            BY <1>4, <2>3 DEF WentOn
        <3>3. \/ << at[s], at'[s] >> \in
                    {<<"accepting", "starting run">>, <<"starting run", "writing run">>,
                     <<"writing run", "collecting">>}
              \/ at[s] = "starting"
              \/ at'[s] = "shot record" /\ at[s] = "writing run"
            BY <1>4, <2>3 DEF WentOn
        <3>4. running[s] = {} /\ queued[s] = <<>>
            BY <1>1, <3>3 DEF PoolOf
        <3>5. at'[s] \in CollectPlaces \/ DOMAIN collection[s] = {}
            <4>1. CASE at'[s] = "shot record"
                <5>1. at[s] = "writing run" /\ command[s].verb = "shot"
                    BY <1>1, <1>4, <2>3, <3>1, <4>1 DEF WentOn, Shape, ShapeOf, VerbFits, Shells
                <5> QED
                    BY <1>1, <5>1 DEF PoolOf
            <4>2. CASE at'[s] # "shot record"
                <5>1. at[s] # "starting" => at'[s] \in CollectPlaces
                    BY <3>3, <4>2 DEF CollectPlaces
                <5>2. at[s] = "starting" => DOMAIN collection[s] = {}
                    BY <1>1 DEF PoolOf, CollectPlaces
                <5> QED
                    BY <5>1, <5>2
            <4> QED
                BY <4>1, <4>2
        <3> QED
            BY <1>1, <1>2, <2>1, <3>1, <3>4, <3>5, QuietPool
    <2> QED
        BY <2>2, <2>3
<1>5. CASE Works(s) /\ at'[s] \notin Resting /\ command' = command
    <2> SUFFICES ASSUME Works(s), at'[s] \notin Resting, command' = command
                 PROVE  Kept
        BY <1>5
    <2>1. command'[s] = command[s]
        OBVIOUS
    <2>2. CASE ReadSaved(s)
        BY <1>1, <1>2, <2>2, ReadSavedPool DEF ReadSaved, disk
    <2>3. CASE HandOut(s)
        BY <1>1, <1>2, <2>3, HandOutPool DEF HandOut, disk
    <2>4. CASE \E u \in running[s] : PieceEnds(s, u)
        BY <1>1, <2>4, PieceEndsPool
    <2>5. CASE JobStarts(s)
        BY <1>2, <2>5, JobStartsPool DEF JobStarts
    <2>6. CASE \E u \in running[s] : JobPieceEnds(s, u)
        BY <1>1, <2>6, JobPieceEndsPool
    <2>7. CASE OpenRecord(s) \/ WriteRecord(s)
        <3>1. /\ saved' = saved /\ collection'[s] = collection[s] /\ running'[s] = running[s]
              /\ queued'[s] = queued[s] /\ at'[s] = at[s] /\ at[s] \in {"recording", "shot record"}
            BY <2>7 DEF OpenRecord, WriteRecord, own
        <3> QED
            BY <1>1, <1>2, <2>1, <3>1, QuietPool DEF PoolOf
    <2>8. CASE CollectStops(s) \/ FoldLists(s) \/ FoldStages(s) \/ ListOldFiles(s)
                \/ ListNewFiles(s) \/ (\E f \in CsvFiles : RemoveFile(s, f) \/ MoveFile(s, f))
                \/ ReadRecords(s) \/ \E n \in Names : RecordSeeds(s, n)
        <3>1. \A how \in Resting : ~Leaves(s, how)
            BY <1>1 DEF Leaves, Shape, OwnDomains
        <3>2. /\ saved' = saved /\ collection' = collection /\ running' = running
              /\ queued' = queued /\ at'[s] \in CollectPlaces \ {"collecting"}
              /\ running[s] = {}
            <4>1. CASE CollectStops(s)
                BY <4>1 DEF CollectStops, Goes, disk, inMemory, CollectPlaces, Shape, OwnDomains
            <4>2. CASE FoldLists(s)
                BY <1>1, <3>1, <4>2
                    DEF FoldLists, Goes, disk, CollectPlaces, Shape, OwnDomains, PoolOf, Resting
            <4>3. CASE FoldStages(s)
                BY <1>1, <3>1, <4>3
                    DEF FoldStages, Goes, disk, CollectPlaces, Shape, OwnDomains, PoolOf, Resting
            <4>4. CASE ListOldFiles(s)
                BY <1>1, <4>4
                    DEF ListOldFiles, Goes, disk, CollectPlaces, Shape, OwnDomains, PoolOf
            <4>5. CASE ListNewFiles(s)
                BY <1>1, <4>5
                    DEF ListNewFiles, Goes, disk, CollectPlaces, Shape, OwnDomains, PoolOf
            <4>6. CASE \E f \in CsvFiles : RemoveFile(s, f)
                BY <1>1, <3>1, <4>6 DEF RemoveFile, CollectPlaces, PoolOf, Resting
            <4>7. CASE \E f \in CsvFiles : MoveFile(s, f)
                BY <1>1, <4>7 DEF MoveFile, CollectPlaces, PoolOf
            <4>8. CASE ReadRecords(s)
                BY <1>1, <3>1, <4>8
                    DEF ReadRecords, Goes, disk, CollectPlaces, Shape, OwnDomains, PoolOf, Resting
            <4>9. CASE \E n \in Names : RecordSeeds(s, n)
                BY <1>1, <4>9 DEF RecordSeeds, CollectPlaces, PoolOf
            <4> QED
                BY <2>8, <4>1, <4>2, <4>3, <4>4, <4>5, <4>6, <4>7, <4>8, <4>9
        <3>3. queued[s] = <<>>
            <4>1. at[s] # "running"
                BY <2>8 DEF CollectStops, FoldLists, FoldStages, ListOldFiles, ListNewFiles,
                            RemoveFile, MoveFile, ReadRecords, RecordSeeds
            <4> QED
                BY <1>1, <4>1 DEF PoolOf
        <3> QED
            BY <1>1, <1>2, <2>1, <3>2, <3>3, QuietPool DEF CollectPlaces
    <2> QED
        BY <2>2, <2>3, <2>4, <2>5, <2>6, <2>7, <2>8 DEF Works
<1> QED
    BY <1>3, <1>4, <1>5, StepsOfAShell

\* The pools fit at every step: this is the inductive invariant of the collects
\* and the jobs.
LEMMA PoolsStep ==
    ASSUME Shape, PoolsFit, [Next]_vars
    PROVE  PoolsFit' /\ saved \subseteq saved'
<1>1. CASE UNCHANGED vars
    <2>1. /\ config' = config /\ saved' = saved /\ Shells' = Shells
          /\ \A s \in Shells : Keeps(s) /\ PoolOf(s)
        BY <1>1 DEF vars, disk, own, Keeps, Shells, PoolsFit
    <2>2. \A s \in Shells : PoolOf(s)'
        BY <2>1, PoolStays
    <2>3. SavedFits'
        <3>1. /\ Pieces' = Pieces /\ \A id : IsAdaptive(id)' = IsAdaptive(id)
              /\ \A id, l, x : LearnedUpTo(id, l, x)' <=> LearnedUpTo(id, l, x)
            BY <2>1, SettingsStay
        <3> QED
            BY <2>1, <3>1 DEF SavedFits, PiecesFit, PoolsFit
    <2> QED
        BY <2>1, <2>2, <2>3 DEF PoolsFit
<1>2. ASSUME NEW s \in Shells, Moves(s)
      PROVE  PoolsFit' /\ saved \subseteq saved'
    <2>1. PoolOf(s)' /\ SavedFits' /\ saved \subseteq saved'
        BY <1>2, PoolStep
    <2>2. config' = config /\ \A t \in Shells \ {s} : Keeps(t)
        BY <1>2, OneShellMoves
    <2>3. Shells' = Shells
        BY <2>2 DEF Shells
    <2>4. \A t \in Shells \ {s} : PoolOf(t)'
        BY <2>1, <2>2, PoolStays DEF PoolsFit
    <2> QED
        BY <2>1, <2>3, <2>4 DEF PoolsFit
<1> QED
    BY <1>1, <1>2, ShellsMove

THEOREM PoolsAreKept == Spec => []PoolsFit
<1>1. PoolsFit /\ Shape /\ [Next]_vars => PoolsFit'
    BY PoolsStep
<1> QED
    BY <1>1, InitHasPools, ShapeIsKept, PTL DEF Spec

\* A calibrator saved with a piece learned from every seed up to that piece's
\* last, each once and in order, for every history of commands.
THEOREM LearningIsInOrder == Spec => []CalibratorsLearnInOrder
<1>1. ASSUME PoolsFit
      PROVE  CalibratorsLearnInOrder
    <2> SUFFICES ASSUME NEW p \in saved, IsAdaptive(p.id)
                 PROVE  /\ p.learned = [i \in 1 .. Len(p.learned) |->
                                p.first + p.count - Len(p.learned) + i - 1]
                        /\ \E f \in DOMAIN config.files : \E e \in Range(config.files[f]) :
                            e.id = p.id /\ p.learned[1] = e.rule.firstSeed
        BY DEF CalibratorsLearnInOrder
    <2> DEFINE l == p.learned
               x == p.first + p.count
               n == Len(l)
               a == p.first
               b == p.count
    <2>1. /\ LearnedUpTo(p.id, l, x) /\ l # <<>> /\ x \in Nat
          /\ a \in Nat /\ b \in Nat /\ x = a + b
        BY <1>1 DEF PoolsFit, SavedFits, PiecesFit, Pieces
    <2> HIDE DEF l, x, a, b
    <2>2. /\ l \in Seq(Nat) /\ n \in Nat \ {0} /\ DOMAIN l = 1 .. n
          /\ \A i \in 1 .. n : l[i] = x - n + i - 1
        BY <2>1, LenProperties, EmptySeq DEF LearnedUpTo
    <2>3. l = [i \in 1 .. n |-> a + b - n + i - 1]
        <3> HIDE DEF n
        <3>1. \A i \in 1 .. n : l[i] = a + b - n + i - 1
            BY <2>1, <2>2
        <3> QED
            BY <2>2, <3>1
    <2>4. PICK e \in Holders(p.id) : x - n = e.rule.firstSeed
        BY <2>1 DEF LearnedUpTo
    <2>5. l[1] = e.rule.firstSeed
        <3> HIDE DEF n
        <3>1. l[1] = x - n + 1 - 1
            BY <2>2
        <3> QED
            BY <2>1, <2>2, <2>4, <3>1
    <2>6. PICK f \in DOMAIN config.files : e \in Range(config.files[f])
        BY <2>4 DEF Holders, EntriesOfFiles
    <2>7. e.id = p.id
        BY <2>4 DEF Holders
    <2> QED
        BY <2>3, <2>5, <2>6, <2>7 DEF l, a, b
<1> QED
    BY <1>1, PoolsAreKept, PTL

-----------------------------------------------------------------------------
(* The jobs *)

\* A seed of a task that is on the disk, or in a unit that shell s holds.
HoldsSeed(s, id, x) ==
    \/ x \in SavedSeeds(id)
    \/ \E u \in running[s] \cup Range(queued[s]) : u.id = id /\ x \in SeedsOf(u)

\* A job has each seed it was given on the disk, in its pool or in its queue.
JobOf(s) ==
    /\ at[s] = "running" =>
        /\ running[s] = {} => queued[s] = <<>>
        /\ \A e \in Range(Chosen(s)) : \A x \in SelectedSeeds(command[s], e.rule) :
            HoldsSeed(s, e.id, x)
    /\ at[s] = "done" /\ command[s].verb = "job" =>
        \A e \in Range(Chosen(s)) : \A x \in SelectedSeeds(command[s], e.rule) :
            x \in SavedSeeds(e.id)
JobsFit == \A s \in Shells : JobOf(s)

LEMMA SavedSeedsGrow ==
    ASSUME saved \subseteq saved', NEW id
    PROVE  SavedSeeds(id) \subseteq SavedSeeds(id)'
    BY DEF SavedSeeds, PiecesOf

\* A shell that neither moves nor runs a job keeps what is said of its jobs.
LEMMA JobStays ==
    ASSUME config' = config, NEW s, saved \subseteq saved', JobOf(s),
           at'[s] = at[s], command'[s] = command[s], running'[s] = running[s],
           queued'[s] = queued[s]
    PROVE  JobOf(s)'
<1>1. Chosen(s)' = Chosen(s)
    BY DEF Chosen, Entries
<1>2. \A id : SavedSeeds(id) \subseteq SavedSeeds(id)'
    BY SavedSeedsGrow
<1>3. \A id, x : HoldsSeed(s, id, x) => HoldsSeed(s, id, x)'
    BY <1>2 DEF HoldsSeed
<1> QED
    BY <1>1, <1>2, <1>3 DEF JobOf

\* A piece of a job ends, and its pool takes the next unit.
LEMMA JobPieceEndsFacts ==
    ASSUME Shape, PoolsFit, NEW s \in Shells, NEW u \in running[s], JobPieceEnds(s, u),
           config' = config
    PROVE  /\ running'[s] \cup Range(queued'[s])
                = (running[s] \ {u}) \cup Range(queued[s])
           /\ running[s] \ {u} \subseteq running'[s]
           /\ queued'[s] \in Seq(Units) /\ Range(queued'[s]) \subseteq Range(queued[s])
           /\ running'[s] = {} => queued'[s] = <<>>
           /\ SavedFits' /\ saved \subseteq saved' /\ SeedsOf(u) \subseteq SavedSeeds(u.id)'
           /\ \E a : IsFiniteSet(a) /\ Cardinality(a) <= 1 /\ running'[s] = (running[s] \ {u}) \cup a
<1> DEFINE q == queued[s]
           n == Min({1, Len(q)})
           a == SubSeq(q, 1, n)
           b == SubSeq(q, n + 1, Len(q))
<1>1. PoolOf(s) /\ SavedFits /\ UnitFits(u) /\ q \in Seq(Units)
    BY DEF PoolsFit, PoolOf
<1>2. Save(u)
    BY DEF JobPieceEnds
<1>3. /\ SavedFits' /\ saved \subseteq saved'
      /\ \E p \in PiecesOf(u.id, saved') : SpanOf(p) = SpanOf(u)
    BY <1>1, <1>2, SaveFacts
<1>4. SeedsOf(u) \subseteq SavedSeeds(u.id)'
    <2>1. PICK p \in PiecesOf(u.id, saved') : SpanOf(p) = SpanOf(u)
        BY <1>3
    <2>2. SeedsOf(p) = SeedsOf(u)
        BY <2>1 DEF SpanOf, Span, SeedsOf
    <2> QED
        BY <2>1, <2>2 DEF SavedSeeds
<1>5. Len(q) \in Nat /\ n \in 0 .. Len(q) /\ n <= 1 /\ (n = 0 => Len(q) = 0)
    <2> DEFINE m == Len(q)
    <2>1. m \in Nat
        BY <1>1, LenProperties
    <2> HIDE DEF m
    <2>2. Min({1, m}) = IF 1 <= m THEN 1 ELSE m
        BY <2>1, OfTwo
    <2>3. Min({1, m}) \in 0 .. m /\ Min({1, m}) <= 1 /\ (Min({1, m}) = 0 => m = 0)
        BY <2>1, <2>2
    <2> QED
        BY <2>1, <2>3 DEF m
<1> HIDE DEF n
<1>6. a \in Seq(Units) /\ Len(a) = n /\ b \in Seq(Units) /\ Len(b) = Len(q) - n /\ a \o b = q
    <2> HIDE DEF q
    <2> QED
        BY <1>1, <1>5, SplitFacts
<1>7. /\ running'[s] = (running[s] \ {u}) \cup Range(a)
      /\ queued'[s] = b
    <2>1. Len(a) = n
        BY <1>6
    <2> QED
        BY <2>1 DEF JobPieceEnds, Shape, OwnDomains, n
<1> HIDE DEF q, a, b
<1>8. Range(q) = Range(a) \cup Range(b)
    BY <1>6, ConcatFacts, ZenonT(180)
<1>9. DOMAIN a = 1 .. n
    BY <1>5, <1>6, LenProperties
<1>10. Range(a) = {} => b = <<>>
    <2> SUFFICES ASSUME Range(a) = {}
                 PROVE  b = <<>>
        OBVIOUS
    <2>1. n = 0
        <3> SUFFICES ASSUME n # 0
                     PROVE  FALSE
            OBVIOUS
        <3>1. 1 \in DOMAIN a
            BY <1>5, <1>9
        <3> QED
            BY <3>1 DEF Range
    <2>2. Len(b) = 0
        BY <1>5, <1>6, <2>1
    <2> QED
        BY <1>6, <2>2, EmptySeq
<1>11. IsFiniteSet(Range(a)) /\ Cardinality(Range(a)) <= 1
    <2>1. CASE n = 0
        <3>1. Range(a) = {}
            BY <1>9, <2>1 DEF Range
        <3> QED
            BY <3>1, FS_EmptySet
    <2>2. CASE n = 1
        <3>1. PICK x : Range(a) = {x}
            BY <1>9, <2>2 DEF Range
        <3>2. IsFiniteSet({x}) /\ Cardinality({x}) = 1
            BY FS_Singleton
        <3> QED
            BY <3>1, <3>2
    <2> QED
        BY <1>5, <2>1, <2>2
<1> QED
    BY <1>3, <1>4, <1>6, <1>7, <1>8, <1>10, <1>11 DEF q

LEMMA JobStep ==
    ASSUME Shape, PoolsFit, NEW s \in Shells, JobOf(s), Moves(s), saved \subseteq saved'
    PROVE  JobOf(s)'
<1>1. config' = config /\ Shape' /\ PiecesFit /\ PoolOf(s) /\ config \in Settings
      /\ at[s] \in Places /\ at'[s] \in Places
    <2>1. config' = config /\ Shape'
        BY OneShellMoves
    <2>2. Shells' = Shells
        BY <2>1 DEF Shells
    <2> QED
        BY <2>1, <2>2 DEF PoolsFit, SavedFits, Shape, ShapeOf
<1>2. \A id : SavedSeeds(id) \subseteq SavedSeeds(id)'
    BY SavedSeedsGrow
<1>3. CASE Rested(s)
    <2>1. at'[s] # "running" /\ command' = command
        BY <1>3 DEF Rested, Resting
    <2> SUFFICES ASSUME at'[s] = "done", command[s].verb = "job"
                 PROVE  \A e \in Range(Chosen(s)) : \A x \in SelectedSeeds(command[s], e.rule) :
                            x \in SavedSeeds(e.id)'
        <3>1. Chosen(s)' = Chosen(s)
            BY <1>1, <2>1 DEF Chosen, Entries
        <3> QED
            BY <2>1, <3>1 DEF JobOf
    <2>2. at[s] = "running" /\ running[s] = {}
        BY <1>3 DEF Rested
    <2>3. queued[s] = <<>>
        BY <2>2 DEF JobOf
    <2>4. running[s] \cup Range(queued[s]) = {}
        BY <2>2, <2>3 DEF Range
    <2> QED
        BY <1>2, <2>2, <2>4 DEF JobOf, HoldsSeed
<1>4. CASE WentOn(s) /\ at'[s] \notin Resting
    <2>1. at'[s] # "running"
        BY <1>4 DEF WentOn
    <2> QED
        BY <1>4, <2>1 DEF JobOf, Resting
<1>5. CASE Works(s) /\ at'[s] \notin Resting /\ command' = command
    <2>1. Chosen(s)' = Chosen(s) /\ at'[s] # "done"
        BY <1>1, <1>5 DEF Chosen, Entries, Resting
    <2>2. CASE JobStarts(s)
        <3>1. /\ command[s] \in config.shells[s] /\ command[s].verb = "job"
              /\ Range(JobUnits(s)) = running'[s] \cup Range(queued'[s])
              /\ running'[s] = {} => queued'[s] = <<>>
            BY <1>1, <1>5, <2>2, JobStartsFacts
        <3>2. \A e \in Range(Chosen(s)) :
                UNION {SeedsOf(u) : u \in {v \in Range(JobUnits(s)) : v.id = e.id}}
                    = SelectedSeeds(command[s], e.rule) \ SavedSeeds(e.id)
            BY <1>1, <3>1, JobUnitsFacts DEF JobUnits
        <3>3. ASSUME NEW e \in Range(Chosen(s)), NEW x \in SelectedSeeds(command[s], e.rule)
              PROVE  HoldsSeed(s, e.id, x)'
            <4>1. CASE x \in SavedSeeds(e.id)
                BY <1>2, <4>1 DEF HoldsSeed
            <4>2. CASE x \notin SavedSeeds(e.id)
                <5>1. PICK u \in {v \in Range(JobUnits(s)) : v.id = e.id} : x \in SeedsOf(u)
                    BY <3>2, <4>2
                <5> QED
                    BY <3>1, <5>1 DEF HoldsSeed
            <4> QED
                BY <4>1, <4>2
        <3> QED
            BY <1>5, <2>1, <3>1, <3>3 DEF JobOf
    <2>3. CASE \E u \in running[s] : JobPieceEnds(s, u)
        <3>1. PICK u \in running[s] : JobPieceEnds(s, u)
            BY <2>3
        <3>2. /\ running'[s] \cup Range(queued'[s])
                    = (running[s] \ {u}) \cup Range(queued[s])
              /\ running'[s] = {} => queued'[s] = <<>>
              /\ SeedsOf(u) \subseteq SavedSeeds(u.id)'
            BY <1>1, <3>1, JobPieceEndsFacts
        <3>3. at[s] = "running"
            BY <3>1 DEF JobPieceEnds
        <3>4. ASSUME NEW id, NEW x, HoldsSeed(s, id, x)
              PROVE  HoldsSeed(s, id, x)'
            <4>1. CASE x \in SavedSeeds(id)
                BY <1>2, <4>1 DEF HoldsSeed
            <4>2. CASE \E v \in running[s] \cup Range(queued[s]) : v.id = id /\ x \in SeedsOf(v)
                <5>1. PICK v \in running[s] \cup Range(queued[s]) : v.id = id /\ x \in SeedsOf(v)
                    BY <4>2
                <5>2. v = u \/ v \in running'[s] \cup Range(queued'[s])
                    BY <3>2, <5>1
                <5> QED
                    BY <3>2, <5>1, <5>2 DEF HoldsSeed
            <4> QED
                BY <3>4, <4>1, <4>2 DEF HoldsSeed
        <3> QED
            BY <1>5, <2>1, <3>2, <3>3, <3>4 DEF JobOf
    <2>4. CASE ~JobStarts(s) /\ ~\E u \in running[s] : JobPieceEnds(s, u)
        <3>1. at'[s] # "running"
            <4>1. ASSUME OpenRecord(s) \/ WriteRecord(s)
                  PROVE  at'[s] # "running"
                BY <4>1 DEF OpenRecord, WriteRecord, own
            <4>2. ASSUME ReadSaved(s) \/ HandOut(s) \/ (\E u \in running[s] : PieceEnds(s, u))
                         \/ CollectStops(s)
                  PROVE  at'[s] # "running"
                BY <1>1, <4>2 DEF ReadSaved, HandOut, PieceEnds, CollectStops, Goes, Shape, OwnDomains
            <4>3. ASSUME FoldLists(s) \/ FoldStages(s) \/ ReadRecords(s)
                  PROVE  at'[s] # "running"
                <5>1. \A how \in Resting : ~Leaves(s, how)
                    BY <1>1, <1>5 DEF Leaves, Shape, OwnDomains
                <5> QED
                    BY <1>1, <4>3, <5>1
                        DEF FoldLists, FoldStages, ReadRecords, Goes, Shape, OwnDomains, Resting
            <4>4. ASSUME ListOldFiles(s) \/ ListNewFiles(s)
                  PROVE  at'[s] # "running"
                BY <1>1, <4>4 DEF ListOldFiles, ListNewFiles, Goes, Shape, OwnDomains
            <4>5. ASSUME NEW f \in CsvFiles, RemoveFile(s, f) \/ MoveFile(s, f)
                  PROVE  at'[s] # "running"
                <5>1. \A how \in Resting : ~Leaves(s, how)
                    BY <1>1, <1>5 DEF Leaves, Shape, OwnDomains
                <5> QED
                    BY <4>5, <5>1 DEF RemoveFile, MoveFile, Resting
            <4>6. ASSUME NEW n \in Names, RecordSeeds(s, n)
                  PROVE  at'[s] # "running"
                BY <4>6 DEF RecordSeeds
            <4> QED
                BY <1>5, <2>4, <4>1, <4>2, <4>3, <4>4, <4>5, <4>6 DEF Works
        <3> QED
            BY <2>1, <3>1 DEF JobOf
    <2> QED
        BY <2>2, <2>3, <2>4
<1> QED
    BY <1>3, <1>4, <1>5, StepsOfAShell

LEMMA JobsStep ==
    ASSUME Shape, PoolsFit, JobsFit, [Next]_vars
    PROVE  JobsFit'
<1>1. saved \subseteq saved'
    BY PoolsStep
<1>2. CASE UNCHANGED vars
    <2>1. config' = config /\ UNCHANGED <<at, command, running, queued>> /\ Shells' = Shells
        BY <1>2 DEF vars, own, Shells
    <2> QED
        BY <1>1, <2>1, JobStays DEF JobsFit
<1>3. ASSUME NEW s \in Shells, Moves(s)
      PROVE  JobsFit'
    <2>1. config' = config /\ \A t \in Shells \ {s} : Keeps(t)
        BY <1>3, OneShellMoves
    <2>2. Shells' = Shells
        BY <2>1 DEF Shells
    <2>3. JobOf(s)'
        BY <1>1, <1>3, JobStep DEF JobsFit
    <2>4. \A t \in Shells \ {s} : JobOf(t)'
        BY <1>1, <2>1, JobStays DEF JobsFit, Keeps
    <2> QED
        BY <2>2, <2>3, <2>4 DEF JobsFit
<1> QED
    BY <1>2, <1>3, ShellsMove

LEMMA InitHasJobs == Init => JobsFit
    BY DEF Init, InitFor, JobsFit, JobOf, Shells

\* A job that ended has every seed it was given in a saved piece, for every
\* history of commands: whatever was killed, and whatever other shells do.
THEOREM JobsSaveTheirSeeds == Spec => []EndedJobsSavedTheirSeeds
<1>1. ASSUME JobsFit
      PROVE  EndedJobsSavedTheirSeeds
    BY <1>1 DEF JobsFit, JobOf, EndedJobsSavedTheirSeeds, SavedSeeds
<1>2. JobsFit /\ PoolsFit /\ Shape /\ [Next]_vars => JobsFit'
    BY JobsStep
<1> QED
    BY <1>1, <1>2, InitHasJobs, PoolsAreKept, ShapeIsKept, PTL DEF Spec

-----------------------------------------------------------------------------
(* Types *)

\* What a step of shell s does to what is neither a piece, a record, a csv
\* file nor in memory.
LedgerMoves(s) ==
    /\ \/ copy' = copy
       \/ at[s] \in {"accepting", "starting run", "job"} /\ copy' = command[s].file
    /\ \/ runTasks' = runTasks
       \/ /\ at[s] = "writing run" /\ command[s].verb # "shot"
          /\ runTasks' = IdsOf(command[s].file)
       \/ /\ at[s] = "writing run" /\ command[s].verb = "shot"
          /\ runTasks' = <<Chosen(s)[1].id>>
       \/ /\ at[s] = "seeds" /\ command[s].verb = "collect"
          /\ runTasks' = IdsOf(command[s].file)
    /\ given' # given => given < config.commands /\ given' = given + 1
    /\ killed' # killed => killed < config.kills /\ killed' = killed + 1
    /\ command' = command \/ \E k \in config.shells[s] : command' = [command EXCEPT ![s] = k]

LEMMA LedgerFacts ==
    ASSUME NEW s, Moves(s)
    PROVE  LedgerMoves(s)
<1>1. ASSUME CheckNames(s) \/ OpenRecord(s) \/ WriteRecord(s) \/ ReadSaved(s)
      PROVE  LedgerMoves(s)
    BY <1>1 DEF CheckNames, OpenRecord, WriteRecord, ReadSaved, Leaves, Goes, ledgers,
                inMemory, disk, own, LedgerMoves
<1>2. ASSUME AcceptRaisedStopRules(s) \/ CopyTheRunFile(s)
      PROVE  LedgerMoves(s)
    BY <1>2 DEF AcceptRaisedStopRules, CopyTheRunFile, Leaves, Goes, ledgers, inMemory, disk, own, LedgerMoves
<1>3. ASSUME WriteRunRecord(s)
      PROVE  LedgerMoves(s)
    BY <1>3 DEF WriteRunRecord, Leaves, Goes, ledgers, inMemory, disk, own, LedgerMoves
<1>4. ASSUME ShotEnds(s) \/ JobStarts(s)
      PROVE  LedgerMoves(s)
    BY <1>4 DEF ShotEnds, JobStarts, Leaves, Goes, ledgers, inMemory, disk, own, LedgerMoves
<1>5. ASSUME HandOut(s) \/ CollectStops(s) \/ JobEnds(s)
      PROVE  LedgerMoves(s)
    BY <1>5 DEF HandOut, CollectStops, JobEnds, Leaves, Goes, ledgers, inMemory, disk, own, LedgerMoves
<1>6. ASSUME NEW u \in running[s], PieceEnds(s, u) \/ JobPieceEnds(s, u)
      PROVE  LedgerMoves(s)
    BY <1>6 DEF PieceEnds, JobPieceEnds, ledgers, inMemory, disk, own, LedgerMoves
<1>7. ASSUME FoldLists(s) \/ FoldStages(s) \/ ListOldFiles(s) \/ ListNewFiles(s) \/ ReadRecords(s)
      PROVE  LedgerMoves(s)
    BY <1>7 DEF FoldLists, FoldStages, ListOldFiles, ListNewFiles, ReadRecords, Leaves, Goes,
                ledgers, inMemory, disk, own, LedgerMoves
<1>8. ASSUME NEW f \in CsvFiles, RemoveFile(s, f) \/ MoveFile(s, f)
      PROVE  LedgerMoves(s)
    BY <1>8 DEF RemoveFile, MoveFile, Leaves, ledgers, inMemory, disk, own, LedgerMoves
<1>9. ASSUME NEW n \in Names, RecordSeeds(s, n)
      PROVE  LedgerMoves(s)
    BY <1>9 DEF RecordSeeds, ledgers, inMemory, disk, own, LedgerMoves
<1>10. ASSUME FoldEnds(s)
       PROVE  LedgerMoves(s)
    BY <1>10 DEF FoldEnds, Leaves, ledgers, inMemory, disk, own, LedgerMoves
<1>11. ASSUME Kill(s) \/ \E k \in config.shells[s] : Give(s, k)
       PROVE  LedgerMoves(s)
    BY <1>11 DEF Kill, Give, Leaves, ledgers, inMemory, disk, own, LedgerMoves
<1> QED
    BY <1>1, <1>2, <1>3, <1>4, <1>5, <1>6, <1>7, <1>8, <1>9, <1>10, <1>11
        DEF Moves, Runs, Prepares, Collects, Folds

\* A command that is not a fold has a task.
LEMMA FirstChosen ==
    ASSUME config \in Settings, NEW s, s \in Shells, command[s] \in config.shells[s],
           command[s].verb # "fold"
    PROVE  Chosen(s)[1] \in EntriesOfFiles
<1>1. Chosen(s) \in Seq(EntriesOfFiles)
    BY ChosenFacts
<1>2. DOMAIN Chosen(s) = 1 .. Len(Chosen(s)) /\ Len(Chosen(s)) >= 1
    <2>1. Entries(s) # <<>>
        BY SettingsAssumption DEF Entries, Shells
    <2>2. CASE command[s].only = "all"
        <3>1. Chosen(s) = Entries(s)
            BY <2>2 DEF Chosen
        <3>2. Len(Chosen(s)) # 0
            BY <1>1, <2>1, <3>1, EmptySeq
        <3> QED
            BY <1>1, <3>2, LenProperties
    <2>3. CASE command[s].only # "all"
        <3>1. \E x : Chosen(s) = <<x>>
            BY <2>3 DEF Chosen
        <3> QED
            BY <3>1
    <2> QED
        BY <2>2, <2>3
<1> QED
    BY <1>1, <1>2, ElementOfSeq

\* The copy, run.json, the numbers of commands, and what each shell was given.
Ledgers ==
    /\ copy \in DOMAIN config.files \cup {None}
    /\ runTasks = None \/ Range(runTasks) \subseteq DOMAIN config.tasks
    /\ given \in 0 .. config.commands /\ killed \in 0 .. config.kills
    /\ \A s \in Shells : command[s] \in config.shells[s] \cup {None}

LEMMA LedgersStep ==
    ASSUME Shape, Ledgers, [Next]_vars
    PROVE  Ledgers'
<1>1. CASE UNCHANGED vars
    BY <1>1 DEF vars, disk, own, Ledgers, Shells
<1>2. ASSUME NEW s \in Shells, Moves(s)
      PROVE  Ledgers'
    <2>1. config' = config /\ LedgerMoves(s) /\ config \in Settings /\ Shells' = Shells
        BY <1>2, OneShellMoves, LedgerFacts DEF Shape, Shells
    <2>2. ASSUME \/ at[s] \in {"accepting", "starting run", "job", "writing run"}
                 \/ (at[s] = "seeds" /\ command[s].verb = "collect")
          PROVE  /\ command[s] \in config.shells[s] /\ command[s].verb # "fold"
                 /\ command[s].file \in DOMAIN config.files
        <3>1. command[s] \in config.shells[s] /\ command[s].verb # "fold"
            BY <2>2 DEF Shape, ShapeOf, VerbFits, Resting
        <3> QED
            BY <2>1, <3>1, SettingsAssumption DEF Shells
    <2>3. ASSUME command[s] \in config.shells[s], command[s].verb # "fold"
          PROVE  /\ Range(IdsOf(command[s].file)) \subseteq DOMAIN config.tasks
                 /\ Range(<<Chosen(s)[1].id>>) \subseteq DOMAIN config.tasks
        <3>1. /\ Range(Entries(s)) \subseteq EntriesOfFiles
              /\ Range(IdsOf(command[s].file)) = {e.id : e \in Range(Entries(s))}
              /\ Chosen(s)[1] \in EntriesOfFiles
            BY <2>1, <2>3, ChosenFacts, FirstChosen
        <3>2. \A e \in EntriesOfFiles : e.id \in DOMAIN config.tasks
            BY <2>1, EntryFacts
        <3>3. Range(IdsOf(command[s].file)) \subseteq DOMAIN config.tasks
            BY <3>1, <3>2
        <3> DEFINE x == Chosen(s)[1].id
        <3>4. x \in DOMAIN config.tasks
            BY <3>1, <3>2
        <3> HIDE DEF x
        <3>5. Range(<<x>>) = {x}
            BY DEF Range
        <3> QED
            BY <3>3, <3>4, <3>5 DEF x
    <2>4. /\ \/ copy' = copy
             \/ at[s] \in {"accepting", "starting run", "job"} /\ copy' = command[s].file
          /\ \/ runTasks' = runTasks
             \/ /\ at[s] = "writing run" /\ command[s].verb # "shot"
                /\ runTasks' = IdsOf(command[s].file)
             \/ /\ at[s] = "writing run" /\ command[s].verb = "shot"
                /\ runTasks' = <<Chosen(s)[1].id>>
             \/ /\ at[s] = "seeds" /\ command[s].verb = "collect"
                /\ runTasks' = IdsOf(command[s].file)
          /\ given' # given => given < config.commands /\ given' = given + 1
          /\ killed' # killed => killed < config.kills /\ killed' = killed + 1
        BY <2>1, Zenon DEF LedgerMoves
    <2>5. /\ copy \in DOMAIN config.files \cup {None}
          /\ runTasks = None \/ Range(runTasks) \subseteq DOMAIN config.tasks
          /\ given \in 0 .. config.commands /\ killed \in 0 .. config.kills
        BY Zenon DEF Ledgers
    <2>6. copy' \in DOMAIN config.files \cup {None}
        BY <2>2, <2>4, <2>5
    <2>7. runTasks' = None \/ Range(runTasks') \subseteq DOMAIN config.tasks
        BY <2>2, <2>3, <2>4, <2>5
    <2>8. given' \in 0 .. config.commands /\ killed' \in 0 .. config.kills
        <3> DEFINE c == config.commands
                   k == config.kills
        <3>1. c \in Nat /\ k \in Nat
            BY <2>1, SettingsAssumption
        <3>2. given \in 0 .. c /\ killed \in 0 .. k
            BY <2>5
        <3>3. given' = given \/ (given < c /\ given' = given + 1)
            BY <2>4
        <3>4. killed' = killed \/ (killed < k /\ killed' = killed + 1)
            BY <2>4
        <3> HIDE DEF c, k
        <3>5. given' \in 0 .. c /\ killed' \in 0 .. k
            BY <3>1, <3>2, <3>3, <3>4
        <3> QED
            BY <3>5 DEF c, k
    <2>9. \A t \in Shells : command'[t] \in config.shells[t] \cup {None}
        BY <2>1 DEF LedgerMoves, Ledgers, Shape, OwnDomains
    <2> QED
        BY <2>1, <2>6, <2>7, <2>8, <2>9 DEF Ledgers
<1> QED
    BY <1>1, <1>2, ShellsMove

LEMMA InitHasLedgers == Init => Ledgers
    BY SettingsAssumption DEF Init, InitFor, Ledgers, Shells


-----------------------------------------------------------------------------
(* The records, and what a process is about to write *)

\* A record of an entry of the run files, under its name.
IsRecordOf(n, r) ==
    \E e \in EntriesOfFiles : \E rule \in {e.rule, None} : \E S \in SUBSET Nat :
        e.name = n /\ r = [id |-> e.id, rule |-> rule, seeds |-> S]
RecordsTyped == \A n \in Names : record[n] \in {None, Torn} \/ IsRecordOf(n, record[n])

MemoryTyped(s) ==
    /\ toWrite[s] \in Seq(EntriesOfFiles)
    /\ files[s] \subseteq CsvFiles
    /\ folders[s] \subseteq saved
    /\ at[s] = "seeds" => \A n \in DOMAIN staged[s] : IsRecordOf(n, staged[s][n])
    /\ IsFiniteSet(running[s])
    /\ running[s] # {} => Cardinality(running[s]) <= command[s].processes
Typed == RecordsTyped /\ \A s \in Shells : MemoryTyped(s)

LEMMA RecordFacts ==
    ASSUME config \in Settings, NEW n, NEW r, IsRecordOf(n, r)
    PROVE  /\ r \notin {None, Torn} /\ r.id \in DOMAIN config.tasks /\ r.seeds \subseteq Nat
           /\ \A S \in SUBSET Nat : IsRecordOf(n, [r EXCEPT !.seeds = S])
           /\ r.rule # None => \E e \in EntriesOfFiles :
                e.name = n /\ r.id = e.id /\ r.rule = e.rule
<1>1. PICK e \in EntriesOfFiles : \E rule \in {e.rule, None} : \E S \in SUBSET Nat :
        e.name = n /\ r = [id |-> e.id, rule |-> rule, seeds |-> S]
    BY DEF IsRecordOf
<1>2. PICK rule \in {e.rule, None} : \E S \in SUBSET Nat :
        e.name = n /\ r = [id |-> e.id, rule |-> rule, seeds |-> S]
    BY <1>1
<1>3. PICK S \in SUBSET Nat : e.name = n /\ r = [id |-> e.id, rule |-> rule, seeds |-> S]
    BY <1>2
<1>4. e.id \in DOMAIN config.tasks /\ e.rule \in RuleType
    BY EntryFacts
<1>5. r \in [id : DOMAIN config.tasks, rule : RuleType \cup {None}, seeds : SUBSET Nat]
    BY <1>2, <1>3, <1>4
<1>6. r \notin {None, Torn}
    BY <1>5, SettingsAssumption
<1>7. \A T \in SUBSET Nat : IsRecordOf(n, [r EXCEPT !.seeds = T])
    <2> SUFFICES ASSUME NEW T \in SUBSET Nat
                 PROVE  IsRecordOf(n, [r EXCEPT !.seeds = T])
        OBVIOUS
    <2>1. [r EXCEPT !.seeds = T] = [id |-> e.id, rule |-> rule, seeds |-> T]
        BY <1>3
    <2> QED
        BY <1>2, <1>3, <2>1 DEF IsRecordOf
<1> QED
    BY <1>1, <1>2, <1>3, <1>4, <1>6, <1>7

\* A set of what a sequence holds is not larger than the sequence is long.
LEMMA RangeIsNoLonger ==
    ASSUME NEW S, NEW q \in Seq(S)
    PROVE  IsFiniteSet(Range(q)) /\ Cardinality(Range(q)) <= Len(q)
<1>1. Len(q) \in Nat /\ DOMAIN q = 1 .. Len(q)
    BY LenProperties
<1>2. IsFiniteSet(1 .. Len(q)) /\ Cardinality(1 .. Len(q)) = Len(q)
    BY <1>1, FS_Interval
<1>3. Range(q) = {q[i] : i \in 1 .. Len(q)}
    BY <1>1 DEF Range
<1> DEFINE D == 1 .. Len(q)
<1>4. q \in [D -> Range(q)]
    BY <1>1 DEF Range
<1>5. q \in Surjection(D, Range(q))
    BY <1>1, <1>4 DEF Surjection, Range
<1> HIDE DEF D
<1>6. IsFiniteSet(Range(q)) /\ Cardinality(Range(q)) <= Cardinality(D)
    BY <1>2, <1>5, FS_Surjection DEF D
<1> QED
    BY <1>2, <1>6 DEF D

\* A step that leaves alone what is about to be written.
LEMMA QuietMemory ==
    ASSUME config' = config, NEW s, MemoryTyped(s), saved \subseteq saved',
           toWrite'[s] = toWrite[s], files'[s] = files[s], folders'[s] = folders[s],
           at'[s] = "seeds" => at[s] = "seeds" /\ staged'[s] = staged[s],
           running'[s] = running[s], command'[s] = command[s] \/ running[s] = {}
    PROVE  MemoryTyped(s)'
<1>1. EntriesOfFiles' = EntriesOfFiles
    BY SettingsStay
<1>2. ASSUME at'[s] = "seeds", NEW n \in DOMAIN staged'[s]
      PROVE  IsRecordOf(n, staged'[s][n])
    BY <1>2 DEF MemoryTyped
<1>3. (at[s] = "seeds" => \A n \in DOMAIN staged[s] : IsRecordOf(n, staged[s][n]))'
    BY <1>1, <1>2 DEF IsRecordOf
<1> QED
    BY <1>1, <1>3 DEF MemoryTyped

\* The pool of a collect takes one piece more, while it has room.
LEMMA PoolGrows ==
    ASSUME config \in Settings, NEW s \in Shells, command[s] \in config.shells[s],
           command[s].verb # "fold", IsFiniteSet(running[s]), HasRoom(s), NEW u
    PROVE  /\ IsFiniteSet(running[s] \cup {u})
           /\ Cardinality(running[s] \cup {u}) <= command[s].processes
<1>1. command[s].processes \in Nat
    BY SettingsAssumption DEF Shells
<1>2. Cardinality(running[s]) \in Nat
    BY FS_CardinalityType
<1>3. Cardinality(running[s]) + 1 <= command[s].processes
    BY <1>1, <1>2 DEF HasRoom
<1>4. /\ IsFiniteSet(running[s] \cup {u})
      /\ Cardinality(running[s] \cup {u}) = Cardinality(running[s])
            \/ Cardinality(running[s] \cup {u}) = Cardinality(running[s]) + 1
    BY FS_AddElement
<1> QED
    BY <1>1, <1>2, <1>3, <1>4

LEMMA MemoryStep ==
    ASSUME Shape, PoolsFit, RecordsTyped, NEW s \in Shells, MemoryTyped(s), Moves(s),
           saved \subseteq saved'
    PROVE  MemoryTyped(s)'
<1>1. /\ Shape' /\ config' = config /\ config \in Settings /\ OwnDomains /\ OwnDomains'
      /\ EntriesOfFiles' = EntriesOfFiles /\ Names' = Names
    BY OneShellMoves, SettingsStay DEF Shape
<1>2. CASE Rested(s)
    <2>1. IsFiniteSet(running'[s]) /\ running'[s] = {}
        BY <1>2, FS_EmptySet DEF Rested, RestingMemory
    <2> QED
        BY <1>1, <1>2, <2>1 DEF Rested, RestingMemory, MemoryTyped, Resting
<1>3. CASE WentOn(s) /\ at'[s] \notin Resting
    <2>1. at'[s] # "seeds" /\ files'[s] = files[s] /\ folders'[s] = folders[s]
          /\ running'[s] = running[s]
        BY <1>3 DEF WentOn
    <2>2. toWrite'[s] \in Seq(EntriesOfFiles)
        <3>1. ASSUME at[s] = "starting" \/ at[s] = "writing run"
              PROVE  Chosen(s) \in Seq(EntriesOfFiles) /\ Chosen(s)[1] \in EntriesOfFiles
            <4>1. command[s] \in config.shells[s] /\ command[s].verb # "fold"
                BY <3>1 DEF Shape, ShapeOf, VerbFits, Resting
            <4> QED
                BY <1>1, <4>1, ChosenFacts, FirstChosen
        <3> DEFINE e == Chosen(s)[1]
        <3>2. e \in EntriesOfFiles => <<e>> \in Seq(EntriesOfFiles)
            <4> HIDE DEF e
            <4> QED
                OBVIOUS
        <3>3. <<>> \in Seq(EntriesOfFiles)
            OBVIOUS
        <3>4. toWrite[s] \in Seq(EntriesOfFiles)
            BY DEF MemoryTyped
        <3> HIDE DEF e
        <3>5. \/ toWrite'[s] = toWrite[s]
              \/ at[s] = "starting" /\ toWrite'[s] = Chosen(s)
              \/ at[s] = "writing run" /\ toWrite'[s] = <<e>>
              \/ toWrite'[s] = <<>>
            BY <1>3 DEF WentOn, e
        <3> QED
            BY <3>1, <3>2, <3>3, <3>4, <3>5 DEF e
    <2>3. command'[s] = command[s] \/ running[s] = {}
        BY <1>3 DEF WentOn, Shape, ShapeOf, RestingMemory
    <2> QED
        BY <1>1, <2>1, <2>2, <2>3 DEF MemoryTyped
<1>4. CASE Works(s) /\ command' = command /\ at'[s] \notin Resting
    <2>1. ASSUME OpenRecord(s) \/ CollectStops(s) \/ FoldStages(s)
          PROVE  MemoryTyped(s)'
        <3>1. /\ toWrite'[s] = toWrite[s] /\ files'[s] = files[s] /\ folders'[s] = folders[s]
              /\ running'[s] = running[s] /\ at'[s] # "seeds"
            <4>1. \A how \in Resting : ~Leaves(s, how)
                BY <1>4 DEF Leaves, Shape, OwnDomains
            <4> QED
                BY <1>1, <2>1, <4>1 DEF OpenRecord, CollectStops, FoldStages, Goes, own, inMemory,
                                        Resting, OwnDomains
        <3> QED
            BY <1>1, <1>4, <3>1, QuietMemory
    <2>2. ASSUME WriteRecord(s)
          PROVE  MemoryTyped(s)'
        <3>1. /\ toWrite[s] # <<>> /\ toWrite'[s] = Tail(toWrite[s])
              /\ files'[s] = files[s] /\ folders'[s] = folders[s]
              /\ running'[s] = running[s] /\ at'[s] # "seeds"
            BY <1>1, <2>2 DEF WriteRecord, OwnDomains
        <3>2. toWrite'[s] \in Seq(EntriesOfFiles)
            BY <3>1, HeadTailProperties DEF MemoryTyped
        <3> QED
            BY <1>1, <1>4, <3>1, <3>2 DEF MemoryTyped
    <2>3. ASSUME ReadSaved(s)
          PROVE  MemoryTyped(s)'
        <3>1. /\ toWrite'[s] = toWrite[s] /\ files'[s] = files[s] /\ folders'[s] = folders[s]
              /\ running'[s] = running[s] /\ at'[s] # "seeds"
            BY <1>1, <2>3 DEF ReadSaved, Goes, OwnDomains
        <3> QED
            BY <1>1, <1>4, <3>1, QuietMemory
    <2>4. ASSUME HandOut(s)
          PROVE  MemoryTyped(s)'
        <3>1. /\ toWrite'[s] = toWrite[s] /\ files'[s] = files[s] /\ folders'[s] = folders[s]
              /\ at'[s] # "seeds" /\ at[s] = "collecting" /\ HasRoom(s)
              /\ running'[s] = running[s] \/ \E u : running'[s] = running[s] \cup {u}
            BY <1>1, <2>4 DEF HandOut, OwnDomains
        <3>2. command[s] \in config.shells[s] /\ command[s].verb = "collect"
            BY <3>1 DEF Shape, ShapeOf, VerbFits, Resting
        <3>3. CASE running'[s] = running[s]
            BY <1>1, <1>4, <3>1, <3>3, QuietMemory
        <3>4. CASE \E u : running'[s] = running[s] \cup {u}
            <4>1. IsFiniteSet(running'[s]) /\ Cardinality(running'[s]) <= command[s].processes
                BY <1>1, <3>1, <3>2, <3>4, PoolGrows DEF MemoryTyped
            <4> QED
                BY <1>1, <1>4, <3>1, <4>1 DEF MemoryTyped
        <3> QED
            BY <3>1, <3>3, <3>4
    <2>5. ASSUME NEW u \in running[s], PieceEnds(s, u)
          PROVE  MemoryTyped(s)'
        <3>1. /\ toWrite'[s] = toWrite[s] /\ files'[s] = files[s] /\ folders'[s] = folders[s]
              /\ at'[s] # "seeds" /\ at[s] = "collecting" /\ running'[s] = running[s] \ {u}
            BY <1>1, <2>5 DEF PieceEnds, OwnDomains
        <3>2. command[s] \in config.shells[s] /\ command[s].verb = "collect"
            BY <3>1 DEF Shape, ShapeOf, VerbFits, Resting
        <3>3. command[s].processes \in Nat
            BY <1>1, <3>2, SettingsAssumption DEF Shells
        <3>4. /\ IsFiniteSet(running'[s]) /\ Cardinality(running'[s]) \in Nat
              /\ Cardinality(running[s]) \in Nat
              /\ Cardinality(running'[s]) <= Cardinality(running[s])
            BY <3>1, FS_Subset, FS_CardinalityType DEF MemoryTyped
        <3>5. Cardinality(running'[s]) <= command[s].processes
            BY <3>3, <3>4 DEF MemoryTyped
        <3> QED
            BY <1>1, <1>4, <3>1, <3>4, <3>5 DEF MemoryTyped
    <2>6. ASSUME JobStarts(s)
          PROVE  MemoryTyped(s)'
        <3> DEFINE units == JobUnits(s)
                   room == Min({Len(units), command[s].processes})
        <3>1. /\ toWrite'[s] = toWrite[s] /\ files'[s] = files[s] /\ folders'[s] = folders[s]
              /\ at'[s] # "seeds" /\ at[s] = "job"
              /\ running'[s] = Range(SubSeq(units, 1, room))
            <4>1. \A how \in Resting : ~Leaves(s, how)
                BY <1>4 DEF Leaves, Shape, OwnDomains
            <4> QED
                BY <1>1, <2>6, <4>1 DEF JobStarts, Goes, Resting, OwnDomains, JobUnits
        <3>2. command[s] \in config.shells[s] /\ command[s].verb = "job"
            BY <3>1 DEF Shape, ShapeOf, VerbFits, Resting
        <3>3. command[s].processes \in Nat
            BY <1>1, <3>2, SettingsAssumption DEF Shells
        <3>4. units \in Seq(Units)
            BY <1>1, <3>2, JobUnitsFacts DEF PoolsFit, SavedFits, JobUnits
        <3>5. room \in Nat /\ room <= Len(units) /\ room <= command[s].processes
            <4> DEFINE a == Len(units)
                       b == command[s].processes
            <4>1. a \in Nat /\ b \in Nat
                BY <3>3, <3>4, LenProperties
            <4> HIDE DEF a, b
            <4>2. Min({a, b}) = IF a <= b THEN a ELSE b
                BY <4>1, OfTwo
            <4>3. room = Min({a, b})
                BY DEF a, b
            <4> HIDE DEF room
            <4>4. room \in Nat /\ room <= a /\ room <= b
                BY <4>1, <4>2, <4>3
            <4> QED
                BY <4>4 DEF a, b
        <3> HIDE DEF units, room
        <3> DEFINE started == SubSeq(units, 1, room)
        <3>6. started \in Seq(Units) /\ Len(started) = room
            BY <3>4, <3>5, SubSeqProperties
        <3> HIDE DEF started
        <3>7. IsFiniteSet(Range(started)) /\ Cardinality(Range(started)) <= Len(started)
            BY <3>6, RangeIsNoLonger
        <3>8. Cardinality(Range(started)) \in Nat
            BY <3>7, FS_CardinalityType
        <3>9. running'[s] = Range(started)
            BY <3>1 DEF started
        <3>10. IsFiniteSet(running'[s]) /\ Cardinality(running'[s]) <= command[s].processes
            BY <3>3, <3>5, <3>6, <3>7, <3>8, <3>9
        <3> QED
            BY <1>1, <1>4, <3>1, <3>10 DEF MemoryTyped
    <2>7. ASSUME NEW u \in running[s], JobPieceEnds(s, u)
          PROVE  MemoryTyped(s)'
        <3>1. /\ toWrite'[s] = toWrite[s] /\ files'[s] = files[s] /\ folders'[s] = folders[s]
              /\ at'[s] # "seeds" /\ at[s] = "running"
            BY <1>1, <2>7 DEF JobPieceEnds, OwnDomains
        <3>2. command[s] \in config.shells[s] /\ command[s].verb = "job"
            BY <3>1 DEF Shape, ShapeOf, VerbFits, Resting
        <3>3. command[s].processes \in Nat
            BY <1>1, <3>2, SettingsAssumption DEF Shells
        <3>4. PICK a : IsFiniteSet(a) /\ Cardinality(a) <= 1
                       /\ running'[s] = (running[s] \ {u}) \cup a
            BY <1>1, <2>7, JobPieceEndsFacts
        <3> DEFINE b == running[s] \ {u}
        <3>5. /\ IsFiniteSet(b) /\ Cardinality(b) = Cardinality(running[s]) - 1
              /\ Cardinality(running[s]) \in Nat /\ Cardinality(b) \in Nat
            BY FS_RemoveElement, FS_CardinalityType DEF MemoryTyped
        <3> HIDE DEF b
        <3>6. IsFiniteSet(b \cup a) /\ Cardinality(b \cup a) <= Cardinality(b) + Cardinality(a)
            <4>1. /\ IsFiniteSet(b \cup a) /\ Cardinality(b \cap a) \in Nat
                  /\ Cardinality(a) \in Nat
                BY <3>4, <3>5, FS_Union, FS_Intersection, FS_CardinalityType
            <4>2. Cardinality(b \cup a) = Cardinality(b) + Cardinality(a) - Cardinality(b \cap a)
                BY <3>4, <3>5, FS_Union
            <4> QED
                BY <3>5, <4>1, <4>2
        <3>7. Cardinality(a) \in Nat /\ Cardinality(b \cup a) \in Nat
            BY <3>4, <3>6, FS_CardinalityType
        <3>8. Cardinality(running[s]) <= command[s].processes
            BY DEF MemoryTyped
        <3>9. Cardinality(b \cup a) <= command[s].processes
            BY <3>3, <3>4, <3>5, <3>6, <3>7, <3>8
        <3>10. running'[s] = b \cup a
            BY <3>4 DEF b
        <3> QED
            BY <1>1, <1>4, <3>1, <3>6, <3>9, <3>10 DEF MemoryTyped
    <2>8. ASSUME FoldLists(s) \/ ListOldFiles(s) \/ ListNewFiles(s)
                 \/ (\E f \in CsvFiles : RemoveFile(s, f) \/ MoveFile(s, f))
          PROVE  MemoryTyped(s)'
        <3>1. \A how \in Resting : ~Leaves(s, how)
            BY <1>4 DEF Leaves, Shape, OwnDomains
        <3>2. /\ toWrite'[s] = toWrite[s] /\ running'[s] = running[s] /\ at'[s] # "seeds"
              /\ files'[s] \subseteq files[s] \cup CsvFiles
              /\ folders'[s] \subseteq folders[s] \cup saved
            <4>1. CASE FoldLists(s)
                BY <1>1, <3>1, <4>1 DEF FoldLists, Goes, Resting, OwnDomains
            <4>2. CASE ListOldFiles(s) \/ ListNewFiles(s)
                BY <1>1, <4>2 DEF ListOldFiles, ListNewFiles, Goes, OwnDomains
            <4>3. CASE \E f \in CsvFiles : RemoveFile(s, f) \/ MoveFile(s, f)
                BY <1>1, <3>1, <4>3 DEF RemoveFile, MoveFile, Resting, OwnDomains
            <4> QED
                BY <2>8, <4>1, <4>2, <4>3
        <3> QED
            BY <1>1, <1>4, <3>2 DEF MemoryTyped
    <2>9. ASSUME ReadRecords(s)
          PROVE  MemoryTyped(s)'
        <3>1. \A how \in Resting : ~Leaves(s, how)
            BY <1>4 DEF Leaves, Shape, OwnDomains
        <3>2. /\ toWrite'[s] = toWrite[s] /\ running'[s] = running[s]
              /\ files'[s] = files[s] /\ folders'[s] = folders[s] /\ ~Unreadable
              /\ staged'[s] = [n \in Recorded |-> [record[n] EXCEPT !.seeds =
                        UNION {SeedsOf(p) : p \in PiecesOf(record[n].id, folders[s])}]]
            BY <1>1, <2>9, <3>1 DEF ReadRecords, Goes, Resting, OwnDomains
        <3>3. ASSUME NEW n \in Recorded
              PROVE  IsRecordOf(n, staged'[s][n])
            <4>1. IsRecordOf(n, record[n])
                BY <3>2 DEF RecordsTyped, Recorded, Unreadable
            <4> DEFINE S == UNION {SeedsOf(p) : p \in PiecesOf(record[n].id, folders[s])}
            <4>2. \A p \in folders[s] : p.first \in Nat /\ p.count \in Nat
                BY DEF MemoryTyped, PoolsFit, SavedFits, PiecesFit, Pieces
            <4>3. S \in SUBSET Nat
                BY <4>2 DEF PiecesOf, SeedsOf
            <4>4. staged'[s][n] = [record[n] EXCEPT !.seeds = S]
                BY <3>2
            <4> HIDE DEF S
            <4> QED
                BY <1>1, <4>1, <4>3, <4>4, RecordFacts
        <3>4. (at[s] = "seeds" => \A n \in DOMAIN staged[s] : IsRecordOf(n, staged[s][n]))'
            BY <1>1, <3>2, <3>3 DEF IsRecordOf
        <3> QED
            BY <1>1, <1>4, <3>2, <3>4 DEF MemoryTyped
    <2>10. ASSUME NEW n \in Names, RecordSeeds(s, n)
           PROVE  MemoryTyped(s)'
        <3>1. /\ toWrite'[s] = toWrite[s] /\ running'[s] = running[s]
              /\ files'[s] = files[s] /\ folders'[s] = folders[s] /\ at[s] = "seeds"
              /\ staged'[s] = [m \in DOMAIN staged[s] \ {n} |-> staged[s][m]]
            BY <1>1, <2>10 DEF RecordSeeds, OwnDomains
        <3>2. ASSUME NEW m \in DOMAIN staged'[s]
              PROVE  IsRecordOf(m, staged'[s][m])
            BY <3>1 DEF MemoryTyped
        <3>3. (at[s] = "seeds" => \A m \in DOMAIN staged[s] : IsRecordOf(m, staged[s][m]))'
            BY <1>1, <3>2 DEF IsRecordOf
        <3> QED
            BY <1>1, <1>4, <3>1, <3>3 DEF MemoryTyped
    <2> QED
        BY <1>4, <2>1, <2>2, <2>3, <2>4, <2>5, <2>6, <2>7, <2>8, <2>9, <2>10 DEF Works
<1> QED
    BY <1>2, <1>3, <1>4, StepsOfAShell

\* A step writes an empty file, a record of the entry at hand, or one that it
\* read before, with its seeds.
LEMMA RecordsStep ==
    ASSUME Shape, RecordsTyped, NEW s \in Shells, MemoryTyped(s), Moves(s)
    PROVE  RecordsTyped'
<1>1. /\ config' = config /\ config \in Settings /\ DOMAIN record = Names
      /\ EntriesOfFiles' = EntriesOfFiles /\ Names' = Names
    BY OneShellMoves, SettingsStay DEF Shape
<1>2. ASSUME \A n \in Names : record'[n] \in {None, Torn} \/ IsRecordOf(n, record'[n])
      PROVE  RecordsTyped'
    BY <1>1, <1>2 DEF RecordsTyped, IsRecordOf
<1>3. CASE record' = record
    BY <1>2, <1>3 DEF RecordsTyped
<1>4. CASE OpenRecord(s)
    <2>1. \E m : record' = [record EXCEPT ![m] = Torn]
        BY <1>4 DEF OpenRecord
    <2> QED
        BY <1>1, <1>2, <2>1 DEF RecordsTyped
<1>5. CASE WriteRecord(s)
    <2> DEFINE e == Head(toWrite[s])
               rule == IF at[s] = "recording" THEN e.rule ELSE None
               r == [id |-> e.id, rule |-> rule, seeds |-> {}]
    <2>1. toWrite[s] # <<>> /\ record' = [record EXCEPT ![e.name] = r]
        BY <1>5 DEF WriteRecord
    <2>2. e \in EntriesOfFiles
        BY <2>1, HeadTailProperties DEF MemoryTyped
    <2>3. rule \in {e.rule, None}
        OBVIOUS
    <2> HIDE DEF e, rule
    <2>4. IsRecordOf(e.name, r)
        BY <2>2, <2>3 DEF IsRecordOf
    <2> HIDE DEF r
    <2> QED
        BY <1>1, <1>2, <2>1, <2>4 DEF RecordsTyped
<1>6. CASE \E n \in Names : RecordSeeds(s, n)
    <2>1. PICK n \in Names : RecordSeeds(s, n)
        BY <1>6
    <2>2. n \in DOMAIN staged[s] /\ at[s] = "seeds"
          /\ record' = [record EXCEPT ![n] = staged[s][n]]
        BY <2>1 DEF RecordSeeds
    <2>3. IsRecordOf(n, staged[s][n])
        BY <2>2 DEF MemoryTyped
    <2> QED
        BY <1>1, <1>2, <2>2, <2>3 DEF RecordsTyped
<1>7. record' = record \/ OpenRecord(s) \/ WriteRecord(s) \/ \E n \in Names : RecordSeeds(s, n)
    <2>1. CASE Rested(s) \/ WentOn(s)
        BY <2>1 DEF Rested, WentOn
    <2>2. CASE ReadSaved(s) \/ HandOut(s) \/ CollectStops(s) \/ JobStarts(s)
        BY <2>2 DEF ReadSaved, HandOut, CollectStops, JobStarts, disk
    <2>3. CASE \E u \in running[s] : PieceEnds(s, u) \/ JobPieceEnds(s, u)
        BY <2>3 DEF PieceEnds, JobPieceEnds
    <2>4. CASE FoldLists(s) \/ FoldStages(s) \/ ListOldFiles(s) \/ ListNewFiles(s)
               \/ ReadRecords(s)
        BY <2>4 DEF FoldLists, FoldStages, ListOldFiles, ListNewFiles, ReadRecords, disk
    <2>5. CASE \E f \in CsvFiles : RemoveFile(s, f) \/ MoveFile(s, f)
        BY <2>5 DEF RemoveFile, MoveFile
    <2> QED
        BY <2>1, <2>2, <2>3, <2>4, <2>5, StepsOfAShell DEF Works
<1> QED
    BY <1>3, <1>4, <1>5, <1>6, <1>7

LEMMA TypedStep ==
    ASSUME Shape, PoolsFit, Typed, [Next]_vars
    PROVE  Typed'
<1>1. saved \subseteq saved'
    BY PoolsStep
<1>2. CASE UNCHANGED vars
    <2>1. /\ UNCHANGED <<config, record, command, at, toWrite, running, folders, staged, files>>
          /\ Shells' = Shells /\ EntriesOfFiles' = EntriesOfFiles /\ Names' = Names
        BY <1>2, SettingsStay DEF vars, disk, own, Shells
    <2>2. \A t \in Shells : MemoryTyped(t)'
        BY <1>1, <2>1, QuietMemory DEF Typed
    <2>3. RecordsTyped'
        BY <2>1 DEF Typed, RecordsTyped, IsRecordOf
    <2> QED
        BY <2>1, <2>2, <2>3 DEF Typed
<1>3. ASSUME NEW s \in Shells, Moves(s)
      PROVE  Typed'
    <2>1. config' = config /\ Shells' = Shells /\ \A t \in Shells \ {s} : Keeps(t)
        BY <1>3, OneShellMoves DEF Shells
    <2>2. RecordsTyped' /\ MemoryTyped(s)'
        BY <1>1, <1>3, RecordsStep, MemoryStep DEF Typed
    <2>3. \A t \in Shells \ {s} : MemoryTyped(t)'
        BY <1>1, <2>1, QuietMemory DEF Typed, Keeps
    <2> QED
        BY <2>1, <2>2, <2>3 DEF Typed
<1> QED
    BY <1>2, <1>3, ShellsMove

LEMMA InitIsTyped == Init => Typed
    BY FS_EmptySet DEF Init, InitFor, Typed, RecordsTyped, MemoryTyped, Shells, Names

\* What TypeOK says follows from what is kept.
LEMMA TypesFollow ==
    ASSUME Shape, PoolsFit, Ledgers, Typed
    PROVE  TypeOK
<1>1. config \in Settings
    BY DEF Shape
<1>2. \A n \in Names : record[n] \in {None, Torn} \/ record[n].id \in DOMAIN config.tasks
    BY <1>1, RecordFacts DEF Typed, RecordsTyped
<1>3. \A p \in saved : p.id \in DOMAIN config.tasks /\ p.count > 0
    BY DEF PoolsFit, SavedFits, PiecesFit, Pieces
<1>4. ASSUME NEW s \in Shells
      PROVE  /\ command[s] \in config.shells[s] \cup {None}
             /\ at[s] \in Resting => running[s] = {} /\ queued[s] = <<>> /\ files[s] = {}
             /\ Cardinality(running[s]) > 0 => Cardinality(running[s]) <= command[s].processes
             /\ files[s] \subseteq CsvFiles
    <2>1. MemoryTyped(s) /\ ShapeOf(s)
        BY DEF Typed, Shape
    <2>2. running[s] = {} => Cardinality(running[s]) = 0
        BY FS_EmptySet
    <2>3. Cardinality(running[s]) > 0 => Cardinality(running[s]) <= command[s].processes
        BY <2>1, <2>2 DEF MemoryTyped
    <2> QED
        BY <2>1, <2>3 DEF MemoryTyped, ShapeOf, RestingMemory, Ledgers
<1> QED
    BY <1>1, <1>2, <1>3, <1>4 DEF TypeOK, Ledgers

\* Every variable keeps its type, for every history of commands.
THEOREM TypeCorrect == Spec => []TypeOK
<1>1. Init => Shape /\ PoolsFit /\ Ledgers /\ Typed
    BY InitHasShape, InitHasPools, InitHasLedgers, InitIsTyped
<1>2. Shape /\ PoolsFit /\ Ledgers /\ Typed /\ [Next]_vars => (Ledgers /\ Typed)'
    BY LedgersStep, TypedStep
<1>3. Shape /\ PoolsFit /\ Ledgers /\ Typed => TypeOK
    BY TypesFollow
<1> QED
    BY <1>1, <1>2, <1>3, ShapeIsKept, PoolsAreKept, PTL DEF Spec

-----------------------------------------------------------------------------
(* Where seeds are cut *)

\* The sum of two multiples is one.
LEMMA SumOfMultiples ==
    ASSUME NEW a \in Nat, NEW b \in Nat, NEW p \in Nat \ {0}, a % p = 0, b % p = 0
    PROVE  (a + b) % p = 0
<1> DEFINE q == a \div p
           r == b \div p
           c == a + b
           k == c \div p
           m == c % p
<1>1. q \in Nat /\ r \in Nat /\ a = p * q /\ b = p * r
    OBVIOUS
<1>2. c \in Nat
    OBVIOUS
<1> HIDE DEF c
<1>3. k \in Nat /\ m \in 0 .. p - 1 /\ c = p * k + m
    BY <1>2, Division
<1> HIDE DEF q, r, k, m
<1>4. p * q + p * r = p * (q + r)
    BY <1>1
<1> DEFINE n == q + r
<1>5. n \in Nat /\ p * n = p * k + m
    BY <1>1, <1>3, <1>4 DEF c
<1> HIDE DEF n
<1>6. \A i \in Nat : i >= 1 => p * i >= p
    OBVIOUS
<1>7. \A i, j \in Nat : p * (i - j) = p * i - p * j
    OBVIOUS
<1>8. ASSUME n > k
      PROVE  FALSE
    <2>1. n - k \in Nat /\ n - k >= 1
        BY <1>3, <1>5, <1>8
    <2>2. p * (n - k) >= p /\ p * (n - k) = p * n - p * k
        BY <1>3, <1>5, <1>6, <1>7, <2>1
    <2> QED
        BY <1>3, <1>5, <2>2
<1>9. ASSUME k > n
      PROVE  FALSE
    <2>1. k - n \in Nat /\ k - n >= 1
        BY <1>3, <1>5, <1>9
    <2>2. p * (k - n) >= p /\ p * (k - n) = p * k - p * n
        BY <1>3, <1>5, <1>6, <1>7, <2>1
    <2> QED
        BY <1>3, <1>5, <2>2
<1>10. n = k
    BY <1>3, <1>5, <1>8, <1>9
<1>11. m = 0
    BY <1>3, <1>5, <1>10
<1> QED
    BY <1>11 DEF m, c

\* Seeds in a row.
IsRow(S, a, b) == S = a .. b - 1

\* A row of seeds is finite, and so is each part of it.
LEMMA RowsAreFinite ==
    ASSUME NEW a \in Int, NEW b \in Int, NEW S, IsRow(S, a, b)
    PROVE  /\ IsFiniteSet(S) /\ \A y \in S : y \in Int
           /\ \A H : IsFiniteSet(S \ H)
<1> DEFINE m == b - 1
<1>1. m \in Int /\ S = a .. m
    BY DEF IsRow
<1> HIDE DEF m
<1>2. IsFiniteSet(a .. m)
    BY <1>1, FS_Interval
<1>3. IsFiniteSet(S)
    BY <1>1, <1>2
<1>4. \A y \in S : y \in Int
    BY <1>1
<1>5. \A H : IsFiniteSet(S \ H)
    <2> TAKE H
    <2> DEFINE G == S \ H
    <2>1. G \in SUBSET S
        OBVIOUS
    <2> HIDE DEF G
    <2>2. IsFiniteSet(G)
        BY <1>3, <2>1, FS_Subset
    <2> QED
        BY <2>2 DEF G
<1> QED
    BY <1>3, <1>4, <1>5

\* The seeds of S that a piece of p from x on has.
CellOf(S, p, x) == {y \in S : x <= y /\ y < x + p}

HaveWholeCells(H, S, a, p) ==
    \A x \in S : (x - a) % p = 0 =>
        CellOf(S, p, x) \subseteq H \/ CellOf(S, p, x) \cap H = {}

\* Where the seeds of a row that others hold are whole cells of it, the pieces
\* that its gaps are cut into are its other cells.
LEMMA CellFacts ==
    ASSUME NEW a \in Nat, NEW b \in Int, NEW p \in Nat \ {0}, NEW S, IsRow(S, a, b),
           NEW H, HaveWholeCells(H, S, a, p), NEW x \in FirstsIn(S \ H, p)
    PROVE  x \in S /\ (x - a) % p = 0 /\ RunIn(S \ H, p, x) = CellOf(S, p, x)
<1> DEFINE G == S \ H
<1>1. IsFiniteSet(G) /\ \A y \in G : y \in Int
    <2>0. a \in Int
        OBVIOUS
    <2>1. (\A K : IsFiniteSet(S \ K)) /\ \A y \in S : y \in Int
        BY <2>0, RowsAreFinite
    <2> QED
        BY <2>1
<1>2. x \in G /\ x \in S /\ x \in Int /\ a <= x /\ x <= b - 1
    BY DEF FirstsIn, IsRow
<1> DEFINE st == StartIn(G, x)
<1>3. st \in G /\ st <= x /\ st .. x \subseteq G /\ st - 1 \notin G /\ (x - st) % p = 0
    <2>1. (x - st) % p = 0
        BY DEF FirstsIn
    <2> HIDE DEF G
    <2>2. st \in G /\ st <= x /\ st .. x \subseteq G /\ st - 1 \notin G
        BY <1>1, <1>2, StartFacts DEF StartIn
    <2> QED
        BY <2>1, <2>2
<1>4. st \in S /\ st \in Int /\ a <= st /\ st \notin H
    BY <1>3 DEF IsRow
<1> HIDE DEF st
<1> DEFINE n == st - a
           r == n % p
           g == a + (n - r)
<1>5. n \in Nat
    BY <1>4
<1>6. r \in 0 .. p - 1 /\ n - r \in Nat /\ (n - r) % p = 0
    <2> HIDE DEF n
    <2> QED
        BY <1>5, RoundedDown
<1>7. g \in S /\ g - a = n - r /\ g = st - r /\ g <= st /\ st < g + p
    <2> HIDE DEF r
    <2> QED
        BY <1>2, <1>3, <1>4, <1>6 DEF IsRow
<1> HIDE DEF g
<1>8. CellOf(S, p, g) \cap H = {}
    <2>1. (g - a) % p = 0
        BY <1>6, <1>7
    <2>2. st \in CellOf(S, p, g)
        BY <1>4, <1>7 DEF CellOf
    <2> QED
        BY <1>4, <1>7, <2>1, <2>2 DEF HaveWholeCells
<1>9. r = 0
    <2> HIDE DEF r
    <2> SUFFICES ASSUME r # 0
                 PROVE  FALSE
        OBVIOUS
    <2>1. g <= st - 1 /\ st - 1 < g + p /\ st - 1 \in S
        BY <1>4, <1>6, <1>7 DEF IsRow
    <2>2. st - 1 \in CellOf(S, p, g)
        BY <2>1 DEF CellOf
    <2> QED
        BY <1>3, <1>8, <2>1, <2>2
<1>10. (x - a) % p = 0
    <2> DEFINE m == x - st
    <2>1. m \in Nat /\ m % p = 0 /\ n % p = 0
        BY <1>2, <1>3, <1>4, <1>9
    <2>2. n + m = x - a
        BY <1>2, <1>4
    <2> HIDE DEF n, m
    <2>3. (n + m) % p = 0
        BY <1>5, <2>1, SumOfMultiples
    <2> QED
        BY <2>2, <2>3
<1>11. CellOf(S, p, x) \cap H = {}
    <2>1. x \in CellOf(S, p, x)
        BY <1>2 DEF CellOf
    <2> QED
        BY <1>2, <1>10, <2>1 DEF HaveWholeCells
<1>12. RunIn(G, p, x) = CellOf(S, p, x)
    <2>1. ASSUME NEW y \in CellOf(S, p, x)
          PROVE  y \in RunIn(G, p, x)
        <3>1. y \in S /\ y \in Int /\ x <= y /\ y < x + p
            BY DEF CellOf, IsRow
        <3>2. \A z \in x .. y : z \in CellOf(S, p, x)
            BY <1>2, <3>1 DEF CellOf, IsRow
        <3>3. x .. y \subseteq G
            BY <1>11, <3>2 DEF CellOf
        <3> QED
            BY <1>2, <3>1, <3>3 DEF RunIn
    <2> QED
        BY <2>1 DEF RunIn, CellOf
<1> QED
    BY <1>2, <1>10, <1>12

\* The cells of a row that starts with one of its seeds.
LEMMA RowOfCells ==
    ASSUME NEW a \in Nat, NEW b \in Int, NEW p \in Nat \ {0}, NEW S, IsRow(S, a, b), NEW x \in S
    PROVE  /\ Cardinality(CellOf(S, p, x)) \in Nat \ {0}
           /\ CellOf(S, p, x) = x .. x + Cardinality(CellOf(S, p, x)) - 1
           /\ Min(S) = a
<1>1. RunIn(S, p, x) = CellOf(S, p, x)
    BY DEF RunIn, CellOf, IsRow
<1>2. /\ Cardinality(RunIn(S, p, x)) \in Nat \ {0}
      /\ RunIn(S, p, x) = x .. x + Cardinality(RunIn(S, p, x)) - 1
    <2>1. \A y \in S : y \in Int
        BY DEF IsRow
    <2> DEFINE T == S
    <2>2. x \in T /\ \A y \in T : y \in Int
        BY <2>1
    <2> HIDE DEF T
    <2>3. /\ Cardinality(RunIn(T, p, x)) \in Nat \ {0}
          /\ RunIn(T, p, x) = x .. x + Cardinality(RunIn(T, p, x)) - 1
        BY <2>2, RunFacts
    <2> QED
        BY <2>3 DEF T
<1>3. Min(S) = a
    <2>1. IsFiniteSet(S) /\ S # {} /\ \A y \in S : y \in Int
        <3>1. a \in Int
            OBVIOUS
        <3> QED
            BY <3>1, RowsAreFinite, Zenon
    <2>2. Min(S) \in S /\ \A y \in S : Min(S) <= y
        BY <2>1, MinFacts
    <2>3. a \in S /\ \A y \in S : a <= y
        BY DEF IsRow
    <2> DEFINE m == Min(S)
    <2> HIDE DEF m
    <2>4. m \in S /\ m <= a
        BY <2>2, <2>3 DEF m
    <2>5. m = a
        BY <2>1, <2>3, <2>4
    <2> QED
        BY <2>5 DEF m
<1> QED
    BY <1>1, <1>2, <1>3

-----------------------------------------------------------------------------
(* Seeds that are shared *)

\* Two spans are one, or have no seed of each other.
Agree(p, q) == p = q \/ SeedsOf(p) \cap SeedsOf(q) = {}

LEMMA AgreeFacts ==
    ASSUME NEW p \in Spans, NEW q \in Spans
    PROVE  /\ Agree(p, q) <=>
                p = q \/ p.first + p.count <= q.first \/ q.first + q.count <= p.first
           /\ Agree(p, q) <=> Agree(q, p)
<1>1. /\ p.first \in Nat /\ p.count \in Nat /\ p.count > 0
      /\ q.first \in Nat /\ q.count \in Nat /\ q.count > 0
    BY DEF Spans
<1>2. ASSUME SeedsOf(p) \cap SeedsOf(q) = {}
      PROVE  p.first + p.count <= q.first \/ q.first + q.count <= p.first
    <2>1. CASE p.first <= q.first
        <3>1. q.first \in SeedsOf(q)
            BY <1>1 DEF SeedsOf
        <3>2. q.first \notin SeedsOf(p)
            BY <1>2, <3>1
        <3> QED
            BY <1>1, <2>1, <3>2 DEF SeedsOf
    <2>2. CASE q.first <= p.first
        <3>1. p.first \in SeedsOf(p)
            BY <1>1 DEF SeedsOf
        <3>2. p.first \notin SeedsOf(q)
            BY <1>2, <3>1
        <3> QED
            BY <1>1, <2>2, <3>2 DEF SeedsOf
    <2> QED
        BY <1>1, <2>1, <2>2
<1>3. ASSUME p.first + p.count <= q.first \/ q.first + q.count <= p.first
      PROVE  SeedsOf(p) \cap SeedsOf(q) = {}
    BY <1>1, <1>3 DEF SeedsOf
<1> QED
    BY <1>2, <1>3 DEF Agree

\* What of a task is on the disk or held by a process.
SavedSpans(id) == {SpanOf(p) : p \in PiecesOf(id, saved)}
UnitsOf(s, id) == {u \in running[s] \cup Range(queued[s]) : u.id = id}
HeldSpans(id) == SavedSpans(id) \cup UNION {{SpanOf(u) : u \in UnitsOf(s, id)} : s \in Shells}

LEMMA HeldIsTyped ==
    ASSUME PoolsFit, NEW id
    PROVE  /\ SavedSpans(id) \subseteq Spans /\ HeldSpans(id) \subseteq Spans
           /\ SavedSpans(id) \subseteq HeldSpans(id)
           /\ \A s \in Shells : \A u \in running[s] \cup Range(queued[s]) :
                UnitFits(u) /\ SpanOf(u) \in Spans /\ SpanOf(u) \in HeldSpans(u.id)
                /\ SeedsOf(SpanOf(u)) = SeedsOf(u)
           /\ UNION {SeedsOf(p) : p \in SavedSpans(id)} = SavedSeeds(id)
<1>1. \A p \in saved : SpanOf(p) \in Spans /\ SeedsOf(SpanOf(p)) = SeedsOf(p)
    BY DEF PoolsFit, SavedFits, PiecesFit, Pieces, SpanOf, Span, Spans, SeedsOf
<1>2. \A s \in Shells : \A u \in running[s] \cup Range(queued[s]) :
        UnitFits(u) /\ SpanOf(u) \in Spans /\ SeedsOf(SpanOf(u)) = SeedsOf(u)
    <2>1. \A s \in Shells : \A u \in running[s] \cup Range(queued[s]) : UnitFits(u)
        BY DEF PoolsFit, PoolOf
    <2>2. \A u \in Units : SpanOf(u) \in Spans /\ SeedsOf(SpanOf(u)) = SeedsOf(u)
        BY DEF Units, SpanOf, Span, Spans, SeedsOf
    <2> QED
        BY <2>1, <2>2 DEF UnitFits
<1>3. SavedSpans(id) \subseteq Spans
    BY <1>1 DEF SavedSpans, PiecesOf
<1>4. HeldSpans(id) \subseteq Spans
    BY <1>2, <1>3 DEF HeldSpans, UnitsOf
<1>5. \A s \in Shells : \A u \in running[s] \cup Range(queued[s]) : SpanOf(u) \in HeldSpans(u.id)
    BY DEF HeldSpans, UnitsOf
<1>6. UNION {SeedsOf(p) : p \in SavedSpans(id)} = SavedSeeds(id)
    BY <1>1 DEF SavedSpans, SavedSeeds, PiecesOf
<1> QED
    BY <1>2, <1>3, <1>4, <1>5, <1>6 DEF HeldSpans

\* The two ways of sharing a task's seeds.
ShellsApart(id) ==
    \A v, w \in WorkersOf(config, id) : v.shell # w.shell =>
        SeedsFor(v.command, v.entry.rule) \cap SeedsFor(w.command, w.entry.rule) = {}
OneCut(id) ==
    \A v, w \in WorkersOf(config, id) :
        /\ v.command.verb = "job"
        /\ \A p \in CutsOf(v.command, v.entry.rule), q \in CutsOf(w.command, w.entry.rule) :
            Agree(p, q)
IsCut(id, p) == \E w \in WorkersOf(config, id) : p \in CutsOf(w.command, w.entry.rule)

\* A task's spans agree, and none begins before a run file's first seed of it.
InPlace(id) ==
    /\ \A p, q \in HeldSpans(id) : Agree(p, q)
    /\ \A p \in HeldSpans(id), e \in Holders(id) : e.rule.firstSeed <= p.first
    /\ OneCut(id) => \A p \in HeldSpans(id) : IsCut(id, p)

\* The command of s may run shots of entry e.
WorksOn(s, e) ==
    /\ command[s] \in config.shells[s] /\ command[s].verb \in {"collect", "job"}
    /\ e \in Range(Chosen(s))

LEMMA WorkerFacts ==
    ASSUME config \in Settings, NEW s, s \in Shells, NEW e, WorksOn(s, e)
    PROVE  /\ [shell |-> s, command |-> command[s], entry |-> e] \in WorkersOf(config, e.id)
           /\ e \in EntriesOfFiles
<1>1. /\ Range(Chosen(s)) \subseteq Range(Entries(s)) /\ Range(Entries(s)) \subseteq EntriesOfFiles
    BY ChosenFacts DEF WorksOn
<1>2. e \in Range(config.files[command[s].file]) /\ e \in EntriesOfFiles
    BY <1>1 DEF WorksOn, Entries
<1>3. command[s].only \in {"all", e.name}
    <2>1. command[s].only # "all" =>
            \E d \in Range(Entries(s)) : d.name = command[s].only
        <3>1. command[s].verb # "fold" /\ command[s] \in config.shells[s]
            BY DEF WorksOn
        <3> QED
            BY <3>1, SettingsAssumption DEF Shells, Entries
    <2>2. command[s].only # "all" => e.name = command[s].only
        <3> SUFFICES ASSUME command[s].only # "all"
                     PROVE  e.name = command[s].only
            OBVIOUS
        <3> DEFINE d == CHOOSE d \in Range(Entries(s)) : d.name = command[s].only
        <3>1. d.name = command[s].only
            BY <2>1
        <3>2. Chosen(s) = <<d>>
            BY DEF Chosen
        <3> HIDE DEF d
        <3>3. e = d
            BY <3>2 DEF WorksOn, Range
        <3> QED
            BY <3>1, <3>3
    <2> QED
        BY <2>2
<1>4. command[s] \in UNION {config.shells[t] : t \in DOMAIN config.shells}
    BY DEF WorksOn, Shells
<1> QED
    BY <1>2, <1>3, <1>4 DEF WorksOn, WorkersOf, Shells, EntriesOfFiles

\* Where the saved pieces of a task agree with a job's cuts, what the job still
\* has to run is cut there too.
LEMMA UnsavedAreCuts ==
    ASSUME config \in Settings, PoolsFit, NEW e \in EntriesOfFiles, NEW k, JobFits(k),
           \A p \in CutsOf(k, e.rule), q \in SavedSpans(e.id) : Agree(p, q)
    PROVE  \A u \in Range(UnsavedUnits(e, k)) : SpanOf(u) \in CutsOf(k, e.rule)
<1> DEFINE S == SelectedSeeds(k, e.rule)
           H == SavedSeeds(e.id)
           p == e.rule.pieceShots
<1>1. PiecesFit /\ e.rule \in RuleType /\ p \in Nat \ {0}
    BY EntryFacts DEF PoolsFit, SavedFits, RuleType
<1>2. PICK a \in Nat, b \in Int : S = a .. b - 1
    BY <1>1, SelectedFacts
<1>3. CutsOf(k, e.rule) =
        {Span(x, Cardinality(CellOf(S, p, x))) : x \in {x \in S : (x - Min(S)) % p = 0}}
    BY DEF CutsOf, CellOf
<1>4. \A u \in Range(UnsavedUnits(e, k)) : \E x \in FirstsIn(S \ H, p) :
        SpanOf(u) = Span(x, Cardinality(RunIn(S \ H, p, x)))
    BY <1>1, UnsavedFacts DEF SpanOf
<1> HIDE DEF S
<1>5. IsRow(S, a, b)
    BY <1>2 DEF IsRow
<1>6. UNION {SeedsOf(q) : q \in SavedSpans(e.id)} = H /\ SavedSpans(e.id) \subseteq Spans
    BY HeldIsTyped
<1> HIDE DEF H, p
<1>7. ASSUME NEW x \in S, (x - a) % p = 0
      PROVE  CellOf(S, p, x) \subseteq H \/ CellOf(S, p, x) \cap H = {}
    <2> DEFINE C == CellOf(S, p, x)
               n == Cardinality(C)
    <2>1. n \in Nat \ {0} /\ C = x .. x + n - 1 /\ Min(S) = a
        BY <1>1, <1>5, RowOfCells
    <2>2. Span(x, n) \in CutsOf(k, e.rule)
        BY <1>3, <1>7, <2>1
    <2>3. SeedsOf(Span(x, n)) = C
        <3> HIDE DEF n, C
        <3> QED
            BY <2>1 DEF SeedsOf, Span
    <2> HIDE DEF n, C
    <2>4. CASE Span(x, n) \in SavedSpans(e.id)
        BY <1>6, <2>3, <2>4 DEF C
    <2>5. CASE Span(x, n) \notin SavedSpans(e.id)
        <3>1. \A q \in SavedSpans(e.id) : C \cap SeedsOf(q) = {}
            BY <2>2, <2>3, <2>5 DEF Agree
        <3> QED
            BY <1>6, <3>1 DEF C
    <2> QED
        BY <2>4, <2>5
<1>8. ASSUME NEW x \in FirstsIn(S \ H, p)
      PROVE  Span(x, Cardinality(RunIn(S \ H, p, x))) \in CutsOf(k, e.rule)
    <2>1. x \in S /\ (x - a) % p = 0 /\ RunIn(S \ H, p, x) = CellOf(S, p, x)
        <3>1. HaveWholeCells(H, S, a, p)
            BY <1>7 DEF HaveWholeCells
        <3>2. x \in FirstsIn(S \ H, p) /\ a \in Nat /\ b \in Int /\ p \in Nat \ {0}
            BY <1>1
        <3> QED
            BY <1>5, <3>1, <3>2, CellFacts
    <2>2. Min(S) = a
        BY <1>1, <1>5, <2>1, RowOfCells
    <2> QED
        BY <1>3, <2>1, <2>2
<1> QED
    BY <1>4, <1>8

\* What waits of a task ends before the next piece begins.
LEMMA WaitsBelow ==
    ASSUME NEW c, Counting(c), NEW q \in Waits(c)
    PROVE  q \in Spans /\ q.first + q.count <= c.next
<1>1. c.pending \in Seq(Spans) /\ IsChain(c.pending)
    BY DEF Counting, Collections
<1> DEFINE s == c.pending
           n == Len(s)
<1>2. PICK i \in 1 .. n : s[i] = q
    BY <1>1 DEF Waits, Range
<1>3. s # <<>> /\ c.next = s[n].first + s[n].count
    BY <1>1, <1>2 DEF Counting
<1>4. n \in Nat /\ n >= 1 /\ s[n] \in Spans /\ q \in Spans
    BY <1>1, <1>2
<1>5. i < n => s[i].first + s[i].count <= s[n].first
    BY <1>1, <1>2, <1>4, ChainsIncrease
<1> HIDE DEF s, n
<1> QED
    BY <1>2, <1>3, <1>4, <1>5 DEF Spans

\* What a process holds is on the disk, or among the seeds of its command.
UnitsIn(s) == running[s] \cup Range(queued[s])
Reaches(s) ==
    \A u \in UnitsIn(s) :
        \/ SpanOf(u) \in SavedSpans(u.id)
        \/ \E e \in Range(Chosen(s)) :
            WorksOn(s, e) /\ e.id = u.id /\ SeedsOf(u) \subseteq SeedsFor(command[s], e.rule)

\* The pieces of its task that a collect has not read are behind it, or none of
\* its seeds are in them.
KnowsOf(k, c) ==
    /\ \A q \in c.saved : q.first + q.count <= c.next \/ c.next <= q.first
    /\ \A q \in SavedSpans(c.entry.id) :
        \/ q \in c.saved \/ q.first + q.count <= c.next
        \/ SeedsOf(q) \cap SeedsFor(k, c.entry.rule) = {}
Knows(s) ==
    command[s].verb = "collect" =>
        \A n \in DOMAIN collection[s] : \A c \in {collection[s][n]} : KnowsOf(command[s], c)

SpansOnce == \A p, q \in saved : p.id = q.id /\ SpanOf(p) = SpanOf(q) => p = q

SharedWell ==
    /\ SpansOnce
    /\ \A id \in DOMAIN config.tasks : InPlace(id)
    /\ \A s \in Shells : Reaches(s) /\ Knows(s)

LEMMA TasksAreShared ==
    ASSUME SeedsAreShared(config), NEW id \in DOMAIN config.tasks
    PROVE  ShellsApart(id) \/ OneCut(id)
    BY DEF SeedsAreShared, ShellsApart, OneCut, Agree

LEMMA SharingStays ==
    ASSUME config' = config
    PROVE  /\ \A id : OneCut(id)' <=> OneCut(id)
           /\ \A id, p : IsCut(id, p)' <=> IsCut(id, p)
           /\ \A id : Holders(id)' = Holders(id)
    BY DEF OneCut, IsCut, Holders, EntriesOfFiles

\* A task takes new spans, which agree with those it had.
LEMMA InPlaceGrows ==
    ASSUME config' = config, NEW id, InPlace(id), PoolsFit, PoolsFit',
           NEW N, N \subseteq Spans, HeldSpans(id)' \subseteq HeldSpans(id) \cup N,
           \A p \in N, e \in Holders(id) : e.rule.firstSeed <= p.first,
           OneCut(id) => \A p \in N : IsCut(id, p),
           ~OneCut(id) => \A p \in N, q \in HeldSpans(id) \cup N : Agree(p, q)
    PROVE  InPlace(id)'
<1>1. /\ \A p, q \in HeldSpans(id) : Agree(p, q)
      /\ \A p \in HeldSpans(id), e \in Holders(id) : e.rule.firstSeed <= p.first
      /\ OneCut(id) => \A p \in HeldSpans(id) : IsCut(id, p)
    BY DEF InPlace
<1> DEFINE A == HeldSpans(id)
           B == HeldSpans(id)'
<1>2. A \subseteq Spans
    BY HeldIsTyped
<1>3. B \subseteq A \cup N
    OBVIOUS
<1> HIDE DEF A, B
<1>4. \A p \in B, e \in Holders(id) : e.rule.firstSeed <= p.first
    BY <1>1, <1>3 DEF A
<1>5. OneCut(id) => \A p \in B : IsCut(id, p)
    BY <1>1, <1>3 DEF A
<1>6. \A p, q \in B : Agree(p, q)
    <2>1. CASE OneCut(id)
        <3>1. ASSUME NEW p \in B, NEW q \in B
              PROVE  Agree(p, q)
            <4>1. PICK v \in WorkersOf(config, id) : p \in CutsOf(v.command, v.entry.rule)
                BY <1>5, <2>1 DEF IsCut
            <4>2. PICK w \in WorkersOf(config, id) : q \in CutsOf(w.command, w.entry.rule)
                BY <1>5, <2>1 DEF IsCut
            <4> QED
                BY <2>1, <4>1, <4>2 DEF OneCut
        <3> QED
            BY <3>1
    <2>2. CASE ~OneCut(id)
        <3>1. \A p \in N, q \in A \cup N : Agree(p, q)
            BY <2>2 DEF A
        <3>2. \A p, q \in A : Agree(p, q)
            BY <1>1 DEF A
        <3>3. \A p \in A, q \in N : Agree(p, q)
            BY <1>2, <3>1, AgreeFacts
        <3> QED
            BY <1>3, <3>1, <3>2, <3>3
    <2> QED
        BY <2>1, <2>2
<1>7. \A p, q \in B : Agree(p, q)'
    BY <1>6 DEF Agree, SeedsOf
<1>8. \A p \in B, e \in Holders(id)' : e.rule.firstSeed <= p.first
    BY <1>4, SharingStays
<1>9. OneCut(id)' => \A p \in B : IsCut(id, p)'
    BY <1>5, SharingStays
<1> QED
    BY <1>7, <1>8, <1>9 DEF InPlace, B

LEMMA ReachStays ==
    ASSUME config' = config, NEW s, command'[s] = command[s], saved \subseteq saved',
           UnitsIn(s)' \subseteq UnitsIn(s), Reaches(s)
    PROVE  Reaches(s)'
<1>1. \A id : SavedSpans(id) \subseteq SavedSpans(id)'
    BY DEF SavedSpans, PiecesOf, SpanOf
<1>2. Chosen(s)' = Chosen(s)
    BY DEF Chosen, Entries
<1>3. \A e : WorksOn(s, e) => WorksOn(s, e)'
    BY <1>2 DEF WorksOn
<1>4. \A e : SeedsFor(command[s], e.rule) = SeedsFor(command[s], e.rule)'
    BY DEF SeedsFor
<1>5. ASSUME NEW u \in UnitsIn(s)'
      PROVE  \/ SpanOf(u) \in SavedSpans(u.id)'
             \/ \E e \in Range(Chosen(s))' : /\ WorksOn(s, e)' /\ e.id = u.id
                    /\ SeedsOf(u) \subseteq SeedsFor(command[s], e.rule)'
    <2>1. u \in UnitsIn(s)
        OBVIOUS
    <2>2. CASE SpanOf(u) \in SavedSpans(u.id)
        BY <1>1, <2>2
    <2>3. CASE \E e \in Range(Chosen(s)) :
                WorksOn(s, e) /\ e.id = u.id /\ SeedsOf(u) \subseteq SeedsFor(command[s], e.rule)
        BY <1>2, <1>3, <1>4, <2>3 DEF Range
    <2> QED
        BY <2>1, <2>2, <2>3 DEF Reaches
<1> QED
    BY <1>5 DEF Reaches, SpanOf, SeedsOf

\* What one span more on the disk leaves of what a collect knows.
LEMMA KnowStays ==
    ASSUME config' = config, NEW s, command'[s] = command[s], collection'[s] = collection[s],
           Knows(s), NEW at0, NEW q0,
           \A id : \A q \in SavedSpans(id)' : q \in SavedSpans(id) \/ (id = at0 /\ q = q0),
           command[s].verb = "collect" =>
                \A n \in DOMAIN collection[s] : \A c \in {collection[s][n]} : c.entry.id = at0 =>
                    \/ q0 \in SavedSpans(at0) \/ q0.first + q0.count <= c.next
                    \/ SeedsOf(q0) \cap SeedsFor(command[s], c.entry.rule) = {}
    PROVE  Knows(s)'
<1> SUFFICES ASSUME command[s].verb = "collect", NEW n \in DOMAIN collection[s],
                    NEW c \in {collection[s][n]}
             PROVE  KnowsOf(command[s], c)'
    BY DEF Knows
<1>1. KnowsOf(command[s], c)
    BY DEF Knows
<1>2. \A q \in SavedSpans(c.entry.id)' :
        \/ q \in c.saved \/ q.first + q.count <= c.next
        \/ SeedsOf(q) \cap SeedsFor(command[s], c.entry.rule) = {}
    BY <1>1 DEF KnowsOf
<1>3. \A k : KnowsOf(k, c)' <=>
        /\ \A q \in c.saved : q.first + q.count <= c.next \/ c.next <= q.first
        /\ \A q \in SavedSpans(c.entry.id)' :
            \/ q \in c.saved \/ q.first + q.count <= c.next
            \/ SeedsOf(q) \cap SeedsFor(k, c.entry.rule) = {}
    BY DEF KnowsOf, SeedsOf, SeedsFor
<1> QED
    BY <1>1, <1>2, <1>3 DEF KnowsOf

\* A collect's new piece agrees with all of its task that is there or held.
LEMMA NewPieceAgrees ==
    ASSUME Shape, PoolsFit, SharedWell, FirstSeedsAgree(config), SeedsAreShared(config),
           NEW s \in Shells, at[s] = "collecting", NEW n \in DOMAIN collection[s], NEW c,
           c = collection[s][n], TaskFits(s, n, c), TakesAPiece(c), NEW p,
           p = PieceToHandOut(c), p \notin c.saved
    PROVE  /\ ~OneCut(c.entry.id) /\ WorksOn(s, c.entry)
           /\ SeedsOf(p) \subseteq SeedsFor(command[s], c.entry.rule)
           /\ \A q \in HeldSpans(c.entry.id) \cup {p} : Agree(p, q)
           /\ \A e \in Holders(c.entry.id) : e.rule.firstSeed <= p.first
<1> DEFINE id == c.entry.id
<1>1. /\ config \in Settings /\ command[s] \in config.shells[s] /\ command[s].verb = "collect"
    BY DEF Shape, ShapeOf, VerbFits, Resting
<1>2. /\ Counting(c) /\ IsFiniteSet(c.saved) /\ c.entry \in Range(Chosen(s)) /\ c.entry.name = n
      /\ c \in Collections
    BY DEF TaskFits, Counting
<1>3. WorksOn(s, c.entry)
    BY <1>1, <1>2 DEF WorksOn
<1>4. /\ [shell |-> s, command |-> command[s], entry |-> c.entry] \in WorkersOf(config, id)
      /\ c.entry \in EntriesOfFiles
    BY <1>1, <1>3, WorkerFacts
<1>5. c.entry.rule \in RuleType /\ id \in DOMAIN config.tasks
    BY <1>1, <1>4, EntryFacts
<1>6. ~OneCut(id)
    BY <1>1, <1>4 DEF OneCut
<1>7. ShellsApart(id)
    BY <1>5, <1>6, TasksAreShared
<1>8. /\ p \in Spans /\ p.first = c.next
      /\ \A q \in c.saved : q.first # c.next /\ (q.first > c.next => p.first + p.count <= q.first)
      /\ p.first + p.count <= c.entry.rule.firstSeed + c.entry.rule.maxShots
    BY <1>1, <1>2, NextSpanFacts
<1>9. c.entry.rule.firstSeed <= p.first
    <2>1. c.tracker.shots \in Nat /\ c.entry.rule.firstSeed + c.tracker.shots <= c.next
        BY <1>2 DEF Counting, Collections, Trackers
    <2> QED
        BY <1>5, <1>8, <2>1 DEF RuleType, Spans
<1>10. SeedsOf(p) \subseteq SeedsFor(command[s], c.entry.rule)
    <2>1. SeedsFor(command[s], c.entry.rule) = c.entry.rule.firstSeed ..
            c.entry.rule.firstSeed + c.entry.rule.maxShots - 1
        BY <1>1 DEF SeedsFor
    <2> DEFINE f == c.entry.rule.firstSeed
               m == c.entry.rule.maxShots
               a == p.first
               b == p.count
    <2>2. f \in Nat /\ m \in Nat /\ a \in Nat /\ b \in Nat /\ f <= a /\ a + b <= f + m
        BY <1>5, <1>8, <1>9 DEF RuleType, Spans
    <2>3. SeedsOf(p) = a .. a + b - 1 /\ SeedsFor(command[s], c.entry.rule) = f .. f + m - 1
        BY <2>1 DEF SeedsOf
    <2> HIDE DEF f, m, a, b
    <2>4. a .. a + b - 1 \subseteq f .. f + m - 1
        BY <2>2
    <2> QED
        BY <2>3, <2>4
<1>11. \A e \in Holders(id) : e.rule.firstSeed <= p.first
    <2>1. \A e \in Holders(id) : e.rule.firstSeed = c.entry.rule.firstSeed
        BY <1>4 DEF Holders, FirstSeedsAgree, EntriesOfFiles
    <2> QED
        BY <1>9, <2>1
<1>12. ASSUME NEW q \in SavedSpans(id)
       PROVE  Agree(p, q)
    <2>1. KnowsOf(command[s], c)
        BY <1>1 DEF SharedWell, Knows
    <2>2. q \in Spans
        BY HeldIsTyped
    <2>3. CASE q.first + q.count <= c.next
        BY <1>8, <2>2, <2>3, AgreeFacts
    <2>4. CASE q \in c.saved /\ c.next <= q.first
        BY <1>8, <2>2, <2>4, AgreeFacts DEF Spans
    <2>5. CASE SeedsOf(q) \cap SeedsFor(command[s], c.entry.rule) = {}
        BY <1>10, <2>5 DEF Agree
    <2> QED
        BY <2>1, <2>3, <2>4, <2>5 DEF KnowsOf
<1>13. ASSUME NEW t \in Shells, NEW u \in UnitsOf(t, id)
       PROVE  Agree(p, SpanOf(u))
    <2>1. /\ u \in running[t] \cup Range(queued[t]) /\ u.id = id
          /\ SpanOf(u) \in Spans /\ SeedsOf(SpanOf(u)) = SeedsOf(u)
        BY HeldIsTyped DEF UnitsOf
    <2>2. CASE t = s
        <3>1. queued[s] = <<>> /\ PoolOf(s)
            BY DEF PoolsFit, PoolOf
        <3>2. u \in running[s]
            BY <2>1, <2>2, <3>1 DEF Range
        <3> DEFINE d == collection[s][u.name]
        <3>3. u.name \in DOMAIN collection[s] /\ TaskFits(s, u.name, d)
            BY <3>1, <3>2 DEF PoolOf
        <3> HIDE DEF d
        <3>4. d.entry \in Range(Chosen(s)) /\ d.entry.id = id /\ d.entry.name = u.name
            BY <2>1, <3>2, <3>3 DEF TaskFits
        <3>5. d.entry = c.entry
            <4>1. /\ Range(Chosen(s)) \subseteq Range(Entries(s))
                  /\ \A e, f \in Range(Entries(s)) : e.id = f.id \/ e.name = f.name => e = f
                BY <1>1, ChosenFacts
            <4> QED
                BY <1>2, <3>4, <4>1
        <3>6. SpanOf(u) \in Waits(c)
            BY <1>2, <3>2, <3>4, <3>5 DEF TaskFits
        <3>7. SpanOf(u).first + SpanOf(u).count <= c.next
            BY <1>2, <3>6, WaitsBelow
        <3> DEFINE q == SpanOf(u)
        <3>8. q \in Spans /\ q.first + q.count <= p.first
            BY <1>8, <2>1, <3>7
        <3> HIDE DEF q
        <3>9. Agree(p, q)
            BY <1>8, <3>8, AgreeFacts
        <3> QED
            BY <3>9 DEF q
    <2>3. CASE t # s /\ SpanOf(u) \in SavedSpans(id)
        BY <1>12, <2>3
    <2>4. CASE t # s /\ SpanOf(u) \notin SavedSpans(id)
        <3>1. PICK e \in Range(Chosen(t)) :
                WorksOn(t, e) /\ e.id = u.id /\ SeedsOf(u) \subseteq SeedsFor(command[t], e.rule)
            BY <2>1, <2>4 DEF SharedWell, Reaches, UnitsIn
        <3> DEFINE w == [shell |-> t, command |-> command[t], entry |-> e]
                   v == [shell |-> s, command |-> command[s], entry |-> c.entry]
        <3>2. w \in WorkersOf(config, id)
            BY <1>1, <2>1, <3>1, WorkerFacts
        <3>3. v \in WorkersOf(config, id) /\ v.shell # w.shell
            BY <1>4, <2>4
        <3>4. SeedsFor(v.command, v.entry.rule) \cap SeedsFor(w.command, w.entry.rule) = {}
            <4> HIDE DEF v, w
            <4> QED
                BY <1>7, <3>2, <3>3 DEF ShellsApart
        <3>5. SeedsFor(command[s], c.entry.rule) \cap SeedsFor(command[t], e.rule) = {}
            BY <3>4
        <3> QED
            BY <1>10, <2>1, <3>1, <3>5 DEF Agree
    <2> QED
        BY <2>2, <2>3, <2>4
<1>14. \A q \in HeldSpans(id) \cup {p} : Agree(p, q)
    BY <1>12, <1>13 DEF HeldSpans, Agree
<1> QED
    BY <1>3, <1>6, <1>10, <1>11, <1>14

\* The pieces stay: what is held afterwards was held, or is new in shell s.
LEMMA SavedStays ==
    ASSUME config' = config, PoolsFit, PoolsFit', SharedWell, saved' = saved, NEW s \in Shells,
           \A t \in Shells \ {s} : Keeps(t), Reaches(s)', Knows(s)',
           \A id \in DOMAIN config.tasks : \E N :
                /\ N \subseteq Spans
                /\ \A u \in UnitsIn(s)' : u.id = id => u \in UnitsIn(s) \/ SpanOf(u) \in N
                /\ \A p \in N, e \in Holders(id) : e.rule.firstSeed <= p.first
                /\ OneCut(id) => \A p \in N : IsCut(id, p)
                /\ ~OneCut(id) => \A p \in N, q \in HeldSpans(id) \cup N : Agree(p, q)
    PROVE  SharedWell'
<1>1. Shells' = Shells
    BY DEF Shells
<1>2. \A id : SavedSpans(id)' = SavedSpans(id)
    BY DEF SavedSpans, PiecesOf, SpanOf
<1>3. ASSUME NEW t \in Shells \ {s}
      PROVE  Reaches(t)' /\ Knows(t)' /\ UnitsIn(t)' = UnitsIn(t)
    <2>1. /\ command'[t] = command[t] /\ collection'[t] = collection[t]
          /\ running'[t] = running[t] /\ queued'[t] = queued[t]
        BY DEF Keeps
    <2>2. UnitsIn(t)' = UnitsIn(t)
        BY <2>1 DEF UnitsIn, Range
    <2>3. Reaches(t)'
        BY <2>1, <2>2, ReachStays DEF SharedWell
    <2>4. Knows(t)'
        <3>1. Knows(t)
            BY DEF SharedWell
        <3>2. \A k, c : KnowsOf(k, c)' <=> KnowsOf(k, c)
            BY <1>2 DEF KnowsOf, SeedsOf, SeedsFor
        <3> QED
            BY <2>1, <3>1, <3>2 DEF Knows
    <2> QED
        BY <2>2, <2>3, <2>4
<1>4. \A t \in Shells' : Reaches(t)' /\ Knows(t)'
    BY <1>1, <1>3
<1>5. SpansOnce'
    BY DEF SharedWell, SpansOnce, SpanOf
<1>6. ASSUME NEW id \in DOMAIN config.tasks
      PROVE  InPlace(id)'
    <2>1. PICK N :
            /\ N \subseteq Spans
            /\ \A u \in UnitsIn(s)' : u.id = id => u \in UnitsIn(s) \/ SpanOf(u) \in N
            /\ \A p \in N, e \in Holders(id) : e.rule.firstSeed <= p.first
            /\ OneCut(id) => \A p \in N : IsCut(id, p)
            /\ ~OneCut(id) => \A p \in N, q \in HeldSpans(id) \cup N : Agree(p, q)
        OBVIOUS
    <2>2. \A t \in Shells : UnitsOf(t, id) = {u \in UnitsIn(t) : u.id = id}
        BY DEF UnitsOf, UnitsIn
    <2>3. \A t \in Shells : UnitsOf(t, id)' = {u \in UnitsIn(t)' : u.id = id}
        BY DEF UnitsOf, UnitsIn
    <2>4. \A t \in Shells : \A u \in UnitsOf(t, id)' : u \in UnitsOf(t, id) \/ SpanOf(u) \in N
        BY <1>3, <2>1, <2>2, <2>3
    <2>5. HeldSpans(id)' = SavedSpans(id) \cup UNION {{SpanOf(u) : u \in UnitsOf(t, id)'} : t \in Shells}
        BY <1>1, <1>2 DEF HeldSpans, SpanOf
    <2>6. HeldSpans(id)' \subseteq HeldSpans(id) \cup N
        BY <2>4, <2>5 DEF HeldSpans
    <2>7. InPlace(id)
        BY DEF SharedWell
    <2> QED
        BY <2>1, <2>6, <2>7, InPlaceGrows
<1> QED
    BY <1>4, <1>5, <1>6 DEF SharedWell

LEMMA HandOutShared ==
    ASSUME Shape, PoolsFit, PoolsFit', SharedWell, FirstSeedsAgree(config),
           SeedsAreShared(config), NEW s \in Shells, HandOut(s), config' = config,
           \A t \in Shells \ {s} : Keeps(t)
    PROVE  SharedWell'
<1>1. PICK n, c, p, r, more : HandsOut(s, n, c, p, r, more)
    BY HandOutPool
<1>2. /\ n \in DOMAIN collection[s] /\ c = collection[s][n] /\ p = PieceToHandOut(c)
      /\ TaskFits(s, n, c) /\ TakesAPiece(c) /\ p \in Spans /\ p.first = c.next
      /\ at[s] = "collecting" /\ saved' = saved /\ command' = command
      /\ UnitsIn(s)' = UnitsIn(s) \cup more
      /\ \A v \in more : v.id = c.entry.id /\ SpanOf(v) = p /\ SeedsOf(v) = SeedsOf(p)
      /\ more = {} <=> p \in c.saved
    <2>1. \A v \in more : v.id = c.entry.id /\ SpanOf(v) = p /\ UnitFits(v)
        BY <1>1 DEF HandsOut
    <2>2. \A v \in more : SeedsOf(v) = SeedsOf(p)
        BY <2>1 DEF SpanOf, Span, SeedsOf
    <2> QED
        BY <1>1, <2>1, <2>2 DEF HandsOut, UnitsIn
<1>3. /\ collection'[s][n] = r /\ DOMAIN collection'[s] = DOMAIN collection[s]
      /\ \A m \in DOMAIN collection[s] : m # n => collection'[s][m] = collection[s][m]
      /\ r.entry = c.entry /\ r.saved = c.saved /\ r.next = p.first + p.count
    BY <1>1 DEF HandsOut
<1>4. /\ config \in Settings /\ command[s] \in config.shells[s] /\ command[s].verb = "collect"
    BY <1>2 DEF Shape, ShapeOf, VerbFits, Resting
<1>5. /\ c.saved \subseteq SavedSpans(c.entry.id) /\ c.saved \subseteq Spans
      /\ c.entry.id \in DOMAIN config.tasks /\ c.next \in Nat /\ IsFiniteSet(c.saved)
      /\ c \in Collections
    <2>1. \A q \in c.saved : q \in SavedSpans(c.entry.id)
        BY <1>2 DEF TaskFits, SavedSpans
    <2>2. c \in Collections /\ IsFiniteSet(c.saved)
        BY <1>2 DEF TaskFits, Counting
    <2>3. c.entry \in EntriesOfFiles /\ c.saved \subseteq Spans /\ c.next \in Nat
        BY <2>2 DEF Collections
    <2> QED
        BY <1>4, <2>1, <2>2, <2>3, EntryFacts
<1>6. p \notin c.saved =>
        /\ ~OneCut(c.entry.id) /\ WorksOn(s, c.entry)
        /\ SeedsOf(p) \subseteq SeedsFor(command[s], c.entry.rule)
        /\ \A q \in HeldSpans(c.entry.id) \cup {p} : Agree(p, q)
        /\ \A e \in Holders(c.entry.id) : e.rule.firstSeed <= p.first
    BY <1>2, NewPieceAgrees
<1>7. Reaches(s)'
    <2>1. Chosen(s)' = Chosen(s) /\ \A e : WorksOn(s, e)' <=> WorksOn(s, e)
        BY <1>2 DEF Chosen, Entries, WorksOn
    <2>2. \A id : SavedSpans(id)' = SavedSpans(id)
        BY <1>2 DEF SavedSpans, PiecesOf, SpanOf
    <2>3. \A e : SeedsFor(command[s], e.rule)' = SeedsFor(command[s], e.rule)
        BY <1>2 DEF SeedsFor
    <2>4. ASSUME NEW u \in UnitsIn(s)'
          PROVE  \/ SpanOf(u) \in SavedSpans(u.id)
                 \/ \E e \in Range(Chosen(s)) : /\ WorksOn(s, e) /\ e.id = u.id
                        /\ SeedsOf(u) \subseteq SeedsFor(command[s], e.rule)
        <3>1. CASE u \in UnitsIn(s)
            BY <3>1 DEF SharedWell, Reaches
        <3>2. CASE u \in more
            <4>1. p \notin c.saved /\ c.entry \in Range(Chosen(s))
                BY <1>2, <3>2 DEF TaskFits
            <4> QED
                BY <1>2, <1>6, <3>2, <4>1
        <3> QED
            BY <1>2, <3>1, <3>2
    <2> QED
        BY <2>1, <2>2, <2>3, <2>4 DEF Reaches, SpanOf, SeedsOf, Range
<1>8. Knows(s)'
    <2>1. \A id : SavedSpans(id)' = SavedSpans(id)
        BY <1>2 DEF SavedSpans, PiecesOf, SpanOf
    <2>2. \A k, d : KnowsOf(k, d)' <=> KnowsOf(k, d)
        BY <2>1 DEF KnowsOf, SeedsOf, SeedsFor
    <2>3. \A m \in DOMAIN collection[s] : \A d \in {collection[s][m]} : KnowsOf(command[s], d)
        BY <1>4 DEF SharedWell, Knows
    <2>4. KnowsOf(command[s], c)
        BY <1>2, <2>3
    <2>5. p.first \in Nat /\ p.count \in Nat /\ c.next <= r.next
        BY <1>2, <1>3, <1>5 DEF Spans
    <2>6. \A q \in SavedSpans(c.entry.id) : q \in Spans
        BY HeldIsTyped
    <2>7. \A q \in c.saved : q.first + q.count <= r.next \/ r.next <= q.first
        <3> SUFFICES ASSUME NEW q \in c.saved
                     PROVE  q.first + q.count <= r.next \/ r.next <= q.first
            OBVIOUS
        <3>1. q.first + q.count <= c.next \/ c.next <= q.first
            BY <2>4 DEF KnowsOf
        <3>2. q \in Spans /\ q \in SavedSpans(c.entry.id)
            BY <1>5
        <3>3. CASE p \in c.saved
            <4>1. Agree(p, q)
                <5>1. p \in HeldSpans(c.entry.id) /\ q \in HeldSpans(c.entry.id)
                    BY <1>5, <3>3 DEF HeldSpans
                <5> QED
                    BY <1>5, <5>1 DEF SharedWell, InPlace
            <4>2. p = q \/ p.first + p.count <= q.first \/ q.first + q.count <= p.first
                BY <1>2, <3>2, <4>1, AgreeFacts
            <4> QED
                BY <1>2, <1>3, <1>5, <2>5, <3>1, <3>2, <4>2 DEF Spans
        <3>4. CASE p \notin c.saved
            <4>1. q.first # c.next /\ (q.first > c.next => p.first + p.count <= q.first)
                BY <1>2, <1>4, <1>5, <3>4, NextSpanFacts
            <4> QED
                BY <1>2, <1>3, <1>5, <2>5, <3>1, <3>2, <4>1 DEF Spans
        <3> QED
            BY <3>3, <3>4
    <2>8. \A q \in SavedSpans(c.entry.id) :
            q.first + q.count <= c.next => q.first + q.count <= r.next
        BY <1>3, <1>2, <1>5, <2>5, <2>6 DEF Spans
    <2>9. KnowsOf(command[s], r)
        BY <1>3, <2>4, <2>7, <2>8 DEF KnowsOf
    <2>10. \A m \in DOMAIN collection'[s] : \A d \in {collection'[s][m]} : KnowsOf(command[s], d)
        BY <1>3, <2>3, <2>9
    <2> QED
        BY <1>2, <2>2, <2>10 DEF Knows
<1>9. ASSUME NEW id \in DOMAIN config.tasks
      PROVE  \E N :
                /\ N \subseteq Spans
                /\ \A u \in UnitsIn(s)' : u.id = id => u \in UnitsIn(s) \/ SpanOf(u) \in N
                /\ \A q \in N, e \in Holders(id) : e.rule.firstSeed <= q.first
                /\ OneCut(id) => \A q \in N : IsCut(id, q)
                /\ ~OneCut(id) => \A q \in N, w \in HeldSpans(id) \cup N : Agree(q, w)
    <2>1. CASE p \notin c.saved /\ id = c.entry.id
        <3> DEFINE N == {p}
        <3>1. /\ N \subseteq Spans
              /\ \A u \in UnitsIn(s)' : u \in UnitsIn(s) \/ SpanOf(u) \in N
              /\ \A q \in N, e \in Holders(id) : e.rule.firstSeed <= q.first
              /\ ~OneCut(id) /\ \A q \in N, w \in HeldSpans(id) \cup N : Agree(q, w)
            BY <1>2, <1>6, <2>1
        <3> HIDE DEF N
        <3> QED
            BY <3>1
    <2>2. CASE ~(p \notin c.saved /\ id = c.entry.id)
        <3> DEFINE N == {}
        <3>1. /\ N \subseteq Spans /\ N = {}
              /\ \A u \in UnitsIn(s)' : u.id = id => u \in UnitsIn(s) \/ SpanOf(u) \in N
            BY <1>2, <2>2
        <3> HIDE DEF N
        <3> QED
            BY <3>1
    <2> QED
        BY <2>1, <2>2
<1>10. saved' = saved
    BY <1>2
<1> QED
    BY <1>7, <1>8, <1>9, <1>10, SavedStays

\* A unit that a job starts with is some of its seeds, and of no saved piece.
LEMMA NewUnitFacts ==
    ASSUME Shape, PoolsFit, NEW s \in Shells, command[s] \in config.shells[s],
           command[s].verb = "job", NEW u \in Range(JobUnits(s))
    PROVE  /\ u \in Units
           /\ \E e \in Range(Chosen(s)) :
                /\ u.id = e.id /\ WorksOn(s, e) /\ u \in Range(UnsavedUnits(e, command[s]))
                /\ SeedsOf(u) \subseteq SeedsFor(command[s], e.rule)
                /\ SeedsOf(u) \cap SavedSeeds(u.id) = {}
                /\ e.rule.firstSeed <= u.first /\ e \in EntriesOfFiles
<1>1. config \in Settings /\ PiecesFit
    BY DEF Shape, PoolsFit, SavedFits
<1>2. JobFits(command[s])
    BY <1>1, SettingsAssumption DEF JobFits, Shells
<1>3. /\ JobUnits(s) \in Seq(Units)
      /\ \E e \in Range(Chosen(s)) : u.id = e.id /\ u \in Range(UnsavedUnits(e, command[s]))
    BY <1>1, JobUnitsFacts DEF JobUnits
<1>4. PICK e \in Range(Chosen(s)) : u.id = e.id /\ u \in Range(UnsavedUnits(e, command[s]))
    BY <1>3
<1>5. WorksOn(s, e)
    BY DEF WorksOn
<1>6. e \in EntriesOfFiles
    BY <1>1, <1>5, WorkerFacts
<1>7. e.rule \in RuleType
    BY <1>1, <1>6, EntryFacts
<1>8. UNION {SeedsOf(v) : v \in Range(UnsavedUnits(e, command[s]))}
        = SelectedSeeds(command[s], e.rule) \ SavedSeeds(e.id)
    BY <1>1, <1>2, <1>6, UnsavedFacts
<1>9. SeedsOf(u) \subseteq SelectedSeeds(command[s], e.rule) \ SavedSeeds(e.id)
    BY <1>4, <1>8
<1>10. SeedsFor(command[s], e.rule) = SelectedSeeds(command[s], e.rule)
    BY DEF SeedsFor
<1>11. u \in Units
    BY <1>3 DEF Range
<1>12. e.rule.firstSeed <= u.first
    <2>1. PICK a \in Nat, b \in Int :
            e.rule.firstSeed <= a /\ SelectedSeeds(command[s], e.rule) = a .. b - 1
        BY <1>2, <1>7, SelectedFacts
    <2>2. u.first \in Nat /\ u.first \in SeedsOf(u)
        BY <1>11 DEF Units, SeedsOf
    <2>3. u.first \in a .. b - 1
        BY <1>9, <2>1, <2>2
    <2> QED
        BY <1>7, <2>1, <2>2, <2>3 DEF RuleType
<1> QED
    BY <1>4, <1>5, <1>6, <1>9, <1>10, <1>11, <1>12

\* What a job starts with agrees with all of its task that is there or held.
LEMMA NewUnitsAgree ==
    ASSUME Shape, PoolsFit, SharedWell, FirstSeedsAgree(config), SeedsAreShared(config),
           NEW s \in Shells, at[s] = "job", command[s] \in config.shells[s],
           command[s].verb = "job", NEW id \in DOMAIN config.tasks, NEW N,
           N = {SpanOf(u) : u \in {v \in Range(JobUnits(s)) : v.id = id}}
    PROVE  /\ N \subseteq Spans
           /\ \A p \in N, e \in Holders(id) : e.rule.firstSeed <= p.first
           /\ OneCut(id) => \A p \in N : IsCut(id, p)
           /\ ~OneCut(id) => \A p \in N, q \in HeldSpans(id) \cup N : Agree(p, q)
<1>1. config \in Settings /\ PiecesFit
    BY DEF Shape, PoolsFit, SavedFits
<1>2. JobFits(command[s])
    BY <1>1, SettingsAssumption DEF JobFits, Shells
<1>3. \A u \in Units : SpanOf(u) \in Spans /\ SpanOf(u).first = u.first /\ SeedsOf(SpanOf(u)) = SeedsOf(u)
    BY DEF Units, SpanOf, Span, Spans, SeedsOf
<1>4. ASSUME NEW p \in N
      PROVE  \E u \in Range(JobUnits(s)), e \in Range(Chosen(s)) :
                /\ SpanOf(u) = p /\ u.id = id /\ e.id = id /\ WorksOn(s, e) /\ u \in Units
                /\ u \in Range(UnsavedUnits(e, command[s])) /\ e \in EntriesOfFiles
                /\ SeedsOf(p) \subseteq SeedsFor(command[s], e.rule)
                /\ SeedsOf(p) \cap SavedSeeds(id) = {}
                /\ e.rule.firstSeed <= p.first /\ p \in Spans
    <2>1. PICK u \in Range(JobUnits(s)) : u.id = id /\ p = SpanOf(u)
        OBVIOUS
    <2>2. /\ u \in Units
          /\ \E e \in Range(Chosen(s)) :
                /\ u.id = e.id /\ WorksOn(s, e) /\ u \in Range(UnsavedUnits(e, command[s]))
                /\ SeedsOf(u) \subseteq SeedsFor(command[s], e.rule)
                /\ SeedsOf(u) \cap SavedSeeds(u.id) = {}
                /\ e.rule.firstSeed <= u.first /\ e \in EntriesOfFiles
        BY NewUnitFacts
    <2> QED
        BY <1>3, <2>1, <2>2
<1>5. N \subseteq Spans
    BY <1>4
<1>6. \A p \in N, e \in Holders(id) : e.rule.firstSeed <= p.first
    <2>1. ASSUME NEW p \in N, NEW d \in Holders(id)
          PROVE  d.rule.firstSeed <= p.first
        <3>1. PICK e \in EntriesOfFiles : e.id = id /\ e.rule.firstSeed <= p.first
            BY <1>4
        <3>2. d.rule.firstSeed = e.rule.firstSeed
            BY <3>1 DEF Holders, FirstSeedsAgree, EntriesOfFiles
        <3> QED
            BY <3>1, <3>2
    <2> QED
        BY <2>1
<1>7. ASSUME OneCut(id), NEW p \in N
      PROVE  IsCut(id, p)
    <2>1. PICK u \in Range(JobUnits(s)), e \in Range(Chosen(s)) :
            /\ SpanOf(u) = p /\ e.id = id /\ WorksOn(s, e)
            /\ u \in Range(UnsavedUnits(e, command[s])) /\ e \in EntriesOfFiles
        BY <1>4
    <2> DEFINE w == [shell |-> s, command |-> command[s], entry |-> e]
    <2>2. w \in WorkersOf(config, id)
        BY <1>1, <2>1, WorkerFacts
    <2>3. CutsOf(command[s], e.rule) = CutsOf(w.command, w.entry.rule)
        OBVIOUS
    <2> HIDE DEF w
    <2>4. ASSUME NEW x \in CutsOf(command[s], e.rule), NEW q \in SavedSpans(e.id)
          PROVE  Agree(x, q)
        <3>1. q \in HeldSpans(id)
            BY <2>1, HeldIsTyped
        <3>2. PICK v \in WorkersOf(config, id) : q \in CutsOf(v.command, v.entry.rule)
            BY <1>7, <3>1 DEF SharedWell, InPlace, IsCut
        <3> QED
            BY <1>7, <2>2, <2>3, <3>2 DEF OneCut
    <2>5. SpanOf(u) \in CutsOf(command[s], e.rule)
        BY <1>1, <1>2, <2>1, <2>4, UnsavedAreCuts
    <2> QED
        BY <2>1, <2>2, <2>3, <2>5 DEF IsCut
<1>8. ASSUME ~OneCut(id), NEW p \in N, NEW q \in N
      PROVE  Agree(p, q)
    <2>1. PICK u \in Range(JobUnits(s)) : SpanOf(u) = p /\ u.id = id /\ u \in Units
        BY <1>4
    <2>2. PICK v \in Range(JobUnits(s)) : SpanOf(v) = q /\ v.id = id /\ v \in Units
        BY <1>4
    <2>3. JobUnits(s) \in Seq(Units) /\ PairsIn(JobUnits(s), Apart)
        BY <1>1, JobUnitsFacts DEF JobUnits
    <2> DEFINE us == JobUnits(s)
    <2> HIDE DEF us
    <2>4. /\ us \in Seq(Units) /\ u \in Range(us) /\ v \in Range(us)
          /\ \A i, j \in 1 .. Len(us) : i < j => << us[i], us[j] >> \in Apart
        BY <2>3, <2>1, <2>2 DEF us, PairsIn
    <2>5. PICK i \in 1 .. Len(us) : us[i] = u
        BY <2>4 DEF Range
    <2>6. PICK j \in 1 .. Len(us) : us[j] = v
        BY <2>4 DEF Range
    <2>7. i \in Nat /\ j \in Nat
        BY <2>4
    <2>8. CASE i = j
        BY <2>1, <2>2, <2>5, <2>6, <2>8 DEF Agree
    <2>9. CASE i < j
        <3>1. << u, v >> \in Apart
            BY <2>4, <2>5, <2>6, <2>9
        <3>2. SeedsOf(u) \cap SeedsOf(v) = {}
            BY <2>1, <2>2, <3>1 DEF Apart
        <3> QED
            BY <1>3, <2>1, <2>2, <3>2 DEF Agree
    <2>10. CASE j < i
        <3>1. << v, u >> \in Apart
            BY <2>4, <2>5, <2>6, <2>10
        <3>2. SeedsOf(v) \cap SeedsOf(u) = {}
            BY <2>1, <2>2, <3>1 DEF Apart
        <3> QED
            BY <1>3, <2>1, <2>2, <3>2 DEF Agree
    <2> QED
        BY <2>7, <2>8, <2>9, <2>10
<1>9. ASSUME NEW p \in N, NEW q \in SavedSpans(id)
      PROVE  Agree(p, q)
    <2>1. SeedsOf(q) \subseteq SavedSeeds(id)
        BY HeldIsTyped
    <2> QED
        BY <1>4, <2>1 DEF Agree
<1>10. ASSUME ~OneCut(id), NEW p \in N, NEW t \in Shells, NEW v \in UnitsOf(t, id)
       PROVE  Agree(p, SpanOf(v))
    <2>1. v \in UnitsIn(t) /\ v.id = id /\ SeedsOf(SpanOf(v)) = SeedsOf(v)
        BY HeldIsTyped DEF UnitsOf, UnitsIn
    <2>2. t # s
        <3>1. running[s] = {} /\ queued[s] = <<>>
            BY DEF PoolsFit, PoolOf
        <3> QED
            BY <2>1, <3>1 DEF UnitsIn, Range
    <2>3. CASE SpanOf(v) \in SavedSpans(id)
        BY <1>9, <2>3
    <2>4. CASE SpanOf(v) \notin SavedSpans(id)
        <3>1. PICK d \in Range(Chosen(t)) :
                WorksOn(t, d) /\ d.id = v.id /\ SeedsOf(v) \subseteq SeedsFor(command[t], d.rule)
            BY <2>1, <2>4 DEF SharedWell, Reaches
        <3>2. PICK e \in Range(Chosen(s)) : /\ WorksOn(s, e) /\ e.id = id
                    /\ SeedsOf(p) \subseteq SeedsFor(command[s], e.rule)
            BY <1>4
        <3> DEFINE w == [shell |-> t, command |-> command[t], entry |-> d]
                   x == [shell |-> s, command |-> command[s], entry |-> e]
        <3>3. w \in WorkersOf(config, id)
            BY <1>1, <2>1, <3>1, WorkerFacts
        <3>4. x \in WorkersOf(config, id) /\ x.shell # w.shell
            BY <1>1, <2>2, <3>2, WorkerFacts
        <3>5. SeedsFor(x.command, x.entry.rule) \cap SeedsFor(w.command, w.entry.rule) = {}
            <4>1. ShellsApart(id)
                BY <1>10, TasksAreShared
            <4> HIDE DEF w, x
            <4> QED
                BY <3>3, <3>4, <4>1 DEF ShellsApart
        <3>6. SeedsFor(command[s], e.rule) \cap SeedsFor(command[t], d.rule) = {}
            BY <3>5
        <3> QED
            BY <2>1, <3>1, <3>2, <3>6 DEF Agree
    <2> QED
        BY <2>3, <2>4
<1>11. ASSUME ~OneCut(id)
       PROVE  \A p \in N, q \in HeldSpans(id) \cup N : Agree(p, q)
    BY <1>8, <1>9, <1>10, <1>11 DEF HeldSpans
<1> QED
    BY <1>5, <1>6, <1>7, <1>11

LEMMA JobStartsShared ==
    ASSUME Shape, PoolsFit, PoolsFit', SharedWell, FirstSeedsAgree(config),
           SeedsAreShared(config), NEW s \in Shells, JobStarts(s), at'[s] \notin Resting,
           \A t \in Shells \ {s} : Keeps(t)
    PROVE  SharedWell'
<1>1. /\ at[s] = "job" /\ command[s] \in config.shells[s] /\ command[s].verb = "job"
      /\ config' = config /\ command' = command /\ saved' = saved
      /\ Range(JobUnits(s)) = running'[s] \cup Range(queued'[s])
    BY JobStartsFacts DEF PoolsFit, SavedFits
<1>2. UnitsIn(s)' = Range(JobUnits(s))
    BY <1>1 DEF UnitsIn, Range
<1>3. Reaches(s)'
    <2>1. Chosen(s)' = Chosen(s) /\ \A e : WorksOn(s, e)' <=> WorksOn(s, e)
        BY <1>1 DEF Chosen, Entries, WorksOn
    <2>2. \A e : SeedsFor(command[s], e.rule)' = SeedsFor(command[s], e.rule)
        BY <1>1 DEF SeedsFor, SelectedSeeds
    <2>3. \A u \in Range(JobUnits(s)) : \E e \in Range(Chosen(s)) :
            WorksOn(s, e) /\ e.id = u.id /\ SeedsOf(u) \subseteq SeedsFor(command[s], e.rule)
        BY <1>1, NewUnitFacts
    <2> QED
        BY <1>2, <2>1, <2>2, <2>3 DEF Reaches, SeedsOf, Range
<1>4. Knows(s)'
    BY <1>1 DEF Knows
<1>5. ASSUME NEW id \in DOMAIN config.tasks
      PROVE  \E N :
                /\ N \subseteq Spans
                /\ \A u \in UnitsIn(s)' : u.id = id => u \in UnitsIn(s) \/ SpanOf(u) \in N
                /\ \A p \in N, e \in Holders(id) : e.rule.firstSeed <= p.first
                /\ OneCut(id) => \A p \in N : IsCut(id, p)
                /\ ~OneCut(id) => \A p \in N, q \in HeldSpans(id) \cup N : Agree(p, q)
    <2> DEFINE N == {SpanOf(u) : u \in {v \in Range(JobUnits(s)) : v.id = id}}
    <2>1. \A u \in UnitsIn(s)' : u.id = id => SpanOf(u) \in N
        BY <1>2
    <2>2. PICK M : M = N
        OBVIOUS
    <2>3. /\ M \subseteq Spans
          /\ \A p \in M, e \in Holders(id) : e.rule.firstSeed <= p.first
          /\ OneCut(id) => \A p \in M : IsCut(id, p)
          /\ ~OneCut(id) => \A p \in M, q \in HeldSpans(id) \cup M : Agree(p, q)
        BY <1>1, <2>2, NewUnitsAgree, ZenonT(180)
    <2> HIDE DEF N
    <2> QED
        BY <2>1, <2>2, <2>3
<1> QED
    BY <1>1, <1>3, <1>4, <1>5, SavedStays

\* A unit that ends is on the disk; nothing that was held is new there.
LEMMA SaveShared ==
    ASSUME Shape, PoolsFit, PoolsFit', SharedWell, SeedsAreShared(config), NEW s \in Shells,
           NEW u \in running[s], Save(u), config' = config, command'[s] = command[s],
           UnitsIn(s)' \subseteq UnitsIn(s), Knows(s)', \A t \in Shells \ {s} : Keeps(t)
    PROVE  SharedWell'
<1> DEFINE q0 == SpanOf(u)
           at0 == u.id
<1>1. /\ SavedFits /\ UnitFits(u) /\ q0 \in HeldSpans(at0) /\ SeedsOf(q0) = SeedsOf(u)
      /\ config \in Settings /\ Shells' = Shells /\ u \in UnitsIn(s)
    BY HeldIsTyped DEF PoolsFit, Shape, Shells, UnitsIn
<1>2. /\ saved \subseteq saved' /\ \A p \in saved' \ saved : p.id = at0 /\ SpanOf(p) = q0
      /\ saved' # saved => \A p \in PiecesOf(at0, saved) : SpanOf(p) # q0
      /\ \A p, q \in saved' \ saved : p = q
    BY <1>1, SaveFacts
<1>3. SpansOnce'
    <2>1. \A p, q \in saved : p.id = q.id /\ SpanOf(p) = SpanOf(q) => p = q
        BY DEF SharedWell, SpansOnce
    <2>2. ASSUME NEW p \in saved', NEW q \in saved', p.id = q.id, SpanOf(p) = SpanOf(q)
          PROVE  p = q
        <3>1. CASE p \in saved /\ q \in saved
            BY <2>1, <2>2, <3>1
        <3>2. CASE p \in saved /\ q \notin saved
            <4>1. p \in PiecesOf(at0, saved)
                BY <1>2, <2>2, <3>2 DEF PiecesOf
            <4> QED
                BY <1>2, <2>2, <3>2, <4>1
        <3>3. CASE p \notin saved /\ q \in saved
            <4>1. q \in PiecesOf(at0, saved)
                BY <1>2, <2>2, <3>3 DEF PiecesOf
            <4> QED
                BY <1>2, <2>2, <3>3, <4>1
        <3>4. CASE p \notin saved /\ q \notin saved
            BY <1>2, <3>4
        <3> QED
            BY <3>1, <3>2, <3>3, <3>4
    <2> QED
        BY <2>2 DEF SpansOnce, SpanOf
<1>4. \A id : \A q \in SavedSpans(id)' : q \in SavedSpans(id) \/ (id = at0 /\ q = q0)
    <2>1. ASSUME NEW id, NEW p \in saved', p.id = id
          PROVE  SpanOf(p) \in SavedSpans(id) \/ (id = at0 /\ SpanOf(p) = q0)
        BY <1>2, <2>1 DEF SavedSpans, PiecesOf
    <2>2. \A id : SavedSpans(id)' = {SpanOf(p) : p \in {p \in saved' : p.id = id}}
        BY DEF SavedSpans, PiecesOf, SpanOf
    <2> HIDE DEF q0, at0
    <2> QED
        BY <2>1, <2>2
<1>5. \A t \in Shells : UnitsIn(t)' \subseteq UnitsIn(t)
    BY DEF Keeps, UnitsIn, Range
<1>6. ASSUME NEW id \in DOMAIN config.tasks
      PROVE  InPlace(id)'
    <2>1. \A t \in Shells : UnitsOf(t, id)' \subseteq UnitsOf(t, id)
        BY <1>5 DEF UnitsOf, UnitsIn
    <2>2. HeldSpans(id)' = SavedSpans(id)' \cup UNION {{SpanOf(v) : v \in UnitsOf(t, id)'} : t \in Shells}
        BY <1>1 DEF HeldSpans, SpanOf
    <2> DEFINE N == {}
    <2> HIDE DEF q0, at0
    <2>3. SavedSpans(id)' \subseteq HeldSpans(id)
        BY <1>1, <1>4 DEF HeldSpans
    <2>4. HeldSpans(id)' \subseteq HeldSpans(id)
        BY <2>1, <2>2, <2>3 DEF HeldSpans
    <2>5. InPlace(id)
        BY DEF SharedWell
    <2>6. /\ N \subseteq Spans /\ HeldSpans(id)' \subseteq HeldSpans(id) \cup N
          /\ \A p \in N, e \in Holders(id) : e.rule.firstSeed <= p.first
          /\ OneCut(id) => \A p \in N : IsCut(id, p)
          /\ ~OneCut(id) => \A p \in N, q \in HeldSpans(id) \cup N : Agree(p, q)
        BY <2>4
    <2> HIDE DEF N
    <2> QED
        BY <2>5, <2>6, InPlaceGrows
<1>7. ASSUME NEW t \in Shells \ {s}, command[t].verb = "collect", NEW n \in DOMAIN collection[t],
             NEW c \in {collection[t][n]}, c.entry.id = at0, q0 \notin SavedSpans(at0)
      PROVE  SeedsOf(q0) \cap SeedsFor(command[t], c.entry.rule) = {}
    <2>1. PICK e \in Range(Chosen(s)) :
            WorksOn(s, e) /\ e.id = u.id /\ SeedsOf(u) \subseteq SeedsFor(command[s], e.rule)
        BY <1>1, <1>7 DEF SharedWell, Reaches
    <2>2. TaskFits(t, n, c) /\ at[t] \in CollectPlaces
        BY <1>7 DEF PoolsFit, PoolOf
    <2>3. WorksOn(t, c.entry)
        <3>1. command[t] \in config.shells[t]
            BY <2>2 DEF Shape, ShapeOf, CollectPlaces, Resting
        <3> QED
            BY <1>7, <2>2, <3>1 DEF WorksOn, TaskFits
    <2> DEFINE w == [shell |-> t, command |-> command[t], entry |-> c.entry]
               x == [shell |-> s, command |-> command[s], entry |-> e]
    <2>4. w \in WorkersOf(config, at0) /\ w.command.verb = "collect" /\ c.entry \in EntriesOfFiles
        BY <1>1, <1>7, <2>3, WorkerFacts
    <2>5. x \in WorkersOf(config, at0) /\ x.shell # w.shell
        BY <1>1, <1>7, <2>1, WorkerFacts
    <2>6. at0 \in DOMAIN config.tasks
        BY <1>1, <1>7, <2>4, EntryFacts
    <2>7. SeedsFor(x.command, x.entry.rule) \cap SeedsFor(w.command, w.entry.rule) = {}
        <3> HIDE DEF w, x, at0
        <3>1. ~OneCut(at0)
            BY <2>4 DEF OneCut
        <3>2. ShellsApart(at0)
            BY <2>6, <3>1, TasksAreShared
        <3> QED
            BY <2>4, <2>5, <3>2 DEF ShellsApart
    <2>8. SeedsFor(command[s], e.rule) \cap SeedsFor(command[t], c.entry.rule) = {}
        BY <2>7
    <2> QED
        BY <1>1, <2>1, <2>8
<1> HIDE DEF q0, at0
<1>8. ASSUME NEW t \in Shells \ {s}
      PROVE  Reaches(t)' /\ Knows(t)'
    <2>1. command'[t] = command[t] /\ collection'[t] = collection[t] /\ Reaches(t) /\ Knows(t)
        BY DEF Keeps, SharedWell
    <2>2. Reaches(t)'
        BY <1>2, <1>5, <2>1, ReachStays
    <2>3. command[t].verb = "collect" =>
            \A n \in DOMAIN collection[t] : \A c \in {collection[t][n]} : c.entry.id = at0 =>
                \/ q0 \in SavedSpans(at0) \/ q0.first + q0.count <= c.next
                \/ SeedsOf(q0) \cap SeedsFor(command[t], c.entry.rule) = {}
        BY <1>7
    <2>4. Knows(t)'
        BY <1>4, <2>1, <2>3, KnowStays
    <2> QED
        BY <2>2, <2>4
<1>9. Reaches(s)'
    BY <1>2, ReachStays DEF SharedWell
<1> QED
    BY <1>1, <1>3, <1>6, <1>8, <1>9 DEF SharedWell

LEMMA PieceEndsShared ==
    ASSUME Shape, PoolsFit, PoolsFit', SharedWell, SeedsAreShared(config), NEW s \in Shells,
           NEW u \in running[s], PieceEnds(s, u), config' = config,
           \A t \in Shells \ {s} : Keeps(t)
    PROVE  SharedWell'
<1>1. PICK c, r : UnitEnds(s, u, c, r)
    BY PieceEndsPool
<1> DEFINE n == u.name
<1>2. /\ n \in DOMAIN collection[s] /\ c = collection[s][n] /\ TaskFits(s, n, c)
      /\ at[s] = "collecting" /\ command' = command /\ Save(u) /\ UnitFits(u)
      /\ u.id = c.entry.id /\ SpanOf(u) \in Waits(c)
      /\ collection'[s][n] = r /\ DOMAIN collection'[s] = DOMAIN collection[s]
      /\ \A m \in DOMAIN collection[s] : m # n => collection'[s][m] = collection[s][m]
      /\ r.entry = c.entry /\ r.saved = c.saved /\ r.next = c.next
      /\ UnitsIn(s)' \subseteq UnitsIn(s)
    BY <1>1 DEF UnitEnds, UnitsIn
<1>3. config \in Settings /\ command[s] \in config.shells[s] /\ command[s].verb = "collect"
    BY <1>2 DEF Shape, ShapeOf, VerbFits, Resting
<1> HIDE DEF n
<1>4. SpanOf(u).first + SpanOf(u).count <= c.next
    BY <1>2, WaitsBelow DEF TaskFits
<1>5. \A p \in saved' \ saved : p.id = u.id /\ SpanOf(p) = SpanOf(u)
    BY <1>2, SaveFacts DEF PoolsFit
<1>6. ASSUME NEW m \in DOMAIN collection[s], NEW d \in {collection[s][m]}
      PROVE  /\ KnowsOf(command[s], d)
             /\ d.entry.id = u.id => m = n
    <2>1. KnowsOf(command[s], d)
        BY <1>3 DEF SharedWell, Knows
    <2>2. TaskFits(s, m, d)
        BY DEF PoolsFit, PoolOf
    <2>3. d.entry \in Range(Chosen(s)) /\ d.entry.name = m
        BY <2>2 DEF TaskFits
    <2>4. c.entry \in Range(Chosen(s)) /\ c.entry.name = n
        BY <1>2 DEF TaskFits
    <2>5. /\ Range(Chosen(s)) \subseteq Range(Entries(s))
          /\ \A e, f \in Range(Entries(s)) : e.id = f.id \/ e.name = f.name => e = f
        BY <1>3, ChosenFacts
    <2> QED
        BY <1>2, <2>1, <2>3, <2>4, <2>5
<1>7. ASSUME NEW m \in DOMAIN collection'[s], NEW d, d = collection'[s][m]
      PROVE  KnowsOf(command[s], d)'
    <2> DEFINE b == collection[s][m]
    <2>1. m \in DOMAIN collection[s] /\ d.entry = b.entry /\ d.saved = b.saved /\ d.next = b.next
        BY <1>2, <1>7
    <2>2. KnowsOf(command[s], b) /\ (b.entry.id = u.id => m = n)
        BY <1>6, <2>1
    <2>3. m = n => b = c
        BY <1>2
    <2> HIDE DEF b
    <2>4. ASSUME NEW p \in saved', p.id = d.entry.id
          PROVE  \/ SpanOf(p) \in d.saved \/ SpanOf(p).first + SpanOf(p).count <= d.next
                 \/ SeedsOf(SpanOf(p)) \cap SeedsFor(command[s], d.entry.rule) = {}
        <3>1. CASE p \in saved
            <4>1. SpanOf(p) \in SavedSpans(b.entry.id)
                BY <2>1, <2>4, <3>1 DEF SavedSpans, PiecesOf
            <4> QED
                BY <2>1, <2>2, <4>1 DEF KnowsOf
        <3>2. CASE p \notin saved
            <4>1. p.id = u.id /\ SpanOf(p) = SpanOf(u)
                BY <1>5, <3>2
            <4>2. b = c
                BY <2>1, <2>2, <2>3, <2>4, <4>1
            <4> QED
                BY <1>4, <2>1, <4>1, <4>2
        <3> QED
            BY <3>1, <3>2
    <2>5. SavedSpans(d.entry.id)' = {SpanOf(p) : p \in {p \in saved' : p.id = d.entry.id}}
        BY DEF SavedSpans, PiecesOf, SpanOf
    <2>6. \A q \in SavedSpans(d.entry.id)' :
            \/ q \in d.saved \/ q.first + q.count <= d.next
            \/ SeedsOf(q) \cap SeedsFor(command[s], d.entry.rule) = {}
        BY <2>4, <2>5
    <2>7. \A q \in d.saved : q.first + q.count <= d.next \/ d.next <= q.first
        BY <2>1, <2>2 DEF KnowsOf
    <2>8. \A k : KnowsOf(k, d)' <=>
            /\ \A q \in d.saved : q.first + q.count <= d.next \/ d.next <= q.first
            /\ \A q \in SavedSpans(d.entry.id)' :
                \/ q \in d.saved \/ q.first + q.count <= d.next
                \/ SeedsOf(q) \cap SeedsFor(k, d.entry.rule) = {}
        BY DEF KnowsOf, SeedsOf, SeedsFor
    <2> QED
        BY <1>2, <2>6, <2>7, <2>8
<1>8. Knows(s)'
    BY <1>2, <1>7 DEF Knows
<1> QED
    BY <1>2, <1>8, SaveShared

LEMMA JobPieceEndsShared ==
    ASSUME Shape, PoolsFit, PoolsFit', SharedWell, SeedsAreShared(config), NEW s \in Shells,
           NEW u \in running[s], JobPieceEnds(s, u), config' = config,
           \A t \in Shells \ {s} : Keeps(t)
    PROVE  SharedWell'
<1>1. /\ at[s] = "running" /\ command' = command /\ Save(u)
    BY DEF JobPieceEnds
<1>2. UnitsIn(s)' \subseteq UnitsIn(s)
    <2>1. running'[s] \cup Range(queued'[s]) = (running[s] \ {u}) \cup Range(queued[s])
        BY JobPieceEndsFacts
    <2> QED
        BY <2>1 DEF UnitsIn, Range
<1>3. command[s].verb = "job"
    BY <1>1 DEF Shape, ShapeOf, VerbFits, Resting
<1>4. Knows(s)'
    BY <1>1, <1>3 DEF Knows
<1> QED
    BY <1>1, <1>2, <1>4, SaveShared

\* A step that brings neither a piece nor a unit.
LEMMA QuietShared ==
    ASSUME Shape, PoolsFit, PoolsFit', SharedWell, NEW s \in Shells, config' = config,
           saved' = saved, \A t \in Shells \ {s} : Keeps(t), UnitsIn(s)' \subseteq UnitsIn(s),
           command'[s] = command[s] \/ UnitsIn(s)' = {}, Knows(s)'
    PROVE  SharedWell'
<1>1. Reaches(s)'
    <2>1. CASE command'[s] = command[s]
        BY <2>1, ReachStays DEF SharedWell
    <2>2. CASE UnitsIn(s)' = {}
        BY <2>2 DEF Reaches
    <2> QED
        BY <2>1, <2>2
<1>2. ASSUME NEW id \in DOMAIN config.tasks
      PROVE  \E N :
                /\ N \subseteq Spans
                /\ \A u \in UnitsIn(s)' : u.id = id => u \in UnitsIn(s) \/ SpanOf(u) \in N
                /\ \A p \in N, e \in Holders(id) : e.rule.firstSeed <= p.first
                /\ OneCut(id) => \A p \in N : IsCut(id, p)
                /\ ~OneCut(id) => \A p \in N, q \in HeldSpans(id) \cup N : Agree(p, q)
    <2> DEFINE N == {}
    <2>1. N \subseteq Spans /\ N = {} /\ \A u \in UnitsIn(s)' : u \in UnitsIn(s)
        OBVIOUS
    <2> HIDE DEF N
    <2> QED
        BY <2>1
<1> QED
    BY <1>1, <1>2, SavedStays

\* A collect that has just read a task's pieces knows all of them.
LEMMA NewCollectionKnows ==
    ASSUME PoolsFit, SharedWell, config \in Settings, NEW e \in EntriesOfFiles, NEW k, NEW c,
           c = NewCollection(e)
    PROVE  KnowsOf(k, c)
<1>1. /\ c.entry = e /\ c.saved = SavedCounts(e.id) /\ c.next = e.rule.firstSeed
    BY DEF NewCollection
<1>2. e.id \in DOMAIN config.tasks /\ e \in Holders(e.id) /\ e.rule \in RuleType
    BY EntryFacts DEF Holders
<1>3. SavedCounts(e.id) \subseteq SavedSpans(e.id)
    BY DEF SavedCounts, SavedSpans, SpanOf
<1>4. /\ \A p, q \in SavedSpans(e.id) : Agree(p, q)
      /\ \A p \in SavedSpans(e.id) : e.rule.firstSeed <= p.first
      /\ SavedSpans(e.id) \subseteq Spans
    BY <1>2, HeldIsTyped DEF SharedWell, InPlace
<1>5. SavedSpans(e.id) \subseteq SavedCounts(e.id)
    <2>1. ASSUME NEW p \in SavedSpans(e.id), NEW q \in PiecesOf(e.id, saved), q.first = p.first
          PROVE  q.count <= p.count
        <3>1. SpanOf(q) \in SavedSpans(e.id) /\ SpanOf(q).first = q.first /\ SpanOf(q).count = q.count
            BY DEF SavedSpans, SpanOf, Span
        <3> DEFINE w == SpanOf(q)
        <3>2. w \in Spans /\ p \in Spans /\ Agree(w, p)
            BY <1>4, <3>1
        <3> HIDE DEF w
        <3>3. w = p \/ w.first + w.count <= p.first \/ p.first + p.count <= w.first
            BY <3>2, AgreeFacts
        <3>4. w.first = p.first
            BY <2>1, <3>1 DEF w
        <3>5. w = p
            BY <3>2, <3>3, <3>4 DEF Spans
        <3> QED
            BY <3>1, <3>2, <3>5 DEF w, Spans
    <2> QED
        BY <2>1 DEF SavedCounts, SavedSpans, SpanOf
<1> QED
    BY <1>1, <1>3, <1>4, <1>5 DEF KnowsOf

LEMMA ReadSavedShared ==
    ASSUME Shape, PoolsFit, PoolsFit', SharedWell, NEW s \in Shells, ReadSaved(s),
           config' = config, \A t \in Shells \ {s} : Keeps(t)
    PROVE  SharedWell'
<1>1. /\ at[s] = "recording" /\ saved' = saved /\ command' = command
      /\ running' = running /\ queued' = queued
      /\ collection'[s] = [n \in {e.name : e \in Range(Chosen(s))} |->
                            NewCollection(CHOOSE e \in Range(Chosen(s)) : e.name = n)]
    BY DEF ReadSaved, Goes, disk, Shape, OwnDomains
<1>2. /\ config \in Settings /\ command[s] \in config.shells[s] /\ command[s].verb # "fold"
    BY <1>1 DEF Shape, ShapeOf, VerbFits, Resting
<1>3. Range(Chosen(s)) \subseteq EntriesOfFiles
    BY <1>2, ChosenFacts
<1>4. ASSUME NEW n \in DOMAIN collection'[s], NEW c \in {collection'[s][n]}
      PROVE  KnowsOf(command[s], c)'
    <2> DEFINE named(x) == x.name = n
               e == CHOOSE x \in Range(Chosen(s)) : named(x)
    <2>1. \E x \in Range(Chosen(s)) : named(x)
        BY <1>1
    <2>2. e \in Range(Chosen(s))
        <3> HIDE DEF named
        <3> QED
            BY <2>1
    <2>3. c = NewCollection(e)
        BY <1>1
    <2> HIDE DEF e
    <2>4. \A k : KnowsOf(k, c)
        BY <1>2, <1>3, <2>2, <2>3, NewCollectionKnows
    <2>5. \A id : SavedSpans(id)' = SavedSpans(id)
        BY <1>1 DEF SavedSpans, PiecesOf, SpanOf
    <2>6. \A k : KnowsOf(k, c)' <=> KnowsOf(k, c)
        BY <2>5 DEF KnowsOf, SeedsOf, SeedsFor
    <2> QED
        BY <1>1, <2>4, <2>6
<1>5. Knows(s)'
    BY <1>4 DEF Knows
<1>6. UnitsIn(s)' = UnitsIn(s)
    BY <1>1 DEF UnitsIn, Range
<1> QED
    BY <1>1, <1>5, <1>6, QuietShared

\* A shell whose pool and collection stay knows what it knew.
LEMMA KnowsOn ==
    ASSUME config' = config, saved' = saved, NEW s, Knows(s), collection'[s] = collection[s],
           command'[s] = command[s] \/ collection[s] = <<>>
    PROVE  Knows(s)'
<1>1. \A id : SavedSpans(id)' = SavedSpans(id)
    BY DEF SavedSpans, PiecesOf, SpanOf
<1>2. \A k, c : KnowsOf(k, c)' <=> KnowsOf(k, c)
    BY <1>1 DEF KnowsOf, SeedsOf, SeedsFor
<1>3. CASE command'[s] = command[s]
    BY <1>2, <1>3 DEF Knows
<1>4. CASE collection[s] = <<>>
    <2>1. DOMAIN collection'[s] = {}
        BY <1>4
    <2> QED
        BY <2>1 DEF Knows
<1> QED
    BY <1>3, <1>4

LEMMA SharedStep ==
    ASSUME Shape, PoolsFit, SharedWell, FirstSeedsAgree(config), SeedsAreShared(config),
           NEW s \in Shells, Moves(s), PoolsFit'
    PROVE  SharedWell'
<1>1. config' = config /\ \A t \in Shells \ {s} : Keeps(t)
    BY OneShellMoves
<1>2. Knows(s) /\ Shape'
    BY OneShellMoves DEF SharedWell
<1>3. CASE Rested(s)
    <2>1. /\ saved' = saved /\ UnitsIn(s)' = {} /\ DOMAIN collection'[s] = {}
        BY <1>3 DEF Rested, RestingMemory, UnitsIn, Range
    <2>2. Knows(s)'
        BY <2>1 DEF Knows
    <2> QED
        BY <1>1, <2>1, <2>2, QuietShared
<1>4. CASE WentOn(s) /\ at'[s] \notin Resting
    <2>1. /\ saved' = saved /\ running'[s] = running[s] /\ queued'[s] = queued[s]
          /\ collection'[s] = collection[s]
          /\ at[s] \in Resting \/ command' = command
        BY <1>4 DEF WentOn
    <2>2. UnitsIn(s)' = UnitsIn(s)
        BY <2>1 DEF UnitsIn, Range
    <2>3. at[s] \in Resting => UnitsIn(s) = {} /\ collection[s] = <<>>
        BY DEF Shape, ShapeOf, RestingMemory, UnitsIn, Range
    <2>4. command'[s] = command[s] \/ (UnitsIn(s) = {} /\ collection[s] = <<>>)
        BY <2>1, <2>3
    <2>5. Knows(s)'
        BY <1>1, <1>2, <2>1, <2>4, KnowsOn
    <2>6. command'[s] = command[s] \/ UnitsIn(s)' = {}
        BY <2>2, <2>4
    <2> QED
        BY <1>1, <2>1, <2>2, <2>5, <2>6, QuietShared
<1>5. CASE ReadSaved(s)
    BY <1>1, <1>5, ReadSavedShared
<1>6. CASE HandOut(s)
    BY <1>1, <1>6, HandOutShared
<1>7. CASE \E u \in running[s] : PieceEnds(s, u)
    BY <1>1, <1>7, PieceEndsShared
<1>8. CASE JobStarts(s) /\ at'[s] \notin Resting
    BY <1>1, <1>8, JobStartsShared
<1>9. CASE \E u \in running[s] : JobPieceEnds(s, u)
    BY <1>1, <1>9, JobPieceEndsShared
<1>10. ASSUME UNCHANGED <<config, saved, running, queued, collection, command>>
       PROVE  SharedWell'
    <2>1. UnitsIn(s)' = UnitsIn(s)
        BY <1>10 DEF UnitsIn, Range
    <2>2. Knows(s)'
        BY <1>2, <1>10, KnowsOn
    <2> QED
        BY <1>1, <1>10, <2>1, <2>2, QuietShared
<1>11. CASE \/ OpenRecord(s) \/ WriteRecord(s) \/ CollectStops(s)
            \/ FoldLists(s) /\ at'[s] \notin Resting
    <2>1. UNCHANGED <<config, saved, running, queued, collection, command>>
        <3>1. CASE OpenRecord(s)
            BY <3>1 DEF OpenRecord, own
        <3>2. CASE WriteRecord(s)
            BY <3>2 DEF WriteRecord
        <3>3. CASE CollectStops(s)
            BY <3>3 DEF CollectStops, Goes, inMemory, disk
        <3>4. CASE FoldLists(s) /\ at'[s] \notin Resting
            <4>1. \A how \in Resting : ~Leaves(s, how)
                BY <3>4 DEF Leaves, Shape, OwnDomains
            <4> QED
                BY <3>4, <4>1 DEF FoldLists, Goes, disk, Resting
        <3> QED
            BY <1>11, <3>1, <3>2, <3>3, <3>4
    <2> QED
        BY <1>10, <2>1
<1>12. CASE \/ FoldStages(s) /\ at'[s] \notin Resting
            \/ ListOldFiles(s) \/ ListNewFiles(s)
            \/ ReadRecords(s) /\ at'[s] \notin Resting
            \/ \E n \in Names : RecordSeeds(s, n)
    <2>1. UNCHANGED <<config, saved, running, queued, collection, command>>
        <3>1. at'[s] \notin Resting => \A how \in Resting : ~Leaves(s, how)
            BY DEF Leaves, Shape, OwnDomains
        <3>2. CASE FoldStages(s) /\ at'[s] \notin Resting
            BY <3>1, <3>2 DEF FoldStages, Goes, disk, Resting
        <3>3. CASE ListOldFiles(s)
            BY <3>3 DEF ListOldFiles, Goes, disk
        <3>4. CASE ListNewFiles(s)
            BY <3>4 DEF ListNewFiles, Goes, disk
        <3>5. CASE ReadRecords(s) /\ at'[s] \notin Resting
            BY <3>1, <3>5 DEF ReadRecords, Goes, disk, Resting
        <3>6. CASE \E n \in Names : RecordSeeds(s, n)
            BY <3>6 DEF RecordSeeds
        <3> QED
            BY <1>12, <3>2, <3>3, <3>4, <3>5, <3>6
    <2> QED
        BY <1>10, <2>1
<1>13. CASE \E f \in CsvFiles : (RemoveFile(s, f) /\ at'[s] \notin Resting) \/ MoveFile(s, f)
    <2>1. UNCHANGED <<config, saved, running, queued, collection, command>>
        <3>1. PICK f \in CsvFiles : (RemoveFile(s, f) /\ at'[s] \notin Resting) \/ MoveFile(s, f)
            BY <1>13
        <3>2. CASE RemoveFile(s, f) /\ at'[s] \notin Resting
            <4>1. \A how \in Resting : ~Leaves(s, how)
                BY <3>2 DEF Leaves, Shape, OwnDomains
            <4> QED
                BY <3>2, <4>1 DEF RemoveFile, Resting
        <3>3. CASE MoveFile(s, f)
            BY <3>3 DEF MoveFile
        <3> QED
            BY <3>1, <3>2, <3>3
    <2> QED
        BY <1>10, <2>1
<1> QED
    BY <1>3, <1>4, <1>5, <1>6, <1>7, <1>8, <1>9, <1>11, <1>12, <1>13, StepsOfAShell DEF Works

LEMMA SharedStepOfAll ==
    ASSUME Shape, PoolsFit, SharedWell, FirstSeedsAgree(config), SeedsAreShared(config),
           [Next]_vars, PoolsFit'
    PROVE  SharedWell'
<1>1. CASE \E s \in Shells : Moves(s)
    BY <1>1, SharedStep
<1>2. CASE UNCHANGED vars
    <2>1. UNCHANGED <<config, saved, running, queued, collection, command>>
        BY <1>2 DEF vars, disk, own
    <2>2. /\ SpansOnce' <=> SpansOnce
          /\ \A id : SavedSpans(id)' = SavedSpans(id)
          /\ \A id : HeldSpans(id)' = HeldSpans(id)
        BY <2>1 DEF SpansOnce, SavedSpans, HeldSpans, UnitsOf, PiecesOf, SpanOf, Shells, Range
    <2>3. \A id : InPlace(id) => InPlace(id)'
        BY <2>1, <2>2, SharingStays DEF InPlace, Agree, SeedsOf
    <2>4. \A s \in Shells : UnitsIn(s)' = UnitsIn(s)
        BY <2>1 DEF UnitsIn, Range
    <2>5. \A s \in Shells : Reaches(s)'
        BY <2>1, <2>4, ReachStays DEF SharedWell
    <2>6. \A s \in Shells : Knows(s)'
        BY <2>1, KnowsOn DEF SharedWell
    <2> QED
        BY <2>1, <2>2, <2>3, <2>5, <2>6 DEF SharedWell, Shells
<1> QED
    BY <1>1, <1>2, ShellsMove

LEMMA InitIsShared == Init => SharedWell
<1> SUFFICES ASSUME Init
             PROVE  SharedWell
    OBVIOUS
<1>1. /\ saved = {} /\ \A s \in Shells : running[s] = {} /\ queued[s] = <<>> /\ collection[s] = <<>>
    BY DEF Init, InitFor, Shells
<1>2. \A id : HeldSpans(id) = {}
    BY <1>1 DEF HeldSpans, SavedSpans, UnitsOf, PiecesOf, Range
<1>3. \A s \in Shells : UnitsIn(s) = {} /\ DOMAIN collection[s] = {}
    BY <1>1 DEF UnitsIn, Range
<1> QED
    BY <1>1, <1>2, <1>3 DEF SharedWell, SpansOnce, InPlace, Reaches, Knows

\* No two pieces on the disk hold one shot.
LEMMA NoShotTwice ==
    ASSUME Shape, PoolsFit, SharedWell
    PROVE  ~RepeatsAShot(saved)
<1> SUFFICES ASSUME NEW p \in saved, NEW q \in saved, p # q, p.id = q.id
             PROVE  SeedsOf(p) \cap SeedsOf(q) = {}
    BY DEF RepeatsAShot
<1>1. SpanOf(p) # SpanOf(q)
    BY DEF SharedWell, SpansOnce
<1>2. p.id \in DOMAIN config.tasks /\ SpanOf(p) \in HeldSpans(p.id) /\ SpanOf(q) \in HeldSpans(p.id)
    BY DEF PoolsFit, SavedFits, PiecesFit, Pieces, HeldSpans, SavedSpans, PiecesOf
<1>3. Agree(SpanOf(p), SpanOf(q))
    BY <1>2 DEF SharedWell, InPlace
<1>4. SeedsOf(SpanOf(p)) = SeedsOf(p) /\ SeedsOf(SpanOf(q)) = SeedsOf(q)
    BY DEF SpanOf, Span, SeedsOf
<1> QED
    BY <1>1, <1>3, <1>4 DEF Agree

\* Jobs and collects that are given again, overlap or are killed save each of
\* their shots, and no shot twice, for every history of a folder whose shells
\* share its seeds.
THEOREM ShotsAreSavedOnce ==
    Spec => [](FirstSeedsAgree(config) /\ SeedsAreShared(config) => JobsSaveEachShotOnce)
<1> DEFINE Shares == FirstSeedsAgree(config) /\ SeedsAreShared(config)
           Inv == Shares => SharedWell
<1>1. Init => Inv
    BY InitIsShared
<1>2. Shape /\ PoolsFit /\ PoolsFit' /\ Inv /\ [Next]_vars => Inv'
    <2> SUFFICES ASSUME Shape, PoolsFit, PoolsFit', Inv, [Next]_vars, Shares'
                 PROVE  SharedWell'
        OBVIOUS
    <2>1. config' = config
        BY ShellsMove, OneShellMoves DEF vars
    <2>2. Shares
        BY <2>1
    <2> QED
        BY <2>2, SharedStepOfAll
<1>3. Shape /\ PoolsFit /\ Inv /\ TypeOK /\ EndedJobsSavedTheirSeeds
        => (Shares => JobsSaveEachShotOnce)
    BY NoShotTwice DEF JobsSaveEachShotOnce, SavedShotsAreOnce
<1> QED
    BY <1>1, <1>2, <1>3, ShapeIsKept, PoolsAreKept, TypeCorrect, JobsSaveTheirSeeds, PTL DEF Spec

-----------------------------------------------------------------------------
(* The rows of a fold *)

\* Where the row of a task stands after the seeds below x: it has counted as
\* many as there are from the first one on, up to the stop.
StandsAt(rule, end, t, x) ==
    LET k == IF x <= rule.firstSeed THEN 0
             ELSE IF x >= rule.firstSeed + end THEN end ELSE x - rule.firstSeed
    IN  t.shots = k /\ (k < end => t.open)

\* The row of a task is a prefix of an uncut run, and one up to its stop where
\* the pieces begin with the first seed and have every seed up to there.
LEMMA RowFacts ==
    ASSUME NEW id, NEW rule \in RuleType, NEW F, IsFiniteSet(F),
           \A p \in F : p.first \in Nat /\ p.count \in Nat
    PROVE  LET r == RowOf(id, rule, F)
               seeds == UNION {SeedsOf(p) : p \in PiecesOf(id, F)}
               end == UncutStop(id, rule)
           IN  /\ UncutPrefix(id, rule, r)
               /\ /\ \A x \in seeds : rule.firstSeed <= x
                  /\ rule.firstSeed .. rule.firstSeed + end - 1 \subseteq seeds
                  => r.shots = end
<1> DEFINE seeds == UNION {SeedsOf(p) : p \in PiecesOf(id, F)}
           ends == {0} \cup {x + 1 : x \in seeds}
           last == Max(ends)
           end == UncutStop(id, rule)
           first == rule.firstSeed
<1>1. first \in Nat /\ end \in Nat \ {0}
    BY UncutStopFacts DEF RuleType
<1>2. IsFiniteSet(seeds) /\ \A x \in seeds : x \in Nat
    <2>1. IsFiniteSet(PiecesOf(id, F)) /\ PiecesOf(id, F) \subseteq F
        BY FS_Subset DEF PiecesOf
    <2> DEFINE f == [p \in PiecesOf(id, F) |-> SeedsOf(p)]
               R == {f[p] : p \in PiecesOf(id, F)}
    <2>2. IsFiniteSet(R)
        <3> HIDE DEF f
        <3> QED
            BY <2>1, FiniteImage
    <2>3. \A S \in R : IsFiniteSet(S) /\ \A x \in S : x \in Nat
        <3>1. ASSUME NEW p \in PiecesOf(id, F)
              PROVE  IsFiniteSet(SeedsOf(p)) /\ \A x \in SeedsOf(p) : x \in Nat
            <4>1. p.first \in Nat /\ p.first + p.count - 1 \in Int
                BY <2>1
            <4> QED
                BY <4>1, FS_Interval DEF SeedsOf
        <3> QED
            BY <3>1
    <2>4. seeds = UNION R
        OBVIOUS
    <2> HIDE DEF R
    <2>5. IsFiniteSet(UNION R)
        BY <2>2, <2>3, FS_UNION
    <2> QED
        BY <2>3, <2>4, <2>5
<1> HIDE DEF seeds
<1>3. last \in Nat /\ \A x \in seeds : x + 1 <= last
    <2> DEFINE f == [x \in seeds |-> x + 1]
    <2>1. IsFiniteSet({f[x] : x \in seeds})
        <3> HIDE DEF f
        <3> QED
            BY <1>2, FiniteImage
    <2>2. {f[x] : x \in seeds} = {x + 1 : x \in seeds}
        OBVIOUS
    <2>3. IsFiniteSet(ends)
        <3>1. IsFiniteSet({x + 1 : x \in seeds})
            BY <2>1, <2>2
        <3>2. ends = {x + 1 : x \in seeds} \cup {0}
            OBVIOUS
        <3> QED
            BY <3>1, <3>2, FS_AddElement
    <2>4. 0 \in ends /\ \A x \in ends : x \in Nat
        BY <1>2
    <2>5. \A x \in seeds : x + 1 \in ends
        OBVIOUS
    <2> HIDE DEF ends
    <2> QED
        BY <2>3, <2>4, <2>5, MaxFacts
<1> HIDE DEF ends, last, end, first
<1> DEFINE V == {x \in Trackers : UncutPrefix(id, rule, x)}
           step == [n \in 1 .. last |->
                       [x \in V |-> IF n - 1 \in seeds THEN AddShot(id, rule, x, n - 1) ELSE x]]
<1>4. StartOfPrefix \in V
    BY StartIsUncut DEF UncutPrefix
<1>5. ASSUME NEW n \in 1 .. last, NEW x \in V
      PROVE  (IF n - 1 \in seeds THEN AddShot(id, rule, x, n - 1) ELSE x) \in V
    <2>1. n - 1 \in Nat
        BY <1>3
    <2>2. UncutPrefix(id, rule, AddShot(id, rule, x, n - 1))
        BY <2>1, AddShotFacts
    <2> QED
        BY <2>2 DEF UncutPrefix
<1>6. step \in [1 .. last -> [V -> V]]
    BY <1>5
<1> HIDE DEF V
<1>7. PICK d \in [0 .. last -> V] : RunsUp(d, last, StartOfPrefix, step)
    <2> HIDE DEF step
    <2> QED
        BY <1>3, <1>4, <1>6, UpwardRecursion
<1>8. ASSUME NEW n \in 1 .. last
      PROVE  d[n] = IF n - 1 \in seeds THEN AddShot(id, rule, d[n - 1], n - 1) ELSE d[n - 1]
    <2>1. n - 1 \in 0 .. last
        BY <1>3
    <2> QED
        BY <1>7, <2>1 DEF RunsUp
<1> DEFINE body(f) == [x \in 0 .. last |->
                IF x = 0 THEN StartOfPrefix
                ELSE IF x - 1 \in seeds THEN AddShot(id, rule, f[x - 1], x - 1) ELSE f[x - 1]]
           below == CHOOSE f : f = body(f)
<1>9. d = body(d)
    <2>1. ASSUME NEW n \in 0 .. last
          PROVE  d[n] = body(d)[n]
        <3>1. n = 0 \/ n \in 1 .. last
            BY <1>3
        <3> QED
            BY <1>7, <1>8, <3>1 DEF RunsUp
    <2> QED
        BY <1>7, <2>1
<1>10. below = body(below)
    <2> HIDE DEF body
    <2> QED
        BY <1>9
<1>11. RowOf(id, rule, F) = below[last]
    BY DEF RowOf, seeds, last, ends
<1> HIDE DEF below
<1>12. below[0] = StartOfPrefix
    BY <1>3, <1>10
<1>13. ASSUME NEW n \in 1 .. last
       PROVE  below[n] = IF n - 1 \in seeds THEN AddShot(id, rule, below[n - 1], n - 1)
                         ELSE below[n - 1]
    BY <1>3, <1>10
<1>14. \A n \in 0 .. last : UncutPrefix(id, rule, below[n])
    <2> DEFINE T == {n \in 0 .. last : UncutPrefix(id, rule, below[n])}
    <2>1. 0 \in T
        BY <1>3, <1>12, StartIsUncut
    <2>2. ASSUME NEW n \in 1 .. last, n - 1 \in T
          PROVE  n \in T
        <3>1. n - 1 \in Nat
            BY <1>3
        <3>2. UncutPrefix(id, rule, AddShot(id, rule, below[n - 1], n - 1))
            BY <2>2, <3>1, AddShotFacts
        <3> QED
            BY <1>3, <1>13, <2>2, <3>2
    <2> HIDE DEF T
    <2>3. \A n \in 0 .. last : n \in T
        BY <1>3, <2>1, <2>2, ClimbsUp
    <2> QED
        BY <2>3 DEF T
<1>15. ASSUME \A x \in seeds : first <= x, first .. first + end - 1 \subseteq seeds
       PROVE  \A n \in 0 .. last : StandsAt(rule, end, below[n], n)
    <2> DEFINE T == {n \in 0 .. last : StandsAt(rule, end, below[n], n)}
    <2>1. 0 \in T
        BY <1>1, <1>3, <1>12 DEF StandsAt, StartOfPrefix, first
    <2>2. ASSUME NEW n \in 1 .. last, n - 1 \in T
          PROVE  n \in T
        <3> DEFINE x == below[n - 1]
                   y == below[n]
        <3>1. n - 1 \in Nat /\ n \in Nat /\ n \in 0 .. last /\ n - 1 \in 0 .. last
            BY <1>3
        <3>2. UncutPrefix(id, rule, x) /\ StandsAt(rule, end, x, n - 1)
            BY <1>14, <2>2, <3>1
        <3>3. y = IF n - 1 \in seeds THEN AddShot(id, rule, x, n - 1) ELSE x
            BY <1>13
        <3> HIDE DEF x, y
        <3>4. CASE n - 1 < first
            <4>1. n - 1 \notin seeds /\ n <= first
                BY <1>1, <1>15, <3>1, <3>4
            <4> QED
                BY <1>1, <3>1, <3>2, <3>3, <3>4, <4>1 DEF StandsAt, first, y
        <3>5. CASE first <= n - 1 /\ n - 1 < first + end
            <4>1. n - 1 \in seeds
                BY <1>1, <1>15, <3>1, <3>5
            <4>2. x.shots = n - 1 - first /\ x.open
                BY <1>1, <3>1, <3>2, <3>5 DEF StandsAt, first
            <4>3. n - 1 = rule.firstSeed + x.shots
                BY <1>1, <3>1, <4>2 DEF first
            <4>4. /\ UncutPrefix(id, rule, y) /\ y.shots = x.shots + 1
                  /\ (y.open <=> y.stop = None)
                BY <3>1, <3>2, <3>3, <4>1, <4>2, <4>3, AddShotFacts
            <4>5. y.shots = n - first
                BY <1>1, <3>1, <4>2, <4>4
            <4>6. n - first < end => y.open
                BY <1>1, <3>1, <4>4, <4>5 DEF UncutPrefix, IsAnUncutRun, end
            <4> QED
                BY <1>1, <3>1, <3>5, <4>5, <4>6 DEF StandsAt, first, y
        <3>6. CASE first + end <= n - 1
            <4>1. x.shots = end
                BY <1>1, <3>1, <3>2, <3>6 DEF StandsAt, first
            <4>2. x.stop # None
                BY <3>2, <4>1, UncutStopFacts DEF UncutPrefix, IsAnUncutRun, end
            <4>3. ~x.open
                BY <3>2, <4>2 DEF UncutPrefix
            <4>4. y = x
                BY <3>1, <3>2, <3>3, <4>3, AddShotFacts
            <4> QED
                BY <1>1, <3>1, <3>6, <4>1, <4>4 DEF StandsAt, first, y
        <3> QED
            BY <1>1, <3>1, <3>4, <3>5, <3>6
    <2> HIDE DEF T
    <2>3. \A n \in 0 .. last : n \in T
        BY <1>3, <2>1, <2>2, ClimbsUp
    <2> QED
        BY <2>3 DEF T
<1>16. ASSUME \A x \in seeds : first <= x, first .. first + end - 1 \subseteq seeds
       PROVE  below[last].shots = end
    <2>1. first + end - 1 \in seeds
        BY <1>1, <1>16
    <2>2. first + end <= last
        BY <1>1, <1>2, <1>3, <2>1
    <2>3. StandsAt(rule, end, below[last], last)
        BY <1>3, <1>15, <1>16
    <2> QED
        BY <1>1, <1>3, <2>2, <2>3 DEF StandsAt, first
<1>17. last \in 0 .. last
    BY <1>3
<1> QED
    BY <1>11, <1>14, <1>16, <1>17 DEF seeds, end, first

-----------------------------------------------------------------------------
(* What a collect has behind it *)

\* A step of a shell that changes a collection.
LEMMA CollectionSteps ==
    ASSUME Shape, NEW s \in Shells, Moves(s)
    PROVE  \/ Rested(s) \/ ReadSaved(s) \/ HandOut(s) \/ \E u \in running[s] : PieceEnds(s, u)
           \/ /\ collection'[s] = collection[s]
              /\ command' = command \/ at[s] \in Resting
<1>1. CASE WentOn(s) /\ at'[s] \notin Resting
    BY <1>1 DEF WentOn
<1>2. CASE Works(s) /\ at'[s] \notin Resting /\ command' = command
    <2>0. \A how \in Resting : ~Leaves(s, how)
        BY <1>2 DEF Leaves, Shape, OwnDomains
    <2>1. CASE OpenRecord(s) \/ WriteRecord(s) \/ CollectStops(s) \/ FoldLists(s) \/ JobStarts(s)
        BY <1>2, <2>0, <2>1
            DEF OpenRecord, WriteRecord, CollectStops, FoldLists, JobStarts, Goes, inMemory, own,
                Resting
    <2>2. CASE FoldStages(s) \/ ListOldFiles(s) \/ ListNewFiles(s) \/ ReadRecords(s)
        BY <1>2, <2>0, <2>2 DEF FoldStages, ListOldFiles, ListNewFiles, ReadRecords, Goes, Resting
    <2>3. CASE \E n \in Names : RecordSeeds(s, n)
        BY <1>2, <2>3 DEF RecordSeeds
    <2>4. CASE \E f \in CsvFiles : RemoveFile(s, f) \/ MoveFile(s, f)
        BY <1>2, <2>0, <2>4 DEF RemoveFile, MoveFile, Resting
    <2>5. CASE \E u \in running[s] : JobPieceEnds(s, u)
        BY <1>2, <2>5 DEF JobPieceEnds
    <2> QED
        BY <1>2, <2>1, <2>2, <2>3, <2>4, <2>5 DEF Works
<1> QED
    BY <1>1, <1>2, StepsOfAShell

\* A collect that reads the saved pieces begins with what it chose.
LEMMA ReadSavedFacts ==
    ASSUME Shape, NEW s \in Shells, ReadSaved(s)
    PROVE  \A n \in DOMAIN collection'[s] : \E e \in Range(Chosen(s)) :
                /\ collection'[s][n] = NewCollection(e)
                /\ e \in EntriesOfFiles /\ e.name = n
<1>1. config \in Settings /\ command[s] \in config.shells[s] /\ command[s].verb # "fold"
    BY DEF ReadSaved, Shape, ShapeOf, VerbFits, Resting
<1>2. Range(Chosen(s)) \subseteq EntriesOfFiles
    BY <1>1, ChosenFacts
<1>3. collection'[s] = [n \in {e.name : e \in Range(Chosen(s))} |->
                        NewCollection(CHOOSE e \in Range(Chosen(s)) : e.name = n)]
    BY DEF ReadSaved, Shape, OwnDomains
<1>4. ASSUME NEW n \in DOMAIN collection'[s]
      PROVE  \E e \in Range(Chosen(s)) :
                /\ collection'[s][n] = NewCollection(e)
                /\ e \in EntriesOfFiles /\ e.name = n
    <2> DEFINE e == CHOOSE x \in Range(Chosen(s)) : x.name = n
    <2>1. \E x \in Range(Chosen(s)) : x.name = n
        BY <1>3
    <2>2. e \in Range(Chosen(s)) /\ e.name = n
        BY <2>1
    <2>3. collection'[s][n] = NewCollection(e)
        BY <1>3, <1>4
    <2> QED
        BY <1>2, <2>2, <2>3
<1> QED
    BY <1>4

\* Each seed of a task from the first one up to the next one to hand out is on
\* the disk, or in a piece that waits.
Covers(c) ==
    \A x \in c.entry.rule.firstSeed .. c.next - 1 :
        x \in SavedSeeds(c.entry.id) \/ \E q \in Waits(c) : x \in SeedsOf(q)
CoversTasks(s) == \A n \in DOMAIN collection[s] : \A c \in {collection[s][n]} : Covers(c)

LEMMA CoversOn ==
    ASSUME saved \subseteq saved', NEW s, collection'[s] = collection[s], CoversTasks(s)
    PROVE  CoversTasks(s)'
<1>1. \A id : SavedSeeds(id) \subseteq SavedSeeds(id)'
    BY SavedSeedsGrow
<1>2. \A c : Covers(c) => Covers(c)'
    BY <1>1 DEF Covers, Waits
<1> QED
    BY <1>2 DEF CoversTasks

LEMMA CoversStep ==
    ASSUME Shape, PoolsFit, NEW s \in Shells, Moves(s), saved \subseteq saved', CoversTasks(s)
    PROVE  CoversTasks(s)'
<1>1. config' = config /\ config \in Settings /\ PoolOf(s) /\ SavedFits
    BY OneShellMoves DEF PoolsFit, Shape
<1>2. \A id : SavedSeeds(id) \subseteq SavedSeeds(id)'
    BY SavedSeedsGrow
<1>3. \A c : Covers(c) => Covers(c)'
    BY <1>2 DEF Covers, Waits
<1>4. CASE Rested(s)
    BY <1>4 DEF Rested, RestingMemory, CoversTasks
<1>5. CASE ReadSaved(s)
    <2>1. \A n \in DOMAIN collection'[s] : \E e \in Range(Chosen(s)) :
            collection'[s][n] = NewCollection(e) /\ e \in EntriesOfFiles
        BY <1>5, ReadSavedFacts
    <2>2. ASSUME NEW e \in EntriesOfFiles
          PROVE  Covers(NewCollection(e))
        <3>1. e.rule.firstSeed \in Nat
            BY <1>1, EntryFacts DEF RuleType
        <3> QED
            BY <3>1 DEF Covers, NewCollection
    <2> QED
        BY <1>3, <2>1, <2>2 DEF CoversTasks
<1>6. CASE HandOut(s)
    <2>1. PICK n, c, p, r, more : HandsOut(s, n, c, p, r, more)
        BY <1>1, <1>6, HandOutPool
    <2>2. /\ n \in DOMAIN collection[s] /\ c = collection[s][n] /\ TaskFits(s, n, c)
          /\ p \in Spans /\ p.first = c.next /\ saved' = saved
          /\ collection'[s][n] = r /\ DOMAIN collection'[s] = DOMAIN collection[s]
          /\ \A m \in DOMAIN collection[s] : m # n => collection'[s][m] = collection[s][m]
          /\ r.entry = c.entry /\ r.next = p.first + p.count
          /\ Waits(r) = Waits(c) \cup {SpanOf(v) : v \in more}
          /\ \A v \in more : SpanOf(v) = p
          /\ (more = {} <=> p \in c.saved)
        BY <2>1 DEF HandsOut
    <2>3. ASSUME NEW x \in SeedsOf(p)
          PROVE  x \in SavedSeeds(c.entry.id) \/ \E q \in Waits(r) : x \in SeedsOf(q)
        <3>1. CASE p \in c.saved
            <4>1. PICK q \in PiecesOf(c.entry.id, saved) : SpanOf(q) = p
                BY <2>2, <3>1 DEF TaskFits
            <4>2. x \in SeedsOf(q)
                BY <4>1 DEF SpanOf, Span, SeedsOf
            <4> QED
                BY <4>1, <4>2 DEF SavedSeeds
        <3>2. CASE p \notin c.saved
            <4>1. p \in Waits(r)
                BY <2>2, <3>2
            <4> QED
                BY <4>1
        <3> QED
            BY <3>1, <3>2
    <2>4. Covers(c) /\ Counting(c) /\ c.entry.rule.firstSeed \in Nat /\ c.next \in Nat
        <3>1. Covers(c) /\ Counting(c)
            BY <2>2 DEF CoversTasks, TaskFits
        <3>2. c.entry \in EntriesOfFiles /\ c.next \in Nat
            BY <3>1 DEF Counting, Collections
        <3> QED
            BY <1>1, <3>1, <3>2, EntryFacts DEF RuleType
    <2>5. Covers(r)
        <3>1. ASSUME NEW x \in r.entry.rule.firstSeed .. r.next - 1
              PROVE  x \in SavedSeeds(r.entry.id) \/ \E q \in Waits(r) : x \in SeedsOf(q)
            <4>1. x \in c.entry.rule.firstSeed .. c.next - 1 \/ x \in SeedsOf(p)
                BY <2>2, <2>4 DEF SeedsOf, Spans
            <4> QED
                BY <2>2, <2>3, <2>4, <4>1 DEF Covers
        <3> QED
            BY <3>1 DEF Covers
    <2> QED
        BY <1>3, <2>2, <2>5 DEF CoversTasks
<1>7. CASE \E u \in running[s] : PieceEnds(s, u)
    <2>1. PICK u \in running[s] : PieceEnds(s, u)
        BY <1>7
    <2>2. PICK c, r : UnitEnds(s, u, c, r)
        BY <1>1, <2>1, PieceEndsPool
    <2> DEFINE n == u.name
    <2>3. /\ n \in DOMAIN collection[s] /\ c = collection[s][n]
          /\ Save(u) /\ UnitFits(u) /\ u.id = c.entry.id
          /\ collection'[s][n] = r /\ DOMAIN collection'[s] = DOMAIN collection[s]
          /\ \A m \in DOMAIN collection[s] : m # n => collection'[s][m] = collection[s][m]
          /\ r.entry = c.entry /\ r.next = c.next /\ Waits(r) = Waits(c) \ {SpanOf(u)}
        BY <2>2 DEF UnitEnds
    <2>4. PICK p \in PiecesOf(u.id, saved') : SpanOf(p) = SpanOf(u)
        BY <1>1, <2>3, SaveFacts
    <2>5. SeedsOf(SpanOf(u)) \subseteq SavedSeeds(u.id)'
        <3>1. SeedsOf(SpanOf(p)) = SeedsOf(p)
            BY DEF SpanOf, Span, SeedsOf
        <3> QED
            BY <2>4, <3>1 DEF SavedSeeds
    <2>6. Covers(c)
        BY <2>3 DEF CoversTasks
    <2>7. Covers(r)'
        BY <1>2, <2>3, <2>5, <2>6 DEF Covers, Waits
    <2> QED
        BY <1>3, <2>3, <2>7 DEF CoversTasks
<1> QED
    BY <1>4, <1>5, <1>6, <1>7, CollectionSteps, CoversOn

\* A task of a collect that has handed out all it takes and waits for nothing
\* stopped, and the seeds up to its stop are on the disk.
HasSeeds(e, F) ==
    e.rule.firstSeed .. e.rule.firstSeed + UncutStop(e.id, e.rule) - 1
        \subseteq UNION {SeedsOf(p) : p \in PiecesOf(e.id, F)}

LEMMA StoppedHasSeeds ==
    ASSUME config \in Settings, NEW s, NEW n, NEW c, TaskFits(s, n, c), Covers(c),
           Waits(c) = {}, ~TakesAPiece(c)
    PROVE  HasSeeds(c.entry, saved)
<1> DEFINE rule == c.entry.rule
           id == c.entry.id
           end == UncutStop(id, rule)
           t == c.tracker
<1>1. /\ Counting(c) /\ HeadWaits(c) /\ c.next \in Nat /\ c.entry \in EntriesOfFiles
      /\ UncutPrefix(id, rule, t) /\ rule.firstSeed + t.shots <= c.next
      /\ c.pending \in Seq(Spans) /\ c.finished \subseteq Range(c.pending)
    BY DEF TaskFits, Counting, Collections
<1>2. rule \in RuleType /\ rule.firstSeed \in Nat /\ rule.maxShots \in Nat /\ rule.pieceShots \in Nat \ {0}
    BY <1>1, EntryFacts DEF RuleType
<1>3. end \in 1 .. rule.maxShots
    BY <1>2, UncutStopFacts
<1>4. /\ t.shots \in Nat /\ t.shots <= end
      /\ t.stop # None => t.shots = end
    BY <1>1 DEF UncutPrefix, Trackers, IsAnUncutRun
<1>5. t.stop # None
    <2> SUFFICES ASSUME t.stop = None
                 PROVE  FALSE
        OBVIOUS
    <2>1. c.pending = <<>>
        BY <1>1, IdleFacts
    <2>2. rule.firstSeed + t.shots = c.next
        BY <1>1, <2>1 DEF Counting
    <2>3. RunningCount(c) = 0
        <3>1. c.finished = {}
            BY <1>1, <2>1 DEF Range
        <3>2. Cardinality(c.finished) = 0
            BY <3>1, FS_EmptySet
        <3> QED
            BY <2>1, <3>2 DEF RunningCount
    <2>4. ~(NextPieceCount(c) > 0)
        BY <2>3 DEF TakesAPiece
    <2> DEFINE left == rule.firstSeed + rule.maxShots - c.next
               most == Max({left, 0})
    <2>5. left \in Int /\ NextPieceCount(c) = Min({rule.pieceShots, most})
        BY <1>1, <1>2 DEF NextPieceCount
    <2> HIDE DEF left
    <2>6. most = IF left >= 0 THEN left ELSE 0
        BY <2>5, OfTwo
    <2> HIDE DEF most
    <2>7. most \in Int /\ Min({rule.pieceShots, most})
                            = IF rule.pieceShots <= most THEN rule.pieceShots ELSE most
        <3>1. most \in Int /\ rule.pieceShots \in Int
            BY <1>2, <2>5, <2>6
        <3> QED
            BY <3>1, OfTwo
    <2> HIDE DEF rule, t, end
    <2>8. left <= 0
        BY <1>2, <2>4, <2>5, <2>6, <2>7
    <2>9. t.shots >= rule.maxShots
        BY <1>1, <1>2, <1>4, <2>2, <2>8 DEF left
    <2>10. t.shots = end
        BY <1>2, <1>3, <1>4, <2>9
    <2> QED
        BY <1>1, <1>2, <2>10, UncutStopFacts DEF UncutPrefix, IsAnUncutRun, end, t
<1>6. ASSUME NEW x \in rule.firstSeed .. rule.firstSeed + end - 1
      PROVE  x \in SavedSeeds(id)
    <2>1. x \in rule.firstSeed .. c.next - 1
        <3> HIDE DEF rule, t, end
        <3> QED
            BY <1>1, <1>2, <1>3, <1>4, <1>5
    <2> QED
        BY <2>1 DEF Covers
<1> QED
    BY <1>6 DEF HasSeeds, SavedSeeds

-----------------------------------------------------------------------------
(* Where pieces begin *)

\* A step of a shell that changes its units or the pieces on the disk.
LEMMA UnitSteps ==
    ASSUME Shape, NEW s \in Shells, Moves(s)
    PROVE  \/ Rested(s) \/ HandOut(s) \/ (\E u \in running[s] : PieceEnds(s, u))
           \/ (JobStarts(s) /\ at'[s] \notin Resting)
           \/ (\E u \in running[s] : JobPieceEnds(s, u))
           \/ /\ running'[s] = running[s] /\ queued'[s] = queued[s] /\ saved' = saved
<1>1. CASE WentOn(s) /\ at'[s] \notin Resting
    BY <1>1 DEF WentOn
<1>2. CASE Works(s) /\ at'[s] \notin Resting /\ command' = command
    <2>0. \A how \in Resting : ~Leaves(s, how)
        BY <1>2 DEF Leaves, Shape, OwnDomains
    <2>1. CASE OpenRecord(s) \/ WriteRecord(s) \/ CollectStops(s) \/ FoldLists(s) \/ ReadSaved(s)
        BY <1>2, <2>0, <2>1
            DEF OpenRecord, WriteRecord, CollectStops, FoldLists, ReadSaved, Goes, inMemory, disk,
                own, Resting
    <2>2. CASE FoldStages(s) \/ ListOldFiles(s) \/ ListNewFiles(s) \/ ReadRecords(s)
        BY <1>2, <2>0, <2>2
            DEF FoldStages, ListOldFiles, ListNewFiles, ReadRecords, Goes, Resting, disk
    <2>3. CASE \E n \in Names : RecordSeeds(s, n)
        BY <1>2, <2>3 DEF RecordSeeds
    <2>4. CASE \E f \in CsvFiles : RemoveFile(s, f) \/ MoveFile(s, f)
        BY <1>2, <2>0, <2>4 DEF RemoveFile, MoveFile, Resting
    <2> QED
        BY <1>2, <2>1, <2>2, <2>3, <2>4 DEF Works
<1> QED
    BY <1>1, <1>2, StepsOfAShell

\* No piece on the disk and no unit of a process begins before its task does.
BeginsRight(p) == \A e \in Holders(p.id) : e.rule.firstSeed <= p.first
UnitsBegin(s) == \A u \in UnitsIn(s) : BeginsRight(u)
FromFirst == (\A p \in saved : BeginsRight(p)) /\ \A s \in Shells : UnitsBegin(s)

LEMMA FromFirstStep ==
    ASSUME Shape, PoolsFit, FromFirst, FirstSeedsAgree(config), NEW s \in Shells, Moves(s)
    PROVE  FromFirst'
<1>1. /\ config' = config /\ config \in Settings /\ PoolOf(s) /\ SavedFits /\ Shells' = Shells
      /\ \A t \in Shells \ {s} : Keeps(t)
    BY OneShellMoves DEF PoolsFit, Shape, Shells
<1>2. /\ \A p : BeginsRight(p)' <=> BeginsRight(p)
      /\ \A p, q : p.id = q.id /\ SpanOf(p) = SpanOf(q) /\ BeginsRight(q) => BeginsRight(p)
    BY <1>1 DEF BeginsRight, Holders, EntriesOfFiles, SpanOf, Span
<1>3. \A t \in Shells \ {s} : UnitsBegin(t)'
    BY <1>1, <1>2 DEF FromFirst, UnitsBegin, UnitsIn, Keeps, Range
<1>4. ASSUME UnitsBegin(s)', \A p \in saved' \ saved : BeginsRight(p)
      PROVE  FromFirst'
    <2>1. \A p \in saved' : BeginsRight(p)'
        BY <1>2, <1>4 DEF FromFirst
    <2>2. \A t \in Shells' : UnitsBegin(t)'
        BY <1>1, <1>3, <1>4
    <2> QED
        BY <2>1, <2>2 DEF FromFirst
<1>5. ASSUME UnitsIn(s)' \subseteq UnitsIn(s)
      PROVE  UnitsBegin(s)'
    BY <1>2, <1>5 DEF FromFirst, UnitsBegin
<1>6. ASSUME NEW u \in running[s], Save(u)
      PROVE  \A p \in saved' \ saved : BeginsRight(p)
    <2>1. BeginsRight(u) /\ UnitFits(u)
        BY <1>1, <1>6 DEF FromFirst, UnitsBegin, UnitsIn, PoolOf
    <2>2. \A p \in saved' \ saved : p.id = u.id /\ SpanOf(p) = SpanOf(u)
        BY <1>1, <1>6, <2>1, SaveFacts
    <2> QED
        BY <1>2, <2>1, <2>2
<1>7. CASE Rested(s)
    <2>1. saved' = saved /\ UnitsIn(s)' = {}
        BY <1>7 DEF Rested, RestingMemory, UnitsIn, Range
    <2> QED
        BY <1>4, <1>5, <2>1
<1>8. CASE HandOut(s)
    <2>1. PICK n, c, p, r, more : HandsOut(s, n, c, p, r, more)
        BY <1>1, <1>8, HandOutPool
    <2>2. /\ TaskFits(s, n, c) /\ p.first = c.next /\ saved' = saved
          /\ queued' = queued /\ running'[s] = running[s] \cup more
          /\ \A v \in more : v.id = c.entry.id /\ SpanOf(v) = p
        BY <2>1 DEF HandsOut
    <2>3. /\ c.entry \in EntriesOfFiles /\ c.next \in Nat /\ c.tracker.shots \in Nat
          /\ c.entry.rule.firstSeed + c.tracker.shots <= c.next
        BY <2>2 DEF TaskFits, Counting, Collections, UncutPrefix, Trackers
    <2>4. c.entry.rule.firstSeed \in Nat
        BY <1>1, <2>3, EntryFacts DEF RuleType
    <2>5. c.entry.rule.firstSeed <= c.next
        BY <2>3, <2>4
    <2>6. ASSUME NEW v \in more
          PROVE  BeginsRight(v)
        <3>1. v.first = c.next
            BY <2>2 DEF SpanOf, Span
        <3>2. \A e \in Holders(v.id) : e.rule.firstSeed = c.entry.rule.firstSeed
            BY <2>2, <2>3 DEF Holders, FirstSeedsAgree, EntriesOfFiles
        <3> QED
            BY <2>5, <3>1, <3>2 DEF BeginsRight
    <2>7. UnitsIn(s)' = UnitsIn(s) \cup more
        BY <2>2 DEF UnitsIn, Range
    <2>8. UnitsBegin(s)'
        BY <1>2, <2>6, <2>7 DEF FromFirst, UnitsBegin
    <2> QED
        BY <1>4, <2>2, <2>8
<1>9. CASE \E u \in running[s] : PieceEnds(s, u)
    <2>1. PICK u \in running[s] : PieceEnds(s, u)
        BY <1>9
    <2>2. Save(u) /\ running'[s] = running[s] \ {u} /\ queued' = queued
        BY <2>1 DEF PieceEnds, Shape, OwnDomains
    <2>3. UnitsIn(s)' \subseteq UnitsIn(s)
        BY <2>2 DEF UnitsIn, Range
    <2> QED
        BY <1>4, <1>5, <1>6, <2>2, <2>3
<1>10. CASE JobStarts(s) /\ at'[s] \notin Resting
    <2>1. /\ command[s] \in config.shells[s] /\ command[s].verb = "job" /\ saved' = saved
          /\ Range(JobUnits(s)) = running'[s] \cup Range(queued'[s])
        BY <1>1, <1>10, JobStartsFacts DEF SavedFits
    <2>2. ASSUME NEW u \in Range(JobUnits(s))
          PROVE  BeginsRight(u)
        <3>1. PICK e \in EntriesOfFiles : u.id = e.id /\ e.rule.firstSeed <= u.first
            BY <2>1, NewUnitFacts
        <3>2. \A d \in Holders(u.id) : d.rule.firstSeed = e.rule.firstSeed
            BY <3>1 DEF Holders, FirstSeedsAgree, EntriesOfFiles
        <3> QED
            BY <3>1, <3>2 DEF BeginsRight
    <2>3. UnitsIn(s)' = Range(JobUnits(s))
        BY <2>1 DEF UnitsIn
    <2>4. UnitsBegin(s)'
        BY <1>2, <2>2, <2>3 DEF UnitsBegin
    <2> QED
        BY <1>4, <2>1, <2>4
<1>11. CASE \E u \in running[s] : JobPieceEnds(s, u)
    <2>1. PICK u \in running[s] : JobPieceEnds(s, u)
        BY <1>11
    <2>2. running'[s] \cup Range(queued'[s]) = (running[s] \ {u}) \cup Range(queued[s])
        BY <1>1, <2>1, JobPieceEndsFacts
    <2>3. UnitsIn(s)' \subseteq UnitsIn(s)
        BY <2>2 DEF UnitsIn
    <2>4. Save(u)
        BY <2>1 DEF JobPieceEnds
    <2> QED
        BY <1>4, <1>5, <1>6, <2>3, <2>4
<1>12. CASE running'[s] = running[s] /\ queued'[s] = queued[s] /\ saved' = saved
    <2>1. UnitsIn(s)' \subseteq UnitsIn(s)
        BY <1>12 DEF UnitsIn
    <2> QED
        BY <1>4, <1>5, <1>12, <2>1
<1> QED
    BY <1>7, <1>8, <1>9, <1>10, <1>11, <1>12, UnitSteps

-----------------------------------------------------------------------------
(* The records that a collect wrote *)

\* The record of e's name says what e says, with some seeds.
Own(e) == \E S \in SUBSET Nat : record[e.name] = [id |-> e.id, rule |-> e.rule, seeds |-> S]

\* Before a collect has read the saved pieces each of its entries has its record
\* or is still to be written; afterwards each has it, until the fold writes.
OwnRecords(s) ==
    /\ at[s] = "recording" =>
        /\ IsInjective(toWrite[s]) /\ Range(toWrite[s]) \subseteq Range(Chosen(s))
        /\ \A e \in Range(Chosen(s)) : e \in Range(toWrite[s]) \/ Own(e)
    /\ at[s] \in CollectPlaces \ {"seeds"} =>
        \A n \in DOMAIN collection[s] : \A c \in {collection[s][n]} : Own(c.entry)

\* Where records are written.
LEMMA RecordSteps ==
    ASSUME Shape, NEW s \in Shells, Moves(s)
    PROVE  record' = record \/ at[s] \in {"recording", "shot record", "seeds"}
<1>1. CASE Rested(s) \/ WentOn(s)
    BY <1>1 DEF Rested, WentOn
<1>2. CASE Works(s)
    <2>1. CASE OpenRecord(s) \/ WriteRecord(s) \/ \E n \in Names : RecordSeeds(s, n)
        BY <2>1 DEF OpenRecord, WriteRecord, RecordSeeds
    <2>2. CASE \/ CollectStops(s) \/ FoldLists(s) \/ ReadSaved(s) \/ JobStarts(s) \/ HandOut(s)
               \/ \E u \in running[s] : PieceEnds(s, u) \/ JobPieceEnds(s, u)
        BY <2>2 DEF CollectStops, FoldLists, ReadSaved, JobStarts, HandOut, PieceEnds,
                    JobPieceEnds, disk
    <2>3. CASE \/ FoldStages(s) \/ ListOldFiles(s) \/ ListNewFiles(s) \/ ReadRecords(s)
               \/ \E f \in CsvFiles : RemoveFile(s, f) \/ MoveFile(s, f)
        BY <2>3 DEF FoldStages, ListOldFiles, ListNewFiles, ReadRecords, RemoveFile, MoveFile, disk
    <2> QED
        BY <1>2, <2>1, <2>2, <2>3 DEF Works
<1> QED
    BY <1>1, <1>2, StepsOfAShell

\* The records of the one collect stay when another shell moves.
LEMMA OwnRecordsStay ==
    ASSUME Shape, PoolsFit, OneDesk(config), NEW s \in Shells, Moves(s), NEW t \in Shells, t # s,
           OwnRecords(t), config' = config, Keeps(t)
    PROVE  OwnRecords(t)'
<1>1. Chosen(t)' = Chosen(t)
    BY DEF Chosen, Entries, Keeps
<1>2. CASE at[t] \in Resting \cup {"job", "running"}
    <2>1. at'[t] # "recording" /\ at'[t] \notin CollectPlaces
        BY <1>2 DEF Keeps, Resting, CollectPlaces
    <2> QED
        BY <2>1 DEF OwnRecords
<1>3. CASE at[t] \notin Resting \cup {"job", "running"}
    <2>1. at[s] \notin {"recording", "shot record", "seeds"}
        BY <1>3, OneFolds DEF Resting
    <2>2. record' = record
        BY <2>1, RecordSteps
    <2>3. \A e : Own(e) => Own(e)'
        BY <2>2 DEF Own
    <2> QED
        BY <1>1, <2>3 DEF OwnRecords, Keeps
<1> QED
    BY <1>2, <1>3

\* A record is opened and written: those of the other entries stay.
LEMMA RecordingStays ==
    ASSUME Shape, Typed, NEW s \in Shells, OwnRecords(s), config' = config, at[s] = "recording",
           OpenRecord(s) \/ WriteRecord(s)
    PROVE  OwnRecords(s)'
<1>1. config \in Settings /\ command[s] \in config.shells[s] /\ command[s].verb # "fold"
    BY DEF Shape, ShapeOf, VerbFits, Resting
<1>2. /\ \A e, f \in Range(Chosen(s)) : e.name = f.name => e = f
      /\ Range(Chosen(s)) \subseteq EntriesOfFiles
    BY <1>1, ChosenFacts
<1>3. /\ IsInjective(toWrite[s]) /\ Range(toWrite[s]) \subseteq Range(Chosen(s))
      /\ \A e \in Range(Chosen(s)) : e \in Range(toWrite[s]) \/ Own(e)
      /\ toWrite[s] \in Seq(EntriesOfFiles) /\ toWrite[s] # <<>>
    BY DEF OwnRecords, Typed, MemoryTyped, OpenRecord, WriteRecord
<1> DEFINE h == Head(toWrite[s])
           rest == Tail(toWrite[s])
<1>4. /\ h \in Range(toWrite[s]) /\ h \in EntriesOfFiles /\ IsInjective(rest)
      /\ Range(rest) = Range(toWrite[s]) \ {h}
    BY <1>3, TailFacts
<1> HIDE DEF h, rest
<1>5. h.name \in DOMAIN record
    <2>1. Names = {e.name : e \in EntriesOfFiles}
        BY DEF Names, EntriesOfFiles
    <2>2. h.name \in Names
        BY <1>4, <2>1
    <2>3. DOMAIN record = Names
        BY DEF Shape
    <2> QED
        BY <2>2, <2>3
<1>6. at'[s] = "recording" /\ Chosen(s)' = Chosen(s)
    <2>1. at' = at /\ command' = command
        <3>1. CASE OpenRecord(s)
            BY <3>1 DEF OpenRecord, own
        <3>2. CASE WriteRecord(s)
            BY <3>2 DEF WriteRecord
        <3> QED
            BY <3>1, <3>2
    <2> QED
        BY <2>1 DEF Chosen, Entries
<1>7. at'[s] \notin CollectPlaces
    BY <1>6 DEF CollectPlaces
<1>8. CASE OpenRecord(s)
    <2>1. toWrite' = toWrite /\ record' = [record EXCEPT ![h.name] = Torn]
        BY <1>8 DEF OpenRecord, own, h
    <2>2. ASSUME NEW e \in Range(Chosen(s)), e \notin Range(toWrite[s])
          PROVE  Own(e)'
        <3>1. e.name # h.name /\ Own(e)
            BY <1>2, <1>3, <1>4, <2>2
        <3>2. record'[e.name] = record[e.name]
            BY <2>1, <3>1
        <3> QED
            BY <3>1, <3>2 DEF Own
    <2> QED
        BY <1>3, <1>6, <1>7, <2>1, <2>2 DEF OwnRecords
<1>9. CASE WriteRecord(s)
    <2>1. /\ toWrite'[s] = rest
          /\ record' = [record EXCEPT ![h.name] = [id |-> h.id, rule |-> h.rule, seeds |-> {}]]
        BY <1>9 DEF WriteRecord, h, rest, Shape, OwnDomains
    <2>2. ASSUME NEW e \in Range(Chosen(s)), e \notin Range(rest)
          PROVE  Own(e)'
        <3>1. CASE e = h
            <4>1. record'[e.name] = [id |-> e.id, rule |-> e.rule, seeds |-> {}]
                BY <1>5, <2>1, <3>1
            <4> QED
                BY <4>1 DEF Own
        <3>2. CASE e # h
            <4>1. e.name # h.name /\ Own(e)
                BY <1>2, <1>3, <1>4, <2>2, <3>2
            <4>2. record'[e.name] = record[e.name]
                BY <2>1, <4>1
            <4> QED
                BY <4>1, <4>2 DEF Own
        <3> QED
            BY <3>1, <3>2
    <2>3. IsInjective(toWrite'[s]) /\ Range(toWrite'[s]) \subseteq Range(Chosen(s))
        BY <1>3, <1>4, <2>1
    <2>4. \A e \in Range(Chosen(s)) : e \in Range(toWrite'[s]) \/ Own(e)'
        BY <2>1, <2>2
    <2> QED
        BY <1>6, <1>7, <2>3, <2>4 DEF OwnRecords
<1> QED
    BY <1>8, <1>9

LEMMA OwnRecordsStep ==
    ASSUME Shape, PoolsFit, Typed, NEW s \in Shells, Moves(s), OwnRecords(s)
    PROVE  OwnRecords(s)'
<1>1. config' = config /\ config \in Settings /\ PoolOf(s) /\ Shape'
    BY OneShellMoves DEF PoolsFit, Shape
<1>2. ASSUME at'[s] # "recording", at'[s] \notin CollectPlaces \ {"seeds"}
      PROVE  OwnRecords(s)'
    BY <1>2 DEF OwnRecords
<1>3. ASSUME record' = record, at'[s] # "recording",
             at[s] \in CollectPlaces \ {"seeds"} \/ DOMAIN collection[s] = {},
             DOMAIN collection'[s] = DOMAIN collection[s],
             \A n \in DOMAIN collection[s] : collection'[s][n].entry = collection[s][n].entry
      PROVE  OwnRecords(s)'
    <2>1. \A n \in DOMAIN collection[s] : Own(collection[s][n].entry)
        BY <1>3 DEF OwnRecords
    <2>2. \A e : Own(e) => Own(e)'
        BY <1>3 DEF Own
    <2>3. \A n \in DOMAIN collection'[s] : \A c \in {collection'[s][n]} : Own(c.entry)'
        BY <1>3, <2>1, <2>2
    <2> QED
        BY <1>3, <2>3 DEF OwnRecords
<1>4. CASE Rested(s)
    <2>1. at'[s] # "recording" /\ at'[s] \notin CollectPlaces
        BY <1>4 DEF Rested, Resting, CollectPlaces
    <2> QED
        BY <1>2, <2>1
<1>5. CASE WentOn(s) /\ at'[s] \notin Resting
    <2>1. record' = record /\ collection'[s] = collection[s]
        BY <1>5 DEF WentOn
    <2>2. CASE at'[s] = "recording"
        <3>1. /\ at[s] = "starting" /\ toWrite'[s] = Chosen(s) /\ command' = command
            BY <1>5, <2>2 DEF WentOn
        <3>2. /\ command[s] \in config.shells[s] /\ command[s].verb # "fold"
              /\ Chosen(s)' = Chosen(s)
            BY <1>1, <3>1 DEF Shape, ShapeOf, VerbFits, Resting, Chosen, Entries
        <3>3. \A i, j \in DOMAIN Chosen(s) : i # j => Chosen(s)[i].id # Chosen(s)[j].id
            BY <1>1, <3>2, ChosenFacts
        <3>4. IsInjective(toWrite'[s])
            BY <3>1, <3>3 DEF IsInjective
        <3> QED
            BY <2>2, <3>1, <3>2, <3>4 DEF OwnRecords, CollectPlaces
    <2>3. CASE at'[s] # "recording"
        <3>1. at[s] # "seeds"
            BY <1>5 DEF WentOn, Resting
        <3>2. at[s] \in CollectPlaces \ {"seeds"} \/ DOMAIN collection[s] = {}
            BY <1>1, <3>1 DEF PoolOf
        <3> QED
            BY <1>3, <2>1, <2>3, <3>2
    <2> QED
        BY <2>2, <2>3
<1>6. CASE Works(s) /\ at'[s] \notin Resting /\ command' = command
    <2>0. \A how \in Resting : ~Leaves(s, how)
        BY <1>6 DEF Leaves, Shape, OwnDomains
    <2>1. CASE OpenRecord(s) \/ WriteRecord(s)
        <3>1. at'[s] = at[s] /\ at[s] \in {"recording", "shot record"}
            BY <2>1 DEF OpenRecord, WriteRecord, own
        <3> QED
            BY <1>1, <1>2, <2>1, <3>1, RecordingStays DEF CollectPlaces
    <2>2. CASE ReadSaved(s)
        <3>1. at[s] = "recording" /\ toWrite[s] = <<>> /\ at'[s] = "accepting" /\ record' = record
            BY <2>2 DEF ReadSaved, Goes, disk, Shape, OwnDomains
        <3>2. \A e \in Range(Chosen(s)) : Own(e)
            BY <3>1 DEF OwnRecords, Range
        <3>3. \A n \in DOMAIN collection'[s] : \E e \in Range(Chosen(s)) :
                collection'[s][n] = NewCollection(e)
            BY <2>2, ReadSavedFacts
        <3>4. \A e : NewCollection(e).entry = e
            BY DEF NewCollection
        <3>5. \A e : Own(e) => Own(e)'
            BY <3>1 DEF Own
        <3>6. \A n \in DOMAIN collection'[s] : \A c \in {collection'[s][n]} : Own(c.entry)'
            BY <3>2, <3>3, <3>4, <3>5
        <3> QED
            BY <3>1, <3>6 DEF OwnRecords
    <2>3. CASE HandOut(s)
        <3>1. PICK n, c, p, r, more : HandsOut(s, n, c, p, r, more)
            BY <1>1, <2>3, HandOutPool
        <3>2. record' = record
            BY <2>3 DEF HandOut, disk
        <3>3. \A m \in DOMAIN collection[s] : collection'[s][m].entry = collection[s][m].entry
            BY <3>1 DEF HandsOut
        <3>4. /\ at' = at /\ at[s] = "collecting"
              /\ DOMAIN collection'[s] = DOMAIN collection[s]
            BY <3>1 DEF HandsOut
        <3> QED
            BY <1>3, <3>2, <3>3, <3>4 DEF CollectPlaces
    <2>4. CASE \E u \in running[s] : PieceEnds(s, u)
        <3>1. PICK u \in running[s] : PieceEnds(s, u)
            BY <2>4
        <3>2. PICK c, r : UnitEnds(s, u, c, r)
            BY <1>1, <3>1, PieceEndsPool
        <3>3. record' = record
            BY <3>1 DEF PieceEnds
        <3>4. \A m \in DOMAIN collection[s] : collection'[s][m].entry = collection[s][m].entry
            BY <3>2 DEF UnitEnds
        <3>5. /\ at' = at /\ at[s] = "collecting"
              /\ DOMAIN collection'[s] = DOMAIN collection[s]
            BY <3>2 DEF UnitEnds
        <3> QED
            BY <1>3, <3>3, <3>4, <3>5 DEF CollectPlaces
    <2>5. CASE JobStarts(s) \/ \E u \in running[s] : JobPieceEnds(s, u)
        <3>1. at'[s] = "running"
            <4>1. CASE JobStarts(s)
                BY <1>1, <1>6, <4>1, JobStartsFacts DEF PoolsFit, SavedFits
            <4>2. CASE \E u \in running[s] : JobPieceEnds(s, u)
                BY <4>2 DEF JobPieceEnds
            <4> QED
                BY <2>5, <4>1, <4>2
        <3> QED
            BY <1>2, <3>1 DEF CollectPlaces
    <2>6. CASE ReadRecords(s) \/ \E n \in Names : RecordSeeds(s, n)
        <3>1. at'[s] = "seeds"
            BY <2>0, <2>6 DEF ReadRecords, RecordSeeds, Goes, Shape, OwnDomains, Resting
        <3> QED
            BY <1>2, <3>1
    <2>7. CASE \/ CollectStops(s) \/ FoldLists(s) \/ FoldStages(s) \/ ListOldFiles(s)
               \/ ListNewFiles(s) \/ \E f \in CsvFiles : RemoveFile(s, f) \/ MoveFile(s, f)
        <3>1. /\ record' = record /\ collection' = collection
              /\ at'[s] # "recording" /\ at[s] \in CollectPlaces \ {"seeds"}
            <4>1. CASE CollectStops(s)
                BY <4>1 DEF CollectStops, Goes, disk, inMemory, CollectPlaces, Shape, OwnDomains
            <4>2. CASE FoldLists(s)
                BY <2>0, <4>2 DEF FoldLists, Goes, disk, CollectPlaces, Shape, OwnDomains, Resting
            <4>3. CASE FoldStages(s)
                BY <2>0, <4>3 DEF FoldStages, Goes, disk, CollectPlaces, Shape, OwnDomains, Resting
            <4>4. CASE ListOldFiles(s)
                BY <4>4 DEF ListOldFiles, Goes, disk, CollectPlaces, Shape, OwnDomains
            <4>5. CASE ListNewFiles(s)
                BY <4>5 DEF ListNewFiles, Goes, disk, CollectPlaces, Shape, OwnDomains
            <4>6. CASE \E f \in CsvFiles : RemoveFile(s, f)
                BY <2>0, <4>6 DEF RemoveFile, CollectPlaces, Resting
            <4>7. CASE \E f \in CsvFiles : MoveFile(s, f)
                BY <4>7 DEF MoveFile, CollectPlaces
            <4> QED
                BY <2>7, <4>1, <4>2, <4>3, <4>4, <4>5, <4>6, <4>7
        <3> QED
            BY <1>3, <3>1
    <2> QED
        BY <1>6, <2>1, <2>2, <2>3, <2>4, <2>5, <2>6, <2>7 DEF Works
<1> QED
    BY <1>4, <1>5, <1>6, StepsOfAShell

-----------------------------------------------------------------------------
(* Rows are uncut runs *)

RowPlaces == {"staged", "clearing", "moving"}

\* The rows that a fold moves into place.
RowsOf(s) ==
    at[s] \in RowPlaces =>
        \A n \in DOMAIN staged[s] : \A row \in {staged[s][n]} :
            \E e \in EntriesOfFiles : e.name = n /\ IsAnUncutRun(e.id, e.rule, row)

\* What the fold of a collect has of the tasks that it collected.
Gathered(s) ==
    \A n \in DOMAIN collection[s] : \A e \in {collection[s][n].entry} :
        /\ at[s] = "fold" => HasSeeds(e, saved)
        /\ at[s] = "folding" => HasSeeds(e, folders[s])
        /\ at[s] \in RowPlaces =>
            /\ n \in DOMAIN staged[s]
            /\ \A row \in {staged[s][n]} : IsAnUncutRun(e.id, e.rule, row) /\ row.stop # None

LEMMA OwnFacts ==
    ASSUME config \in Settings, NEW e \in EntriesOfFiles, Own(e)
    PROVE  /\ e.name \in Recorded /\ record[e.name].id = e.id /\ record[e.name].rule = e.rule
           /\ e.id \in RecordedIds
<1>1. PICK S \in SUBSET Nat : record[e.name] = [id |-> e.id, rule |-> e.rule, seeds |-> S]
    BY DEF Own
<1>2. IsRecordOf(e.name, record[e.name])
    BY <1>1 DEF IsRecordOf
<1>3. record[e.name] # None
    BY <1>2, RecordFacts
<1>4. Names = {d.name : d \in EntriesOfFiles}
    BY DEF Names, EntriesOfFiles
<1>5. e.name \in Recorded
    BY <1>3, <1>4 DEF Recorded
<1> QED
    BY <1>1, <1>5 DEF RecordedIds

\* A row keeps no open prefix.
LEMMA ClosedRow ==
    ASSUME NEW id, NEW rule, NEW t, UncutPrefix(id, rule, t)
    PROVE  LET row == [t EXCEPT !.open = FALSE]
           IN  /\ IsAnUncutRun(id, rule, row) /\ row.stop = t.stop
<1> DEFINE row == [t EXCEPT !.open = FALSE]
<1>1. row.shots = t.shots /\ row.scored = t.scored /\ row.failures = t.failures /\ row.stop = t.stop
    BY DEF UncutPrefix, Trackers
<1> HIDE DEF row
<1>2. IsAnUncutRun(id, rule, row)
    BY <1>1 DEF UncutPrefix, IsAnUncutRun
<1> QED
    BY <1>1, <1>2 DEF row

LEMMA RowsStay ==
    ASSUME config' = config, saved \subseteq saved', NEW s, at'[s] = at[s],
           collection'[s] = collection[s], folders'[s] = folders[s], staged'[s] = staged[s],
           RowsOf(s), Gathered(s)
    PROVE  RowsOf(s)' /\ Gathered(s)'
<1>1. \A id, rule, row : IsAnUncutRun(id, rule, row)' <=> IsAnUncutRun(id, rule, row)
    BY DEF IsAnUncutRun, UncutStop, UncutCounts
<1>2. EntriesOfFiles' = EntriesOfFiles
    BY DEF EntriesOfFiles
<1>3. \A id : PiecesOf(id, saved) \subseteq PiecesOf(id, saved')
    BY DEF PiecesOf
<1>4. \A e : HasSeeds(e, saved) => HasSeeds(e, saved)'
    BY <1>3 DEF HasSeeds, UncutStop, UncutCounts
<1>5. \A e, F : HasSeeds(e, F)' <=> HasSeeds(e, F)
    BY DEF HasSeeds, UncutStop, UncutCounts
<1>6. RowsOf(s)'
    BY <1>1, <1>2 DEF RowsOf
<1>7. Gathered(s)'
    BY <1>1, <1>4, <1>5 DEF Gathered
<1> QED
    BY <1>6, <1>7

\* A fold that has read the pieces makes rows of them.
LEMMA StagedRows ==
    ASSUME Shape, PoolsFit, Typed, NEW s \in Shells, FoldStages(s), at'[s] \notin Resting
    PROVE  \A n \in DOMAIN staged'[s] : \A row \in {staged'[s][n]} : \E e \in EntriesOfFiles :
                /\ e.name = n /\ IsAnUncutRun(e.id, e.rule, row)
                /\ e.id = record[n].id /\ e.rule = record[n].rule
                /\ FromFirst /\ HasSeeds(e, folders[s]) => row.stop # None
<1>1. /\ staged'[s] = [n \in Recorded |->
                        [RowOf(record[n].id, record[n].rule, folders[s]) EXCEPT !.open = FALSE]]
      /\ ~Unreadable /\ \A n \in Recorded : record[n].rule # None
    <2>1. \A how \in Resting : ~Leaves(s, how)
        BY DEF Leaves, Shape, OwnDomains
    <2> QED
        BY <2>1 DEF FoldStages, Shape, OwnDomains, Resting
<1>2. config \in Settings /\ folders[s] \subseteq saved /\ IsFiniteSet(saved) /\ saved \subseteq Pieces
    BY DEF Shape, Typed, MemoryTyped, PoolsFit, SavedFits, PiecesFit
<1>3. /\ IsFiniteSet(folders[s]) /\ \A p \in folders[s] : p.first \in Nat /\ p.count \in Nat
    BY <1>2, FS_Subset DEF Pieces
<1>4. ASSUME NEW n \in Recorded
      PROVE  \E e \in EntriesOfFiles :
                e.name = n /\ record[n].id = e.id /\ record[n].rule = e.rule
    <2>1. record[n] \notin {None, Torn} /\ n \in Names
        BY <1>1 DEF Recorded, Unreadable
    <2>2. IsRecordOf(n, record[n])
        BY <2>1 DEF Typed, RecordsTyped
    <2> QED
        BY <1>1, <1>2, <2>2, RecordFacts
<1>5. ASSUME NEW n \in Recorded, NEW e \in EntriesOfFiles, e.name = n,
             record[n].id = e.id, record[n].rule = e.rule
      PROVE  \A row \in {staged'[s][n]} :
                /\ IsAnUncutRun(e.id, e.rule, row)
                /\ FromFirst /\ HasSeeds(e, folders[s]) => row.stop # None
    <2> DEFINE t == RowOf(e.id, e.rule, folders[s])
               row == [t EXCEPT !.open = FALSE]
               seeds == UNION {SeedsOf(p) : p \in PiecesOf(e.id, folders[s])}
               end == UncutStop(e.id, e.rule)
    <2>1. e.rule \in RuleType /\ e.rule.firstSeed \in Nat
        BY <1>2, EntryFacts DEF RuleType
    <2>2. /\ UncutPrefix(e.id, e.rule, t)
          /\ /\ \A x \in seeds : e.rule.firstSeed <= x
             /\ e.rule.firstSeed .. e.rule.firstSeed + end - 1 \subseteq seeds
             => t.shots = end
        BY <1>3, <2>1, RowFacts
    <2>3. ASSUME FromFirst
          PROVE  \A x \in seeds : e.rule.firstSeed <= x
        <3>1. ASSUME NEW p \in PiecesOf(e.id, folders[s]), NEW x \in SeedsOf(p)
              PROVE  e.rule.firstSeed <= x
            <4>1. p \in saved /\ p.id = e.id /\ p.first \in Nat
                BY <1>2, <1>3 DEF PiecesOf
            <4>2. e.rule.firstSeed <= p.first
                BY <2>3, <4>1 DEF FromFirst, BeginsRight, Holders
            <4>3. x \in Int /\ p.first <= x
                BY <1>3, <4>1 DEF SeedsOf, PiecesOf
            <4> QED
                BY <2>1, <4>1, <4>2, <4>3
        <3> QED
            BY <3>1
    <2>4. staged'[s][n] = row
        BY <1>1, <1>5
    <2>5. FromFirst /\ HasSeeds(e, folders[s]) => t.shots = end
        BY <2>2, <2>3 DEF HasSeeds
    <2> HIDE DEF t, seeds
    <2>6. IsAnUncutRun(e.id, e.rule, row) /\ row.stop = t.stop
        BY <2>2, ClosedRow
    <2>7. t.shots = end => t.stop # None
        BY <2>1, <2>2, UncutStopFacts DEF UncutPrefix, IsAnUncutRun
    <2> QED
        BY <2>4, <2>5, <2>6, <2>7
<1> QED
    BY <1>1, <1>4, <1>5, ZenonT(180)

\* A collect goes on to its fold with the seeds of each of its tasks up to the
\* task's stop on the disk.
LEMMA CollectStopsGathered ==
    ASSUME Shape, PoolsFit, NEW s \in Shells, CollectStops(s), CoversTasks(s)
    PROVE  \A n \in DOMAIN collection[s] : HasSeeds(collection[s][n].entry, saved)
<1>1. /\ config \in Settings /\ PoolOf(s) /\ running[s] = {} /\ IsFilled(s)
      /\ command[s] \in config.shells[s] /\ command[s].verb = "collect"
    BY DEF CollectStops, PoolsFit, Shape, ShapeOf, VerbFits, Resting
<1>2. HasRoom(s)
    <2>1. command[s].processes \in Nat \ {0}
        BY <1>1, SettingsAssumption DEF Shells
    <2>2. Cardinality(running[s]) = 0
        BY <1>1, FS_EmptySet
    <2> QED
        BY <2>1, <2>2 DEF HasRoom
<1>3. Takers(s) = {}
    BY <1>1, <1>2 DEF IsFilled
<1>4. ASSUME NEW n \in DOMAIN collection[s]
      PROVE  HasSeeds(collection[s][n].entry, saved)
    <2> DEFINE c == collection[s][n]
    <2>1. TaskFits(s, n, c) /\ Covers(c) /\ ~TakesAPiece(c)
        BY <1>1, <1>3 DEF PoolOf, CoversTasks, Takers
    <2> HIDE DEF c
    <2>2. Waits(c) = {}
        BY <1>1, <2>1 DEF TaskFits
    <2>3. HasSeeds(c.entry, saved)
        BY <1>1, <2>1, <2>2, StoppedHasSeeds
    <2> QED
        BY <2>3 DEF c
<1> QED
    BY <1>4

\* What a collect kept up to here, and what its fold has.
RowsFit(s) == CoversTasks(s) /\ RowsOf(s)
FoldFits(s) == OwnRecords(s) /\ Gathered(s)

\* The steps of a fold between its reading of the pieces and of the records.
LEMMA FoldSteps ==
    ASSUME Shape, NEW s \in Shells, Moves(s), at'[s] \in RowPlaces
    PROVE  \/ FoldStages(s) /\ at'[s] = "staged"
           \/ at[s] \in RowPlaces /\ staged'[s] = staged[s] /\ collection'[s] = collection[s]
<1>1. at'[s] \notin Resting /\ ~Rested(s) /\ ~WentOn(s)
    BY DEF Rested, WentOn, RowPlaces, Resting
<1>2. Works(s)
    BY <1>1, StepsOfAShell
<1>3. \A how \in Resting : ~Leaves(s, how)
    BY <1>1 DEF Leaves, Shape, OwnDomains
<1>4. CASE OpenRecord(s) \/ WriteRecord(s) \/ ReadSaved(s) \/ HandOut(s) \/ CollectStops(s)
    BY <1>4 DEF OpenRecord, WriteRecord, ReadSaved, HandOut, CollectStops, Goes, own, Shape,
                OwnDomains, RowPlaces
<1>5. CASE JobStarts(s) \/ FoldLists(s) \/ ReadRecords(s)
    BY <1>3, <1>5 DEF JobStarts, FoldLists, ReadRecords, Goes, Shape, OwnDomains, RowPlaces, Resting
<1>6. CASE \/ \E u \in running[s] : PieceEnds(s, u) \/ JobPieceEnds(s, u)
           \/ \E n \in Names : RecordSeeds(s, n)
    BY <1>6 DEF PieceEnds, JobPieceEnds, RecordSeeds, RowPlaces
<1>7. CASE FoldStages(s)
    BY <1>3, <1>7 DEF FoldStages, Goes, Shape, OwnDomains, Resting
<1>8. CASE ListOldFiles(s) \/ ListNewFiles(s)
    BY <1>8 DEF ListOldFiles, ListNewFiles, RowPlaces
<1>9. CASE \E f \in CsvFiles : RemoveFile(s, f) \/ MoveFile(s, f)
    BY <1>3, <1>9 DEF RemoveFile, MoveFile, RowPlaces, Resting
<1> QED
    BY <1>2, <1>4, <1>5, <1>6, <1>7, <1>8, <1>9 DEF Works

LEMMA RowsStep ==
    ASSUME Shape, PoolsFit, Typed, NEW s \in Shells, Moves(s), RowsOf(s)
    PROVE  RowsOf(s)'
<1>1. config' = config
    BY OneShellMoves
<1>2. \A id, rule, row : IsAnUncutRun(id, rule, row)' <=> IsAnUncutRun(id, rule, row)
    BY <1>1 DEF IsAnUncutRun, UncutStop, UncutCounts
<1>3. EntriesOfFiles' = EntriesOfFiles
    BY <1>1 DEF EntriesOfFiles
<1>4. CASE FoldStages(s) /\ at'[s] = "staged"
    <2>1. at'[s] \notin Resting
        BY <1>4 DEF Resting
    <2> QED
        BY <1>2, <1>3, <1>4, <2>1, StagedRows DEF RowsOf
<1>5. CASE at[s] \in RowPlaces /\ staged'[s] = staged[s]
    BY <1>2, <1>3, <1>5 DEF RowsOf
<1>6. CASE at'[s] \notin RowPlaces
    BY <1>6 DEF RowsOf
<1> QED
    BY <1>4, <1>5, <1>6, FoldSteps

LEMMA GatheredStep ==
    ASSUME Shape, PoolsFit, Typed, FromFirst, NEW s \in Shells, Moves(s), saved \subseteq saved',
           CoversTasks(s), OwnRecords(s), Gathered(s)
    PROVE  Gathered(s)'
<1>1. config' = config /\ config \in Settings /\ PoolOf(s) /\ Shape'
    BY OneShellMoves DEF PoolsFit, Shape
<1>2. \A id, rule, row : IsAnUncutRun(id, rule, row)' <=> IsAnUncutRun(id, rule, row)
    BY <1>1 DEF IsAnUncutRun, UncutStop, UncutCounts
<1>3. /\ \A e, F : HasSeeds(e, F)' <=> HasSeeds(e, F)
      /\ \A e : HasSeeds(e, saved) => HasSeeds(e, saved)'
    <2>1. \A id : PiecesOf(id, saved) \subseteq PiecesOf(id, saved')
        BY DEF PiecesOf
    <2>2. \A e, F : HasSeeds(e, F)' <=> HasSeeds(e, F)
        BY <1>1 DEF HasSeeds, UncutStop, UncutCounts
    <2>3. \A e : HasSeeds(e, saved) => HasSeeds(e, saved)'
        BY <1>1, <2>1 DEF HasSeeds, UncutStop, UncutCounts
    <2> QED
        BY <2>2, <2>3
<1>4. CASE at'[s] \notin {"fold", "folding"} \cup RowPlaces
    BY <1>4 DEF Gathered
<1>5. CASE at'[s] \in RowPlaces
    <2>0. at'[s] \notin {"fold", "folding"} \cup Resting
        BY <1>5 DEF RowPlaces, Resting
    <2>1. CASE FoldStages(s)
        <3>1. collection' = collection /\ at[s] = "folding"
              /\ staged'[s] = [n \in Recorded |->
                    [RowOf(record[n].id, record[n].rule, folders[s]) EXCEPT !.open = FALSE]]
            <4>1. \A how \in Resting : ~Leaves(s, how)
                BY <2>0 DEF Leaves, Shape, OwnDomains
            <4> QED
                BY <2>1, <4>1 DEF FoldStages, Shape, OwnDomains, Resting
        <3>2. ASSUME NEW n \in DOMAIN collection[s], NEW e, e = collection[s][n].entry
              PROVE  /\ n \in DOMAIN staged'[s]
                     /\ \A row \in {staged'[s][n]} : IsAnUncutRun(e.id, e.rule, row) /\ row.stop # None
            <4>1. Own(e) /\ HasSeeds(e, folders[s])
                BY <3>1, <3>2 DEF OwnRecords, CollectPlaces, Gathered
            <4>2. e.name = n /\ e \in EntriesOfFiles
                BY <1>1, <3>2 DEF PoolOf, TaskFits, Counting, Collections
            <4>3. n \in Recorded /\ record[n].id = e.id /\ record[n].rule = e.rule
                BY <1>1, <4>1, <4>2, OwnFacts
            <4>4. n \in DOMAIN staged'[s]
                BY <3>1, <4>3
            <4>5. ASSUME NEW row \in {staged'[s][n]}
                  PROVE  IsAnUncutRun(e.id, e.rule, row) /\ row.stop # None
                <5>1. PICK d \in EntriesOfFiles :
                        /\ IsAnUncutRun(d.id, d.rule, row)
                        /\ d.id = record[n].id /\ d.rule = record[n].rule
                        /\ FromFirst /\ HasSeeds(d, folders[s]) => row.stop # None
                    BY <2>0, <2>1, <4>4, StagedRows
                <5>2. d.id = e.id /\ d.rule = e.rule
                    BY <4>3, <5>1
                <5>3. HasSeeds(d, folders[s])
                    BY <4>1, <5>2 DEF HasSeeds
                <5> QED
                    BY <5>1, <5>2, <5>3
            <4> QED
                BY <4>4, <4>5
        <3> QED
            BY <1>2, <2>0, <3>1, <3>2 DEF Gathered
    <2>2. CASE at[s] \in RowPlaces /\ staged'[s] = staged[s] /\ collection'[s] = collection[s]
        BY <1>2, <2>0, <2>2 DEF Gathered
    <2> QED
        BY <1>5, <2>1, <2>2, FoldSteps
<1>6. CASE at'[s] = "folding"
    <2>0. at'[s] \notin Resting \cup RowPlaces \cup {"fold"} /\ ~Rested(s) /\ ~WentOn(s)
        BY <1>6 DEF Rested, WentOn, RowPlaces, Resting
    <2>1. \A how \in Resting : ~Leaves(s, how)
        BY <2>0 DEF Leaves, Shape, OwnDomains
    <2>2. FoldLists(s)
        <3>1. Works(s)
            BY <2>0, StepsOfAShell
        <3>2. ~(OpenRecord(s) \/ WriteRecord(s) \/ ReadSaved(s) \/ HandOut(s) \/ CollectStops(s))
            BY <1>6 DEF OpenRecord, WriteRecord, ReadSaved, HandOut, CollectStops, Goes, own, Shape,
                        OwnDomains
        <3>3. ~(JobStarts(s) \/ ReadRecords(s) \/ FoldStages(s))
            BY <1>6, <2>1 DEF JobStarts, ReadRecords, FoldStages, Goes, Shape, OwnDomains, Resting
        <3>4. ~(\/ \E u \in running[s] : PieceEnds(s, u) \/ JobPieceEnds(s, u)
                \/ \E n \in Names : RecordSeeds(s, n))
            BY <1>6 DEF PieceEnds, JobPieceEnds, RecordSeeds
        <3>5. ~(\/ ListOldFiles(s) \/ ListNewFiles(s)
                \/ \E f \in CsvFiles : RemoveFile(s, f) \/ MoveFile(s, f))
            BY <1>6, <2>1 DEF ListOldFiles, ListNewFiles, RemoveFile, MoveFile, Goes, Shape,
                              OwnDomains, Resting
        <3> QED
            BY <3>1, <3>2, <3>3, <3>4, <3>5 DEF Works
    <2>3. /\ at[s] = "fold" /\ collection' = collection
          /\ folders'[s] = {p \in saved : p.id \in RecordedIds}
        BY <2>1, <2>2 DEF FoldLists, Shape, OwnDomains, Resting
    <2>4. ASSUME NEW n \in DOMAIN collection[s], NEW e, e = collection[s][n].entry
          PROVE  HasSeeds(e, folders'[s])
        <3>1. Own(e) /\ HasSeeds(e, saved)
            BY <2>3, <2>4 DEF OwnRecords, CollectPlaces, Gathered
        <3>2. e \in EntriesOfFiles
            BY <1>1, <2>4 DEF PoolOf, TaskFits, Counting, Collections
        <3>3. e.id \in RecordedIds
            BY <1>1, <3>1, <3>2, OwnFacts
        <3>4. PiecesOf(e.id, folders'[s]) = PiecesOf(e.id, saved)
            BY <2>3, <3>3 DEF PiecesOf
        <3> QED
            BY <3>1, <3>4 DEF HasSeeds
    <2> QED
        BY <1>3, <1>6, <2>0, <2>3, <2>4 DEF Gathered
<1>7. CASE at'[s] = "fold"
    <2>0. at'[s] \notin Resting \cup RowPlaces \cup {"folding"} /\ ~Rested(s)
        BY <1>7 DEF Rested, RowPlaces, Resting
    <2>1. \A how \in Resting : ~Leaves(s, how)
        BY <2>0 DEF Leaves, Shape, OwnDomains
    <2>2. CASE WentOn(s)
        <3>1. at[s] \in Resting /\ collection'[s] = collection[s]
            BY <1>7, <2>2 DEF WentOn
        <3>2. DOMAIN collection'[s] = {}
            BY <3>1 DEF Shape, ShapeOf, RestingMemory
        <3> QED
            BY <3>2 DEF Gathered
    <2>3. CASE CollectStops(s)
        <3>1. collection' = collection
            BY <2>3 DEF CollectStops, inMemory
        <3>2. \A n \in DOMAIN collection[s] : HasSeeds(collection[s][n].entry, saved)
            BY <2>3, CollectStopsGathered
        <3>3. \A n \in DOMAIN collection[s] : \A e \in {collection[s][n].entry} :
                    HasSeeds(e, saved)'
            BY <1>3, <3>2
        <3> QED
            BY <2>0, <3>1, <3>3 DEF Gathered
    <2>4. WentOn(s) \/ CollectStops(s)
        <3>1. WentOn(s) \/ Works(s)
            BY <2>0, StepsOfAShell
        <3>2. ~(OpenRecord(s) \/ WriteRecord(s) \/ ReadSaved(s) \/ HandOut(s))
            BY <1>7 DEF OpenRecord, WriteRecord, ReadSaved, HandOut, Goes, own, Shape, OwnDomains
        <3>3. ~(JobStarts(s) \/ ReadRecords(s) \/ FoldStages(s) \/ FoldLists(s))
            BY <1>7, <2>1 DEF JobStarts, ReadRecords, FoldStages, FoldLists, Goes, Shape,
                              OwnDomains, Resting
        <3>4. ~(\/ \E u \in running[s] : PieceEnds(s, u) \/ JobPieceEnds(s, u)
                \/ \E n \in Names : RecordSeeds(s, n))
            BY <1>7 DEF PieceEnds, JobPieceEnds, RecordSeeds
        <3>5. ~(\/ ListOldFiles(s) \/ ListNewFiles(s)
                \/ \E f \in CsvFiles : RemoveFile(s, f) \/ MoveFile(s, f))
            BY <1>7, <2>1 DEF ListOldFiles, ListNewFiles, RemoveFile, MoveFile, Goes, Shape,
                              OwnDomains, Resting
        <3> QED
            BY <3>1, <3>2, <3>3, <3>4, <3>5 DEF Works
    <2> QED
        BY <2>2, <2>3, <2>4
<1> QED
    BY <1>4, <1>5, <1>6, <1>7

\* The prefixes that are counted, and the pieces behind them.
PrefixesFit == \A s \in Shells : RowsFit(s)
\* What is kept besides, where one shell collects and a task has one first seed.
FoldsFit == FromFirst /\ \A s \in Shells : FoldFits(s)

LEMMA PrefixesStep ==
    ASSUME Shape, PoolsFit, Typed, PrefixesFit, [Next]_vars
    PROVE  PrefixesFit'
<1>1. saved \subseteq saved'
    BY PoolsStep
<1>2. ASSUME NEW t \in Shells, config' = config, Keeps(t)
      PROVE  RowsFit(t)'
    <2>1. CoversTasks(t)'
        BY <1>1, <1>2, CoversOn DEF PrefixesFit, RowsFit, Keeps
    <2>2. RowsOf(t)'
        <3>1. \A id, rule, row : IsAnUncutRun(id, rule, row)' <=> IsAnUncutRun(id, rule, row)
            BY <1>2 DEF IsAnUncutRun, UncutStop, UncutCounts
        <3>2. EntriesOfFiles' = EntriesOfFiles
            BY <1>2 DEF EntriesOfFiles
        <3> QED
            BY <1>2, <3>1, <3>2 DEF PrefixesFit, RowsFit, RowsOf, Keeps
    <2> QED
        BY <2>1, <2>2 DEF RowsFit
<1>3. CASE UNCHANGED vars
    <2>1. config' = config /\ Shells' = Shells /\ \A t \in Shells : Keeps(t)
        BY <1>3 DEF vars, own, Keeps, Shells
    <2> QED
        BY <1>2, <2>1 DEF PrefixesFit
<1>4. ASSUME NEW s \in Shells, Moves(s)
      PROVE  PrefixesFit'
    <2>1. config' = config /\ Shells' = Shells /\ \A t \in Shells \ {s} : Keeps(t)
        BY <1>4, OneShellMoves DEF Shells
    <2>2. RowsFit(s)'
        <3>1. CoversTasks(s) /\ RowsOf(s)
            BY DEF PrefixesFit, RowsFit
        <3>2. CoversTasks(s)'
            BY <1>1, <1>4, <3>1, CoversStep
        <3>3. RowsOf(s)'
            BY <1>4, <3>1, RowsStep
        <3> QED
            BY <3>2, <3>3 DEF RowsFit
    <2> QED
        BY <1>2, <2>1, <2>2 DEF PrefixesFit
<1> QED
    BY <1>3, <1>4, ShellsMove

LEMMA FoldsStep ==
    ASSUME Shape, PoolsFit, Typed, PrefixesFit, FoldsFit, OneDesk(config),
           FirstSeedsAgree(config), [Next]_vars
    PROVE  FoldsFit'
<1>1. saved \subseteq saved'
    BY PoolsStep
<1>2. CASE UNCHANGED vars
    <2>1. /\ UNCHANGED <<config, record, saved, command, at, toWrite, collection, running, queued,
                        folders, staged>>
        BY <1>2 DEF vars, disk, own
    <2>2. ASSUME NEW t \in Shells
          PROVE  FoldFits(t)'
        <3>1. OwnRecords(t) /\ Gathered(t) /\ RowsOf(t)
            BY DEF FoldsFit, FoldFits, PrefixesFit, RowsFit
        <3>2. OwnRecords(t)'
            BY <2>1, <3>1 DEF OwnRecords, Own, Chosen, Entries
        <3>3. Gathered(t)'
            BY <1>1, <2>1, <3>1, RowsStay
        <3> QED
            BY <3>2, <3>3 DEF FoldFits
    <2>3. FromFirst'
        BY <2>1 DEF FoldsFit, FromFirst, UnitsBegin, BeginsRight, Holders, EntriesOfFiles, UnitsIn,
                    Shells, Range
    <2> QED
        BY <2>1, <2>2, <2>3 DEF FoldsFit, Shells
<1>3. ASSUME NEW s \in Shells, Moves(s)
      PROVE  FoldsFit'
    <2>1. config' = config /\ Shells' = Shells /\ \A t \in Shells \ {s} : Keeps(t)
        BY <1>3, OneShellMoves DEF Shells
    <2>2. FromFirst'
        BY <1>3, FromFirstStep DEF FoldsFit
    <2>3. FoldFits(s)'
        <3>1. OwnRecords(s) /\ Gathered(s) /\ FromFirst /\ CoversTasks(s)
            BY DEF FoldsFit, FoldFits, PrefixesFit, RowsFit
        <3>2. OwnRecords(s)'
            BY <1>3, <3>1, OwnRecordsStep
        <3>3. Gathered(s)'
            BY <1>1, <1>3, <3>1, GatheredStep
        <3> QED
            BY <3>2, <3>3 DEF FoldFits
    <2>4. ASSUME NEW t \in Shells \ {s}
          PROVE  FoldFits(t)'
        <3>1. OwnRecords(t) /\ Gathered(t) /\ RowsOf(t) /\ Keeps(t)
            BY <2>1 DEF FoldsFit, FoldFits, PrefixesFit, RowsFit
        <3>2. OwnRecords(t)'
            BY <1>3, <2>1, <3>1, OwnRecordsStay
        <3>3. Gathered(t)'
            BY <1>1, <2>1, <3>1, RowsStay DEF Keeps
        <3> QED
            BY <3>2, <3>3 DEF FoldFits
    <2> QED
        BY <2>1, <2>2, <2>3, <2>4 DEF FoldsFit
<1> QED
    BY <1>2, <1>3, ShellsMove

LEMMA InitHasPrefixes == Init => PrefixesFit /\ FoldsFit
<1> SUFFICES ASSUME Init
             PROVE  PrefixesFit /\ FoldsFit
    OBVIOUS
<1>1. /\ saved = {} /\ \A s \in Shells : running[s] = {} /\ queued[s] = <<>>
                        /\ collection[s] = <<>> /\ at[s] = "idle"
    BY DEF Init, InitFor, Shells
<1>2. \A s \in Shells : UnitsIn(s) = {} /\ DOMAIN collection[s] = {}
    BY <1>1 DEF UnitsIn, Range
<1> QED
    BY <1>1, <1>2 DEF PrefixesFit, FoldsFit, RowsFit, FoldFits, CoversTasks, RowsOf, RowPlaces,
                      OwnRecords, CollectPlaces, Gathered, FromFirst, UnitsBegin

\* A prefix that a collect counts is that of an uncut run, and so are the rows
\* of each fold; those of what it collected go up to the stop.
LEMMA RowsFollow ==
    ASSUME PoolsFit, PrefixesFit, FoldsFit
    PROVE  RowsAreUncutRuns
<1>1. ASSUME NEW s \in Shells, NEW n \in DOMAIN collection[s], NEW c, c = collection[s][n]
      PROVE  /\ IsAnUncutRun(c.entry.id, c.entry.rule, c.tracker)
             /\ at[s] \in {"staged", "clearing", "moving"} =>
                    /\ IsAnUncutRun(c.entry.id, c.entry.rule, staged[s][n])
                    /\ staged[s][n].stop # None
    <2>1. UncutPrefix(c.entry.id, c.entry.rule, c.tracker)
        BY <1>1 DEF PoolsFit, PoolOf, TaskFits, Counting
    <2>2. Gathered(s)
        BY DEF FoldsFit, FoldFits
    <2> QED
        BY <1>1, <2>1, <2>2 DEF UncutPrefix, Gathered, RowPlaces
<1>2. ASSUME NEW s \in Shells, at[s] \in {"staged", "clearing", "moving"}, NEW n \in DOMAIN staged[s]
      PROVE  \E f \in DOMAIN config.files : \E e \in Range(config.files[f]) :
                e.name = n /\ IsAnUncutRun(e.id, e.rule, staged[s][n])
    <2>1. PICK e \in EntriesOfFiles : e.name = n /\ IsAnUncutRun(e.id, e.rule, staged[s][n])
        BY <1>2 DEF PrefixesFit, RowsFit, RowsOf, RowPlaces
    <2> QED
        BY <2>1 DEF EntriesOfFiles
<1> QED
    BY <1>1, <1>2 DEF RowsAreUncutRuns

\* A sweep that is cut into pieces, killed and picked up again counts what one
\* uncut run of each task counts, and what a collect folds goes up to its
\* stop, for every history of a folder with one desk, whose run files begin a
\* task at one seed.
THEOREM RowsStayUncutRuns ==
    Spec => [](OneDesk(config) /\ FirstSeedsAgree(config) => RowsAreUncutRuns)
<1> DEFINE Alone == OneDesk(config) /\ FirstSeedsAgree(config)
           Inv == Typed /\ PrefixesFit /\ (Alone => FoldsFit)
<1>1. Init => Inv
    BY InitIsTyped, InitHasPrefixes
<1>2. Shape /\ PoolsFit /\ Inv /\ [Next]_vars => Inv'
    <2> SUFFICES ASSUME Shape, PoolsFit, Inv, [Next]_vars
                 PROVE  Inv'
        OBVIOUS
    <2>1. config' = config
        BY ShellsMove, OneShellMoves DEF vars
    <2>2. Typed' /\ PrefixesFit'
        BY TypedStep, PrefixesStep
    <2>3. Alone' => Alone
        BY <2>1
    <2> QED
        BY <2>2, <2>3, FoldsStep
<1>3. PoolsFit /\ Inv => (Alone => RowsAreUncutRuns)
    BY RowsFollow
<1> QED
    BY <1>1, <1>2, <1>3, ShapeIsKept, PoolsAreKept, PTL DEF Spec
=============================================================================
