----------------------------- MODULE RunFolder -----------------------------
(***************************************************************************)
(* One results folder and the commands that work in it: `decsim run` in    *)
(* its forms collect, --record, --share or --seeds (a job) and --fold      *)
(* (experiments/collect_command.py, collection.py, pieces.py,              *)
(* run_folder.py, unit_pool.py, and the refusals of report.py).            *)
(*                                                                         *)
(* A collect records its tasks, hands their seeds out in pieces, saves     *)
(* each piece the moment it ends and counts the pieces on a contiguous     *)
(* prefix until the task's rule stops it; then it folds the saved pieces   *)
(* into the csv files at the folder's root.  Any command may be killed     *)
(* between two changes it makes on the disk, and given again.              *)
(*                                                                         *)
(* A step is what one process does between two changes that another one    *)
(* can see.  A piece is renamed into place whole, so its staging is no     *)
(* state.  A shot is its seed: which seeds fail and which are scored is    *)
(* the task's, and a calibrator is the sequence of seeds it learned from.  *)
(* One code tree runs, and no task has a cap on its core seconds.          *)
(***************************************************************************)
EXTENDS Integers, Sequences, FiniteSets, SequencesExt, FiniteSetsExt

CONSTANTS
    Settings,   \* the folders' histories: see SettingsAssumption
    None,       \* no such file, or no such value
    Torn        \* a file opened for writing, and not written yet

\* tasks: by task id, the failing seeds, the seeds scored, whether its
\* threshold learns online; files: each run file's tasks, a sequence of
\* [name, id, rule], one at least, no name and no id twice, and a task that
\* learns online stops at its cap alone (experiment.py refuses others); shells: the
\* commands each shell may give, one at a time, [verb, file, only, processes,
\* seeds]: a job's seeds are FIRST:END or INDEX/COUNT; commands, kills: how
\* many are given, how many die.
RuleType == [maxShots : Nat \ {0}, maxFailures : Nat,   \* 0: no target
             minShots : Nat, pieceShots : Nat \ {0}, firstSeed : Nat]
Spans == [first : Nat, count : Nat \ {0}]
ASSUME SettingsAssumption ==
    \A c \in Settings :
        /\ \A f \in DOMAIN c.files :
            /\ c.files[f] \in Seq(Range(c.files[f])) /\ c.files[f] # <<>>
            /\ \A i, j \in DOMAIN c.files[f] : i # j =>
                /\ c.files[f][i].name # c.files[f][j].name
                /\ c.files[f][i].id # c.files[f][j].id
            /\ \A e \in Range(c.files[f]) :
                /\ e.id \in DOMAIN c.tasks
                /\ e.rule \in RuleType
                /\ c.tasks[e.id].adaptive => e.rule.maxFailures = 0
        /\ \A s \in DOMAIN c.shells : \A k \in c.shells[s] :
            /\ k.verb \in {"collect", "record", "job", "fold", "shot"}
            /\ k.verb # "fold" =>
                /\ k.file \in DOMAIN c.files
                /\ k.only \in {"all"} \cup {e.name : e \in Range(c.files[k.file])}
                /\ k.processes \in Nat \ {0}
            /\ k.verb = "job" =>
                \/ k.seeds[1] = "range" /\ {k.seeds[2], k.seeds[3]} \subseteq Nat
                \/ k.seeds[1] = "share" /\ k.seeds[2] \in Nat /\ k.seeds[3] \in Nat \ {0}
        /\ c.commands \in Nat /\ c.kills \in Nat
        /\ {None, Torn} \cap [id : DOMAIN c.tasks, rule : RuleType \cup {None},
                             seeds : SUBSET Nat] = {}
ASSUME ValuesAssumption ==
    Torn # None /\ None \notin {"minimum", "target", "cap"} /\ None \notin Spans

VARIABLES
    config,      \* the folder's history that may happen
    record,      \* tasks/<name>/machine.json, by name
    copy,        \* the run file's copy
    runTasks,    \* run.json's task ids, in order
    saved,       \* pieces/<id>/<first>-<last>
    root,        \* the csv files at the root, each the rows of its fold
    command,     \* what each shell runs
    at,          \* where that command is
    toWrite,     \* entries whose record it still has to write
    collection,  \* TaskCollection, by name
    running,     \* units in its pool
    queued,      \* a job's units not yet in the pool
    folders,     \* the pieces its fold read
    staged,      \* the rows or the records it is about to move into place
    files,       \* the csv files it has still to remove, or to move in
    given, killed       \* commands given, commands killed

disk == <<record, copy, runTasks, saved, root>>
own  == <<command, at, toWrite, collection, running, queued, folders, staged,
          files>>
vars == <<config, disk, own, given, killed>>

(* ----------------------------- the records ----------------------------- *)

CsvFiles == {"shots", "sweep"}

Names == {e.name : e \in UNION {Range(config.files[f]) : f \in DOMAIN config.files}}
Entries(s) == config.files[command[s].file]
Chosen(s) ==
    IF command[s].only = "all" THEN Entries(s)
    ELSE <<CHOOSE e \in Range(Entries(s)) : e.name = command[s].only>>
IdsOf(f) == [i \in DOMAIN config.files[f] |-> config.files[f][i].id]

Recorded == {n \in Names : record[n] # None}
Unreadable == \E n \in Recorded : record[n] = Torn
RecordedIds == {record[n].id : n \in Recorded}

\* _refuse_a_name_recorded_for_another_task
NamesAnother(e) == record[e.name] # None /\ record[e.name].id # e.id

(* ----------------------- the prefix and its stop ----------------------- *)

StartOfPrefix == [shots |-> 0, scored |-> 0, failures |-> 0, stop |-> None,
                  open |-> TRUE]

\* CollectionSettings.stop_kind
ReachedTarget(rule, t) ==
    /\ rule.maxFailures > 0
    /\ t.failures >= rule.maxFailures
    /\ t.scored >= rule.minShots
StopKind(rule, t) ==
    IF ReachedTarget(rule, t)
    THEN IF t.scored = rule.minShots THEN "minimum" ELSE "target"
    ELSE IF t.shots >= rule.maxShots THEN "cap" ELSE None

\* A variant that goes on counting past the stop.
AddShotPastTheStop(id, rule, t, seed) ==
    LET task == config.tasks[id]
        n == [t EXCEPT !.shots = @ + 1,
                       !.scored = @ + (IF seed \in task.scored THEN 1 ELSE 0),
                       !.failures = @ + (IF seed \in task.failing THEN 1 ELSE 0)]
    IN  IF seed # rule.firstSeed + t.shots THEN [t EXCEPT !.open = FALSE]
        ELSE [n EXCEPT !.stop = StopKind(rule, n)]

\* PrefixTracker.add
AddShot(id, rule, t, seed) ==
    LET task == config.tasks[id]
        n == [t EXCEPT !.shots = @ + 1,
                       !.scored = @ + (IF seed \in task.scored THEN 1 ELSE 0),
                       !.failures = @ + (IF seed \in task.failing THEN 1 ELSE 0)]
        stop == StopKind(rule, n)
    IN  IF ~t.open THEN t
        ELSE IF seed # rule.firstSeed + t.shots THEN [t EXCEPT !.open = FALSE]
        ELSE [n EXCEPT !.stop = stop, !.open = (stop = None)]

SeedsOf(p) == p.first .. p.first + p.count - 1
AddPiece(id, rule, t, p) ==
    LET after[n \in 0..p.count] ==
            IF n = 0 THEN t ELSE AddShot(id, rule, after[n - 1], p.first + n - 1)
    IN  after[p.count]

Span(first, count) == [first |-> first, count |-> count]
IsAdaptive(id) == config.tasks[id].adaptive
PiecesOf(id, disks) == {p \in disks : p.id = id}

(* --------------------------- TaskCollection ---------------------------- *)

\* saved_counts: of two pieces with one first seed the longer one is kept
SavedCounts(id) ==
    {p \in {Span(q.first, q.count) : q \in PiecesOf(id, saved)} :
        \A q \in PiecesOf(id, saved) : q.first = p.first => q.count <= p.count}

NewCollection(e) ==
    [entry |-> e, saved |-> SavedCounts(e.id), next |-> e.rule.firstSeed,
     pending |-> <<>>, finished |-> {}, handedOut |-> 0, last |-> None,
     tracker |-> StartOfPrefix]

RunningCount(c) == Len(c.pending) - Cardinality(c.finished)

NextPieceCount(c) ==
    LET rule == c.entry.rule
        left == rule.firstSeed + rule.maxShots - c.next
    IN  Min({rule.pieceShots, Max({left, 0})})

TakesAPiece(c) ==
    /\ c.tracker.stop = None
    /\ NextPieceCount(c) > 0
    /\ IsAdaptive(c.entry.id) => RunningCount(c) = 0

\* count_the_finished: the finished pieces at the head, until one stops it
CountTheFinished(c) ==
    LET after[n \in 0..Len(c.pending)] ==
            IF n = 0 THEN c.tracker
            ELSE AddPiece(c.entry.id, c.entry.rule, after[n - 1], c.pending[n])
        counts(n) == c.pending[n] \in c.finished /\ after[n - 1].stop = None
        taken == CHOOSE n \in 0..Len(c.pending) :
                    /\ \A i \in 1..n : counts(i)
                    /\ n < Len(c.pending) => ~ counts(n + 1)
    IN  [c EXCEPT !.tracker = after[taken],
                  !.finished = @ \ {c.pending[i] : i \in 1..taken},
                  !.pending = SubSeq(@, taken + 1, Len(@))]

PieceEnded(c, p) == CountTheFinished([c EXCEPT !.finished = @ \cup {p}])

MakePending(c, p) ==
    [c EXCEPT !.next = p.first + p.count, !.pending = Append(@, p), !.last = p]

\* _hand_out: a saved piece is taken whole, a new one ends at the next saved
PieceToHandOut(c) ==
    LET here == {p \in c.saved : p.first = c.next}
        later == {p.first - c.next : p \in {q \in c.saved : q.first > c.next}}
    IN  IF here # {} THEN CHOOSE p \in here : TRUE
        ELSE Span(c.next, Min({NextPieceCount(c)} \cup later))

\* A variant that starts every piece with a calibrator that knows nothing.
NothingLearned(c) == <<>>

\* task_as_its_last_piece_left_it
StateToStartFrom(c) ==
    IF ~IsAdaptive(c.entry.id) \/ c.last = None THEN <<>>
    ELSE (CHOOSE p \in PiecesOf(c.entry.id, saved) :
             Span(p.first, p.count) = c.last).learned

\* _neediest: the fewest running, then the fewest handed out, then in order
Needier(s, m, n) ==
    LET c == collection[s][m]  d == collection[s][n]
        place(x) == CHOOSE i \in DOMAIN Entries(s) : Entries(s)[i].name = x
    IN  \/ RunningCount(c) < RunningCount(d)
        \/ /\ RunningCount(c) = RunningCount(d)
           /\ \/ c.handedOut < d.handedOut
              \/ c.handedOut = d.handedOut /\ place(m) <= place(n)
Takers(s) == {n \in DOMAIN collection[s] : TakesAPiece(collection[s][n])}
Neediest(s) == {n \in Takers(s) : \A m \in Takers(s) : Needier(s, n, m)}

HasRoom(s) == Cardinality(running[s]) < command[s].processes

\* run_unit: a calibrator learns from the unit's seeds in order
LearnedAfter(u) ==
    IF IsAdaptive(u.id) THEN u.learned \o [i \in 1..u.count |-> u.first + i - 1]
    ELSE <<>>
Unit(e, p, learned) ==
    [id |-> e.id, name |-> e.name, first |-> p.first, count |-> p.count,
     learned |-> learned]

\* pieces.write: of two copies of one piece the first renamed wins
Save(u) ==
    LET piece == [id |-> u.id, first |-> u.first, count |-> u.count,
                  learned |-> LearnedAfter(u)]
        isThere == \E p \in PiecesOf(u.id, saved) :
                       Span(p.first, p.count) = Span(u.first, u.count)
    IN  saved' = IF isThere THEN saved ELSE saved \cup {piece}

(* ------------------------ commands and their ends ---------------------- *)

Resting == {"idle", "done", "refused", "broken"}

\* the process is gone, and what it held in memory with it
Leaves(s, how) ==
    /\ at' = [at EXCEPT ![s] = how]
    /\ toWrite' = [toWrite EXCEPT ![s] = <<>>]
    /\ collection' = [collection EXCEPT ![s] = <<>>]
    /\ running' = [running EXCEPT ![s] = {}]
    /\ queued' = [queued EXCEPT ![s] = <<>>]
    /\ folders' = [folders EXCEPT ![s] = {}]
    /\ staged' = [staged EXCEPT ![s] = <<>>]
    /\ files' = [files EXCEPT ![s] = {}]
    /\ UNCHANGED command
Goes(s, where) ==
    /\ at' = [at EXCEPT ![s] = where]
    /\ UNCHANGED command
inMemory == <<toWrite, collection, running, queued, folders, staged, files>>
ledgers == <<given, killed>>

Give(s, k) ==
    /\ at[s] \in Resting
    /\ given < config.commands
    /\ given' = given + 1
    /\ command' = [command EXCEPT ![s] = k]
    /\ at' = [at EXCEPT ![s] = IF k.verb \in {"job", "fold"} THEN k.verb
                               ELSE "starting"]
    /\ UNCHANGED <<config, disk, inMemory, killed>>

\* a kill, or the walltime of its job
Kill(s) ==
    /\ at[s] \notin Resting
    /\ killed < config.kills
    /\ killed' = killed + 1
    /\ Leaves(s, "idle")
    /\ UNCHANGED <<config, disk, given>>

(* --------------------------- start_the_folder -------------------------- *)

\* recorded_tasks: every name checked before a record is written
CheckNames(s) ==
    /\ at[s] = "starting"
    /\ IF \E e \in Range(Chosen(s)) : record[e.name] = Torn
       THEN Leaves(s, "broken")
       ELSE IF \E e \in Range(Chosen(s)) : NamesAnother(e)
       THEN Leaves(s, "refused")
       ELSE IF command[s].verb = "shot"
       THEN Goes(s, "starting run") /\ UNCHANGED inMemory
       ELSE /\ toWrite' = [toWrite EXCEPT ![s] = Chosen(s)]
            /\ Goes(s, "recording")
            /\ UNCHANGED <<collection, running, queued, folders, staged, files>>
    /\ UNCHANGED <<config, disk, ledgers>>

\* write_json opens the file, which empties it, and then writes it
OpenRecord(s) ==
    /\ at[s] \in {"recording", "shot record"} /\ toWrite[s] # <<>>
    /\ record[Head(toWrite[s]).name] # Torn
    /\ record' = [record EXCEPT ![Head(toWrite[s]).name] = Torn]
    /\ UNCHANGED <<config, copy, runTasks, saved, root, own, ledgers>>

\* a narrated shot's record holds no collection to fold the task by
WriteRecord(s) ==
    /\ at[s] \in {"recording", "shot record"} /\ toWrite[s] # <<>>
    /\ LET e == Head(toWrite[s])
           rule == IF at[s] = "recording" THEN e.rule ELSE None
       IN  /\ record[e.name] = Torn
           /\ record' = [record EXCEPT ![e.name] =
                             [id |-> e.id, rule |-> rule, seeds |-> {}]]
    /\ toWrite' = [toWrite EXCEPT ![s] = Tail(@)]
    /\ UNCHANGED <<config, copy, runTasks, saved, root, command, at, collection,
                   running, queued, folders, staged, files, ledgers>>

\* _task_collection, each task's saved pieces read once
ReadSaved(s) ==
    /\ at[s] = "recording" /\ toWrite[s] = <<>>
    /\ collection' = [collection EXCEPT ![s] =
                        [n \in {e.name : e \in Range(Chosen(s))} |->
                            NewCollection(CHOOSE e \in Range(Chosen(s)) : e.name = n)]]
    /\ Goes(s, "accepting")
    /\ UNCHANGED <<config, disk, toWrite, running, queued, folders, staged,
                   files, ledgers>>

\* accept_raised_stop_rules: a run file of the same tasks replaces the copy
AcceptRaisedStopRules(s) ==
    /\ at[s] = "accepting"
    /\ copy' = IF runTasks = IdsOf(command[s].file) /\ copy # None
               THEN command[s].file ELSE copy
    /\ Goes(s, "starting run")
    /\ UNCHANGED <<config, record, runTasks, saved, root, inMemory,
                   ledgers>>

\* start_run: _copy_once, which refuses another file's text
CopyTheRunFile(s) ==
    /\ at[s] = "starting run"
    /\ IF copy \notin {None, command[s].file}
       THEN Leaves(s, "refused") /\ UNCHANGED copy
       ELSE /\ copy' = command[s].file
            /\ Goes(s, "writing run")
            /\ UNCHANGED inMemory
    /\ UNCHANGED <<config, record, runTasks, saved, root, given, killed>>

\* write_run_record, staged.  A record ends here and a collect goes on to its
\* pool; a shot into a folder leaves its tasks as the collection had them, and
\* records its own unless the folder has a record of that name.
WriteRunRecord(s) ==
    LET e == Chosen(s)[1]
    IN  /\ at[s] = "writing run"
        /\ runTasks' = IF command[s].verb # "shot" THEN IdsOf(command[s].file)
                       ELSE IF runTasks # None THEN runTasks ELSE <<e.id>>
        /\ \/ command[s].verb = "record" /\ Leaves(s, "done")
           \/ /\ command[s].verb = "collect"
              /\ Goes(s, "collecting")
              /\ UNCHANGED inMemory
           \/ /\ command[s].verb = "shot"
              /\ Goes(s, "shot record")
              /\ toWrite' = [toWrite EXCEPT ![s] =
                               IF record[e.name] = None THEN <<e>> ELSE <<>>]
              /\ UNCHANGED <<collection, running, queued, folders, staged, files>>
        /\ UNCHANGED <<config, record, copy, saved, root, ledgers>>

ShotEnds(s) ==
    /\ at[s] = "shot record" /\ toWrite[s] = <<>>
    /\ Leaves(s, "done")
    /\ UNCHANGED <<config, disk, ledgers>>

(* ------------------------ the collect and the jobs --------------------- *)

\* _fill_the_pool: one piece of the neediest task made pending
HandOut(s) ==
    /\ at[s] = "collecting" /\ HasRoom(s)
    /\ \E n \in Neediest(s) :
        LET c == collection[s][n]
            p == PieceToHandOut(c)
            pending == MakePending(c, p)
        IN  IF p \in c.saved
            THEN /\ collection' = [collection EXCEPT ![s][n] = PieceEnded(pending, p)]
                 /\ UNCHANGED running
            ELSE /\ collection' = [collection EXCEPT ![s][n] =
                                      [pending EXCEPT !.handedOut = @ + 1]]
                 /\ running' = [running EXCEPT ![s] = @ \cup
                                  {Unit(c.entry, p, StateToStartFrom(c))}]
    /\ UNCHANGED <<config, disk, command, at, toWrite, queued, folders, staged,
                   files, ledgers>>

IsFilled(s) == ~HasRoom(s) \/ Takers(s) = {}

\* any unit of the pool may end first
PieceEnds(s, u) ==
    /\ at[s] = "collecting" /\ u \in running[s] /\ IsFilled(s)
    /\ Save(u)
    /\ running' = [running EXCEPT ![s] = @ \ {u}]
    /\ collection' = [collection EXCEPT ![s][u.name] =
                        PieceEnded(@, Span(u.first, u.count))]
    /\ UNCHANGED <<config, record, copy, runTasks, root, command, at, toWrite,
                   queued, folders, staged, files, ledgers>>
CollectStops(s) ==
    /\ at[s] = "collecting" /\ IsFilled(s) /\ running[s] = {}
    /\ Goes(s, "fold")
    /\ UNCHANGED <<config, disk, inMemory, ledgers>>

\* seeds_of: a range inside the task's own seeds, or a share of them
SelectedSeeds(k, rule) ==
    IF k.seeds[1] = "range"
    THEN Max({k.seeds[2], rule.firstSeed}) ..
         Min({k.seeds[3], rule.firstSeed + rule.maxShots}) - 1
    ELSE rule.firstSeed + (k.seeds[2] * rule.maxShots) \div k.seeds[3] ..
         rule.firstSeed + ((k.seeds[2] + 1) * rule.maxShots) \div k.seeds[3] - 1

\* A variant that goes on after the last saved piece and leaves the gaps.
UnitsAfterTheSaved(e, k) ==
    LET held == (UNION {SeedsOf(p) : p \in SavedCounts(e.id)}) \cup {0}
        left == {x \in SelectedSeeds(k, e.rule) : x > Max(held)}
    IN  IF left = {} THEN <<>>
        ELSE <<Unit(e, Span(Min(left), Cardinality(left)), <<>>)>>

\* the numbers of a finite set from the least up
InOrder(S) ==
    [i \in 1..Cardinality(S) |->
        CHOOSE x \in S : Cardinality({y \in S : y < x}) = i - 1]

\* _unsaved_units: the gaps between the saved pieces, cut into pieces
UnsavedUnits(e, k) ==
    LET held == UNION {SeedsOf(p) : p \in SavedCounts(e.id)}
        gaps == SelectedSeeds(k, e.rule) \ held
        start(x) == Max({y \in gaps : y <= x /\ y - 1 \notin gaps})
        firsts == {x \in gaps : (x - start(x)) % e.rule.pieceShots = 0}
        count(x) == Cardinality({y \in gaps : /\ x <= y /\ y < x + e.rule.pieceShots
                                              /\ x..y \subseteq gaps})
        inOrder == InOrder(firsts)
    IN  [i \in DOMAIN inOrder |-> Unit(e, Span(inOrder[i], count(inOrder[i])), <<>>)]

\* a job checks the folder and writes no record
JobStarts(s) ==
    LET f == command[s].file
        units == FlattenSeq([i \in DOMAIN Chosen(s) |->
                                UnsavedUnits(Chosen(s)[i], command[s])])
        room == Min({Len(units), command[s].processes})
        refused == \/ runTasks = None
                   \/ copy \notin {None, f}
                   \/ \E e \in Range(Chosen(s)) :
                       IsAdaptive(e.id) \/ record[e.name] = None \/ NamesAnother(e)
    IN  /\ at[s] = "job"
        /\ copy' = IF runTasks # None /\ copy = None THEN f ELSE copy
        /\ IF \E e \in Range(Chosen(s)) : record[e.name] = Torn
           THEN Leaves(s, "broken")
           ELSE IF refused THEN Leaves(s, "refused")
           ELSE /\ running' = [running EXCEPT ![s] = Range(SubSeq(units, 1, room))]
                /\ queued' = [queued EXCEPT ![s] = SubSeq(units, room + 1, Len(units))]
                /\ Goes(s, "running")
                /\ UNCHANGED <<toWrite, collection, folders, staged, files>>
        /\ UNCHANGED <<config, record, runTasks, saved, root, ledgers>>
JobPieceEnds(s, u) ==
    /\ at[s] = "running" /\ u \in running[s]
    /\ Save(u)
    /\ LET next == SubSeq(queued[s], 1, Min({1, Len(queued[s])}))
       IN  /\ running' = [running EXCEPT ![s] = (@ \ {u}) \cup Range(next)]
           /\ queued' = [queued EXCEPT ![s] = SubSeq(@, Len(next) + 1, Len(@))]
    /\ UNCHANGED <<config, record, copy, runTasks, root, command, at, toWrite,
                   collection, folders, staged, files, ledgers>>
JobEnds(s) ==
    /\ at[s] = "running" /\ running[s] = {}
    /\ Leaves(s, "done")
    /\ UNCHANGED <<config, disk, ledgers>>

(* -------------------------------- the fold ----------------------------- *)

\* recorded_task_ids and folders_of: what the fold reads
FoldLists(s) ==
    /\ at[s] = "fold"
    /\ IF runTasks = None THEN Leaves(s, "refused")
       ELSE IF Unreadable THEN Leaves(s, "broken")
       ELSE /\ folders' = [folders EXCEPT ![s] = {p \in saved : p.id \in RecordedIds}]
            /\ Goes(s, "folding")
            /\ UNCHANGED <<toWrite, collection, running, queued, staged, files>>
    /\ UNCHANGED <<config, disk, ledgers>>

RepeatsAShot(pieces) ==
    \E p, q \in pieces : p # q /\ p.id = q.id /\ SeedsOf(p) \cap SeedsOf(q) # {}

\* _add_to_the_prefix over the merged rows, by the rule the record holds:
\* below[x] has the rows of the seeds below x
RowOf(id, rule, pieces) ==
    LET seeds == UNION {SeedsOf(p) : p \in PiecesOf(id, pieces)}
        last == Max({0} \cup {x + 1 : x \in seeds})
        below[x \in 0..last] ==
            IF x = 0 THEN StartOfPrefix
            ELSE IF x - 1 \in seeds THEN AddShot(id, rule, below[x - 1], x - 1)
            ELSE below[x - 1]
    IN  below[last]

\* a record without its collection's facts has no rule to read its rows by
FoldStages(s) ==
    /\ at[s] = "folding"
    /\ IF Unreadable \/ \E n \in Recorded : record[n].rule = None
       THEN Leaves(s, "broken")
       ELSE IF RepeatsAShot(folders[s]) THEN Leaves(s, "refused")
       ELSE /\ staged' = [staged EXCEPT ![s] =
                            [n \in Recorded |->
                                [RowOf(record[n].id, record[n].rule, folders[s])
                                    EXCEPT !.open = FALSE]]]
            /\ Goes(s, "staged")
            /\ UNCHANGED <<toWrite, collection, running, queued, folders, files>>
    /\ UNCHANGED <<config, disk, ledgers>>

\* A variant that moves the new files over the old ones.
KeepOldFiles(s) ==
    /\ at[s] = "staged"
    /\ files' = files
    /\ Goes(s, "clearing")
    /\ UNCHANGED <<config, disk, toWrite, collection, running, queued, folders,
                   staged, ledgers>>

\* publish_the_fold: the csv files found are removed, one by one, and the new
\* ones moved in; a file that another fold removed meanwhile is not there
ListOldFiles(s) ==
    /\ at[s] = "staged"
    /\ files' = [files EXCEPT ![s] = {f \in CsvFiles : root[f] # None}]
    /\ Goes(s, "clearing")
    /\ UNCHANGED <<config, disk, toWrite, collection, running, queued, folders,
                   staged, ledgers>>
RemoveFile(s, f) ==
    /\ at[s] = "clearing" /\ f \in files[s]
    /\ IF root[f] = None THEN Leaves(s, "broken") /\ UNCHANGED root
       ELSE /\ root' = [root EXCEPT ![f] = None]
            /\ files' = [files EXCEPT ![s] = @ \ {f}]
            /\ UNCHANGED <<command, at, toWrite, collection, running, queued,
                           folders, staged>>
    /\ UNCHANGED <<config, record, copy, runTasks, saved, ledgers>>
ListNewFiles(s) ==
    /\ at[s] = "clearing" /\ files[s] = {}
    /\ files' = [files EXCEPT ![s] = CsvFiles]
    /\ Goes(s, "moving")
    /\ UNCHANGED <<config, disk, toWrite, collection, running, queued, folders,
                   staged, ledgers>>
MoveFile(s, f) ==
    /\ at[s] = "moving" /\ f \in files[s]
    /\ root' = [root EXCEPT ![f] = staged[s]]
    /\ files' = [files EXCEPT ![s] = @ \ {f}]
    /\ UNCHANGED <<config, record, copy, runTasks, saved, command, at, toWrite,
                   collection, running, queued, folders, staged, ledgers>>

\* record_seeds: every record read, then each written back, staged
ReadRecords(s) ==
    /\ at[s] = "moving" /\ files[s] = {}
    /\ IF Unreadable THEN Leaves(s, "broken")
       ELSE /\ staged' = [staged EXCEPT ![s] =
                            [n \in Recorded |-> [record[n] EXCEPT !.seeds =
                                UNION {SeedsOf(p) : p \in PiecesOf(record[n].id, folders[s])}]]]
            /\ Goes(s, "seeds")
            /\ UNCHANGED <<toWrite, collection, running, queued, folders, files>>
    /\ UNCHANGED <<config, disk, ledgers>>
RecordSeeds(s, n) ==
    /\ at[s] = "seeds" /\ n \in DOMAIN staged[s]
    /\ record' = [record EXCEPT ![n] = staged[s][n]]
    /\ staged' = [staged EXCEPT ![s] =
                    [m \in DOMAIN staged[s] \ {n} |-> staged[s][m]]]
    /\ UNCHANGED <<config, copy, runTasks, saved, root, command, at, toWrite,
                   collection, running, queued, folders, files, ledgers>>
\* finish_run writes run.json again after a collect
FoldEnds(s) ==
    /\ at[s] = "seeds" /\ DOMAIN staged[s] = {}
    /\ runTasks' = IF command[s].verb = "collect" THEN IdsOf(command[s].file)
                   ELSE runTasks
    /\ Leaves(s, "done")
    /\ UNCHANGED <<config, record, copy, saved, root, ledgers>>

(* ----------------------------- the whole folder ------------------------ *)

Shells == DOMAIN config.shells

InitFor(c) ==
    LET names == {e.name : e \in UNION {Range(c.files[f]) : f \in DOMAIN c.files}}
        shells == DOMAIN c.shells
    IN  /\ config = c
        /\ record = [n \in names |-> None]
        /\ copy = None /\ runTasks = None /\ saved = {}
        /\ root = [f \in CsvFiles |-> None]
        /\ command = [s \in shells |-> None] /\ at = [s \in shells |-> "idle"]
        /\ toWrite = [s \in shells |-> <<>>] /\ collection = [s \in shells |-> <<>>]
        /\ running = [s \in shells |-> {}] /\ queued = [s \in shells |-> <<>>]
        /\ folders = [s \in shells |-> {}] /\ staged = [s \in shells |-> <<>>]
        /\ files = [s \in shells |-> {}]
        /\ given = 0 /\ killed = 0
Init == \E c \in Settings : InitFor(c)

Prepares(s) ==
    \/ CheckNames(s) \/ OpenRecord(s) \/ WriteRecord(s) \/ ReadSaved(s)
    \/ AcceptRaisedStopRules(s) \/ CopyTheRunFile(s) \/ WriteRunRecord(s)
    \/ ShotEnds(s) \/ JobStarts(s)
Collects(s) ==
    \/ HandOut(s) \/ CollectStops(s) \/ JobEnds(s)
    \/ \E u \in running[s] : PieceEnds(s, u) \/ JobPieceEnds(s, u)
Folds(s) ==
    \/ FoldLists(s) \/ FoldStages(s) \/ ListOldFiles(s) \/ ListNewFiles(s)
    \/ \E f \in CsvFiles : RemoveFile(s, f) \/ MoveFile(s, f)
    \/ ReadRecords(s) \/ FoldEnds(s) \/ \E n \in Names : RecordSeeds(s, n)
Runs(s) == Prepares(s) \/ Collects(s) \/ Folds(s)

\* every command has come to its end, and no more are given
Rests == (\A s \in Shells : at[s] \in Resting) /\ UNCHANGED vars

Next ==
    \/ \E s \in Shells :
        \/ Runs(s) \/ Kill(s)
        \/ \E k \in config.shells[s] : Give(s, k)
    \/ Rests

Spec == Init /\ [][Next]_vars

(* ------------------------------ properties ----------------------------- *)

\* Jobs may be given in any number of shells, and other commands in one: a
\* folder's history may be so, and the programs keep no lock on a folder.
OneDesk(c) ==
    \A s, t \in DOMAIN c.shells :
        /\ \E k \in c.shells[s] : k.verb # "job"
        /\ \E k \in c.shells[t] : k.verb # "job"
        => s = t

\* A run file that takes a task up again begins it at the same seed: the first
\* seed is no part of a task's id.
FirstSeedsAgree(c) ==
    \A e, d \in UNION {Range(c.files[f]) : f \in DOMAIN c.files} :
        e.id = d.id => e.rule.firstSeed = d.rule.firstSeed

\* Who may run shots of a task, the seeds he may run, and the pieces a job cuts
\* its seeds into in an empty folder.
WorkersOf(c, id) ==
    {w \in [shell : DOMAIN c.shells, command : UNION {c.shells[s] : s \in DOMAIN c.shells},
            entry : UNION {Range(c.files[f]) : f \in DOMAIN c.files}] :
        /\ w.command \in c.shells[w.shell] /\ w.command.verb \in {"collect", "job"}
        /\ w.entry \in Range(c.files[w.command.file])
        /\ w.command.only \in {"all", w.entry.name} /\ w.entry.id = id}
SeedsFor(k, rule) ==
    IF k.verb = "job" THEN SelectedSeeds(k, rule)
    ELSE rule.firstSeed .. rule.firstSeed + rule.maxShots - 1
CutsOf(k, rule) ==
    LET S == SelectedSeeds(k, rule)
        cut(x) == {y \in S : x <= y /\ y < x + rule.pieceShots}
    IN  {Span(x, Cardinality(cut(x))) : x \in {x \in S : (x - Min(S)) % rule.pieceShots = 0}}

\* What a folder asks of those who share it: of each task, no two shells run
\* one seed, or all of them are jobs that cut it in the same places (one job
\* sent twice, one task's shares).  The programs check neither.
SeedsAreShared(c) ==
    \A id \in DOMAIN c.tasks :
        \/ \A v, w \in WorkersOf(c, id) : v.shell # w.shell =>
            SeedsFor(v.command, v.entry.rule) \cap SeedsFor(w.command, w.entry.rule) = {}
        \/ \A v, w \in WorkersOf(c, id) :
            /\ v.command.verb = "job"
            /\ \A p \in CutsOf(v.command, v.entry.rule), q \in CutsOf(w.command, w.entry.rule) :
                p = q \/ SeedsOf(p) \cap SeedsOf(q) = {}

\* Every variable keeps its type; a command's memory is empty when it rests.
TypeOK ==
    /\ config \in Settings
    /\ \A n \in Names :
        record[n] \in {None, Torn} \/ record[n].id \in DOMAIN config.tasks
    /\ copy \in DOMAIN config.files \cup {None}
    /\ runTasks = None \/ Range(runTasks) \subseteq DOMAIN config.tasks
    /\ \A p \in saved : p.id \in DOMAIN config.tasks /\ p.count > 0
    /\ \A s \in Shells :
        /\ command[s] \in config.shells[s] \cup {None}
        /\ at[s] \in Resting => running[s] = {} /\ queued[s] = <<>> /\ files[s] = {}
        /\ Cardinality(running[s]) > 0 => Cardinality(running[s]) <= command[s].processes
        /\ files[s] \subseteq CsvFiles
    /\ given \in 0..config.commands /\ killed \in 0..config.kills

\* However often commands are killed and given again, under whatever piece
\* size and caps, and even when one job is given twice at once, no two saved
\* pieces hold one shot, so a fold never has to refuse them; and every
\* variable keeps its type.
SavedShotsAreOnce == TypeOK /\ ~RepeatsAShot(saved)

\* The counts of an uncut run of the task: its first n seeds, one by one.
UncutCounts(id, rule, n) ==
    LET seeds == rule.firstSeed .. rule.firstSeed + n - 1
    IN  [shots |-> n, scored |-> Cardinality(seeds \cap config.tasks[id].scored),
         failures |-> Cardinality(seeds \cap config.tasks[id].failing)]
UncutStop(id, rule) ==
    Min({n \in 1..rule.maxShots : StopKind(rule, UncutCounts(id, rule, n)) # None})
IsAnUncutRun(id, rule, row) ==
    LET n == row.shots  counts == UncutCounts(id, rule, n)
    IN  /\ n <= UncutStop(id, rule)
        /\ row.scored = counts.scored /\ row.failures = counts.failures
        /\ row.stop = IF n = UncutStop(id, rule) THEN StopKind(rule, counts) ELSE None

\* A sweep cut into pieces, killed, and picked up again gives the counts and
\* the stop of one uncut run, whatever order the pool's pieces ended in: the
\* prefix a collect counts is such a run's, and the row a collect folds for a
\* task it collected is such a run up to its stop.
RowsAreUncutRuns ==
    \A s \in Shells :
        /\ \A n \in DOMAIN collection[s] :
            LET c == collection[s][n]
            IN  /\ IsAnUncutRun(c.entry.id, c.entry.rule, c.tracker)
                /\ at[s] \in {"staged", "clearing", "moving"} =>
                    /\ IsAnUncutRun(c.entry.id, c.entry.rule, staged[s][n])
                    /\ staged[s][n].stop # None
        /\ at[s] \in {"staged", "clearing", "moving"} =>
            \A n \in DOMAIN staged[s] : \E f \in DOMAIN config.files :
                \E e \in Range(config.files[f]) :
                    e.name = n /\ IsAnUncutRun(e.id, e.rule, staged[s][n])

\* A calibrator saved with a piece learned from every seed up to that piece's
\* last, each once and in order, through kills and pieces of other sizes.
CalibratorsLearnInOrder ==
    \A p \in saved : IsAdaptive(p.id) =>
        p.learned = [i \in 1..Len(p.learned) |-> p.first + p.count - Len(p.learned) + i - 1]
        /\ \E f \in DOMAIN config.files : \E e \in Range(config.files[f]) :
            e.id = p.id /\ p.learned[1] = e.rule.firstSeed

\* A job that ended has every seed it was given in a saved piece, though it
\* ran only those that no piece held when it started.
EndedJobsSavedTheirSeeds ==
    \A s \in Shells : at[s] = "done" /\ command[s].verb = "job" =>
        \A e \in Range(Chosen(s)) :
            SelectedSeeds(command[s], e.rule)
                \subseteq UNION {SeedsOf(p) : p \in PiecesOf(e.id, saved)}

\* Jobs that overlap, are killed and run again save each of their shots, and
\* no shot twice.
JobsSaveEachShotOnce == SavedShotsAreOnce /\ EndedJobsSavedTheirSeeds

\* The csv files at the root are of one fold, also after a fold was killed
\* while it put its files in the place of the last one's.
RootIsOfOneFold ==
    \A f, g \in CsvFiles : None \in {root[f], root[g]} \/ root[f] = root[g]
=============================================================================
