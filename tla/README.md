# A TLA+ model of decsim

decsim simulates a real-time decoder for quantum error correction: rounds of
syndrome bits leave a quantum processor, are packed, sent over links, stored,
read by windows, decoded by pools of units, escalated to stronger pools where
the first answer is not trusted, and the corrections are folded into a Pauli
frame that conditional operations wait for. It is a discrete-event program:
one queue of events (`decsim/engine.py`), each event a Python call that runs to
its end, many events due in an order the settings decide.

That shape is what makes the code hard to test and good to model check. No two
handlers run at once, but every component is a set of handlers that share state
and are reached in an order nobody wrote down: a boundary lands before, during
or after the decode that reads it; a request is cancelled while queued, staged,
on a link, running, or answered; a store fills while the decodes that would
empty it wait for the round that does not fit. The tests fix one order per
test. The modules here take all orders of small systems; for the link protocol,
the decoder pool, the windows, the escalation chain, the readout path, the
magic state factories and the results folder the main safety results are proved
for every size.

**One modelling convention for everything.** An event (or a call from outside a
component, with everything it calls before it returns) is one TLA+ action. Time
is abstracted to the order of events: latencies, clock rates and priced cycles
are replaced by "may come next". That keeps every order the program has for
some settings, and is why the models need no clock. Where the code fixes an
order (a wire delivers in sending order, an event that runs before anything
else may, a retry that runs inside the handler) the model fixes it too.
Two modules depart from it. `ProgramExecution` has the QEC cycle as its clock,
since rounds, regions and starts are tied to its edges and to the priorities of
the events due there. `RunFolder` is about processes and not about the engine:
a step there is what one command does between two changes of the disk.

## 1. Inventory

`PROJECT.json` lists each part with its source files and how much of it is
modelled. "Hard" names what is difficult to test there.

| Part | State | Operations | Hard | Correct means |
|---|---|---|---|---|
| **Links** `links/` | packet numbers, timers, credits, frames on the wire | send, land, acknowledge, time out, retry, give up | loss, late answers, a retry meeting an ACK, lost wakes | exactly once, in order, or the run stops; the receive buffer is never overrun |
| **Decoder pool** `decoders/decode_*`, `decoder_*`, `execution_slots` | queue, units with two input slots, memory, compute, device slots, awaited landings | submit, release, dispatch, stage, land, start, finish, read, withdraw, cancel | cancels in each state, nested deliveries, shared landings, two residents racing for one memory | each resource given back once; a running decode has its input; nothing waits beside free compute |
| **Batching** `decoders/batching.py` | a batch and its members | merge, cancel one member, decode each | a member leaving a batch that goes on | the same, member by member |
| **Window chain** `windows/window_*`, `input_checks`, `decode_requests`, `gap_join` | boundaries in and out, guesses, stale marks, revisions, redos | request, start, join, verdict, commit, land a boundary, redo, finish | decoding on a guess, a guess proved wrong late, escalation from a guess | the answers of a serial run |
| **Results and frame** `operation_results`, `pauli_frame/` | committed prefix, segments, corrections | commit, replace, release, deliver | a result delivered while a window may still change | delivered means final, and it is delivered |
| **Escalation** `escalation/`, `strong_requests`, `decode_outcomes` | demand, companions, output slots, held windows, rescues | admit, select, complete, keep, cancel, abandon, rescue | result before demand, keep during a decode, speculation down a chain | an answer that was asked for, and nothing left behind it |
| **Readout path** `controller/round_*`, `syndrome_round_sender` | workspace, packing line, held line, routes | expect, add, pack, hand on, leave, retry | a bounded stage in front of a bounded store | places are kept, lines are retried |
| **Syndrome buffer** `syndrome_buffer/` | stored rounds, reservations, holds | reserve, write, copy, publish, hold, release, stop | a knot of holds and rounds that wait for each other | no write without room; a knot stops the run, and only a knot |
| **Retention and tracking** `round_retention`, `round_tracker` | arrivals by stream, holds by window | arrive, place, end a hold | a copy landing later than the count says | a requested window finds its rounds |
| **Window planning** `windows/schemes/`, `window_planner`, `window_release`, `region_*`, `committed_rounds` | the plan, the release position, contributions by interval | plan, release, let go, replace | plans grown while the run goes on | each round committed by one window |
| **Escalation policies** `policies`, `threshold_sources`, `strong_*shapes` | thresholds, audits, learnt numbers | decide, learn | learning in the order results come | (numbers) |
| **Controller streams** `feedback_streams`, `patch_streams`, `idle_rounds`, `operation_issue` | bindings, live streams, protected regions, split groups, idle counts | issue, bind, open, emit, close, seal, release, idle | the boundary, the round and the release of a protected cycle fall on one tick, ordered by priority alone | a stream's rounds are 1, 2, 3 ..., each once; an idle round is decoded once |
| **Cycle clock** `qpu/cycle_clock` | commands, running bodies, idle patches | cross a boundary, emit, start, finish | a command issued from inside the crossing that frees its patches | one round per cycle on every live patch |
| **Magic state factories** `qpu/magic_state_factories` | stores, units, requests by level | request, attempt, prepare, correct, return, shut down | failed rounds at any level, deliveries that start work, a shortage counted twice | a supply: each request once, oldest first; production follows demand |
| **Devices** `qpu/*_device` | sampled shots | sample, read out | numbers | (compared with Stim by the tests) |
| **Decoder algorithms** `decoders/*/` | graphs, weights | decode | numbers | (compared with references by the tests) |
| **Detector error models** `detector_error_model/` | sparse matrices | slice, split, own | data | each fault owned once |
| **Execution runtime** `frontends/execution_runtime` | claims, ready and held operations | admit, gate, start, finish, release | a gate that opens inside the call that asked | each operation once, when nothing holds it |
| **Frontends** `frontends/` (rest) | parsed circuits and workloads | parse, plan | input forms | the program's order |
| **Experiments** `experiments/` | a folder of records, pieces and csv files; each command's pool | record, collect, resume, run a job, fold, publish | several jobs on one folder, a kill between any two changes of the disk | no shot counted twice, the rows of an uncut run, files of one fold |
| **Engine, records, build, observation** | the event queue; value records; wiring; listeners | schedule, run; construct; count | construction refusals | events in tick, priority, insertion order |

How they interact: the quantum processor calls the controller with readouts
(a link between); the packing stage hands finished rounds to the sender, which
reserves room in every store the round goes to and sends it; a landing publishes
the round to the windows; a window whose rounds are in asks the decoder manager
for a decode, which takes the window's hold on the store with it; the result
comes back by a callback to the window side, which commits, hands boundaries to
other windows over links, asks an edge for a verdict, and either delivers or
escalates: the strong pool is another manager, and its result comes back the
same way. A freed slot, place or unit calls back into the line that waits for
it from inside the handler that freed it. Those callbacks are the places where
state is changed under a caller's feet, and where most properties here look.

`PROJECT.json` lists under `hazards` each such place at its line, with the
properties that cover it, or why none does yet.

## 2. Modules

| Module | Models | Composes |
|---|---|---|
| `MessageChannel` | what a sender may expect of a link: each message once, in order, until the link fails | (abstract) |
| `ReliableChannel` | the go-back-N channel over a lossy wire with credits | implements `MessageChannel` |
| `ReliableChannelProofs` | its inductive invariant and theorems | extends `ReliableChannel`, `TLAPS` |
| `DecoderPool`, `MCDecoderPool` | a decoder manager with its queue, units, memories, device slots and cancels | |
| `DecoderPoolProofs` | its inductive invariants and theorems | extends `DecoderPool`, `DataLemmas` |
| `SerialWindows` | what windows promise: one answer each, decoded on final boundaries | (abstract) |
| `WindowChain`, `MCWindowChain` | windows, boundaries, guesses, revisions, the frame and the results | implements `SerialWindows` |
| `WindowChainProofs` | its inductive invariant, its theorems and its refinement | extends `WindowChain`, `TLAPS` |
| `EscalationChain`, `MCEscalationChain` | one window on a chain of pools: demand, companions, rescues, keeps | |
| `EscalationChainProofs` | its inductive invariant and theorems | extends `EscalationChain`, `TLAPS` |
| `ReadoutPath`, `MCReadoutPath` | packing stage, lines, stores, holds, copies and the knot stop; redos, their regions and landing stores | |
| `ReadoutPathProofs` | the inductive invariants of what windows read and of where each round is, and the theorems | extends `ReadoutPath`, `DataLemmas` |
| `ProgramExecution`, `MCProgramExecution` | the runtime, the issuer, the streams, the idle rounds and the cycle clock | these five parts, as one machine |
| `StateSupply` | what a magic state factory promises | (abstract) |
| `MagicStateFactories`, `MCMagicStateFactories` | the one-stage and the multi-level factory | implements `StateSupply` |
| `MagicStateFactoriesProofs` | its inductive invariant, its theorem and its refinement | extends `MagicStateFactories`, `DataLemmas` |
| `DataLemmas` | least elements, downward recursion, maxima, parts of sequences, a head and its tail: facts several proofs use | extends `TLAPS` |
| `StreamWindows`, `MCStreamWindows` | which windows a growing stream has, what links them, what is let go | |
| `RunFolder`, `MCRunFolder` | a results folder and the commands that share it | |
| `RunFolderProofs` | its inductive invariants and theorems | extends `RunFolder`, `DataLemmas` |

`WindowChain` takes the windows as laid and a strong redo as one decode that
ends; `StreamWindows` takes a decode, its redo and its way to the frame as one
step each; `EscalationChain` takes the boundaries as landed; `DecoderPool` takes a window's requests as calls
from outside at any time; `ReadoutPath` takes a free decode unit;
`ProgramExecution` takes decisions and magic states as calls from outside, and
`MagicStateFactories` requests. Each is thus the environment of the others,
chosen wider than the code.

### Links: `ReliableChannel`
`packet_count`, `next_psn`, `unacked_psn`, `is_retry_started`,
`since_ack_request`, `retries_left` are the fields of `_Sending`;
`first_kept_psn` stands for the keys of `packet_by_psn`; `timer` and `wake` for
the two events the sender may have queued; `expected_psn` and `is_nak_sent` for
the responder's. `credits_out` and `serializing` are the credit wire's. Actions:
`TakeWire` (a message is numbered), `Wake` (`_send_next` at a wake),
`Acknowledged`, `TimerExpired`, `WireFrees`, `CreditReturns` and `Land`, where
the frame, or its answer, may be lost. A wire keeps sending order, so frames and
answers are sequences. A loss is chosen at the landing; the code draws it when
it sends and reads it only there.

### Decoder pool: `DecoderPool`
A decode is the set of requests it serves (one, or the members of a batch).
`residents`, `holder`, `free` are the units' slots, the holder of their compute
and the pool's list; `asking`, `missing`, `inFlight`, `awaited`, `memory`,
`held` follow an input from the store's hold over the link into the unit;
`running` and `device_queue` are the execution slots; `started`, `ended`,
`completed`, `withdrawn`, `walking` the decode's life. A call that cancels
several requests runs the dispatch loop between two of them in one case, so it
is a chain of `TakeBack` steps during which nothing else may run (`taking`); the
dispatch loop is likewise a chain of `Dispatch` steps (`dispatching`) because
the choice of the next request depends on the last placement. A result's
delivery is a call into the window side, which may call back: `delivering`.
Any startable request may be the first, so every scheduler row is covered.
One specification serves all pools: what tells them apart (memory, blocking on
an unread result, batching, when an input is asked for) is in a setting.

### Windows: `WindowChain`
`boundaryIn` and `record` are a window's landed boundaries and the courier's
versions, `flying` the deliveries, `provisional`, `read`, `stale`, `waiting` are
`InputChecks`, `revision`, `strong`, `home` a window's answer on its way,
`prefix`, `released`, `delivered` are `OperationResults`. A boundary is one of
two values, a decode's answer, its verdict and which of two joined solves
answers are free choices. `Land*` are the outcomes of a boundary's landing:
superseded, quiet, one that makes a read stale, one that confirms a guess and so
settles the window. Under the held row a boundary leaves only once final.

### Escalation: `EscalationChain`
`record[e]` is the ledger of `StrongRequests` for the pool at the end of edge
`e` (phase, owed results, companions, open source decodes), `edge[e]` its
`StrongRedecode` (planned, held, selected, rescue armed), `solves[p]` where each
decode of pool `p` is: live, let run, in an output slot, joined. `EnqueueTarget`
starts speculative decodes down the chain as far as edges say.

### Readout: `ReadoutPath`
`inAssembly`, `packing`, `packed`, `expected`, `forming` are the packing stage;
`packingLine` and `heldRounds` its two lines; `onRoute` the writes with room
reserved, `stored` the rounds kept, `phase` a window's hold. `RetryHeld` is
`HeldRounds.retry` together with `_stop_at_a_knot`, which the store runs after
every event. A setting `runsOn` lets the model go past a stop, to compare what
was announced with what would have happened.

The second half is the strong side of retention. A window in `config.redo` keeps
its rounds in its entry store and in the landing store of the edge out of it
(`PotentialStrong`) until it is final or its redo has its input. `redo` follows
one: `held` for rounds not stored yet, `asked` once submitted, `landed` with its
input in the unit, `over`. `Plan` is `shape.plan` with `_hold` and
`_carry_missing_rounds`; `crossing` holds the regions on each edge, which take
room nobody asked for. `LandRegion` is `_land_formed`: the rounds land one after
the other, each stored if a hold still names it, and wakes the held redos
indexed under its stream (`Woken`). A window decoded again gives its boundary
out with its redo's answer, the held row of `WindowChain`; `Rescue` may plan a
redo at any time before the verdict, so a plan beside the decode and a deadline's
are both among its behaviours, and `Keep` drops, cancels or leaves it.

### Program: `ProgramExecution`
Five parts call one another inside one event, so the machine is one record
`run`, a handler is an operator from machine to machine, and an action pops the
event the engine runs next. `requested`, `ready`, `started`, `finished`,
`released`, `holder` are the fields of `ExecutionRuntime`; `commands`,
`running`, `idle`, `prepared`, `lastEmitted` those of the cycle clock; `live` is
a stream's `_LiveStream`, `bindings`, `streamOf` what an operation and a patch
are bound to; `idleCount` the accounting of idle rounds by patch. `agenda`,
`rounds` and `releases` hold what is due on an edge by priority (`coming` what
is due on the next), so `ScheduledStart`, `CycleBoundary`, `ProtectedBoundary`,
then `ProtectedRound`, then `ProtectedRelease` is the engine's order. An
assertion or an error of the code sets `isBroken`. `OnDecision` and
`StateArrives` come from outside; `NextEdge` ends a cycle. `expected` and
`readouts` count, for `OneRoundPerCycle`, the patches measured in a cycle and
the rounds read out of each: no action reads them.

### Factories: `MagicStateFactories`
The record `factory` holds the requests, and by level the states in store, the
units at work, the rounds in correction and what was made and lost. A stage is a
chain of level 0 alone with its own rules: its unit is free once the attempt
ends, and the state comes back after its corrections (`StateReturns`). A chain's
`StartRounds` is one pass of the loop in `_start_work`: each start lowers what
its level wants and the demand below it, so a second pass finds nothing;
`NoUnitWaitsForWork` is checked beside it. `ShutDown` comes from the windows
once the operations that emit rounds have been served.

### Window planning: `StreamWindows`
`windows` are the windows laid, by stream and index: the rounds each commits
(`lo`, `hi`), reads (`from`, `buf`) and reads of coupled regions (`reads`), and beside
them what the planner, the courier and the input checks keep of it: `owed`
(`deps_remaining`), `dependents`, `released`, `version`, `provisional`.
`stream` is what is known of a stream, from `_StreamRegions`, `RoundTracker` and
`FiniteStream`: the rounds bound (`next`) and counted (`arrived`, with those
`past` a gap), its `cuts`, `closed` boundaries and end, its `plan` where its
length is declared, and how far it let go (`gone`) and dropped regions
(`dropped`). `couplings` are the two maps of reads between regions. The steps are
the calls the window side gets: `Bind` (a segment of the program; its edges cut,
a joint measurement couples regions), `IdleRound`, `CloseBoundary`,
`RoundArrives` (at most one round out of order), `Seal`, the commits and
landings, `BecomesFinal` with its letting go. `Lay` is `_admit_stream_window`
whole, `Relaid` and `Clipped` what a cut does to windows already laid.

Where `scheme` is not `live` a run is planned: every operation is a stream whose
windows exist from the start (`SchemePlan`, `PlannedWindows`), each given the
boundaries of its own plan and of the last windows of the operations before it.
`StartOperation` waits for the results the operation is blocked by, and
`OverflowIsIn` says when the rounds past an operation's end are no longer waited
for: an operation after it has them, `MemoryRound`s stand for them, or every
operation after it has ended.

### Results folder: `RunFolder`
`record`, `copy`, `runTasks`, `saved`, `root` are what is on the disk: the
record of a task, the copy of the run file, `run.json`'s tasks, the pieces and
the csv files. `command`, `at` and the rest are one process by shell, lost when
it is killed (`Kill`). A file that is opened and then written is `Torn` between
the two (`OpenRecord`, `WriteRecord`); what the code stages and renames appears
in one step. `HandOut` and `PieceEnds` are a collect's pool, `JobStarts` cuts
the gaps a job was given into pieces, the steps from `FoldLists` to `FoldEnds`
are a fold, each of whose removals, moves and records is a step of its own.

## 3. Runs

Configurations of the components whose last state has no successor set
`CHECK_DEADLOCK FALSE`: a run of decsim is finite, and its last state (all
answered, no event queued) is one. That it does not stop *early* is what the
liveness properties check. `ProgramExecution`, `MagicStateFactories`,
`StreamWindows` and `RunFolder` have a step `Rests` in their proper last states
instead, so there TLC's deadlock check stays on. Every step of `StreamWindows`
but `Rests` uses something up, so there it says that each run ends with every
round committed and every window final.

| Run | Properties | What it shows |
|---|---|---|
| `reliable_channel` | `AcknowledgedIsTaken` `ReachablePacketsKept` `NeverStranded` `ImplementsMessageChannel` `EveryMessageSettles` | two messages of two frames, a window of three, two buffer places, one retry: all losses, timeouts, orders of answers and credits |
| `decoder_pool` | `ComputeAccounted` `ComputeMoves` `BothInputsFit` `StoreHoldsUntilLanded` `MemoryFollowsResidents` `EveryRequestSettles` | three pools: companions and strong requests on two units of a device with one slot and little memory; units that block on an unread result, beside an outside job; batches whose members leave in each state |
| `window_chain` | `FrameMatchesChain` `WrongReadsAreKnown` `RedoPinsFinalFaces` `SegmentsLeaveOnceFinal` `ImplementsSerial` `EveryStreamDelivers` | a chain of three windows under both boundary rows, and a window that reads two streams with two solves an attempt |
| `escalation_chain` | `ResultsAndDestinationsMeet` `AnswerSettlesTheChain` `RunEndsSettled` | every chain of two or three pools with each way to start a target, one or two solves |
| `readout_path` | `BoundedStagesKeepTheirRoom` `RequestedInputIsStored` `StopsOnlyAtAKnot` `EveryWindowDecodes` | a shared store with two ports behind a stage of two places, two stores with a copy, a store too small; overlapping windows redone on one edge, two edges into one landing store |
| `program` | `PartsKeepTheirPromises` `OneRoundPerCycle` `StreamsAreUncut` `IdleRoundsAreDecodedOnce` `EveryProgramEnds` | eleven programs: protected memories, pairs, sources and crossing regions, split and finite streams, patches with and without lives, magic states, discards, scheduled starts |
| `magic_states` | `StatesAreMadeAsWanted` `ImplementsStateSupply` `EveryRequestIsServed` | two stages and three chains of two or three levels, on demand and ahead of it, with and without corrections, one failure |
| `stream_windows` | `WindowsFollowTheCuts` `NoReadyWindowIsPassedBy` `BoundariesReachTheirWindows` `NothingLetGoIsRead` | open streams whose guesses are checked, whose boundaries close, whose windows read no buffer; streams of known length, flushed or looking ahead; two or three coupled patches that let windows go; operations planned by each scheme, that look ahead into two short ones or are waited for |
| `run_folder` | `JobsSaveEachShotOnce` `RowsAreUncutRuns` `CalibratorsLearnInOrder` `RootIsOfOneFold` | a collect with raised caps and pieces after a kill, a pool of three, a cluster with a job sent twice, a renamed task |
| `held_redo`, `late_window`, `lost_round` | one each | disagreements between code and comments, below |

**Bounds and why they are enough.** *Channel:* a gap needs a lost frame and a
later one, a duplicate a retry, a NAK meeting a timeout three frames out; four
frames with a window of three and an acknowledgement interval of two have all of
these across a message border, and the proofs remove the bound. *Pool:* two
units and two residents per unit (the code's `INPUT_SLOT_COUNT`) with one input
that fills the memory and others that fit in pairs; a device with fewer slots
than units makes decodes wait in line; four requests allow a batch to keep a
survivor after one member left while another waits. The blocking pool has memory
for all its inputs: a unit that blocks keeps the input of the result being read
after the decode has left its slot, and `has_room` admits a first resident
without asking (`decoder_unit.py:117`), so with less memory `BothInputsFit` does
not hold there once a companion joins. *Windows:* a wrong guess must reach a
window whose own guess was already used: three windows. Two boundary values
suffice because the code only compares them. *Escalation:* with three pools an
edge has a neighbour on both sides; forced classes are two. *Readout:* one place
fewer than rounds, one bit fewer than needed; two write ports so that a narrow
round may pass a wide one. The landing stores have exactly the room of the holds
on them: with one bit less a region finds none, so the bound says what a landing
store needs. Two windows that share a round make a region that leaves out what is
stored or coming, and a redo planned before a keep makes regions that land with
no hold left, or after their stream closed. *Program:* regions of one to four operations and
bodies of up to two rounds put each kind of event on an edge with each other
kind; decisions and magic states come by the program's `horizon`, a cycle past
every start its waits can postpone. `landsOnEdges` is off in the two programs
whose region begins with a released operation: there a release on an edge is the
finding `lost_round`. *Factories:* a deficit of more than one round, a level
with two outputs and three inputs, and one failed round (`failures`) after which
demand has to be raised again at every level. *Stream windows:* two or three
segments of one to seven rounds over windows of two that read one more, so that
an edge falls inside a window, inside a buffer, on an edge and behind rounds that
arrived; a declared length of twelve leaves a plan to be planned again twice; two
rounds overtaking suffices because the tracker only counts across a gap; one
window kept and lettings-go after each let a region wait for its partner's
window; planned operations of seven and nine rounds have two cores with seams on
both sides and two blocks between others. *Folder:* at most five commands and
two kills (`commands`, `kills`); seven seeds in pieces of one, two or three, so
that a new piece meets a saved one, a prefix stops inside a piece, and two jobs
overlap. One shell of a setting folds: the code takes no lock for a fold, so two
of them at once may leave the files of both; the cluster guide starts one when
the jobs have ended (`docs/how-to/run_on_a_slurm_cluster.md:93`). Every bound is a CONSTANT or a setting.

**Fairness.** The engine pops events until the queue is empty
(`Engine.run`), so what is queued happens: weak fairness of `Next` in
`WindowChain`, `EscalationChain` and `ReadoutPath`, whose actions are all events
of a run that goes on (a boundary in flight lands, a decode ends, rounds are
emitted). `ProgramExecution` states the same as `EngineRuns`, without ENABLED: a
step is possible in each state where the program is not over, so weak fairness
of `Next` says that it ends or goes on taking steps. `ReliableChannel`,
`DecoderPool` and `MagicStateFactories` also have actions nobody is obliged to
take (a new message, a new request, a cancel), so there fairness is on the
handlers only; in the pool, also on the window side's reading of a result, which
the code does after a bounded number of verdict cycles. `RunFolder` states no
fairness: a command may be killed and never given again.

## 4. Findings

Three runs end in a counterexample that the code's own words exclude; each is one
property in a configuration of its own, and its `findings` entry quotes the line.

* **`held_redo`** (`HeldLeavesOnceStored`). The last window of a stream looks
  ahead into its successor, so its redo reads rounds of both, but it is indexed
  under its own stream alone. The region lands its own rounds first; the landing
  that completes it wakes the successor's stream, and the redo is never
  submitted: the window is not answered and its rounds stay stored.
  `EveryWindowDecodes` shows that redos of one stream's rounds are free of it.
* **`late_window`** (`ProvisionalReadsAreChecked`). A window laid after its
  predecessor committed takes over the predecessor's boundary and does not become
  its dependent. Under the checked row that boundary may be a guess; the final
  one goes to dependents only, so the guess is never checked and the run never
  ends. It needs a commit before the next window is laid: a boundary closed by a
  measurement, or no buffer. The settings of `stream_windows` combine neither
  with the checked row.
* **`lost_round`** (`OneRoundPerCycle`). A region whose first operation starts
  on a cycle's edge, by a scheduled start or a release there, takes the patch
  before the crossing reads out the cycle that ends, and opens its first
  boundary one edge later: nobody reads that cycle's round. The program's other
  starts are free of it, which the run `program` shows.

Two more disagreements were met. No run is kept for them; TLC finds each when the
cfg of the component is given these `Settings` and the one property:

* `BothInputsFit` of `DecoderPool` over `RoomSettings`: a batch's room is
  recounted over its live members, but a cancelled member of a staged batch keeps
  crossing into the unit. A second resident is admitted, and both inputs do not
  fit: the deposit raises `DecoderMemoryCapacityError`.
* `SettledOnceQuiet` of `EscalationChain` over `SpeculatingEntry`: a keep that
  drops a strong result from its output slot leaves the attempt that decode opened
  on the next edge open for ever, and the end-of-run check raises.
  `RunEndsSettled` shows that chains where only the last edge starts decodes
  early are free of it.

## 5. Proofs

`ReliableChannelProofs` proves, for every value of the constants that the
settings' own checks admit (`PacketsAssumption`, `SettingsAssumption`):

| Theorem | States |
|---|---|
| `StrongInvariant` | `Spec => []IInv` |
| `Typed`, `BufferNeverOverrun` | `TypeOK` and `CreditsCoverFrames` |
| `NothingUntakenIsAcknowledged`, `NoSendOfARetiredPacket`, `SenderNeverStranded` | the safety properties of the run |
| `Refinement` | `Spec => ImplementsMessageChannel` |

The argument. `AcknowledgedIsTaken` (the requester never believes in a frame the
responder has not taken) is not inductive: an answer still on its way may carry
more than the state shows. It becomes so with `AnswersCoverTaken`: every answer
in flight covers only taken frames, which holds when it is made and stays because
`expected_psn` never falls. `ReachablePacketsKept` needs it too, because a retry
moves `next_psn` back to `unacked_psn` and packets below the smaller of both are
retired. `FramesNumbered` and `CountersOrdered` say that only numbered packets
are on the wire, so a landing never takes `expected_psn` past `packet_count`.
`LogIsTaken` says the log is exactly the messages whose last frame lies below
`expected_psn`; from it follows that a landing hands over a message that was
not handed over, after all the earlier ones, which is the step of
`MessageChannel`. `CreditsCoverFrames`, `NeverStranded` and `WindowRespected`
are inductive beside these. There is one lemma per action
(`TakeWirePreserves`, ..., `LandPreserves`); `SendNextFacts` states once what a
try at sending may do, and four actions use it. The refinement is then a step
lemma: `LandImplementsDeliver` for landings, an `Accept` for `TakeWire`, a
`Fail` where a retry gives up, a stutter otherwise.

TLC checked `IInv` itself on the states of the run `reliable_channel` before it
was proved; now that it is, the run keeps only the properties a reader asks for.

`WindowChainProofs` proves, for every finite set of windows, every layout and
every setting `ChainAssumption` admits:

| Theorem | States |
|---|---|
| `Invariant` | `Spec => []IInv` |
| `TypeCorrect` | `TypeOK` |
| `FrameIsWrittenOnce` | `OneWritePerWindow`: the frame takes one write of a window |
| `FrameAndChainAgree` | `FrameMatchesChain`: what the frame holds is what the chain answers |
| `WrongReadsAreCaught` | `WrongReadsAreKnown`: a held result rests on final boundaries or is known to be provisional |
| `RedosArePinnedOnFinals` | `RedoPinsFinalFaces`: a redo pins its request on final faces only |
| `WindowsAnswerSerially` | `ImplementsSerial`: the refinement of `SerialWindows` |
| `SegmentsAreFinal` | `SegmentsLeaveOnceFinal`: what a stream hands on is final, and under the held row leaves at once |

The argument follows a window from its boundary to its write. `OneStage` says a
window is in one stage at a time (waiting, in a decoder, held, in strong decode,
final), so only one action at a time can decide it; `WritesAreFinal` and
`BoundaryIsHeld` follow: a write happens where the window leaves the last stage.
`DeliveriesAreShipped` says a delivery on its way carries a boundary its source
did ship, and `LandedIsFinal` that a landed boundary not marked provisional is the
final one of its source, for good. `ReadsAreNoted` and `InHandIsCurrent` relate a
solve to what it read: a read of a guess is noted, equals what is held, and is
unsure of exactly the provisional dependencies, since a landing that differs
bumps the revision and a landing that confirms clears the note.
`WaitingIsCurrent` and `RedoIsSure` carry that through the verdict, so the step
that makes a window final acts on a solve whose every boundary was final. That is
the `Answer` of `SerialWindows`; it happens where `Settle` or `LandConfirms`
keeps a result and in `EndStrong`, and every other step stutters. No conjunct of
the safety properties is inductive alone: `WrongReadsAreKnown` needs the notes of
the solve still in the decoder, and those need what is in flight. There are three
lemmas per action (`...Typed`, `...Stage`, `...Reads`) and `NextShipped`.

`IInv` of `WindowChain` was checked in the same way on all states of
`window_chain`. `TypeOK` and `OneWritePerWindow` are proved and no longer
properties of the run.

`SegmentsAreFinal` needs a second invariant beside `IInv`, `SegmentInv`: the
prefix a stream counts is the committed one whatever commits and redos come
(`PrefixIsCurrent`), a window that waits on its guess, is redone or is final is
committed, and under the held row no other is (`CommittedStage`), where nothing
provisional is ever shipped, landed or read (`NothingIsProvisional`).

`EscalationChainProofs` proves, for every chain `DepthAssumption` and
`SettingsAssumption` admit (any depth, any edges that speculate or rescue, one
solve or two on each pool):

| Theorem | States |
|---|---|
| `ChainIsSound` | `Spec => []IInv` |
| `ResultsAlwaysMeetDestinations` | `ResultsAndDestinationsMeet`: a result has a destination, a destination is owed what is on its way |
| `AnswerAlwaysSettlesTheChain` | `AnswerSettlesTheChain`: no pool answers unasked, and nothing outlives the answer |

The argument. That an escalation owes what is due is not inductive: it counts
solves that were admitted before anyone asked. `EarlyIsWhole` says such an
attempt has lost none of its solves, and `PlanIsRemembered` that an edge
remembers an early decode exactly while it has one, begun or held, so an
escalation selects it or plans one and never both. `SourceIsOpen` keeps the
destination of an early result until the verdict, `RescueIsFirst` and
`HeldIsUnbegun` say that a rescue and a release start what nothing has started.
`AdmittedInOrder` and `VerdictsClimb` order attempts and verdicts along the
chain; from them follows that above a verdict every pool escalated and that a
keep finds below it only what was started early. A step of the code is several
changes of the decoder side, some repeated down the chain, so the invariant is
stated of a side `s`: `Sound` holds after each change and `Good` when the step
has ended. `AdmitKeeps`, `HoldKeeps`, `EnqueueKeeps` and `PlanKeeps` carry it to
the last pool a change reaches; one lemma per action does the rest.

`DecoderPoolProofs` proves, for every pool `PoolAssumption` admits (any requests,
units, memory and slots, with or without batches and blocked units):

| Theorem | States |
|---|---|
| `PoolIsInOrder` | `Spec => []IInv` |
| `ComputeIsAccounted` | `ComputeAccounted`: each unit's compute is free or held by one of its residents, once, and no more decodes run than there are slots |
| `HeldComputeAlwaysMoves` | `HeldComputeMoves`: a decode that holds compute starts, runs, is read or waits for an input that is coming |
| `InputsAreInOrder` | `Spec => []InputsInv` |
| `MemoryAlwaysFollowsResidents` | `MemoryFollowsResidents`: a unit's memory is of its residents, and no running decode loses its input |
| `StoreAlwaysHoldsUntilLanded` | `StoreHoldsUntilLanded`: rounds stay in the store until they land or nobody wants them, and no longer |
| `RoomIsInOrder` | `Spec => []RoomInv` |
| `ComputeAlwaysMoves` | `ComputeMoves`, for pools each of whose inputs fits an empty unit (`EachInputFits`): held compute goes on, and a job waits outside a call only if it has to |
| `BothInputsAlwaysFit` | `BothInputsFit`, for pools without batches and blocked units, or with memory for every input (`RoomIsAsked`, `AllInputsFit`) |

The argument. `ComputeAccounted` is about units and slots and is not inductive
alone. A decode that leaves frees the right unit only if it sits on one unit
(`OneSeat`), and its unit may be offered on only if no resident left behind has
started without holding the compute (`UnitInv`); a slot that is given back goes
to a decode whose input has landed (`SlotInv`). That a request is not seated twice
needs that the decodes are apart, also those cancelled while they ask for their
input (`Apart`), and that a started decode has its input and is seated until it
ends (`BeforeStart`, `AfterStart`): a cancel takes away a decode at any point of
its life, and each handler that goes on later finds either the decode whole or a
mark that it was withdrawn. `InputsInv` stands on `IInv`. An input that lands for
several requests at once is read by each of them that sits on the unit, what a
cancel gives back is what the decodes that left had read (`MemoryInv`), and a
hold in the store ends with the landing or the cancel and not before
(`StoreInv`); the one decode that is read without a seat is the window's result
under delivery. A handler is several calls of the code, so lemmas say what a
call keeps for any decode (`HandsBackMemory`, `DispatchPlace`, `LandingFacts`)
before those of the actions put them together.

That nothing waits for free compute is a matter of room. The loop ends with every
job that waits having to (`MayWait`), and until it runs again only an input that
is asked for or lands changes the pool. What lands moves bits from what arrives to
what is stored, and no bit is lost on the way (`ArrivedIsStored`), so what a job
needs only grows (`NeedGrows`); and where a job's own rounds land beside it, for
the resident that shares them, the unit had room for the job all along
(`SharedHadRoom`). So a job that waits goes on waiting (`WaitersWait`), and every
other step leaves the loop to run (`Shrinks`). `BothInputsFit` holds for the same
reason: a job is admitted only if what live residents read fits with what it will
read (`DispatchedInputsFit`), and afterwards the memory holds and the link carries
nothing else. Bits are counted one by one as the elements of a set, so that the
order of weights is that of cardinalities (`WeightOfPart`, `WeightOfTwo`,
`WeightMovesOrIsNone` of `DataLemmas`).

The hypotheses are the code's. An input that does not fit an empty unit raises at
its deposit (`DecoderMemory._check_capacity`); the loop admits it to an empty unit
all the same, and there what lands could make room for a job that waits. A batch's
room is recounted over members still live, which section 4 shows to be too little,
and a unit that blocks may keep the input of the result being read after its
decode has left (section 3). The pools of `decoder_pool` meet the
hypotheses (`HypothesesAssumption` of `MCDecoderPool`).

`PoolAssumption` says of the pools only what the build makes of them. A pool that
merges is an edge's target and gets no window of the planner
(`topology/graph_layout.py`: "a pool is an entry pool or a target, never both"),
and the second invariant rests on it: that the end of a window's decode
leaves nothing in the store is argued of its one request (`WindowsAreSingle`).

`ReadoutPathProofs` proves, for every system `SettingsAssumption` admits (any
streams, emission, sizes, stores, windows and redos):

| Theorem | States |
|---|---|
| `ReadsAreInOrder` | `Spec => []IInv` |
| `RequestedInputIsAlwaysStored` | `RequestedInputIsStored`: a requested window finds its rounds, a redo has them or has them on their way |
| `PathIsAlwaysInOrder` | `Spec => []PathInv`: where each round is, what is counted, and what a knot keeps |
| `BoundedStagesAlwaysKeepTheirRoom` | `BoundedStagesKeepTheirRoom`, for settings that size their landing stores (`LandingsFit`) |
| `StopsOnlyAtKnots` | `StopsOnlyAtAKnot`: past a stop that is announced the head of the held line never enters |

Of the room only what lands over an edge needs a hypothesis: an escalation cannot
wait, "so the store's settings must size it" (`syndrome_round_receiver.py:208-213`),
and `LandingsFit` is such a size, room for all that the redos landing there read.
The settings of `readout_path` have it (`HypothesesAssumption` of
`MCReadoutPath`). The entry stores (`EntryStoresHaveRoom`) and the packing stage
(`NoPlaceIsForgotten`) need none: both are conjuncts of `PathInv`.

The argument. A request says that the rounds of a window were published, and a
round may be published and let go again; that it is still there is because the
window's hold was there first (`ReadingIsStored`: whatever is published of a
window's own store before it asks stays). A region that crosses to the landing
store is formed of rounds of the entry store, so those must be there whenever
`Plan` may look (`RedoIsCarried`), at a rescue during the decode as at an
escalation after it. And a round that lands is kept only if a hold still names
it: a held redo's window must be undecided (`RedoIsStored`), else the round
would be let go and the redo wait for ever. Every action that lets rounds go is
first shown to keep those a hold names after it (`KeepsHeld`), and `StepKeeps`
does the rest once for all of them. A region lands round after round, and each
round may submit the redos of its stream: `LandedFacts` says what a store has in
between, so a redo is submitted only once all its rounds are there. A landing may
not lose the order of a region, and that a region of finitely many rounds has an
order to leave in is proved too (`OrderExists`, `RegionFacts`).

Room is counted, so `PathInv` first says that nothing is counted twice: a round is
in one place of the packing stage (`StageIsInOrder`), in the held line or on its
way, once to each store (`PathIsInOrder`), and the transmitter's count covers what
is on its way to its own store, what is queued to leave and what is read out
(`FlightIsCounted`). A store's bits are the pairs of a round and one of its bits,
so what moves from the wire to the store keeps its weight (`WeightFacts`,
`BitsOfTwo`), and the rounds `RetryHeld` lets in are a front of the line, none
longer having room (`RetryKeeps`). A region lands where no write goes; it is formed
of rounds neither stored there nor coming, so regions into one store never share a
round (`RegionsAreApart`), and what a landing store keeps or is brought is read by
its redos.

A stop is right because the knot it saw stays (`KnotStays`). The windows it names
either read a round in the line that was not published (`PublishedIsPast`), or
their decode waits for such a window. Neither can end while the head is refused:
rounds enter in the order of the line, so no round in it is published before it
enters (`WaitersStay`). Their holds keep what they have stored or on its way
(`HeldGoesOn`), so the store that refused the head refuses it after every step
(`KnotGoesOn`); and that the stop looked at that store is `KnotIsFound`: what a
retry left at the head is refused by one of its stores.

`MagicStateFactoriesProofs` proves, for every factory `FactoriesAssumption`
admits (any levels, units, yields, buffer, correction decodes and failures):

| Theorem | States |
|---|---|
| `InvariantHolds` | `Spec => []IInv` |
| `StatesAreAlwaysMadeAsWanted` | `StatesAreMadeAsWanted`: states are conserved, no level runs ahead of its demand, no unit idles that could meet it |
| `FactoriesImplementStateSupply` | `RequestersEmit` implies that `Spec` implements `StateSupply` |

The argument. An end of an attempt leaves no unit waiting only if nobody waits
beside a store (`Delivered`): else the next look for work would hand states over
and so raise the deficit again. The demand by level is a recursion from the top
level; the proof takes any function that solves its equations (`IsDemand`) and
shows there is one and only one (`DemandFacts`), so two demands compare level by
level. `RequestersEmit` (whoever asks a chain emits rounds) is the hypothesis of
the refinement because a chain that is shut down hands no state over; without it
the code does what the hazard at `operation_results.py:145` names, and a request
may wait beside a stock. The run's settings meet it.

`RunFolderProofs` proves, for every history of commands `SettingsAssumption`
admits (any files, rules, shells, piece sizes, pools, kills and retries):

| Theorem | States |
|---|---|
| `PoolsAreKept` | `Spec => []PoolsFit`, the inductive invariant of the pools |
| `LearningIsInOrder` | `CalibratorsLearnInOrder` |
| `JobsSaveTheirSeeds` | `EndedJobsSavedTheirSeeds`: a job that ended has all its seeds on the disk |
| `TypeCorrect` | `TypeOK` |
| `ShotsAreSavedOnce` | `JobsSaveEachShotOnce`, for folders whose shells share the seeds (`FirstSeedsAgree`, `SeedsAreShared`) |
| `RootStaysOfOneFold` | `RootIsOfOneFold`, for folders with one desk (`OneDesk`) |
| `RowsStayUncutRuns` | `RowsAreUncutRuns`, for folders with one desk whose run files agree on first seeds (`OneDesk`, `FirstSeedsAgree`) |

The hypotheses are what the programs leave to their users. A folder has no lock:
two folds at once may each move in a file, so commands other than jobs come from
one shell. A task's first seed is no part of its id
(`experiments/collect_command.py:142-160`), so a run file may take a task up again
from another seed, and a fold finds the prefix of one of them only. Two desks may
also raise a task's caps in turns, and a fold then reads its rows by the other
desk's record. Nothing stops two shells from running one seed, cut in two
ways: `SeedsAreShared` says that shells have seeds of their own or cut them in the
same places. All histories that TLC runs meet the three (`HypothesesAssumption`
of `MCRunFolder`).

The argument. A collect counts what is handed out as a chain of spans
(`Counting`): the pieces wait in the order of their seeds, the first that waits
follows the counted prefix, and each waits for a unit that runs (`TaskFits`). So
the calibrator a unit starts with has learned every seed before it, and what it
learned is on the disk when the next one starts (`PoolsFit`). A job's units have
each seed of its gaps once (`UnsavedFacts`, from `CutFacts`), and a seed leaves
the queue for the pool and the pool for the disk (`HoldsSeed`); that needs no
hypothesis. That no shot is there twice needs more than the pieces: each span on
the disk or in a pool agrees with the others of its task (`InPlace`), what a
process holds is on the disk or among its command's seeds (`Reaches`), and a
piece that a collect has not read lies behind it or outside its seeds (`Knows`),
as it read the folder once, before its first piece. Where one job runs in two
shells, the gaps its second run finds are whole pieces of the first, since
whatever is saved is a whole piece (`CellFacts`, `UnsavedAreCuts`). A fold that
is killed has left csv files of its own or none, and the next one removes what it
finds before it moves one in (`FoldInPlace`).

`RowsAreUncutRuns` has two halves. That a counted prefix is an uncut run's
(`UncutPrefix`) is kept by each row that is added (`AddShotFacts`), whether it
follows the prefix or closes it, so it needs no hypothesis, and neither do the
rows of any fold (`RowFacts`, `StagedRows`). That the row of what was collected
goes up to the stop does: each seed below the next one to hand out is on the disk
or in a piece that waits (`Covers`); a collect that takes no piece and waits for
none has stopped, since a task out of seeds has met its cap (`StoppedHasSeeds`);
the seeds up to there stay on the disk until the fold reads them (`HasSeeds`), no
piece of the task begins before them (`FromFirst`), and the record that holds the
rule is the one this collect wrote (`OwnRecords`).

The library's induction theorems take an operator as a parameter, which no prover
at hand can instantiate. `DataLemmas` does the same work with least elements: a
claim that fails fails for a least number or a least subset. `DownwardRecursion`
gives a function recursive from the top of an interval in this way.

TLC checked `IInv` of the chain on all states of every chain of up to four pools,
the three invariants of the pool on all states of `decoder_pool`, and both of the
readout path on all states of `readout_path`, before they were proved.

**Only model-checked.** All liveness (`EveryMessageSettles`,
`EveryRequestSettles`, `EveryStreamDelivers`, `RunEndsSettled`,
`EveryWindowDecodes`, `EveryProgramEnds`, `EveryRequestIsServed`), since TLAPS
does not prove properties under fairness or about `ENABLED`. Also all properties of
the windows of a stream and of the program. RECURSIVE operators cannot be proved
about with the provers at hand, so the modules use none: sums over sets and folds
come from the community modules. What `ProgramExecution` and `StreamWindows` say of a whole event
is computed by such folds, which is why they stay with TLC.

## 6. What is left out

* **Time.** No clock but the QEC cycle of `ProgramExecution`: no latency, no
  priced cycle. Orders that no setting produces may be explored; the models are
  meant to keep every order a setting does produce. Statements about durations
  are out of reach of these modules.
* **The channel:** the bytes of a frame, the propagation law, traffic counters.
* **The pool:** more than one pool on a device, the order of a scheduler's row
  (any order is taken), the batch time laws, the counters.
* **Windows:** region rows, boundaries that slide across an edge, feedback
  operations over several streams; a boundary is one value.
* **Window planning:** the double window and what a strong region absorbs; the
  closed-form ledger of rounds; the idle rounds a whole-operation decode is
  charged for; in planned runs, copies between stores (`ReadoutPath` has them).
  A window's decode has one result, provisional or final. No fairness is
  stated: the deadlock check says that every run ends.
* **Escalation:** strong windows shared by two sources, the clock behind a
  deadline, what a policy computes.
* **Readout:** the stop at a knot is the code's, which looks one step deep and
  only at the held line (`_holders_kept_waiting`): a knot tied through a wait of
  two decodes, or through a round in front of the packing stage, is not seen and
  the run goes on measuring, against `syndrome_buffer.py:47`. `StopsOnlyAtAKnot`
  says only that a stop that is announced is never wrong. Left out are seats that
  form detection events, entry stores that rounds land in, chains of two edges,
  the double window and its absorbed windows, a redo beside a provisional
  boundary, windows planned while the run goes on, and a run without decoders
  (whose packing line the sender does not retry).
* **Program:** a readout's own departure delay, the operation that only
  finalizes a stream's last round, the windows' answer to a closed boundary, and
  what a round reads. Parsing circuits and workload files is left out.
* **Factories:** the ticks of an attempt; an operation that emits no rounds and
  still asks for a state as the program ends.
* **Results folder:** two folds at once, a folder moved to another code tree,
  caps on core seconds, plots and reports, machine sweeps and measurements.
* **Not modelled at all:** the decoder algorithms, detector error models,
  confidence numbers, construction, observation, and the devices that sample.

## 7. Plan

In the order of what a defect there would cost.

1. **Readout path, the rest:** a run without decoders, windows planned at run
   time, entry stores that rounds land in, chains of two edges and the double
   window's guards and absorbed holds.
2. **Retention and committed rounds:** `RoundRetention` and `CommittedRounds`
   with revisions that replace a contribution after rounds were let go of.
3. **Escalation, second half:** strong windows held for two sources, deadlines
   with late results taken as unavailable; `EscalationChain` over an abstract
   pool that `DecoderPool` implements.
4. **Composition:** `ProgramExecution`'s `OnDecision` with `WindowChain`'s
   `delivered`, and its `StateArrives` with `StateSupply`, whose refinement
   `MagicStateFactories` already is.
5. **Window planning, the rest:** the double window with the windows a strong
   region absorbs, and the windows of `StreamWindows` as those of `WindowChain`,
   which takes a layout as given.

Theorems, in this order: `WindowsFollowTheCuts` of `StreamWindows` for the open
streams, then `NothingLetGoIsRead`; `OneRoundPerCycle` of `ProgramExecution`. The
folds these modules compute an event with must first become actions or functions.
