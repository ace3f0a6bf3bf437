# Reve in TLA+

Reve runs an agent: a conversation with a model that calls tools in a micro-VM.
What makes it more than a loop around an HTTP client is that the conversation
and the *program counter* of every operation are durable. A process may die at
any moment, and the next one continues from the session file. These modules
model that machinery from the Rust code, and what flows through it: the request
made from a conversation, the response read off a stream, the tools it calls.
TLC checks them on small instances, and TLAPS proves, for every instance, what the
commit primitive, the micro-VM pool and above all the lane promise.

- [Inventory](#inventory)
- [Modules and their correspondence with the code](#modules)
- [Runs](#runs), [bounds](#bounds) and [fairness](#fairness)
- [What is proved](#proofs)
- [Where code and documents disagree](#disagreements)
- [What is not modelled](#not-modelled), and the [plan](#plan)

`PROJECT.json` maps every definition to the lines it models, lists the hazards
with the properties that would catch them, and names a mutant for every property:
a plausible bug under which TLC finds the property violated. An operator whose
comment starts with "Mutant" is one of these and is used by no specification.

## Inventory

| component | state | operations | interacts through |
|---|---|---|---|
| session file (`storage/jsonl.rs`, `storage/mod.rs`) | lines with increasing `seq`; entries, usage rows, registers in memory | open, replay, cut a torn tail, append, rewrite | the file, an OS lock |
| session owner (`session.rs`) | the storage, a fault flag | read, commit, commit_if, close | an mpsc channel; a reply per command |
| lane registers (`session.rs`, `state.rs`) | `lane.state`, `lane.leaf`, `op.meta`, `op.state`, `op.preparation`, `pending.entry`, `tool_args`, `lane.last_result` | transition, terminal, restore, validate | conditional commits |
| driver (`lane.rs`) | a snapshot of the operation; otherwise none, everything is in `op.state` | checkpoint, assistant, settle, tools, compaction, navigation, retries | transitions; effects with a cancel flag |
| harness (`harness.rs`) | the cancel channel of each lane | prompt, compact, navigate, steer, follow_up, write_entry, next_run, abort, resume | the registers, the cancel channel, events |
| sandbox (`sandbox.rs`) | `VmState`: handle, active count, generation, secret digests; a fingerprint file and a disk | start, exec, read_file, write_file, acquire, release, idle timer, stop | an async mutex held across calls to the VM |
| terminal (`tui/run.rs`, `tui/app.rs`, `tui/session.rs`) | the indicator, the armed interrupt, three queues | keys, updates, the worker's actions | bounded mpsc queues, a broadcast channel that drops |
| hooks (`hooks.rs`) | the registered handlers | six pipelines | called by the driver |
| compaction planning (`compaction.rs`, `project_context`) | none (pure) | project, estimate, `over_threshold`, `prepare`, `summary_request` | called by the driver |
| providers (`provider/`) | while a response streams: the decoder's buffer, an accumulator | `respond()`: build a request, post it up to three times, read the stream | called by the driver; an HTTP endpoint |
| tools and Lua (`tools.rs`, `lua.rs`) | the Lua tools, a spill counter; the files in the machine | `schemas`, `replay_of`, `call` with every tool, `present_output` | called by the driver, of several lanes; the sandbox |
| channels, project files, command line | configuration | | read once |

What is hard here, and what each part has to get right:

- **Driver and harness.** The driver plans from a snapshot, awaits hooks, models
  and tools, and commits only if `op.state` still has the version it read. Callers
  change `op.state` meanwhile. Every commit is a place to crash. Correct means: what
  is durable can always be restored; accepted input is in one place and not lost;
  an unsafe tool runs once; a cancelled operation starts nothing, ends, and ends
  aborted; every call the model made has one result, in order.
- **Session owner.** Clients commit against versions they read several commands
  ago; registers are deleted and created again; an append may fail half way.
- **Session file.** Torn tails, rewrites, and other processes.
- **Sandbox.** An idle timer races new effects; secrets change under a running
  machine; starting, stopping and building fail or are cut off.
- **Compaction and requests.** A cut must not part a call from its result nor lose a
  message; every request must pair calls with results, or the provider refuses it.
- **Providers.** Chunks end anywhere, three protocols interleave the deltas of
  several calls, endpoints repeat or leave out ids, a stream breaks or fails half
  way. Correct means: what is returned is what was said, or a failure of the right
  class.
- **Hooks and tools.** A gate that fails must be shut. What the model was offered is
  what must run. Lanes share one file system.
- **Terminal.** Event loop and worker wait for each other's queues; events are lost
  when the terminal lags; a prompt races the end of a run.

## Modules

| module | models |
|---|---|
| `OpState` | the types of `state.rs` and `entry.rs`: operation states with their phases, controls, inbox, tool calls, and entries |
| `LaneStore` | the registers and entries one lane owns, the two transactions on them, `restore()` with all of `validate_current()` |
| `LaneDriver` | `lane.rs`: one action per branch of `checkpoint`, `failure_drain`, `assistant`, `settle_assistant`, `tools`, `execute_tool`, `in_run_compaction`, `step_compaction`, `step_navigation` |
| `LaneHarness` | `harness.rs` on top of the driver: every public operation, the cancel channel, crash and resume |
| `LaneProperties` | what a lane promises |
| `LaneProofs`, `LaneRestore` | proofs of it: what a commit may do and what follows, where the ids of a lane are; that what it names is there, and what is on its branch |
| `LaneLife` | abstract: the life of operations as a caller sees it |
| `MCLane` | instances of the lane for TLC |
| `Hooks` | `hooks.rs`: the six pipelines as operators on the answers of a chain |
| `Compaction` | `compaction.rs` and `project_context()`: what a request is made from and where it is cut |
| `Messages` | the conversation as the messages of each of the three APIs, and `heal_openai_messages()` |
| `Sse`, `Assembly` | the event decoder; the three `StreamState` accumulators |
| `Respond` | `HttpModel::respond()` and the endpoint it talks to |
| `Toolbox` | the registry, the built-in and Lua tools, long outputs; any number of lanes |
| `Turn`, `MCTurn`, `TurnProofs` | one turn through all of these; its instances; proofs of its calls and its posts |
| `Session`, `SessionProofs` | the owner task and `Storage::commit`; their proofs |
| `Jsonl`, `MCJsonl`, `JsonlProofs` | the session file and the processes that open it; proofs |
| `LeftFold` | what a fold over a sequence does, by induction, for the proofs |
| `Sandbox`, `SandboxProofs` | the micro-VM and those who share it; proofs |
| `Terminal`, `TerminalProofs` | event loop, worker task, `forward_events` and the three queues; proofs |

`OpState`, `LaneStore`, `LaneDriver`, `LaneHarness` and `LaneProperties` extend
one another in that order; `LaneProperties` instantiates `LaneLife` with a
refinement mapping. `Turn` composes `Respond` (over `Assembly` over `Sse`, and
`Messages`), `Toolbox` (over `Hooks`) and `Compaction`. Lane and turn are two views
of one thing: `LaneDriver` is how the steps of a turn become durable, with what the
data decide left to choice; `Turn` is how the data decide, without crashes. The
others are separate: what they share with the lane is stated as an abstraction of it (`Session` gives the lane its conditional
commits, `Jsonl` gives `Session` its storage, `Terminal` sees a lane that is idle,
in a run or in a compaction).

**The lane.** Variables are the durable registers (`entries`, `leaf`, `lane`,
`meta`, `state`, `pending`, `toolArgs`, `prep`, `lastResult`, `usage`) and what a
process holds in memory: the driver's snapshot `cur`, its place `pc`, the cancel
flag and channel. A commit, with its expectations and all its writes, is one step,
which is what the session owner guarantees. Between two commits the driver may be
overtaken by any caller and the process may die. Texts, token counts, timestamps
and model references are left out. A provider's answer is a stop reason with calls,
or an error of some class; what a hook chain decides is a choice; whether a context
is over the threshold is a choice. Ids are minted in increasing order. What a lane is
configured with and what its environment may do is a *scenario*, chosen at the start:
one run of TLC covers several, and none can leak into another.

**Turn.** A conversation grows by prompts (with what `before_run` adds), settled
responses, results, custom entries, follow-ups and compactions, in the orders the lane
allows, an interruption between any two included. An entry keeps role, size, the ids
of its calls and the id it answers. `Send` makes a request of it. The endpoint
(external) then speaks any response its protocol allows, stops anywhere, names its
events or not, ends lines with CR LF or not, and repeats or omits ids; the transport
cuts the bytes anywhere. Bytes are atoms: line breaks, whole lines that do not matter,
and the two halves of a `data:` line. JSON arguments are pieces, whole only if all of
them arrived in order. The calls then pass the `before_tool` chain, whose handlers
are external and of four kinds: one that looks on, one that replaces arguments, one
that blocks them, one that fails. The tools run interleaved with a call of another
lane. Settings that never change are drawn where they are first read: the provider at
`Send`, Lua tools and hooks when calls are planned. What later steps do not read is
let go there, so that a request does not multiply the states of the tools. A text is a
sequence of lines, so sizes and `MAX_OUTPUT` count lines.

**Session.** A register is its version, the `seq` of the write that set it. Clients
hold the versions they read. `touched` is a history variable: the keys written since
a client read them.

**Jsonl.** A file is a sequence of lines; a line is an entry, a usage row or a
register write with its `seq`, and the last one may be torn. The in-memory state is
recomputed by the reader's own rules when a process opens the file.

**Sandbox.** `lock` names who holds the mutex across a call to the VM; a critical
section without such a call is one step. Secrets are numbered by how often they
changed. An idle timer carries the generation it may stop. `machine` is what the VM
library (external) reports. `start()` is modelled call by call: the machine starts and
resolves the secrets (`BootRestart`, `BootBuild`), then the digests are read and
`VmState` is made (`BootShare`), then `start()` runs commands of its own as the task
`"start"`, with a lease like everybody's, one for provisioning and bootstrap together
and one for the git credentials. `main.rs` then serves, or, before the terminal, stops
the machine first. A secret may change between any two of these steps; `missed` records
that one changed between the call and the digests. The host environment is external:
nothing in `src/` changes it but `tests/microvm.rs`, which does so under a live machine.

**Terminal.** Texts are numbered; `fate` says whether something has come of one. A
run is driven in a task of its own, `/compact` and side commands in the worker's
loop, as in the code. Slash commands other than `/compact` and `/quit` are one kind.
`Update::Received` has no sender outside the demo and is left out. A storage fault,
after which the session refuses all commits, is in `Session` only.

## Runs

| run | shows |
|---|---|
| `tools` | a batch with a replayable and an unsafe call, a truncated response, a blocking hook, a steer, an abort, a crash into a process with other tools. `AlwaysRestorable`: every durable state is accepted by `validate_current()` (of `turns`, `OneAbortRestores` proves it). `UnsafeToolOnce`, `ResultsFollowCalls`, `CallsPaired` (every call is answered once before the next request), `CancelledStartsNothing`, and the refinement `LaneImplementsLife` |
| `turns` | three situations. Steers, follow-ups and deferred writes at every moment of a run: each is in one place, payloads of a finished run are gone, and none that must continue the run is dropped (`OneHome`, `QueuedInputContinues`). A run that compacts on the threshold or on overflow, is aborted, dies twice (`AttemptsBounded`, `CancelSticks`). A standalone compaction, a navigation and input for the next run around a run (`NextRunKept`, `ConversationGrows`) |
| `ends` | liveness: operations end if effects answer, aborted ones even if they hang |
| `session` | clients race through the owner, which faults, dies, reopens: `NoLostUpdate`, `NeverGlued`, `VersionsDistinct`, `Answered` |
| `replay` | one process opens, commits, tears, reopens, rewrites: what is read is what was acknowledged (`FileIsTruth`), nothing follows a torn tail and the next `seq` is ahead (`AppendSafe`), the dead-write count is right |
| `sandbox` | `start()`, with its own commands, and two tasks share the machine: not stopped under an effect, a full idle window after the last use, fresh secrets, no machine without a handle, an idle machine stops, a cancelled command gives its lease back |
| `terminal` | texts and keys at any moment: `TextAccounted`, `IndicatorClears` even though events are lost, `TextAnswered` |
| `turn` | a turn end to end. `SplitCoherent`: a compaction loses nothing, keeps what the budget pays for and parts no call from its result. `RequestPaired`: every request, also the one for a summary, pairs calls and results. `TurnFaithful`: the turn is what the endpoint said, however it arrived. `FailureSurfaces`: failures are failures, of the right class. `PostsJustified`: nothing is posted again that was refused, and nothing more than twice. `GateClosed`: no tool starts past a handler that failed or blocked, nor with other arguments than the chain left. `OfferedRuns`: schema, tool and replay declaration are of one definition, Lua or built-in. `OutputReachable`: what a cut result does not show can be read page by page, whatever the other lane spills |
| `rewrite`, `late_signal`, `sandbox_disk`, `length` | violated, see [below](#disagreements) |

### Bounds

Every bound is a constant. A lane instance is given a budget per kind of choice
(`bounds` of a scenario in `MCLane`): how many runs, steers, aborts, crashes, hooks that
intervene, further turns, and so on. A budget of one of each *kind* that can
interfere is the interesting case: the properties relate two parties (an input and
the end of a run, an abort and an effect, a crash and an intent), so one of each, in
every order, shows the pair. `Lacking` leaves one kind out of a scenario at a time, so
that every combination but the widest is there; `tools` has two calls so that order and "the rest of
the batch" mean something, and a scenario of `turns` has two crashes because an
attempt is counted across them. Retries are bounded by the policy's own `max_attempts`, two.

`Session` has two clients, two keys and four commands: enough for read, delete,
create again, commit. `Jsonl` rewrites at two dead writes instead of
`COMPACT_DEAD_WRITES`, so that a rewrite, and a rewrite of a rewrite, happen within
four commits. `Sandbox` has two tasks, with an effect each or both of one, after the
commands of `start()`, and one change of a secret, at any moment.
`Terminal` has queues of one place and an event channel of one, instead of
64, 256 and 1024: small capacities make the full queue and the lagging receiver the
common case.

`turn` has conversations of six entries: a prompt, a turn with two calls, their
results, a compaction and a prompt behind it, or two compactions with an exchange
between them. Results are small or larger than the whole budget, and the three
settings keep nothing, an exchange, or almost all. A response has one text and two
calls of two pieces, the least in which calls interleave and arguments can be partial;
the endpoint goes on while two atoms are in flight, so a chunk may hold the end of
one event and half of the next.
Two lanes, a clock of two milliseconds and outputs of up to twice `MaxOutput` make two
spills at one time happen and give a file three or more pages. `turn` is the one run
that checks for deadlock: a turn that is over, or a conversation that is as long as it
may get, stutters explicitly (`Ended`), and nothing else may stop.

In the other runs deadlock is not checked: an idle lane, a closed session, a machine that
is down and a terminal nobody types into may all rest, and the budgets run out.
Progress is stated as liveness instead.

### Fairness

- `LaneProperties.Scheduling`: tokio runs a ready task, so the driver's own steps,
  the rest of a call that began and `resume_all()` at start-up are weakly fair. A
  retry delay is strongly fair, since other commits wake the driver and it sleeps
  again. Providers and tools are fair only when their cancel flag is set
  (`HangingSpec`): `select!` then returns without them. That they answer by
  themselves is an explicit premise of `OperationEnds`. Callers and crashes are not
  fair.
- `Session.FairSpec`: the owner serves its channel; clients need never send.
- `Sandbox.FairSpec`: tokio's mutex is first come, first served, hence strong
  fairness of those who wait for it; calls to the VM return, perhaps with an error; a
  timer rings. A command ends for certain only when it is killed.
- `Terminal.FairSpec`: the event loop, the worker, the forwarder and spawned tasks
  are scheduled; operations and side commands end (`OperationEnds` and the
  `sandbox` run are about that).

## Proofs

Eight modules hold proofs: `SessionProofs`, `JsonlProofs` over `LeftFold`,
`SandboxProofs`, `TerminalProofs`, `LaneProofs`, `LaneRestore` and `TurnProofs`. All their theorems hold for every value of the constants that the
named assumptions admit: any clients, keys and channel capacity (`SessionAssumption`),
any processes that open a file, number of register keys and set of transactions whose
register writes have a key (`KeyCountAssumption`, `TransactionsAssumption`),
any effects and any number of uses and changes of a secret, queues of the terminal of
any capacity with any number of texts, keys and events (`TerminalAssumption`), for a
turn any number of lanes, texts of any length, directories of Lua tools, chains of the
four kinds of handler and arguments of the right types (`TurnAssumption`,
`ToolboxAssumption`, `NoneAssumption`), and for the lane any set
of scenarios (any responses, registries and budgets of choices), any `MaxAttempts`
from one, any numbers of prompts (`ScenariosAssumption`, `MaxAttemptsAssumption`,
`CallersAssumption`). Crashes, lost commits and callers at every moment are part of
`Next` and so of every theorem.

**Session** (`SessionProofs`). `TypeCorrect`: `Spec => []TypeOK`.
`ConditionalCommitSafe`: `Spec => []NoLostUpdate`, a register that still has the
version a client read was not written since, which every transition and every terminal
transaction of the driver relies on. `FileStaysReadable`: `Spec => []NeverGlued`, no
line follows a partial one. `VersionsNameWrites`: `Spec => []VersionsDistinct`.

`NoLostUpdate` is not inductive: that a register *has* a certain version says nothing
of versions to come. The inductive invariant `IInv` adds that no version and no token
is ahead of `seq` (`BelowSeq`), so that the next write is later than all of them; that
a register written since it was read is gone or later (`WritesMoveOn`), which survives
a delete followed by a re-creation because of `BelowSeq`; and that a torn tail is
there only while commits are refused (`TornIsFenced`), without which `NeverGlued` is
not preserved.

**Session file** (`JsonlProofs`, `LeftFold`). What a file says is a fold over all its
writes, so these theorems are inductions over data. The induction theorems of the
library take an operator as a parameter, which the provers cannot instantiate; `LeftFold`
takes the step of a fold as a CONSTANT operator instead, proves from a well-founded
order what every `FoldLeft` goes through (lemmas `FoldTrace`, `FoldSteps`, `FoldConcat`,
`FoldAgree`), and `JsonlProofs` instantiates it three times: with `Apply`, with `Count`
and with the joining of lines.

- `FileKeepsTruth`: `Spec /\ []Exclusive => []FileIsTruth`, and `AppendsAreSafe`:
  `Spec /\ []Exclusive => []AppendSafe`, for all sequences of transactions, torn tails,
  reopenings and rewrites. `Exclusive` says that one process at a time is past the lock
  and that its file is the one the path names. The inductive invariant `Truthful` says
  it of memory too: what a process has read is what was acknowledged, and its counter
  is not behind any line. It rests on two facts about data: a write does the same to
  the maps whatever the counter is (`FoldedLogical`), so that replaying and applying
  stay together, and a rewrite keeps the maps (`RewriteKeeps`), although it sets the
  counter back. That no map is ahead of its counter (`Memory`) makes the rewritten
  file safe to append to.
- `Exclusive` is not an assumption on the code but the limit of what it does:
  `OneIsExclusive` proves it for a single process, `LockExcludes` for any number of them
  while nobody rewrites the file; a rewrite beside a second process breaks it
  (`MCJsonl_two_writers` below). `OneProcessFile` and `UnrewrittenFile` put these together.
- `DeadWritesCounted`: `Spec => []DeadWritesExact`, for any number of processes.
  `DeadCount` follows the count of `read_lines()` and the replay through the same
  writes. `RewriteOnce`: a rewritten file has no dead write and is not rewritten again.
- `JsonlTypes`: a file is lines of legal writes, whatever processes do to it.

The proofs made the model write the live registers of a rewrite key by key
(`RegisterLines`) and name the step of the count (`Count`); both say what they said.

**Sandbox** (`SandboxProofs`). `EffectsKeepMachine`: no effect in flight loses its
machine. `NoMachineOrphaned`: a machine without a handle is stopped, its stop failed,
or somebody holds the mutex to see to it. `OvertakenTimersHarmless`: a timer that was
overtaken by a use stops nothing. `SecretsFreshAlways`: a use that finds the machine
unused and keeps it gets the secrets of the time it asks, for any number of changes, but
for the one that `start()` can miss (`Sandbox_secrets.cfg` shows that this exception is
needed); it ends when the machine is next started. `DigestsTrail` is the reason: digests
are older than what the machine resolved or, between the two steps of `start()`, the
environment has not moved. The inductive invariant says what `VmState.active`
is: the number of effects that hold a lease (`CountExact`), one more or less with every
acquire and release, which is a fact about the cardinality of a finite set and needs
`FiniteSetTheorems`; that who is inside a call to the machine holds the mutex
(`CallerHoldsLock`); that a handle is one of a running machine (`HandleRuns`); and that
every sleeping timer is behind the generation of a later use (`TimersBehind`).

**Terminal** (`TerminalProofs`). `NothingElseIsLost`:
`Spec /\ [][~QuitCommand]_vars => []TextAccounted`, a text the user entered and nothing
has come of is in exactly one place on its way, with queues of any capacity, through
refusals, full queues and aborts, as long as no `/quit` is dropped, which is the one
thing `dispatch()` shows nothing for; `TextsAccounted` is that for texts that are none.
The inductive invariant `Placed` ties the place of each text to its fate and its task:
what is on its way has no task and no answer, the worker holds a text without a task
unless it waits for it, and a task still to be claimed is of a text nothing has come of.
`IndicatorGoesDown`: `Spec => []IndicatorClears`, for an event channel of one event or
more. Its invariant `Quiet` reads the three queues as one: when no operation has an end
still to announce, the last update on its way that raises or clears the indicator, in
`events`, then `forward`, then `updates`, clears it (`Settles`). The channel drops what
is oldest, so the end of the last operation, the newest event, is what it keeps.
`TerminalTypes`: `Spec => []TypeOK`, the bounds of the queues included.

**Turn** (`TurnProofs`, over `LeftFold`).

- `GateFailsClosed`: `Spec => []GateClosed`. A chain of `before_tool` handlers is a
  fold; `Passed` says what the first n of them have left if none blocked: the arguments
  as written or stripped, no failure among them, no guard that saw raw arguments.
  `GatePasses` carries it over one more handler, and `StartsGated` from the chain to the
  call that starts.
- `OffersRun`: `DeclaredOnce => (Spec => []OfferedRuns)`. What is offered is a fold
  over the Lua tools; `SchemasOffered` says what it leaves, the Lua tools and the
  built-in tools none of them replaces, and `SchemaDispatched` that a name finds its
  schema. The hypothesis is that no two Lua tools of a directory have one name; without
  it the property is false (`MCTurn_declared_twice` below).
- `OutputsReachable`: `OutputsSpared /\ PagesShown /\ ReadBuiltIn => (Spec =>
  []OutputReachable)`. The inductive invariant `Reachable` says that what a lane names
  is kept, whole, under a name that was given out (`Kept`), and that the name under
  which a lane is about to save is no other lane's (`Apart`), since each name has a
  number of its own; and where a lane reads pages, that what it has seen is the text up
  to the offset it goes on at (`Shown`, `PageShown`). The hypotheses are limits of what
  the tools promise: nobody writes or edits the files of saved outputs, which are files
  like any others; a page asked for is no longer than what is shown, for a longer one is
  cut itself and loses the hint where to go on; and no Lua tool is called `read`, for
  what it does is its author's business. All hold in the run `turn`.
- `PostsAreJustified`: `Spec => []PostsJustified`, by following the replies through the
  stages of `respond()` (`Posting`).

**Lane** (`LaneProofs`, `LaneRestore`). The difficulty is that the driver plans from a
snapshot `cur` while callers write. The proofs are in layers; each one is an inductive
invariant given the ones before it.

1. *The snapshot.* `Driven` says that the snapshot is of the open operation, that it is
   what is durable if its version still is, and that it has the same *work* (phase,
   latest response, structural decision) even if its version moved on, because callers
   amend queues and control only (`SameWork`, `Coherent`); and that an effect has its
   intent durable before it starts (`Announced`). `Steering`: `Spec => []Driven`.
2. *The commit contract.* `Legal` says what any transition of the driver may do to an
   operation, `LegalEnd` what any terminal transaction may; `DriverCommits` proves, one
   lemma per phase, that every step of the driver is a legal commit, a legal end or
   an observation. `NextCases` splits every step of `Next` this way, so that what
   follows is argued from the contract and not from thirty actions.
3. *What rests on it.*
   - `QueuedInputIsHonoured`: `Spec => []QueuedInputContinues`. No run ends over a
     follow-up, no failed run over any input. It needs that a cancelled run has set its
     queues aside (`CancelledEmpty`), in the snapshot too.
   - `NextRunNeverLost`, `NoEffectAfterCancel`, `CancellationSticks`: the action
     properties `NextRunKept`, `CancelledStartsNothing`, `CancelSticks`.
   - `AttemptsAreBounded`: `Spec => []AttemptsBounded`, with an account of how many
     requests each state of a generation stands for (`Generated`).
   - `UnsafeToolsRunOnce`: `Spec => []UnsafeToolOnce`. `Guarded` says that a call which
     may still be started was never started, or was declared safe whenever it was,
     and that only the first unfinished call of a batch was started at all.
   - `InputsHaveOneHome`: `Spec => []OneHome`. `Housed` says that the seats in the five
     queues and the ids of waiting payloads correspond one to one (`Seats`), and that
     ids which wait, are promised to an effect, or name an entry are disjoint and were
     minted. The lemmas `SeatsDrained`, `SeatsAppended`, `SeatsJoined`, `SeatsReleased`,
     `SeatsFilled` say what taking, queueing, merging and dropping do to seats.
4. *What is named is there.* `Rooted` says of every id that a state, a queue, the
   metadata or an entry names that it is `NoId`, an entry, or a payload that waits; of
   a batch that its completed calls have their results, in order, below the response,
   that the newest of them is the leaf, and that a call that was started has its
   arguments; of a compaction that its preparation is kept. `EverythingRooted`:
   `Spec => []Sure`, with `Sure` all the layers so far. None of them stands alone: that
   a result goes where `Rooted` wants it rests on the leaf of the snapshot (`Driven`),
   that it overwrites nothing on `Housed`, that no call is committed out of turn on
   `Guarded`.
   - `LaneTypes`: `Spec => []TypeOK`, shapes of entries and metadata included.
   - `ResultsInOrder`: `Spec => []ResultsFollowCalls`.
   - `OnlyAbortedBarsRestore`: whatever happens, the only thing that can keep a lane
     from being restored is a response settled as aborted under a run that is not
     cancelled (`AbortedOnlyUnderCancel`).
   - `OwnSignalsRestore`: `Spec /\ []OwnSignal => []AlwaysRestorable`. That one thing
     needs a wake-up which reaches a run it was not meant for. `DriverRecords` follows
     the newest response through every step, `EntriesKept` says that no entry changes.
   - `OneAbortRestores`: `OneToAbort => (Spec => []AlwaysRestorable)`. A scenario that
     aborts nothing, or has one run to abort and nothing else, has no such wake-up.
     All scenarios of `tools` and of `turns` are of this kind: `tools` checks the property
     among its batches, that it holds of the compactions of `turns` is this theorem. And
     the hypothesis cannot go: `late_signal` aborts one of two runs and violates it.
5. *The branch.* What is on a branch is computed by climbing from parent to parent, as
   many times as there are entries. `AboveSteps` shows that this recursion has a
   solution, with the fold of `LeftFold`.
   - `ConversationIsTree`: `Spec => []OnTree`. Each entry has a height, one more than its
     parent's and at most the number of entries (`Tree`), so no chain of parents returns
     to where it was, and the climb is long enough to reach the root
     (`AncestorsAbove`). A driver that may commit plans from the leaf the lane has; a
     navigation goes where its metadata says. `LinkedNext` proves, one lemma per kind
     of transaction, that every step adds a chain of new entries at the leaf
     (`Linked`), or is the commit of a navigation and adds none (`Wanders`).
   - `BranchesGrow`: `Spec => ConversationGrows`, the action property.
   - `AnsweredTargetsPair`: `Spec /\ []TargetsSettled => []CallsPaired`. The invariant
     `Owed` says that each call on the branch is answered there or is one the open
     batch has not completed; a batch that is over owes nothing, because `Continues`
     lets a batch go only when all its calls are completed. The hypothesis is about
     navigation only: while one is open, its target is not in the middle of a batch.
     Without it the property is false (`MCLane_dangling_call` below), and the code does
     not see to it: `navigate()` takes any entry.
   - `UnmovedPairs`: `NobodyNavigates => (Spec => []CallsPaired)`. Where the scenarios
     have no navigation nothing is assumed of the run; those of `tools`, the run
     that checks `CallsPaired`, are of this kind.
6. *The refinement.* `LaneKeepsItsPromise`:
   `NoCompactionToAbort => (Spec => LaneImplementsLife)`. Every step of the lane is a
   step of `LaneLife` or a stutter. The hypothesis says that no scenario has both a
   standalone compaction and an abort, and it is needed: a compaction that is aborted
   between its summary intent and the reload may write the old control back and
   complete (`MCLane_compact_abort` below), which `LaneLife` forbids. `tools`, the run
   that checks the refinement, satisfies the hypothesis; so does every scenario of a
   lane nobody compacts by hand, and every one nobody aborts.

The proofs of the turn made the model say three things exactly. `schemas()` is the
fold that it is in the code (`Offer`), `replace_once()` looks for the first occurrence
and for another behind its end, and a page counts as seen only by the lane that reads
a saved output.

The lane's proofs made the model say two things exactly. `retain()` keeps the tail of a
queue (`Remaining`); that this is what the code's filter by id does is the uniqueness
proved as `OneHome`. And `replay_of()` of a tool that is not registered answers nothing
(`Declares`), which the run `tools` now exercises with a process that comes back
without a tool.

Model-checked only:

- `AlwaysReadable` is false (`rewrite`): that a file can be *opened* again is not part of
  what is proved about it.
- `TurnFaithful` and `FailureSurfaces` are about what the decoder and the accumulators
  make of bytes, `RequestPaired` and `SplitCoherent` about what a conversation is
  flattened, healed and cut into: nested folds, and `SelectSeq` and `FlattenSeq`, whose
  recursive definitions the provers cannot unfold.
- All liveness: fairness and ENABLED are out of the prover's reach.

## Disagreements

Four runs check a statement of the repository and TLC finds it violated:

- `rewrite` (`AlwaysReadable`): a file rewritten by `compact_file()` has its lines in
  the order entries, usage, registers, each with its old `seq`; `read_lines()` refuses
  a `seq` that does not increase, so the session cannot be opened again.
- `late_signal` (`AbortedIsDurable`): `abort()` commits, then looks up the cancel
  channel; if its operation has ended and another registered meanwhile, the signal
  stops that one, whose aborted response is then refused by `restore()`.
- `sandbox_disk` (`DiskMatches`): the fingerprint of the old policy outlives the build
  for a new one; if that build does not succeed, going back to the old policy restarts
  a disk that was built for the other.
- `length` (`TruncatedNeverRuns`): docs/architecture.md:174 has "A truncated response
  never executes its tool call", and the driver refuses such calls (lane.rs:1238, and
  the `tools` run). But no provider ever reports the limit: Anthropic's `max_tokens`,
  Chat Completions' `length` and `response.incomplete` all become a wish for tools, and
  a call whose arguments were cut runs with none.

More of them are kept as configurations that TLC refutes in seconds,
`tlc -config <cfg> <module>` (with `-continue` for `Terminal_busy`, which holds two
such properties):

| configuration | violates | what happens |
|---|---|---|
| `MCLane_live_result` | `LiveResultKept` | a steer accepted while an unsafe tool runs makes the commit of its result lose; the driver then records "the process died" (docs/harness.md:1718) |
| `MCLane_completed_drops` | `CompletedDropsNothing` | a deferred write at a finished checkpoint sets `skip_inbox_once`; the run completes over a queued steer (docs/harness.md:1457) |
| `MCLane_compact_abort` | `CancelSticks` | a standalone compaction aborted between its summary intent and the reload completes, or its retry writes the old control back (docs/harness.md:1935) |
| `MCLane_lost_sender` | `AbortEnds` | an operation that ended removes the cancel channel the next one registered |
| `MCLane_early_cancel` | `AbortEnds` | an abort between `restore()` and the registration is seen by neither |
| `MCLane_stale_preparation` | `PreparedFromSource` | `compact()` prepares from a conversation that a run extends before the claim |
| `MCLane_dangling_call` | `RequestsPaired` | after a navigation into a tool batch a run sends calls without results |
| `MCJsonl_two_writers` | `OneWriter` | the rename of a rewrite leaves the lock on the old file for a moment |
| `Terminal_standoff` | `NoStandoff` | keys are drained without reading updates; a long paste fills both queues and the two tasks wait for each other (tui/run.rs:16 "Neither side blocks the other") |
| `Terminal_side` | `SideInterruptible` | the worker awaits a side command in its loop, so the interrupt for it stays in the queue (tui/session.rs:222 "keep their own cancellation") |
| `Terminal_busy` | `SteerWhileBusy` | of two prompts in a row the second may find the lane idle, then busy, and is refused (tui/session.rs:293 "A prompt while the lane is busy is a steer") |
| `Terminal_busy` | `IndicatorShowsRun` | the end of a compaction inside a run, or of an earlier run, clears the indicator, and ctrl-c leaves instead of interrupting (tui/app.rs:332) |
| `Sandbox_secrets` | `SecretsCurrent` | `start()` reads the digests of the secrets after the call in which the machine resolved them (sandbox.rs:369 and 370, 389 and 390); a value that changes in between is never compared with what the machine has, and effects use the old one until it stops (README.md:331 "Changing a secret source value refreshes the source-only definition"). `acquire()` reads them before the call and errs on the safe side; the terminal stops the machine right after `start()`, so `exec` and `tool` are exposed |
| `MCTurn_wide` | `TurnFaithful` | each chunk is decoded on its own, so a character that a chunk boundary splits becomes two replacement characters (provider/sse.rs:19 "A chunk boundary can fall anywhere") |
| `MCTurn_early_end` | `EarlyEndIsRetryable` | a body that ends early but cleanly is a finished turn, perhaps without its last call (model.rs:17 "a stream that ended early" is retryable) |
| `MCTurn_repeated_ids` | `RequestPaired` | where ids are made up per response (`call_0`), the result of an earlier turn hides that a call has none |
| `MCTurn_declared_twice` | `OfferedRuns` | of two Lua tools with one name the model sees the last and the first one runs |
| `MCTurn_lost_edit` | `EditCurrent` | `edit` reads and writes in two effects; what another lane wrote in between is lost |

`TextAnswered` in the `terminal` run is stated up to the standoff: TLC shows that
nothing else, apart from the end of the worker, leaves a text unanswered.

## Not modelled

- *The retry delay* (`RetryPolicy::delay_ms`): the lane has no clock. It is one
  expression, capped and saturating, and no choice depends on its value.
- *Providers*: the parameters of a request (`build_body`), `config.rs` and `discovery.rs`
  are configuration. `function_call` deltas other than tool calls, thinking blocks and
  images do not reach the conversation. The text deltas sent to the terminal while a
  response streams are events. An error of a stream has its message as a string: Chat
  Completions ignores any other shape (openai_completions.rs:41). A body ends, early or
  not, between two events.
- *Lua*: `agent.lua` and `sandbox.lua` are read once. What a script does with `ctx.sh` is
  a command. *Which* tools are active in a lane (`active_tool_names`) filters the
  schemas and nothing else.
- *Channels, project files, skills, command line*: read once before anything runs, or
  without a user. *Rendering, completion and the line editor* of the terminal.
- Several lanes of a session: they share the owner task (`Session`, any number of
  clients), the toolbox (`Toolbox`) and the machine (`Sandbox`).

## Plan

1. Proofs: what `RequestPaired` and `SplitCoherent` say of one request, over folds in
   place of `FlattenSeq` and `SelectSeq`.
2. Compose: the lane over `Session` (lane commits as commands of the channel, with
   faults), and the terminal over `LaneLife` instead of its own coarse lane.
