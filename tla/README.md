# ARES-1: a TLA+ model of the mission backend and its simulator runs

ARES-1 runs an emergency of a Mars habitat. A FastAPI backend keeps mission
sessions in JSON files, runs a C++ simulator as a child process to get a
baseline, replays the baseline's telemetry to clients against the wall clock,
and asks a language model for a recovery plan, which the simulator then judges.

This directory holds the TLA+ specifications of that system, the TLC
configurations that check them on small instances, and proofs that TLAPS checks
for every instance. The code is the reference. `PROJECT.json` (`map`) names, for
each definition, the lines it stands for; a definition that is not in `map` is a
property, a mutant (below) or a constant of an MC module.

- [The system](#the-system) - components, state, operations, what is hard
- [The modules](#the-modules) - which models what, and how
- [The runs](#the-runs) - what is checked, bounds, fairness
- [What is proved](#what-is-proved)
- [What the checks found](#what-the-checks-found)
- [What is not modelled](#what-is-not-modelled)
- [Plan](#plan)

Paths below are relative to `backend/app/` unless they begin with `Simulator/`.

## The system

### Mission lifecycle

| Component | State it keeps | Operations | Talks to |
|---|---|---|---|
| `services/mission_lifecycle_service.py` | none of its own | `create_session`, `trigger_accident`, `start_replay`, `reconcile_interrupted_sessions` | session store, simulation service, run store |
| `services/session_store.py` | `sessions/<id>/session.json`, one `asyncio.Lock` per session | create, read, compare-and-replace with read-back, list, `lock_session` | files |
| `schemas/mission.py` | - | validation of a record on every read | |
| `services/replay_clock.py` | - (pure) | `position_at` | |
| `services/telemetry_replay_service.py` | none | `get_current_telemetry`, `get_due_events`; persists COMPLETED | session store, run store, clock |
| `main.py` (lifespan) | - | reconciliation before the server serves | lifecycle service |

A session goes `READY -> TRIGGERING -> BASELINE_READY -> REPLAYING -> COMPLETED`,
with `ERROR` out of `TRIGGERING` and a restart from `COMPLETED`.

Hard: the trigger awaits the simulator for minutes between its two writes, with
the session lock held and a stale copy of the record; cancellation, crash,
storage faults and a second trigger fall in between. `model_copy` writes records
that nobody validates until the next read. The replay is driven by a wall clock
that can be set back.

Correct means: one baseline run per session; what a session names is a completed
run of its own with as many samples; a baseline a client was told of is never
lost; records can be read again; a replay does not go back or end early;
`TRIGGERING` ends and calls return.

### Streams

| Component | State it keeps | Operations | Talks to |
|---|---|---|---|
| `api/sse.py` limiter, lease | `_active` | `try_acquire`, `release` | |
| `api/sse.py` generator | batch, last id, sleep, per client | `generate_replay_stream` | replay service, client |
| `api/routes/missions.py` | - | `stream_replay`: lease, first batch, response | both |

Hard: a batch is computed at once and sent one event at a time while the clock,
the session, other readers and the client move on; a client reconnects with its
last id; a stream may end in many ways and must give its slot back once in
each.

Correct means: each event arrives once and in order, over all connections of a
client; nothing is sent early; `complete` is on disk before it is announced;
slots are accounted for; a client that stays hears the end.

### Simulator runs

| Component | State it keeps | Operations | Talks to |
|---|---|---|---|
| `services/simulation_service.py` | - | `run_simulation`, `_finalize_failure` | client, run store |
| `services/simulator_client.py` | a semaphore, child processes | `run`, `_kill_and_drain` | the simulator |
| `services/run_store.py` | `runs/<id>/` (scenario, plan, metadata, logs, result) | workspace, atomic writes, reads | files |

Hard: a timeout races the end of the process; a cancellation arrives in the
queue, during the spawn, in the wait, and again during the drain; the child
writes `result.json` in place while it is being killed; each of several writes
may fail.

Correct means: permits and processes are accounted for, the answer agrees with
the run directory, closed runs never change, every call is answered.

### Planning

| Component | State it keeps | Operations | Talks to |
|---|---|---|---|
| `services/mission_planning_service.py` | `_active_sessions` | `generate_candidate` | replay service, retrieval, planner, attempt store |
| `services/mission_plan_simulation_service.py` | `_active_sessions` | `generate_and_simulate` | the above, simulation service, validation store |
| `services/planning_{attempt,validation}_store.py` | an attempt and a validation record per attempt | create, read, replace | files |
| `services/procedure_retrieval.py` | an immutable index | `retrieve` | NIM client |
| `services/planner_provider.py`, `planner_prompt.py`, `planner_candidate_validator.py` | - | prompt, planner request, preflight | NIM client |
| `integrations/nvidia_nim.py` | one HTTP client | embeddings, rankings, chat, with retries | the hosted models |

Hard: an operation reads the baseline, then awaits three remote requests and a
simulator run while its session is replayed and restarted; guards must be
released on every way out; a record that is `SIMULATING` must end; three orders
are chained to pick the evidence, and scores arrive in the provider's order.

Correct means: one operation per session; a complete record compares the
attempt's own run with the session's own baseline; the answer agrees with the
record; terminal records stay; the evidence is the best there was.

### The procedure corpus

| Component | State it keeps | Operations | Talks to |
|---|---|---|---|
| `docs/procedures` | the manuals and `corpus_manifest.json` | edited by hand | |
| `scripts/validate_procedure_corpus.py` | a report | one pass over all of it | the files |
| `services/procedure_corpus.py` | - | manifest and manuals to a snapshot of chunks | the files |
| `scripts/build_procedure_embedding_index.py`, `services/procedure_embedding_index_builder.py`, `embedding_index.py` | the vectors so far | snapshot to index | NIM client |
| `services/procedure_embedding_index_store.py` | the index file | `save`, `load`, `load_compatible` | files |
| `main.py` (resources), `api/routes/retrieval.py`, `core/config.py` | the loaded index | startup, `query_retrieval`, the limits | index store, retrieval |

Hard: three programs and the authors work on the same files with no lock; a
build reads them one after the other, then waits for a remote model batch by
batch, and can die anywhere; a server may be started with another model while
that goes on; the chunks come out of three nested loops with look-ahead, and a
line that is lost or misfiled makes a plausible chunk that says something else;
the limits of route, planner and reranker are set one by one.

Correct means: the index file and what a server loads are the whole result of
one build by the server's own model; what a build holds stood in the files when it
read them; no text of a deferred procedure can be retrieved from a corpus that
passed; every line is in one chunk under its own headings; queries get as many
matches as they may ask for.

### The simulator

| Component | State it keeps | Operations |
|---|---|---|
| `Simulator/src/Simulation.cpp` | `SimulationState`, hold clock | step loop, evaluation, termination |
| `Simulator/src/ActionExecutor.cpp` | active actions | start and update of six action types |
| `Simulator/src/ResourceModel.cpp` | EVA phase, rover, radio, habitat physics | `updateEVAAndRepair` and the rate laws |
| `Simulator/src/CrewPhysiologyModel.cpp` | vitals per crew member | rate laws, classification |
| `Simulator/src/Validator.cpp` | - | scenario and plan validation |
| `Simulator/src/JsonIO.cpp`, `main.cpp` | - | parsing, output, exit codes |

Hard: actions share one EVA clock, one repair progress, one rover reservation
and one transmission clock; crew turn back in the middle of a phase; minutes
are compared for equality with a clock that advances in steps; a step is counted
as whole minutes by the clock of the run (at least one) and by the EVA and
transmission clocks (perhaps none), and as a fraction by hold, work and energy.

Correct means: shared assets are held exactly while an action uses them, an
action starts once and on time, nobody is left outside who cannot return, and a
repair or a stabilization is not claimed before it happened.

## The modules

| Module | Models | Extends / instantiates |
|---|---|---|
| `MissionSession` | the persisted record, its validation, the copies the services write | |
| `ReplayClock` | `position_at` in integer microseconds | |
| `SessionLifecycle` | *abstract*: what the lifecycle promises | |
| `MissionLifecycle` | lifecycle service, session store, persisted COMPLETED, startup | `MissionSession`, `ReplayClock`; refines `SessionLifecycle` |
| `MissionLifecycleProofs` | the theorems about it | `MissionLifecycle`, `TLAPS` |
| `ReplayStream` | route, limiter and generator of the streams | `ReplayClock` |
| `ReplayStreamProofs` | the theorems about it | `ReplayStream`, `TLAPS` |
| `SimulationRuns` | simulation service, client, run store, the child process | |
| `SimulationRunsProofs` | the theorems about it | `SimulationRuns`, `TLAPS` |
| `PlanningPipeline` | both planning services and their stores | instantiates `SessionLifecycle` |
| `PlanningPipelineProofs` | the theorems about it | `PlanningPipeline`, `TLAPS` |
| `CandidateGeneration` | retrieval, planner request, preflight, retries | |
| `CandidateGenerationProofs` | the theorems about it | `CandidateGeneration`, `TLAPS` |
| `PlanExecution` | a run of the C++ simulator over a plan | |
| `PlanExecutionProofs` | the theorems about it | `PlanExecution`, `TLAPS` |
| `ProcedureCorpus` | the parsing of a manual's text into chunks, as operators, and what chunks should be | |
| `ProcedureCorpusProofs` | what the parser makes of any text | `ProcedureCorpus`, `TLAPS` |
| `PublishedIndex` | *abstract*: what the index promises, whoever builds it | |
| `ProcedureIndex` | authors, validator, builders, index file, startup of the server and its queries | `ProcedureCorpus`; refines `PublishedIndex` |
| `ProcedureIndexProofs` | the theorems about it | `ProcedureIndex`, `ProcedureCorpusProofs` |
| `MC...` | the small instances of each | the module they are named after |

The modules are joined where the components are: `MissionLifecycle` implements
`SessionLifecycle`, and `PlanningPipeline` runs over `SessionLifecycle` instead
of the whole service, so that what planning relies on is what the lifecycle is
shown to promise. `ReplayStream` has the replaying part of a session as its
environment (REPLAYING or COMPLETED since an instant, restarted only when
COMPLETED), which is what `MissionLifecycle` allows. `MissionLifecycle` sees a
simulator run as created, then completed, failed or cancelled, which
`SimulationRuns` details. `CandidateGeneration` takes any sequence of chunks for
its index; `ProcedureIndex` is where one comes from.

### Conventions

*Atomicity.* The backend is one process on one event loop: a coroutine yields
only at an `await`. What the code does between two awaits is one action. It is
cut further where a crash between two writes leaves a state of its own
(`TriggerBegin`, `TriggerEnd`), or the action itself has the outcomes a storage
error can cut it to (`LaunchFails`, `CutShort`); the state a crash at that point
leaves is among them. The simulator is sequential; its step is cut into the
calls `runInternal` makes. The offline scripts are processes of their own: each
file they read is a step.

*Calls that change nothing.* In `MissionLifecycle` a call that is refused is an
action, since it ends a request; elsewhere a call refused by a guard is no
action.

*None.* `NoRun`, `NoTime`, `Nobody`, `0` and `"none"` stand for `None`, by field.

*Bounds.* `MaxTime`, `MaxFaults`, `MaxCrashes`, `MaxCancels`, `MaxLeaves`,
`MaxRestarts`, `MaxStepBacks`, `MaxActions` and the budgets in `left` of
`ProcedureIndex` are bounds of the model and of no code. `Capacity`,
`MinInterval`, `MaxInterval`, `MaxRetries`, `RerankCount`, `MaxTopK`, `SoftMax`,
`BatchSize`, and the minutes of `PlanExecution` are settings of the program.

*Mutants.* A definition followed or preceded by one that differs in a detail is a
mutant of it: a plausible slip in the code. `PROJECT.json` (`mutants`) says which
property must fail when it takes the definition's place.

### How state and actions correspond to the code

**`MissionLifecycle`.** `disk[s]` is `session.json`; `runs[r]` the metadata
status of a run directory and the length of its telemetry; `lock` the
`asyncio.Lock` of each session; `req[q]` a handler with its local variables
(`snap` is the local `triggering`). `StoreReplace` is `replace_session` with its
five outcomes: written and read back, written but invalid, written but its
read-back failed, not written, conflict. `TriggerBegin`, `LaunchRun`,
`RunCompletes`/`RunFails`/`RunCancelled`/`RunRaises`, `TriggerEnd` are
`trigger_accident` between its awaits; `StartReplay` is `start_replay`; `Poll` is
`get_current_telemetry`, which persists COMPLETED; `Crash`, `StartServer`,
`ReconcileSkip`, `ReconcileInterrupted`, `StartupDone` are the life of the
process. `acked` and `shown` are history: what clients were told.

**`ReplayStream`.** `session` is the record while it replays; `conn[c]` the
generator of a client (`queue` the rest of its batch, `wake` the end of its
sleep, `lastId` the last id it sent); `active` the limiter's count. `last` is
what the client has received. `OtherReader` stands for the streams and polls of
everyone else, which complete the session too. Time is counted in quanta of half
a millisecond, below the millisecond the sleeps are rounded to.

**`SimulationRuns`.** `run[r]` is the run directory, `proc[r]` the child,
`call[c]` where a call of `run_simulation` stands. A result is absent, bad
(truncated, or against the contract) or valid. `tickets` order the queue of the
semaphore.

**`PlanningPipeline`.** `guard` stands for `_active_sessions` of both services,
which are taken and released together; `op[o]` is an operation with what it read
before its awaits; `attempt` and `validation` are the stored records, `candidate`
the runs, `answer` the response.

**`CandidateGeneration`.** A chunk is its position in the index. `similarity` and
`logit` are levels that are only compared; `logit` is what the reranker thinks of
each passage, and the rankings in its answer name passages by request index, in
any order, or are damaged. `Coverage` and `Filled` are the two loops of the
selection, each a `Pass`: a fold over the ranking that takes a chunk whose key (its
procedure, or itself) is new, while there is room. `SupportOf` is the same loop over
the matches. `attempt` is the loop variable of `_request_json`. Without a match the
prompt's input is refused before any request is made (`NoEvidence`).

**`PlanExecution`.** `plan` is any of the configured plans; `active` the active
actions; `crew` EVA status and health per member; `clock` the one EVA clock, work
clock and repair progress all share; `rover`, `radio` the shared assets. Each step
the physics picks the health of each member, the pace of the repair and the
state of the habitat from everything the rate laws could give; minutes and
thresholds are exact.

`TimeStep` is `time_step_s`, any positive number, and the code counts a step in three
ways. `StepMin` is `max(1, time_step_s / 60)`, by which `time` advances; `WholeMin` is
`static_cast<int>(dt_minutes)`, by which the EVA, work and transmission clocks do; what
the code keeps as a double of minutes (hold, rover energy, repair progress as a part of
`repair_work_min`) is kept in seconds, so a step adds `TimeStep`. Seconds are exact
where the doubles are rounded: 100 s are 1.666... minutes, and a sum of such steps that
should meet a limit exactly can be one step late in the code. `Paces` are the seconds of
work a step may do, at most `TimeStep`: `physical_performance` is at most 1.

**`ProcedureCorpus`.** A text is the sequence of the kinds of its lines: what the
patterns of the parser tell apart (headings by level, fences by marker and
length, quotes, rows, items, indented lines, rules, text, empty lines). Each line
is one character long, with a newline to the next and an empty line between
blocks. `Blocks` is `_tokenize_blocks`; `Paths` is the heading stack after each
line, `Nest` what a heading does to it, `Section` what `flush` makes of the lines
between two headings; `SplitSection` is the greedy grouping; `HasMetadata` is the one regular expression
that matches across lines. `KeepsText` is the reference: it looks at the text
only, with `Above` for the headings over a line and `OpenFence` for fences over
the whole text rather than by section.

**`ProcedureIndex`.** `work[b]` is a run of the builder with what it has read,
`index` the file, `server.index` what the backend loaded, `checker` the
validator's run. `ReadManifest`, `ReadManual`, `EmbedBatch`, `Save` are the steps
of `main` of the build script, `BuildFails` and `BuilderDies` its other ends;
`StartCheck`, `CheckManual`, `Report` are `validate_corpus`; `StartServer`,
`StartWithout` are `_build_retrieval_resources`. A hash in the file stands for
what was hashed. `past` is history: every version the corpus had before the last edit,
so that `Versions` has them all; `edits` is their number, and `mark` that number when a
build or a check began. What the validator looks for in a text (required sections, forbidden
claims, oxygen levels, action tables, telemetry, scenarios, sources) is a set of
`flaws` a manual has; those of `Contract` are refused by the builder as well. A
manifest can always be parsed, and the register of sources has no faults of its
own.

## The runs

All run with `tlc -workers 2 -config <name>.cfg <module>.tla`; each ends within
about a minute and a half.

| Run | Asks | Bounds |
|---|---|---|
| `lifecycle` | safety, refinement and liveness of `MissionLifecycle` | 1 session, 2 calls in flight, 2 runs, time 3, one crash, one fault, one clock step |
| `orphan_triggering` | finding: is a TRIGGERING session always attended to? | 1 call, 1 fault, 1 crash |
| `clock_step` | finding: can every record be read again? | 1 call, 1 clock step |
| `streams` | order, timing, persistence, slots and the end of streams | 2 clients for 1 slot, 2 samples, time 10 (5 ms), one of each disturbance |
| `simulation_runs` | permits, processes, answers, directories | 2 calls for 1 permit, 3 runs, 1 fault, 1 crash, 2 cancellations |
| `planning` | guards, linkage, records, answers | 2 operations, 2 attempts, 3 runs, 2 faults, 1 crash, 2 cancellations |
| `rejected_plan` | finding: is every outcome answered as documented? | 1 operation |
| `candidate_generation` | is the evidence the best there was? | 5 chunks of 3 procedures, 4 reranked, top 1 to 3 |
| `plan_execution` | shared clocks and assets, starts, returns, hold | 2 crew members, 42 plans, 8 minutes, steps of 60 s |
| `false_completion` | finding: does a completed repair mean a restored array? | 2 crew members, one plan |
| `procedure_index` | chunks of every short text; builds, checks, edits, errors and restarts side by side | 2 manuals, bodies of up to 4 lines of 13 kinds, 2 builders, 2 models, 4 configurations |
| `inactive_evidence` | finding: is only ACTIVE evidence retrieved? | 2 manuals as they are, one build, one start |

### Properties

| Property | Module | Says |
|---|---|---|
| `BaselineLinked` | MissionLifecycle | a session that offers a replay names a completed run of its own, with its count |
| `OneBaselineRun` | | no two runs are launched for one session |
| `AckedBaselineDurable` | | a baseline that was answered stays, through crashes and faults |
| `TriggerOwnsSession` | | between its writes a trigger holds the lock and `session.json` is its own record |
| `CompletedIsDue`, `ReplayNeverGoesBack` | | while the clock was not set back: COMPLETED is not early, readers do not go back |
| `TriggeringEnds` | | on a sound host TRIGGERING ends |
| `CallsReturn` | | a call that waits for the session lock is answered |
| `KeepsPromise` | | `MissionLifecycle` implements `SessionLifecycle` |
| `OnTime` | ReplayStream | no event before its instant, no `complete` before COMPLETED is stored, no sleep past the next sample |
| `InOrderExactlyOnce` | | over reconnects and restarts, no gap and no repetition |
| `SlotsAccounted` | | the limiter's count is that of the open streams, and within its capacity |
| `StayersHearTheEnd` | | a stream whose client stays ends with `complete` |
| `ResourcesHeld` | SimulationRuns | each permit has a call that holds it, each simulator a call that waits for it |
| `AnswerMatchesRun`, `ClosedRunsFrozen`, `CallsAnswered` | | answers and directories agree, closed runs stay, calls end |
| `GuardsAccounted`, `OperationsEnd` | PlanningPipeline | one operation per session, guards free again |
| `ComparisonLinked`, `AnswerMatchesRecord`, `TerminalIsFinal` | | records compare the right runs, agree with answers, and stay |
| `EvidenceIsBest` | CandidateGeneration | the selection against a declarative account of what the best evidence is |
| `AssetsHeldByActions`, `StartedOnceOnTime`, `OutsideCanReturn` | PlanExecution | shared assets, starts, returns |
| `HoldUnbroken`, `RepairTakesItsTime` | | no stabilization or repair before its time, in simulated minutes |
| `ChunksKeepText` | ProcedureIndex | what is published of a document has every line of it once, in order, under its headings, uncut |
| `BuiltFromFiles` | | a published index is the whole of what its build found in the files, each part as it stood at one moment of the build, in order |
| `DeferredStayOut` | | of a corpus that passed and was not edited since, nothing objected to and no text of a deferred procedure is in the index |
| `QueriesHonoured` | | the route's and the planner's queries get as many matches as they ask for or as there are |
| `IndexKeepsPromise` | | `ProcedureIndex` implements `PublishedIndex` |

`TypeOK` is the type invariant of each module with variables. The properties of the
five runs with a finding (`TriggeringInProgress`, `RecordsReadable`,
`CompleteMeansRestored`, `OnlyActiveRetrieved`, `OutcomesAccepted`) are under
[What the checks found](#what-the-checks-found).

### Why the bounds are enough

- *One session in `lifecycle`.* Sessions share no lock and no record; what they
  share is the pool of run ids, and a run belongs to the session it was launched
  for. The safety theorems below hold for every number of sessions, handlers and
  runs. Two calls in flight are the least that race: two triggers, a trigger and
  a poll, a replay restart and a poll. With two runs a second baseline is
  possible if the code allowed it. Telemetry has 0 samples (the empty case) or 2
  (a first and a last); a requested interval is inside or above its limits; three
  instants let a replay of two samples start after the trigger and end.
- *Streams.* Two clients compete for the one slot. Two samples and `complete` are
  three events: enough for a gap, a repetition and a swap. A heartbeat shorter
  than the interval cuts every sleep; half-millisecond quanta make the rounding up
  visible. Ten quanta hold two replays.
- *Runs.* Two calls on one permit queue, overtake and hand over; two
  cancellations are the least to cancel a drain; three runs give a call a second
  run after a first has failed.
- *Planning.* Two operations compete for the guard of one session; the third run
  is the baseline. Two sessions would be independent here too.
- *Candidates.* Two levels give ties and strict orders at each of the three
  sorts. Five chunks with one procedure three times, and four reranked, have each
  case of the selection: crowded out before the rerank, crowded out after it,
  fewer procedures than places, more procedures than places. `MaxRetries` is one,
  so a first, a last and a successful attempt exist.
- *Plans.* Two actions of a kind at every distance is where clocks are shared;
  mixes add the delayed rover, the crew the validator checks and the executor
  does not send, a refused plan and the empty plan. The phases are one or two
  minutes long, so each is entered, continued and left. The time step is that of
  the shipped scenario, 60 s, with which every clock counts the same and the bounds of
  `HoldUnbroken` and `RepairTakesItsTime` are met exactly; that they hold for every other
  step, where the clocks differ, is proved.
- *Corpus and index.* A block is decided by its first line, the lines that go on
  with it and one line of look-ahead, so four lines of any of 13 kinds hold each
  case once; they are tried alone and, up to three lines, inside a long fence,
  after a list with an empty line, between headings of two levels, and in a
  section that has to be split. A limit of four characters is met exactly by two
  blocks of a line each, passed by one when one of them is longer, and passed by a
  single block of three lines. Two manuals, one of them deferred, can trade
  identities and places in the manifest; batches of two have a full and a rest.
  A behaviour begins in one of four kinds of situation (a text that is only built;
  builds racing an edit; a check among edits; failures, a crash and restarts),
  each with the budgets that its case needs.

`CHECK_DEADLOCK FALSE` is set where a run of the system ends: no call is left to
make, every run id is used, the simulator is done, or the budgets are spent.

### Fairness

- `MissionLifecycle`: the event loop runs each handler that is ready; a
  simulator run ends (it is killed at its timeout); the service is started when
  it is down. Crashes, cancellations, arrivals and clock steps are not fair. Weak
  fairness is enough for a waiter: only a trigger keeps the session lock over an
  await, and a session is triggered once.
- `ReplayStream`: the event loop runs each stream that is ready, and time passes
  up to `MaxTime`. Nobody has to connect. `StayersHearTheEnd` speaks of streams
  that are past the last fault and crash.
- `SimulationRuns`: the event loop runs calls and timers, and a process that was
  sent SIGKILL ends. Nothing says that a simulator ends on its own: that queued
  calls are answered all the same is what the timeout is for.
- `PlanningPipeline`: the session lock is granted, retrieval and planner end
  (each request has a timeout and a number of attempts), the simulator has a
  timeout.
- `ProcedureIndex`, `CandidateGeneration` and `PlanExecution` assume none: what
  they state is safety, and nothing in the code makes an author or an operator
  go on.

## What is proved

### The lifecycle

`MissionLifecycleProofs` proves, for every set of sessions, handler slots and
runs, every interval range and every bound:

| Theorem | Statement |
|---|---|
| `TypeCorrect` | `Spec => []TypeOK` |
| `BaselineIsLinked` | `Spec => []BaselineLinked` |
| `BaselineRunIsUnique` | `Spec => []OneBaselineRun` |
| `AckedBaselineStays` | `Spec => []AckedBaselineDurable` |
| `TriggerIsExclusive` | `Spec => []TriggerOwnsSession` |
| `Implements` | `Spec => KeepsPromise` |
| `ReadableUnderMonotonicClock` | `Spec => []SessionsReadable` |
| `CompletedOnlyWhenDue` | `Spec => []CompletedIsDue` |
| `ReadersGoForward` | `Spec => ReplayNeverGoesBack` |

The assumptions are those of the modules: `NoRunAssumption` (`NoRun` is no run)
and `LifecycleAssumption` (`Nobody` is no session and no call, sample counts and
intervals are naturals, the least allowed interval is positive, the limits are in
order). The bounds are arbitrary naturals.

*The inductive invariant.* None of the five invariants is inductive alone.
`OneBaselineRun` needs to know that a session that is about to launch has no run
yet; that follows from where its trigger stands; that needs the trigger to be the
only one, which is the lock; and the lock is good for something only because the
record on disk still is the trigger's. So `IInv` is the conjunction of `TypeOK`,
the five, and

- `NoHandlerWhenDown`: a crash leaves no handler and no lock behind;
- `RequestsNamed`: a handler in flight has a session;
- `TriggerProgress`: at each step of a trigger, what its locals say about the run
  directory;
- `RunsOwned`: a run has an owner exactly once it exists, and a session that was
  never triggered owns none.

`NextInv` has one step per action. Most actions touch one session or none:
`QuietStep`, `FreeSessionStep` and `RewriteStep` say once what is kept then.

*Refinement.* Under `IInv` each action maps to the abstract action of its name or
to a stutter (`PromiseNext`): `TriggerBegin` to `Trigger`, `LaunchRun` to `Launch`,
`TriggerEnd` to `Link` or `Fail`, `ReconcileInterrupted` to `Fail`, `StartReplay` to
`StartReplay`, a `Poll` that persists to `Complete`; a write that fails is a
stutter, one that is only not read back is the abstract step.

*The clock.* `ClockInv` says, while the clock was not set back, that every record
is readable, that no instant in it lies in the future, that COMPLETED records are
due, and that a trigger's copy is readable. It rests on `IInv` for the record a
trigger ends with, and on `ClockCounted`: `stepBacks` only grows.

*The readers.* `ReplayNeverGoesBack` compares what is served now with what was
served before, at another instant and perhaps from another status. `ReaderInv`
ties the two: what a session's readers were last shown is not past the sample the
clock has reached (`CurrentIndex`). The clock carries that bound forward
(`ClockMonotone`, below), a COMPLETED record serves its last sample, which was due
(`CompletedIsDue`), and a restart is the one step that begins again.

### The replay clock

The arithmetic of `position_at`, for every instant, interval and number of samples,
is proved where it is used: `ClockMonotone` in `MissionLifecycleProofs`, the rest in
`ReplayStreamProofs`.

| Theorem | Statement |
|---|---|
| `ClockMonotone` | a later instant has no earlier index, and completion is not taken back |
| `DelayEndsAtSample` | `delay_ms` ends at the next sample or less than a millisecond after it, never before |

The lemmas `IndexIsDue` and `IndexIsLatest` say what the index is: the sample was
due, and the one after it is not. Division is by a variable interval, which the
solver does not do by itself; each lemma names the quotient and its two bounds.

### Streams

`ReplayStreamProofs` proves, for every set of clients, number of slots, samples and
events, every interval, heartbeat and resolution of time, and any number of
disturbances, every safety property the `streams` run checks:

| Theorem | Statement |
|---|---|
| `StreamsTyped` | `Spec => []TypeOK` |
| `SlotsKept` | `Spec => []SlotsAccounted` |
| `StreamsOnTime` | `Spec => []OnTime` |
| `EventsInOrder` | `Spec => InOrderExactlyOnce` |

The only assumption is `StreamAssumption` (slots, samples, interval, heartbeat and
quantum are positive, the bounds are naturals). The set of clients may be infinite:
the limiter keeps the open streams finite.

*The inductive invariant.* A queue is a set of ids in the model, as the code could
have put anything into a batch. That it is a contiguous range, from the event after
the last one sent up to some `top`, is what makes order and absence of gaps
inductive (`Batch`): sending takes the least id, which is the next. The same
predicate carries the two time bounds: each sample of the queue is due in the
replay it was computed for, and the sleep ends with the instant of the event after
`top` or with the heartbeat. Restarts and other readers change the session under
the stream, so both bounds speak of the generation the batch came from
(`SessionSound`, `Onward`). `StreamSound` adds what a client that stays has
received, and `Slots` counts. A step of one stream is one of `SlotStep`'s ways to
use the limiter, and disturbs no other stream.

### Simulator runs

`SimulationRunsProofs` proves, for every set of runs and calls, every capacity and
every number of faults, crashes and cancellations, every safety property the
`simulation_runs` run checks:

| Theorem | Statement |
|---|---|
| `RunsTyped` | `Spec => []TypeOK` |
| `PermitsAndProcesses` | `Spec => []ResourcesHeld` |
| `AnswersTrue` | `Spec => []AnswerMatchesRun` |
| `ClosedStayFrozen` | `Spec => ClosedRunsFrozen` |

The only assumption is `RunsAssumption` (`NoRun` is no run, the capacity is
positive, the bounds are naturals). Neither the runs nor the calls are assumed to
be finite: only the permits bound how many calls hold one.

*The inductive invariant.* A call, its run directory and its process belong to one
another, and no other call has them. `CallsAttend` says where the process is at
each step of its call; `RunsApart` that no two calls have one run; `RunsSound` what
a directory, a process and an answer say of each other once the call is gone: a
closed directory has no process that could still write to it, which is what
`ClosedRunsFrozen` rests on. `PermitsHeld` counts the calls that hold a permit.

`CallStep` proves once that a call that goes on, begins or ends leaves every other
call's share alone, `ProcessStep` the same of a simulator that acts by itself, and
`PermitStep` that the count follows; `OnwardStep`, `CancelStep` and `ConcludeStep`
are the three ways of a call to use them. That there are at most `Capacity` living
simulators is counted through the calls that await them (`SimulatorsHoldPermits`).

### Planning

`PlanningPipelineProofs` proves, for every set of sessions, runs, operations and
attempts and every bound, every safety property the `planning` run checks:

| Theorem | Statement |
|---|---|
| `PlanningTyped` | `Spec => []TypeOK` |
| `GuardsExact` | `Spec => []GuardsAccounted` |
| `ComparisonIsLinked` | `Spec => []ComparisonLinked` |
| `AnswersAgree` | `Spec => []AnswerMatchesRecord` |
| `TerminalStays` | `Spec => TerminalIsFinal` |

The only assumption is `PipelineAssumption` (`NoRun`, `Nobody` and `NoAttempt` are
none of the things they stand beside, the bounds are naturals). What is assumed of
the mission is `SessionLifecycle`, which `Implements` shows of the service.

*The inductive invariant.* `ComparisonLinked` is about files that are written
after three awaits, during which the mission goes on. What carries it across is
`ReadIsBaseline`: the session an operation planned for is still offered for
replay, and what the operation read is still its baseline. `MissionKeeps` proves
that from the lifecycle's promise alone: a session that is REPLAYING or COMPLETED
stays one of the two and keeps its baseline. `PInv` adds

- `MissionLinked`, `CandidatesApart`: a baseline is its session's own run, and a
  run launched for an attempt is nobody's, so a comparison never compares a run
  with itself;
- `SimulatingOwns`, `OwnersDiffer`: an operation that simulates is alone with its
  attempt, its SIMULATING record and its run, so that no other operation's end
  disturbs them, and what it ends is never a terminal record;
- `FreshAttempts`: nothing is known of an attempt that was never stored;
- `ComparisonStands`: the session of a complete record still offers a replay, so
  later mission steps leave the comparison true.

`Finish` states once what the ends of a simulation have in common (accepted,
unlinked, failed, cancelled); `FinishInv` carries the weight of the argument.

### The index

`ProcedureIndexProofs` proves, for every set of manuals, builders, models and
configurations, every batch size and every number of edits, errors, crashes and
restarts:

| Theorem | Statement |
|---|---|
| `FollowsFiles` | `Spec => []BuiltFromFiles` |
| `KeepsDeferredOut` | `Spec => []DeferredStayOut` |
| `HonoursQueries` | `Spec => []QueriesHonoured` |
| `KeepsPromise` | `Spec => IndexKeepsPromise` |
| `PublishedKeepsText` | `Spec => []ChunksKeepText` |
| `IndexTyped` | `Spec => []TypeOK` |

The assumptions are `SoftMaxAssumption` and `IndexAssumption` (what the files,
edits and settings can be). `PublishedKeepsText` rests on `TextIsSplitWell`, the
theorem of `ProcedureCorpusProofs`: the chunks of any one text, of any length, keep
it (`KeepsText`). The run tries short texts; the theorem is about all of them, and
adds that no interleaving of builds, edits, errors and crashes publishes anything
but such chunks.

*One text.* The parser is recursive functions and folds over sequences. That such a
function has the value its equations ask for is `Recursion`, proved once by going up
the sizes; the equations of `BlocksFrom`, `GroupsOf`, `Paths`, `OpenFence` and of
`FlattenSeq` follow from it. Each stage then has one fact:

- `BlocksTokenize`: every line that is not blank is in one block, in order.
- `SplitGroups`: every block is in one group, in order; a group is within the limit
  or one block.
- `PathsAreAbove`: the stack after a line holds the headings that `Above` names, which
  look at the text alone.
- `OpenFencesAreBlocks`: as long as no heading stands in a fence, the parser, which
  begins anew in each section, and `OpenFence`, which reads the text from its first
  line, agree at every line on the open fence (`Agree`). From there
  `BlocksDoNotCut`: two inseparable lines are in one block.
- `SectionKept` and `Origins` put the stages together, by section and by text.

*Types.* The chunks are a sequence of the right records for any text
(`ChunksOrigins`). That a build has no more vectors than chunks needs `Counted`: it has
none before it has read everything, so that the chunks do not change under them.

*The inductive invariant.* `WorkInv` says of a build in flight that its parts are
the chunks of what it read, one for one (`Faithful`), and that what it read stood in
the files, at versions of the corpus that begin where the build began and never go back
(`Stood`). An edit adds a version and leaves the others (`StoodBefore`); reading the
manifest or a manual adds the present version as the witness for what was read
(`StoodFirst`, `StoodNext`). The file inherits both when a build ends (`IndexInv`), and
the server the chunks from the file (`ServerInv`, with the limits it was started with).
`CheckInv` is the validator's side: while no edit has come, each manual it has passed
still passes. Build and check are put together without any lock: if both began after the
last edit, there was one version to read (`StoodNow`), so they saw the same corpus.

*Refinement.* `Save` is `Publish`, `StartServer` and `StartWithout` are `Start`,
`StopServer` is `Stop`; the authors, the validator and every other step of a build,
its failures and its death included, are stutters.

### Plan execution

`PlanExecutionProofs` proves, for every roster, plan, communication window, duration
and positive time step in seconds, and every course of health, work pace and habitat, every safety
property the `plan_execution` run checks:

| Theorem | Statement |
|---|---|
| `PlanStateTyped` | `Spec => []TypeOK` |
| `StartsOnceOnTime` | `Spec => []StartedOnceOnTime` |
| `AssetsFollowActions` | `Spec => []AssetsHeldByActions` |
| `NobodyLeftOutside` | `Spec => []OutsideCanReturn` |
| `StabilizedAfterHold` | `Spec => []HoldUnbroken` |
| `StabilizedAfterMinutes` | `Spec => []HeldForMinutes`, if `TimeStep <= Seconds(StepMin)` |
| `RepairIsNotShortened` | `Spec => RepairTakesItsTime` |

`HoldUnbroken` and `RepairTakesItsTime` count simulated time, `TimeStep` seconds for
each step of the clock: that is what the code keeps, whatever the step. In minutes of
the clock the hold can be shorter (at 90 s it grows by 1.5 while the clock advances by
1), and is as long as it should be when a step simulates no more than the clock
advances: 60 s, their multiples, and less (`StabilizedAfterMinutes`). In the same sense
`StartsOnceOnTime` is about the minutes on the grid of the clock; an action at another
minute never starts.

*Assumptions.* `PlanAssumption` gives the plans the form of `Action.hpp` (a start
that is any integer: the validator refuses the negative ones, which the run tries)
and the configuration its ranges. `EvaAssumption` is a check of the simulator on
its scenario (`Simulator/src/Validator.cpp:160`): the phases of an EVA and the
reserve fit into its longest duration. Work and step are positive; all other
durations may be zero.

*The inductive invariants.* There are seven small ones, each over `TypeOK`.

- `Starts`, `NoneMissed`: what was started is in the plan, once, at its minute; the
  clock is on its grid, and what lies behind it on the grid was started. The next
  minute of the grid is the next that is reached (`GridGap`), so a plan's minutes
  on it are not jumped over.
- `RoverHeld`: `AssetsHeldByActions` speaks of the moments between two steps; in the
  middle of `updateActiveActions` some delays have been looked at and some not.
  The invariant says that one that was passed and is still active has time left, so
  that no later one of the same pass can free the rover under it. `RadioOn` is its
  counterpart for the transmitter.
- `NobodyOutYet`: nobody leaves before the plan is accepted. `OutsideCanReturn` is
  then kept because `Evaluate` is the only way on to the next step: it turns back
  who is critical and ends the run for everyone who can no longer return
  (`FreshMargin`: the EVA clock begins with a margin, from `EvaAssumption`).
- `HoldCounted`: the hold is the time simulated since the last evaluation that was not
  stable.
- `RepairTimed`: the clocks and the progress run no faster than the simulated time since
  *each* repair that was
  started, the last one included, since it restarts them; and whoever works, or has
  worked, went through the phases of *some* repair. The first bounds the work and
  the ingress after the last start, the second all phases after the first.
  `RestoredByReturn` is the end of the ingress, the only step that restores.

The minimum and the maximum of `FiniteSetsExt` are choices; `LeastMember` and
`GreatestMember` prove that they exist, from the well-foundedness of the naturals.

### Candidates

`CandidateGenerationProofs` proves, for every index, set of levels and setting of the
limits, both properties the `candidate_generation` run checks:

| Theorem | Statement |
|---|---|
| `GenerationTyped` | `Spec => []TypeOK` |
| `MatchesAreBest` | `Spec => []EvidenceIsBest` |

The only assumption is `GenerationAssumption`: the limits are naturals, at least one
match is asked for and no more than are reranked (which the configuration checks),
levels are integers, each chunk has a procedure and a set of allowed actions.

*The argument.* The three sorts are one lemma: in a strict order, the number of those
before it gives each member a place of its own (`RankedByCount`), so `InOrder` is the
sorted sequence. Each loop is a fold, and a fold is a recursive function of the set of
positions it has visited; `FoldExists` builds that function, `PassRuns` reads it as
one visit after another, and an argument by induction over the visits is one about the
least number that is not good (`UpTo`). `PassState` is the invariant of a loop over a
ranking: a chunk is left out for want of a place, or for one of its key that came
before it; and if a later one was taken, only for the second reason.
`PassesChooseTheBest` puts the two loops together: what the first takes are the best
chunks of the best procedures, what the second takes are the best of the rest, and the
second takes something only when the first has found every procedure.

*The inductive invariant* is then small: `Phases` says what has not been answered yet
and that the passages sent are the chunks nearest to the query (`SentIsNearest`). That
an answer which names every passage once gives each its own value, whatever the order
and the damage, is `ValuesAreOpinions`.

### What is only model-checked

- *Liveness* (`TriggeringEnds`, `CallsReturn`, `OperationsEnd` and the other
  leads-to properties): it rests on fairness and `ENABLED`, out of the prover's
  reach.

## What the checks found

Five runs have expectation `violation`: each refutes what a document, a comment
or a test of the repository says. `PROJECT.json` (`findings`) quotes the lines.

1. **`orphan_triggering`.** The guide says TRIGGERING means that the baseline is
   being computed. A storage error in either write of the trigger leaves
   TRIGGERING with no handler until the process is restarted, and every later
   trigger is answered 409. So does a read error at startup, even one that passes: the
   session a crash left is counted with the corrupt ones and skipped
   (`ReconcileSkip`), although the guide says that a stale TRIGGERING is reconciled
   to ERROR. On a sound host TRIGGERING ends (`TriggeringEnds`).
2. **`clock_step`.** A record is validated when it is read, not when it is
   written. With the wall clock set back between two writes the service persists
   a record its own schema refuses for good. Without such a step it does not
   (`SessionsReadable`, a theorem).
3. **`rejected_plan`.** A plan the simulator rejects has no telemetry, which the
   linkage check demands: the documented 200 for REJECTED is a 500, and the
   record stays SIMULATING.
4. **`false_completion`.** A repair action whose crew member came in without
   finishing is reported complete when another member's repair reaches its end,
   while the array is still faulted.
5. **`inactive_evidence`.** The procedure index and the standard say that only ACTIVE
   procedures may enter the active corpus. The builder goes by the manifest's list and
   never reads the status; all four manuals it takes are PARTIAL_EVIDENCE.

Seen while modelling, and left to the reader: a guide says that `restart=true`
restarts a replay that is REPLAYING, which the code answers with 409; of two
overlapping packets the first to end turns off the power of both; a shorter
`delay_rover_use` ends a longer one; below the rover reserve an ingress longer than
a step is begun again at every step (`Simulator/src/ResourceModel.cpp:381`); a plan
minute off the grid of the clock is accepted and never reached, though the guide
says that actions start exactly once at their scheduled time; with a step of 90 s,
which the validator accepts, STABILIZED is reported two minutes of the clock after
the conditions began to hold when `stabilization_hold_min` is three, which
`docs/procedures/PHASE_2_CONTRACT_AUDIT.md:368` calls continuous minutes
(`Simulation.cpp:388`, `:497`, `:566`); with a time step below 60 s
`static_cast<int>(dt_minutes)` is 0, so the EVA and transmission clocks stand still
while the run's own clock advances a minute a step: no preparation or packet ends
(`ResourceModel.cpp:389`, `ActionExecutor.cpp:461`); the validator and the executor
look for the crew member of a repair in a different order (`Validator.cpp:316`,
`ActionExecutor.cpp:53`), so the member that is checked is not always the one that
is sent.

Of the corpus: a line that looks like a heading splits a fenced block, which the comment
`services/procedure_corpus.py:598` ("indivisible blocks") does not say (the last
clause of `KeepsText` is stated for other texts); a metadata heading in other
letters is taken as metadata and indexed as well; the server compares the model of
an index but not the hash of its corpus; a manual with a byte order mark can pass
the validator and ends the build; a zero vector is accepted and makes every query
fail.

## What is not modelled

- *Bytes.* JSON text, canonical encodings, hashes and atomic renames: a file has
  the content that was written, or the one before. Parsing is "valid or not".
- *Physics and physiology.* Floating-point rate laws are out of a model checker's
  reach. `PlanExecution` lets them give anything, so what it shows holds for every
  parameter; it says nothing about whether a plan stabilizes the habitat.
- *Scenario validation* (`Validator.cpp`; what it says of the EVA phases is assumed,
  as `EvaAssumption`) and *JSON* of the simulator: one
  sequential pass over an input with no state to follow.
- *What the validator reads in a text*: its claims, levels, action tables and
  sources are flaws a manual has or has not. Prompts and their wording, HTTP
  itself, the tables of error classes, the plain values of the configuration and
  logging.
- *Work in threads.* Retrieval and planner requests run in worker threads that a
  cancellation of their caller does not stop. Their results are dropped, and
  they change no state the models have.
- *Library behaviour that is assumed*: `asyncio` ends a child whose spawn is
  cancelled; locks and semaphores of `asyncio` are fair; Starlette cancels the
  task of a response whose client is gone, but not before its generator took a first
  step (anyio starts every child of a task group), so its `finally` runs; a write is a rename or it did not
  happen. Definitions for these are marked external in `map`.

## Plan

Done: the lifecycle with its refinement and proofs, the replay clock and streams with
their proofs, simulator runs and their proofs, planning and its proofs, candidates and
their proofs, plan execution and its proofs, corpus and index with their refinement
and proofs, the parser's included. Every invariant and every safety action property
that a passing run checks is a theorem. Left to TLC alone: liveness.
