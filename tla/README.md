# TLA+ models of the sonic cohesion engine

`sce_daemon` accepts audio files over HTTP, queues an analysis run for each,
and analyses them one at a time against a *constitution* (a YAML file with the
limits and targets of a project). `sce_cli` manages the constitutions of a
project and computes reports from finished runs. This directory holds TLA+
modules for the parts of the engine where interleavings, crashes and ordering
decide correctness, TLC configurations that check them on small instances, and
TLAPS proofs for every instance.

Contents: [parts of the system](#the-system), [plan](#plan),
[modules](#modules), [runs](#runs), [proofs](#proofs),
[findings](#findings), [what is not modelled](#what-is-not-modelled).

## The system

Paths are relative to `src/core/sce_core/src/` unless they start with `src/`.

| Part | State it keeps | Operations | Meets |
| --- | --- | --- | --- |
| Run queue and worker (`worker.rs`, `reports.rs`) | rows of `analysis_runs`; the report directory of each run; the loop position of each daemon's worker | claim, analyse, write five report files, mark done or failed, recover at startup | the database, other daemons, the registry (reads a version's file), the trends reader (reads its files) |
| Daemon and HTTP API (`src/core/sce_daemon/src/main.rs`, `api.rs`) | the shutdown channel, the worker task, the requests in flight, runtime threads and pooled connections; rows of `projects`; `SCE/constitution.yaml` | start, Ctrl-C, graceful exit; create project, list, register asset | registry (`init_registry` and the lock), ingest, worker, CLI processes |
| Ingest (`ingest.rs`) | rows of `assets`, internal copies, new `analysis_runs` rows | register an asset once per content hash, pin a constitution version, enqueue | registry lock, active pointer, canary row |
| Constitution registry (`policy_registry.rs`) | `constitutions/<v>.yaml`, `active.json`, `index.json`, `.lock` | `init`, `add`, `activate`, `status`, `shadow`/`impact` | ingest, the worker and the translation matrix read it |
| Canary (`policy_registry.rs`) | one row of `policy_canary_state` per project; `canary/<v>/canary_state.json` as a projection of it | set a budget; consume one unit per enqueue | ingest |
| Trends, CI check, shadow impact (`cll.rs`, `ci_check.rs`, `build_shadow_impact`) | `trends/project_trends.json` and other derived JSON | read the valid runs of a project, select a window, summarise | report directories, evaluation |
| Advisor, diversity sentinel (`constitution_advisor.rs`, `diversity.rs`) | a suggested YAML file | compare the first and the last runs of a window; derive corridors | report directories |
| Reference canon (`ref_canon.rs`) | `refs/canon/index.json`, profiles, copied files | add, remove, list | CLI processes |
| Lineage graph (`graph.rs`) | `graph/lineage.json` | link, path, export | CLI processes |
| Translation matrix (`translation_matrix.rs`, `translation_sim.rs`) | matrix JSON per run | re-resolve the constitution, simulate six devices, summarise | registry, run artifacts, analyzer, evaluation |
| Analyzer (`analyzer.rs`) | the audio decoded so far | decode, measure | worker, translation matrix, canon |
| Evaluation (`gates.rs`, `drift.rs`, `constitution.rs`, `scoring.rs`) | none | metrics to gates, drift and score | worker, impact, matrix |
| Operators, plugin chain (`operators.rs`, `plugin_chain.rs`) | sidecar JSON | dispatch by name, write chain metadata | worker, CLI |

What is hard here, and where each hazard is listed with its line in
`PROJECT.json`:

* several daemons may share one SQLite database, so claims race;
* a daemon or a CLI process may die between any two statements or file writes;
* a run's report is five files written one after another while other processes
  read the directory;
* enqueue reads the active pointer, takes one unit of canary budget and inserts
  the run under a shared file lock and a transaction, while CLI commands
  activate versions and set budgets under the exclusive lock;
* files are replaced through a temporary name that several requests of one
  process share;
* the registry lock is a blocking `flock` taken by tasks that share a few
  threads, and one kind of request awaits the database while it holds it;
* the same runs are summarised by several tools with code of their own, whose
  answers should agree;
* thresholds, clamps and quantiles are applied in sequence, where an order or a
  denominator decides what the user is told.

What makes each part correct: a run has one holder, one verdict, and a report
that agrees with the verdict; runs are served in the order of their stamps and
shutdown ends; a budget is spent exactly; a run pins what is current and
resolvable when it commits; the registry's files agree with each other; a
version stays bound to its bytes; what a report or a matrix says can be traced
to the version and the audio it names; a created project can be used; requests
are answered; tools that look at the same runs tell the same story.

## Plan

Done in this order, the most important behaviour first:

1. `JobQueue`, `RunQueue`: the queue, the worker loop, daemon lifecycle; proofs.
2. `VersionLog`, `Registry`: registry files and commands; proofs.
3. `Ingest` on top of `Registry`: enqueue, canary, projection; proofs.
4. `Trends`: what readers of report directories accept while workers write
   them, and the trends file; proofs.
5. `Evaluation`: the verdict of a run, and the forecast of a candidate's; proofs.
6. `Lineage` and `RefCanon`: read-modify-write of JSON files without a lock;
   proofs.
7. `Daemon` on top of `VersionLog`: handlers, threads, connections and the
   blocking lock, with liveness; proofs.
8. `Resolve` on top of `Registry`: one run from the user's file to its report
   and its translation matrix; proofs.
9. `Summaries` and `Translation` on top of `Evaluation`: what the tools say of
   several runs, and of one run on several devices; proofs.
10. `Signal`, `Diversity`, `Advisor`: decoding and measuring, the sentinel, and
    the constitution it and the advisor suggest; proofs.

Next:

11. `Engine`: `RunQueue` and `Ingest` composed by joint actions (stamp, insert,
    resolve the pinned version). `Resolve` follows one run through both; the
    composition would follow several, with crashes.
12. Several rows of `projects` for one root, and which of them each query finds.
13. The loudness meter and the spectrum, if a property can be stated that does
    not depend on floating point.

## Modules

### RunQueue, JobQueue, MCRunQueue, Runs_proofs

`RunQueue` has the rows of `analysis_runs` (`status`, `queuedAt`, `started`,
`finished`), the enqueue requests in flight (`request`), the loop position and
the held run of each daemon's worker (`pc`, `cur`), the shutdown channel
(`shutdown`) and the report directory of each run (`written`, `torn`).

| Action | Code |
| --- | --- |
| `StampRequest`, `InsertRun`, `RejectRequest` | `ingest.rs`: the run id and `queued_at`, then the commit or an error |
| `RecoverRunningWithoutStartedAt` | the startup `UPDATE`; the table's `CHECK` would reject any row it matched |
| `LoopTop`, `TimerFires`, `SignalWakes` | the head of the loop and its `select!` |
| `ClaimNextRun`, `ClaimNothing` | the one `UPDATE ... RETURNING` |
| `AnalysisSucceeds`, `AnalysisFails` | `process_run` up to the report; the analysis itself is an outcome |
| `BeginFile`, `EndFile`, `WriteFails` | `write_report`: each file is created, then complete; or the report fails |
| `MarkDone`, `MarkFailed` | the two `UPDATE`s; only the first has a condition on the status |
| `DbError` | a failing statement of the worker: to the loop's `mark_failed`, or the end of the worker |
| `Boot`, `Signal`, `Exit`, `Crash` | `main.rs`, and the death of the process |

`ahead` is a history variable for `NoOvertaking`: for each run, the runs with an
earlier stamp that were in the queue together with it. `queued_at` is taken before
the registry lock, so a run with the earlier stamp may commit later; it then goes
ahead of the later-stamped ones that still wait (`MeetQueue`). A request accepted
before Ctrl-C may still stamp and commit after it. `JobQueue` is what users of
the queue rely on (each job is submitted once, started once by one executor
and settled once); `RunQueue` implements it with `status` and `cur`.

### Registry, VersionLog, MCRegistry, Registry_proofs

`Registry` has the registry files (`file`, `index`, `active`, and `logged`, the
last entry of `active_history`), the file lock, and for each operator process
the command it runs (`at`, `job`, `seen`). A command is a sequence of atomic
renames under the exclusive lock; `Break` ends it anywhere. `broken` is a
history variable: the last command to write `active.json` ended before
`index.json`. `VersionLog` is the abstract registry: a version is bound once,
activation makes it current; `index.json` alone implements it.

### Resolve, Resolve_proofs

`Resolve` extends `Registry` with one run from its birth to what is computed
from it: the user's file (`original`), the internal copy and whether it is a
hard link (`copy`, `linked`), the run with its pin and what its worker has read
(`run`), the meta of its report (`meta`) and the translation matrix (`matrix`).

| Action | Code |
| --- | --- |
| `HashSource`, `MaterializeInternalCopy` | `ingest.rs`: the file is hashed, then linked or copied |
| `Pin`, `PinOfOld` | the version under the shared lock; or a row of before the registry, pinned to `active` |
| `ResolvePin`, `LoadConstitution`, `Report` | `process_run`: `resolve_worker_constitution` reads the pointer, then the version's file; the copy is analysed; the report names version, content hash and asset hash |
| `ReadRun`, `LoadAgain`, `WriteMatrix` | `translation_matrix.rs`: the same resolution from the version in the meta, the copy decoded again |
| `Save` | the user's editor, in place or by replacement |
| `OperatorActs` | any step of `Registry`; asking for the lock makes the registry directory |

Nobody compares a hash after the enqueue: the properties say exactly what that
costs. `rewritten` and `resaved` are the history variables for it. A project
older than the registry may have a constitution of its own (`contract`), which
resolves the pin `active` until the registry directory appears.

### Ingest, MCIngest, Ingest_proofs

`Ingest` extends `Registry` with the requests of one daemon and the `canary`
command. A request goes from the asset lookup through the copy, the insert, the
shared lock, the pointer and the transaction to the projection; the order is
the order of `register_asset_and_enqueue`. SQLite's write lock is `writer`: it
is taken by the canary `UPDATE` and released by commit or rollback. The
projection is written with the system calls of `fs::write` and `rename`:
`OpenTmp` truncates the shared temporary name, `WriteTmp` writes through the
open handle to wherever the file has been renamed since, `RenameTmp` publishes.
A canary row may be left over from a former life of the project directory, as
in `tests/policy_registry_commit6.rs`.

### Daemon, MCDaemon, Daemon_proofs

`Daemon` is one process with its HTTP requests about one project root. A request
is a task: it takes a step when a thread of the runtime is free, and gives the
thread back at every await. The exception is `flock`, in which the thread waits
with the task (`Blocked`); the analysis of a run keeps a thread too. The
registry is `VersionLog`, the specification that `Registry` implements.

| Action | Code |
| --- | --- |
| `BeginCreate`, `OpenTemplate`, `FillTemplate`, `TemplateWritten` | `create_project` writes the default constitution; `tokio::fs::write` truncates and fills the file on a blocking thread, which goes on if the request is dropped |
| `InitRegistry`, `RefuseInit` | `init_registry` under the exclusive lock, from its first file to its last without an await; or its refusal of the template |
| `BeginStatement`, `Connect`, `InsertProject`, `ListProjects`, `FindProject` | a connection from the pool, then the statement |
| `AcquireShared`, `BeginTransaction`, `Commit` | `register_asset` under the shared lock, across its awaits |
| `Abandon` | an error, the pool's timeout, or a client that hangs up: the future is dropped with its guard and transaction |
| `ClaimRun`, `BeginAnalysis`, `EndAnalysis` | the worker as a user of threads |
| `CtrlC`, `Drained`, `Crash` | graceful shutdown, and the death of the process with a restart |
| `CommandBegins`, `CommandWrites`, `CommandEnds`, `EditTemplate` | other processes that hold the lock, and users |

`Ingest` has the inside of an enqueue, `Registry` the inside of `init_registry`;
`Daemon` has what they contend for. `overlapped` and `meddled` are history
variables. A behaviour of `MCDaemon` has one of five casts (which requests, and
whether a worker, another process or faults take part): their union in one
instance would not be checked for liveness in the time of a run.

### Trends, MCTrends, Runs_proofs

`Trends` extends `RunQueue` with the report directories (`dirs`, and the
`finished_at` in their files, `stamp`) and with readers: processes of `sce_cli`
that read the valid runs of a project and then answer, or write
`trends/project_trends.json` (`trends`), once or in a watch loop. A reader keeps
its position (`rpc`), the directories it has listed, the run it is reading with
the number of artifacts read (`reading`, `part`), and the runs accepted and
skipped (`got`, `gaps`).

| Action | Code |
| --- | --- |
| `QueueStep` | any step of `RunQueue`; `process_run` stamps `finished_at` when the analysis ends, `write_report` looks for the trends before it writes `report.html` |
| `Begin`, `DiscoverRuns` | `discover_runs`: the asset directories are listed one after the other, so runs that appear meanwhile may or may not be found |
| `ReadArtifact`, `SkipRun` | `read_valid_run`: `metrics.json`, `gates.json`, `drift.json` in turn; a missing or torn one makes the run a data gap |
| `FinishRead` | `load_valid_runs` returns; the caller applies `--last-n` |
| `Answer` | `ci-check`, `suggest-constitution`, `constitution impact` |
| `OpenOutput`, `FillOutput` | `fs::write` of the trends file: truncate, then write |
| `ReadBack` | `run_watch_cycle` parses the file it has just written |
| `Stop` | an interrupt, or an error of the process's own |

Two simultaneous writes are two file descriptions on one inode: the second text
is laid over the first, and the tail of a longer one stays (`Written`).
`before`, `missed`, `died` and `collided` are history variables, and so is `wrote`:
which daemon has reported on which run.

### Evaluation, MCEvaluation, Evaluation_proofs

`Evaluation` is the pure part of the engine: `evaluate_gates` and
`compute_drift` as operators on a constitution and a measurement, named as in
the code's domains and gates. Three actions put them where they meet:
`ProcessRun` writes the report under the pinned version, `BuildShadowImpact`
forecasts what a candidate would say from the metrics in that report, and
`ProcessAgain` is the verdict after the candidate has been
activated and the same audio registered again. The bit depth is always unknown:
nothing fills `assets.bit_depth` (the `INSERT` of `ingest.rs` omits the column), so
neither the worker nor the forecast knows it and `G002` is never applicable.

Numbers are integers. A deviation counts `Scale`-ths of the corridor's width and
`drift_raw` is never formed: the score is rounded once, from the weighted sum.
Instances use widths that divide `Scale`, and at most two targets per domain, so
no integer division rounds. Weights are naturals; the code accepts negative
ones, with which neither the score's range nor `RelaxingNeverHurts` would follow
from anything but the clamp. Aliases of bands are already resolved. A
constitution's lists are sets, empty when absent. Evidence, fix suggestions and
the two gates that only record something are left out: they never change a
status.

### Summaries, Translation

`Summaries` extends `Evaluation` with a history of reports and the tools that
summarise a window of it, each as the code has it: the CI check with its exit
code (`CiSummary`), the gate and drift trends (`GateTrends`, `DriftTrends`) and
the totals and risk level of the shadow impact (`Impact`). A share is kept in
millionths, as `round6` leaves it; the mean of the deltas is compared by their
sum, the median by its double.

`Translation` extends `Evaluation` with what is measured of the six rendered
targets (`rendered`), the risk of each, its note, and the summary: the best and
the worst target by risk, and the list of failing ones by gate status, cut to
three.

### Signal, Diversity, Advisor, Ranking, MCTools, Tools_proofs

`Signal` goes from a file to measurements. `decode_audio` is a loop over the
packets of a file (`DecodePacket`, `SkipForeignPacket`, `EndOfFile`,
`RefuseDamage`): the end and missing bytes end it, damage refuses the file. Every
packet says how many channels its frames have.
What is measured of the decoded audio in the time domain, and the path of a
translation target (fold or width, filters, attenuation), are operators. Samples
are integers, and multiples of 20 or 40 in the instance, so that the halves, quarters
and twentieths of the code are exact; filter coefficients are small integers;
the factor of the attenuation is kept as a fraction, and so are the two measures
taken over the whole duration: `TransientDensity`, the jumps of the series by
frames (the sample rate is a constant factor), and `CrestFactor`, the peak over
the mean, as energies and therefore without the logarithm.

`Diversity` is the sentinel: the two windows, variance ratios, distances and the
alert. Variances are kept as integers, ratios as pairs and distances as squares,
so that every threshold is compared exactly; a division by the code's tiny
`EPS` counts as infinite; a feature a run does not have is `Missing`. A median is
compared by its two middle values; the sums of roots this takes are compared
without roots (`RootsAtMost`), which three runs, with three pairs, never need in
TLC but the proofs cover. `Advisor` extends it with the suggested corridors, in
units of which all the code's factors are multiples. One feature stands for each
group that is treated alike.

`Ranking` is what `sort_by` leaves: a set in an order given by its pairs, and
numbers in ascending order. The gates' lists, medians and quantiles use it.

### Lineage, RefCanon, MCStores, Stores_proofs

`Lineage` is `graph/lineage.json` as a set of edges and, for each process of
`sce_cli`, the edge it is about to write and the graph it has read (`linking`,
`loaded`). `LoadGraph` is `link` up to and including its cycle check, `LinkAgain`
the early return for an edge that exists, `WriteGraph` the rename. A refused
link changes nothing and has no action. Breadth-first search is modelled by what
it decides: `PathBetween` holds if every closed set of nodes with the start has
the goal.

`RefCanon` is `refs/canon/index.json` (`index`), the profiles and the copied
files. A command goes through its file operations in the code's order:

| Command | Actions |
| --- | --- |
| `add_ref` | `AddRef` (hash, analyse), `WriteProfile`, `LoadIndex`, `CopyRefFile` if asked to, `UpsertEntry` |
| `remove_ref` | `RemoveRef` (read the index, refuse an unknown hash), `RemoveEntry`, `RemoveProfile`, `RemoveCopy` |
| either | `BreakOff`: an interrupt or an error |

Each process renames from a temporary file with its own process id, so a write
is one step here, unlike in `Ingest`. `linked`, `linksOverlap`, `disturbed`,
`removing` and `renamed` are history variables. `MCStores` runs one store or the
other in each behaviour: they share no file, and the product of their states
would show nothing more.

Every module defines, before the operator it perturbs, the *faulty* forms used
to confirm that each property can fail: they are not used by the specification.

## Runs

| Run | Question | Bounds |
| --- | --- | --- |
| `queue_safety` | are claims exclusive, rows and reports truthful, verdicts final, stamps respected whichever run commits first, and what does a crash or a database error cost? | two daemons, two runs, clock 0..1, one crash, one failing statement |
| `queue_liveness` | is a queued run served, a held run settled, a shutdown completed? | two daemons, one run, one crash, one failing statement |
| `registry_safety` | do the registry's files agree across commands, readers and breaks, and can every report and matrix be traced to the version and the audio it names? | two versions, two contents, any number of commands and breaks; scenes: two operators; one operator and a run; the same with one version and two saves of the user's file |
| `registry_refused_add` | does a refused `add` leave the registered bytes alone? It does not. | two operators |
| `ingest_safety` | is the budget exact, the pin current and the projection sound while activations, grants and a crash interleave? | two versions, one fault; scenes: two requests over two grants of 1 or 2; three requests over one version and one grant of 3 |
| `torn_projection` | can a reader see a torn projection without any fault? It can. | the second scene, no fault |
| `trends_readers` | what does a reader accept while a worker writes, is its window recent, does each daemon append to what it has completed, and when does a watcher end on its own file? | clock 0..1; scenes: one daemon, one reader, two runs, windows 0 (all) and 1; one daemon, two writers, one run; two daemons, three runs, no reader; no Ctrl-C |
| `trends_in_report` | does a report show the trends on disk? It does not. | the second scene |
| `eval_verdicts` | does the shadow impact forecast activation and count regressions, do the tools agree on one window and with the matrix, can relaxing a constitution make anything look worse? | pairs of 16 contracts (rates, depth lists, ceiling, clipping) and of 48 target sets (nested, unordered and zero-width corridors, two weightings) with 21 signals, stereo and mono; histories of up to six reports of three kinds, windows of five; six targets of four renderings |
| `stores` | what do unlocked read-modify-writes lose when commands overlap or break off? | two processes; three nodes; two hashes, two extensions; any number of commands |
| `daemon` | is a created project usable, is every request answered and a shutdown completed, unless the daemon stands still? | two threads, one connection, two creates, two enqueues, one list, one command of another process, one crash; five casts |
| `tools` | is a file measured whole or refused, do the measures agree, what may a translation target do to a signal, when does the sentinel warn, does a suggestion fit the runs it was made from? | stereo files of three frames, mono ones, every end or damage; nine devices; histories of up to six recordings of four kinds, windows of three |

Why the bounds are enough to be interesting: two daemons are needed for a claim race
and for a survivor after a crash; two runs for ordering; one fault of each kind
because every fault property speaks of the first. Two contents are what a version can
be confused between; two takes what a copy can. Two requests race for an asset row,
for the last unit of a budget, and against one granter; a third is needed for a
request to hold a handle to a file two renames old. A reader meets a worker between
any two files with one daemon and two runs (one complete, one half-written); two runs
are what a window of one can choose from; a crash or Ctrl-C adds nothing for a reader,
which cannot tell a dead worker from a slow one. Two daemons and three runs let one
daemon complete two runs while the other completes one between or behind them. Two
threads are the fewest that two creates can block behind an enqueue while one create
cannot; one connection makes a pool that runs out. `Evaluation` has no long runs: its
bounds are the inputs, chosen so that each gate but `G002`, which the program never
applies, and W004, which has the shape of W005, can fail, pass and be absent in both
constitutions of a pair. Six reports are more than the window, and enough for a risk
level to be high and not unanimous. Six recordings make the windows of three disjoint,
overlap and coincide.

Behaviours end in `eval_verdicts` (after the verdicts, or a full history), in
`tools`, in `daemon` (when all requests are answered, or the process is down or
stands still) and in `registry_safety` (in the scenes of one run, whose operator
is held to few commands), so deadlock is not checked there. All counters that
bound a run (`MaxClock`, `MaxCrashes`, `MaxDbErrors`, `MaxGrants`, `MaxFaults`,
`MaxSaves`, `MaxCommands`, `MaxRuns`, `MaxPast`) appear in guards.

Each module defines, before the operator it perturbs, the *faulty* forms used to
confirm that each property can fail: they are not used by the specification.

Fairness: `queue_liveness` assumes weak fairness of each worker task's steps
and of each request's end (the tokio runtime keeps polling live tasks), and strong
fairness of `Exit`: the join in `main` returns once no request is left, and only
the requests accepted before the signal can stamp after it. They are finitely many;
the model does not count them, and without strong fairness one that is rejected
could be stamped again for ever. `daemon` assumes
strong fairness of each request's steps on a thread once it has begun, and of the
beginning of an analysis: a free thread or connection may be taken by another
task again and again, but the runtime's queues and the pool's semaphore are fair.
It assumes weak fairness of a lock that stays free, of the template's writes, of
the end of an analysis and of the end of other processes' commands. The kernel
may let enqueues pass a waiting create for ever, as long as there are enqueues.
Nothing is assumed about users, signals, faults, boots, abandoned requests or
Ctrl-C. The file system and SQLite answer every call, successfully or not. The
registry modules state safety only.

Assumptions of the models: the clock behind `queued_at` does not run backwards
across daemons; a failing SQLite statement has no effect; a rename is atomic;
the worker does not panic.

## Proofs

Type invariants are proved, not run: their runs check what could be wrong.

`Runs_proofs` proves all safety properties and the refinement of
`queue_safety`, for every set of runs and daemons and every bound. None of them
is inductive alone. `IInv` adds: a worker holds a run exactly in the positions
between claim and mark (`HoldInv`); a request in flight has no row
(`RequestInv`); what is ahead of a run is in the table with an earlier stamp
(`AheadInv`: a claim, which takes the oldest row, leaves nothing ahead of it in the
queue, and an insert puts no row ahead of a claimed one); and how many files are
written for each loop position (`UnclaimedFiles`, `WorkerFiles`, which carry the
part of `TableTellsTruth` about reports). The nine actions that only move a
worker are gathered in `Move`; every other action has a lemma, with one step
per group of conjuncts it can disturb. The action properties and the refinement
follow action by action from `IInv`.

`Registry_proofs` proves the registry's own properties of `registry_safety` and
the refinement for any number of processes, versions and contents. The inductive
invariant adds the exclusion of the lock (`LockInv`), which command positions hold
it (`HoldInv`), and what a command has established when it reaches each position
(`JobInv`: the hash was admitted, `active.json` is what it is about to log).

`Ingest_proofs` proves the five properties of `ingest_safety` for any number of
requests, granters, operators, versions and any budgets. It builds on the
registry's invariant `RInv`; the added parts are:

* `GuardInv`: who holds the registry lock or SQLite's at each step, so that a
  granter or an operator never writes while a request holds the lock;
* `CanaryInv`: one transaction at a time, a run only of a request that has
  committed, and the row of the last grant, whose units are spent exactly: the set
  of spenders grows by one with each unit (`FS_AddElement`);
* `PinInv` and `CopyInv`: the pointer a request has read is the one in force until
  it commits, the active version has its file, and an asset's row has its copy;
* `FetchInv`, `ViewInv`, `TornInv`: what a request has fetched for the projection
  is the last grant's and not below its count, neither the projection nor the
  temporary file shows less of that grant, whatever handle wrote it; and without a
  fault a torn file has a request that is writing it.

`Resolve_proofs` builds on `Registry_proofs`. `RegistryIsOnlyRead` says that the
steps of runs, users and the matrix leave the registry's files alone, so
`ResolveSpec` implies `RegistrySpec` and everything proved there holds here.
`ResolveInv` then adds: a version once pinned has a file, since files are replaced
and never removed (`FilesStayInv`), and the bytes a worker has read are the file's
until it is rewritten (`PinInv`); the copy is the take that was hashed until a
save in the way (`TakeInv`); the report's meta is what the worker read, with the
row's hash (`MetaInv`); and the matrix resolves the version in the meta
(`MatrixInv`).
`OnlyOldRunsAreLost` is an action property: `PinInv` leaves no other step that
fails a run.

The part of `Runs_proofs` about `Trends` builds on that: a queue step keeps `IInv`, and a
reader's step leaves the queue alone. `TInv` adds `DirInv` (a run with a file has
a directory) and `ReaderInv`: what was complete at the start is listed and never
skipped, what is accepted is complete, and a reader that goes on has accepted or
skipped everything it listed. Completeness is stable because the number of files
of a run only grows, which `IInv` gives. `HistoryOfADaemonAppends` holds for any
number of daemons. `StampInv` says that the run a daemon is reporting carries a
stamp at least as late as that of every run the same daemon has reported on, and
`WroteInv` that a run is stamped and reported once. For the runs of different
daemons it would be false, since `finished_at` is taken before the files are
written.
`WInv` adds the trends file: until two processes have had it in use at once, it
has one writer at most, is torn only while that writer fills it, and is whole when
it is read back (`TrendsFileInv`), even if a predecessor was interrupted half-way.
Windows count the later runs of a set:
`LaterHasFewerAfter` turns that count into the order (`FS_Subset`).

`Evaluation_proofs` covers `Evaluation`, `Summaries` and `Translation`, for every
set of constitutions, measurements, bands, renderings and every length of the
history. Three small invariants tie results to inputs: `VerdictInv` (each verdict
is `Evaluate` of the constitution and the inputs it was made from), `HistoryInv`
(so is each report of the history) and `RenderedInv`. `TranslationSpec` and
`SummariesSpec` imply `Spec`, so `VerdictInv` carries over. The rest is about the
operators:

* gates: a status is decided by which gates failed (`StatusOfFailed`);
* relaxing: a wider corridor is never further away (`WiderIsCloser`), which the
  domain scores and the rounded, clamped drift score inherit (`RelaxedVerdict`);
* counting: a list of most frequent names is empty exactly if no run has any, and
  the worst status of a window is that of some run (`WorstIsFound`);
* covering: each new failure has a newly failing blocker, so their number is at
  most the sum over the blockers (`CoverIsCounted`);
* ranking: `Ranked` is a sequence of all elements in the given order
  (`RankedIsSorted`), from which medians and cut lists are read.

Sums, folds and cardinalities over data of any size need induction, and the
library's induction theorems cannot be instantiated here. They are proved by a
least counterexample instead: `WFMin` for the order of the naturals needs a set
only, and gives `LeastNat` and, by cardinality, `LeastSet`. For this a sum over a
set is `SumFunctionOnSet`, and a sort is `Ranked`, which names the element with
k - 1 before it, where the code calls `sort_by`.

`Stores_proofs` proves acyclicity of the lineage graph for any number of nodes and
processes. The invariant adds `PendingInv`: a process about to write has read an
acyclic graph in which its edge closes no cycle. `NewEdgeIsSafe` is the graph
theory: closed sets that separate the ends of the old edges are turned into sets
closed under the new edge by intersecting or joining them with the set that
separates the new edge's ends. Were the file read again before the write, the
check would be about another graph, and the invariant would fail (a faulty form
shows it). `AloneInv` says that without overlap at most one process is between its
read and its write, and has read what is there: nothing it writes is lost.
The module also proves `CanonIsWhole` for any number of processes, hashes and
extensions. `FilesInv` adds what an add has written before it touches the index and
what a remove has taken out of it, while no remove overlaps another command;
`LeftoverInv` says that commands which neither overlap nor break off leave no
file that is not listed.

`Daemon_proofs` proves `ProjectsAreUsable` for any number of requests, threads,
connections, commands and crashes. `DaemonInv` adds: who is past `init_registry`
has left an active version (`RegistryInv`); a write of the template belongs to a
request that waits for it or has failed (`WriteInv`); two creates under way are
both marked as overlapping (`OverlapInv`); and without overlap, crash or meddling
the template is absent, being written, or the default (`TemplateInv`), whose
version admits it. `StandstillsStay` needs only the types: every step of a
request takes a free thread or a lock that the enqueue holds.

`Tools_proofs` proves what the sentinel and the advisor promise, for every set of
recordings, of the window and every length of the history. The two invariants are small: the
history is made of recordings, and a suggestion was derived from the history as it
is (`AdvisorInv`). The rest is arithmetic:

* a history that fits into one window is both windows (`WindowsAreThePast`), so
  every variance ratio is of equals (`ShortRatio`). The spread of a history is not
  negative, and none only if its runs are alike (`SpreadIsSound`: `k` times what the
  run `k + 1` adds is the spread so far and a square), so runs differ only in
  features that move, and the middle distances are finite (`ShortMiddles`). A median
  that is at most six tenths of itself is none (`RootsShrink`; that roots are
  compared is `RootsAreCompared`), and a median ratio of three tenths leaves four of
  the six sorted ratios at none (`StillFeatures`);
* every quantile and both widenings are exact (`QuantilesAreExact`,
  `FlooredCorridor`): corridors have even ends up to the last clamp, so no rounding
  can hide a narrowing. Of up to ten values the tenth percentile is at most the
  second (`QuantilesAreOrdered`), and clamping keeps what lies within the limits
  (`ClampKeeps`).

The part about `Signal` is for well-formed files of any length and number of
channels. `DecoderInv` says that nothing but packets lies behind the decoder and that
it holds what they held: each packet of the default track has its place, after
the frames of those before it (`FramesBefore`), and a later one moves none
(`OneMorePart`). A chain of filters is two loops, over filters and over samples;
`IterationExists` says that such a loop has states, `CountUp` is induction over
them, again by a least counterexample. Filters are linear (`ProcessIsLinear`) and
start from rest, so what is the middle of two channels before a chain is their
middle after it (`ChainsFold`), and a width adds to one channel what it takes from
the other (`WidthKeepsMiddle`): folding commutes. A mean of channels is no louder
than the loudest (`MeanWithin`), so the basis is not, and the attenuation brings
every target down to it.

The measures (`MeasuresAreSound`) are maxima, counts and sums over places and
windows. On a line between two samples nothing is higher than the higher of them
(`NoHigherBetween`). That a correlation stays within one is the inequality of Cauchy
and Schwarz, for co-moments (`CorrelationWithinOne`): the co-moment of the mix
`a * ys - b * xs` with itself is not negative, where `a` and `b` are the co-moments of
`xs` with itself and with `ys`. Flattening is a fold; `Joined` is what it has
joined after each part (`FlattenIs`), and joining chunks of frames is joining their
frames (`JoinedInParts`, `MeterIsFed`). Of audio with a tail of silence (`HasTail`),
every old window is what it was, padding and silence being alike, and every window
after them is silent (`WindowsWithTail`): it has no energy to jump to and no
co-moment (`TransientsWithTail`, `CorrelationsWithTail`). The energy of the whole
stays (`WholeEnergyWithTail`) while the duration grows, so the density of transients
only falls (`DensityFalls`) and the crest factor only rises (`CrestRises`): a bounce
with a tail is not judged alike by `W004`, but it can err in that direction only.
Nothing is said of the loudness, whose gating is not modelled.

All this is about integers: the rounding of the code's floating point is not
modelled.

Assumptions used: `RunQueueAssumption`, `RegistryAssumption`, `IngestAssumption`,
`TrendsAssumption`, `EvaluationAssumption`, `LineageAssumption`,
`CanonAssumption` and `DaemonAssumption` (ids and markers are distinct, sets of
requests finite, bounds naturals), `DiversityAssumption` (only stereo features can
be missing) and `AdvisorAssumption` (units fine enough that the factors are exact, a
correlation from -1 to 1), and `SignalAssumption` (packets have as many samples per
frame as channels, a file ends, filters have integer coefficients), which the runs
evaluate.

Only model-checked:

* the liveness properties `RunsAreServed`, `ShutdownCompletes`,
  `RequestsAnswered` and `ShutdownDrains` (fairness and `ENABLED` are out of the
  prover's reach).

Every invariant, every other action property and every refinement that a passing
run checks is stated by a theorem.

## Findings

* `registry_refused_add`: `write_registry_constitution` replaces
  `constitutions/<v>.yaml` before it compares hashes, so an `add` that fails
  with "already exists with different hash" has already put the refused bytes
  in place. Workers then evaluate runs pinned to the version with them, and
  `activate` of the version fails.
* `torn_projection`: the temporary file of `write_atomic_raw` is named by
  process id, and enqueue requests of one daemon hold the lock shared: one
  request's rename can publish what another has just truncated.
* `trends_in_report`: `load_trends_snippet` looks for `trends/` next to the
  constitution's file, which for every enqueued run lies in the registry: a
  report never shows the project's trends.

Not a disagreement with any stated intention, but worth knowing:

* a run whose worker died stays `running` for ever (`RowsStay`), because the
  startup recovery looks for rows that no step of the program can produce
  (`TableTellsTruth`);
* after concurrent requests the projection may stay above the database's budget
  (`ProjectionIsSound` says that it is never below);
* as many creates as the runtime has threads, behind one enqueue that holds the
  lock and awaits the database, stop the daemon until it is killed, Ctrl-C
  included (`RequestsAnswered` and `ShutdownDrains` allow for it, and
  `StandstillsStay` proves that it does not end by itself);
* a crash while `create_project` writes the default constitution leaves an empty
  file, and every later create of that root is refused until a user repairs it
  (`ProjectsAreUsable` names the crash);
* a row of before the registry, pinned to `active`, fails if anybody takes the
  registry lock before it is served and nothing is activated
  (`OnlyOldRunsAreLost`);
* the internal copy may be a hard link, and no hash is compared after the
  enqueue: a save through the link, or a version's file rewritten by a refused
  `add`, changes what a later matrix is computed from (`ResultsAreTraceable`
  says that nothing else does);
* a constitution's list of bit depths has no effect: `G002` reads
  `assets.bit_depth`, which nothing fills;
* with several daemons a run can turn up behind the end of a series that was read
  before: `finished_at` is taken before the report is written (`HistoryAppends` says
  what one daemon still keeps);
* the tail of a bounce lowers the density of transients and raises the crest factor,
  which `W004` judges (`MeasuresAreSound`);
* a run that commits after a later-stamped one was claimed is served behind it
  (`NoOvertaking` allows for it);
* while a history is shorter than the sentinel's windows they are the same runs,
  and a warning then only says that the project stands still
  (`ShortHistoryAlarmsOnlyStill`);
* two links that overlap lose one of the edges, though never acyclicity
  (`LinksAreKept`, `LineageIsAcyclic`), and an add that overlaps a remove can list
  a reference whose profile is gone (`CanonIsWhole`).

## What is not modelled

* Floating point: the loudness meter, the spectrum and everything derived from
  it, rounding errors, NaN and infinities (a metric that is not finite is written as
  `null`, and what a reader of reports makes of it is left out). Filters, scores and
  thresholds are modelled with integers.
* The telemetry series of `cll.rs` (measured values copied run by run), evidence
  and fix suggestions, the wording of notes, report HTML, YAML and JSON text, CLI
  parsing and printing.
* Operators and the plugin chain: dispatch by name, and one advisory file that
  nothing reads back.
* Path handling and validation of requests beyond the error they cause.
* Several rows of `projects` for one root: a second create inserts one, and each
  query takes the first it finds; nothing says which that should be.
* Two aliases of one band in a constitution (the later in key order wins), and a
  suggestion written over a registered version's file by `--out`.
* Two processes that write the trends file from runs read at different times: the
  last writer wins, with no promise about which is newer.
* Runs are counted by their files whatever their row says; no tool reads both.
* Projections of different lengths laid over each other in the temporary file of
  `Ingest`: a write replaces the whole text there.
* SQLite's locking beyond one writer at a time.
