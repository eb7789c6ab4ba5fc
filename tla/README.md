# fuzzy-searcher-go in TLA+

A verification development of the Go service `youtu-rag-service` and of the
Python workers it starts. The service keeps jobs, workflows, an operation
history, managed dataset files and graph builds; nearly all of its state lives
in goroutines, mutex-protected tables, JSON files and child processes, and it
must survive being killed at any moment. It also answers retrieve requests, from
files that builds may be rewriting and with a vector sidecar that may fail
between any two calls. Both are modelled here.

Contents: 1 the system, 2 the modules, 3 the runs, 4 fairness, 5 the proofs,
6 where code and documents disagree, 7 what is not modelled, 8 the plan.

## 1. The system

| Part | State it keeps | Operations | Talks to |
|---|---|---|---|
| Job manager, `internal/jobs/jobs.go` | table of jobs and event logs under one mutex, a goroutine and a `context` per job, one JSON file per job | `SubmitSpec`, `run`, the recorder given to a runner, `Cancel`, `loadStoredJobs` | runners (functions given to it), file system |
| Workflow manager, `internal/workflows/workflows.go` | the same over workflows, with `Steps` | the same, plus `StepStarted`, `StepFinished`, `upsertStep` | its runners in `svc.go` |
| Workflow runners, `internal/svc/svc.go` | only local variables: the step they are at, the last snapshot of the child | submit a child job, `waitForJob`, cancel it, record the step, hand artifacts on | both managers, dataset import |
| Operation history, `internal/datasetops/ops.go` | map of operations, one JSON file each | `Append`, `load` | handlers of `svc.go` |
| Dataset files, `internal/datasetimport/importer.go` | corpus, schema, metadata, outputs of a dataset | `Import`, `Delete`, `PlanRebuild` + `cleanupRebuildOutputs` | schema registry, file system, no lock |
| Schema registry, `internal/schemas/registry.go` | schema file and its metadata with a version | `Put` (the rest only reads) | file system, no lock |
| Build launcher, `internal/workers/buildgraph` | one child process | `Run`: start, kill through the context, validate outputs | `build_graph_worker.py` |
| Build worker, `scripts/build_graph_worker.py` | write-ahead log, compaction log, graph and chunks files; a process, its threads and optional runner processes | load, extract, append, compact, write | LLM, the shared log |
| Rate limit of the builds, in the same script | a stamp file and a lock file shared by all build processes of a dataset | `acquire_rate_limit`, the attempts of `extract_chunk` | the file system as a lock |
| Benchmark launcher and worker, `internal/workers/benchmark`, `scripts/benchmark_worker.py` | checkpoint and result file; threads over a queue of questions | run, resume, stop, validate | LLM, service, sidecar |
| Paper benchmark, `scripts/paper_benchmark_worker.py`, `scripts/paper_benchmark_shard_runner.py` | a main and several shard checkpoints, a result; one process per shard | seed, ask, append, merge | LLM, files |
| Other launchers (documents, answer, golden) | none | run a command and read its output | Python |
| Retrieve orchestration, `internal/orchestrator/retrieve.go`, `cmd/youtu-retriever` | what one request has collected so far | load the graph, load the chunks, one sidecar call after another, retrieve | readers, sidecar client, engine |
| Retrieval engine, `internal/retrieval/service.go` | none between requests | `Retrieve` with six strategies, `BuildNativePath1Triples` | sidecar client |
| Readers, `internal/dataset`, `internal/chunks`, and sidecar client, `internal/sidecar` | none | `LoadGraph`, `Load`, one HTTP call each | files, Python sidecar |
| Artifact registry, sidecar status, configuration | none that changes | read-only status, parsing at start-up | files, sidecar |

What is hard in it, part by part:

* **Jobs.** `Cancel` unlocks before it calls `cancel()`, so a job can be
  started, return or finish in between; `run` starts a queued job without
  looking at its context; the watcher of a benchmark writes events beside the
  runner, also after the end; errors of `Save` are ignored; a crash loses the
  goroutines and the next process must not show their jobs as alive.
* **Workflows.** Two managers, two mutexes, two sets of files. A runner reads a
  snapshot of its child outside any lock and acts on it later. Its cancellation
  must end the child, or give up after 200 polls. A crash may fall between any
  two writes of the two records.
* **Operations.** A record is appended after the work and never updated, in
  another file than the run it refers to.
* **Files.** Nothing is locked, HTTP handlers run concurrently, all writers of a
  path use the same `.tmp` name, an upload renames two files one after the
  other, and a failing call leaves whatever was done before it.
* **Builds.** The log is shared by several processes, which each decide by what
  they found in it when they started; `SIGKILL` hits the worker, at any byte,
  and not its runners; inputs can change between a build and its resumption;
  outputs are written in place. The rate limit is a file that is read, waited for
  and rewritten by threads of many processes, under a lock that is a file itself
  and whose holder sleeps.
* **Retrieval.** Graph and chunks are two files read one after the other, without
  a lock, while a build truncates and rewrites each. Which strategy answers
  depends on which of four pointers earlier calls have set. The engine ignores
  the errors of its own sidecar calls. Path searches share what they have
  visited under a limit of depth; scored lists are cut before what cannot be
  shown is dropped.
* **Benchmarks.** Answers cost money and hours, so runs are stopped, killed,
  resumed and retried over the same checkpoints. The shard runner copies rows
  into shard checkpoints, dies, leaves workers behind, and must later tell which
  of two rows of a question is the newer; a stop must end the calls, and a
  partial result must not pass for a complete one.

`PROJECT.json` lists these as hazards, each at its line and with the properties
aimed at it, or with the reason why none is.

## 2. The modules

| Module | Models | Used by |
|---|---|---|
| `Lifecycle` | abstract: what a family of tracked runs promises its clients | refined by `JobManager` |
| `JobManager` | `jobs.go`, one action per critical section | instantiated by `WorkflowRun` (twice) and `OperationLog` |
| `JobManagerProofs` | theorems about `JobManager` | |
| `WorkflowRun` | one workflow, its runner and its child jobs | |
| `OperationLog` | `ops.go`, the handlers that append to it, the runs they refer to | |
| `WorkflowRunProofs`, `OperationLogProofs` | theorems about them, over those about `JobManager` | |
| `DatasetFiles`, `DatasetFilesProofs` | imports, uploads, deletes and rebuilds of one dataset as sequences of file system calls | |
| `ResumableBuild` | abstract: what the write-ahead log promises | refined by `GraphWal` |
| `GraphWal`, `GraphWalProofs` | builds of one dataset: launcher, worker, runners, logs, outputs | |
| `RateLimit`, `RateLimitProofs` | the rate limit shared by the processes of builds, and the attempts that go through it | |
| `Retrieval` | the retrieval engine as operators on a graph, a question and sidecar results | `Retrieve` |
| `Retrieve`, `RetrieveProofs` | one retrieve request, of the service or the command, and builds that rewrite its files | |
| `BenchmarkWorker` | benchmark jobs over one output path: job, worker, threads, checkpoint, result | |
| `PaperBenchmark` | runs of the paper benchmark over one set of checkpoints: shard runner, workers, seeding, merging | |
| `BenchmarkProofs` | theorems about both | |
| `MC*` | the model values, symmetry sets and option sets of the runs | |

A definition named `X_Something` in front of `X` is a mutant: the definition
with one plausible mistake in it. No specification uses it. For every property
`PROJECT.json` names a mutant that makes TLC find the property violated.

**JobManager.** `entry` is the table, `disk` the files, `pc` the goroutine of a
job (spawned, running, returned, done), `outcome` what the runner returned until
`run` records it, `canceling` the `Cancel` calls between `Unlock` and
`cancel()`, `ctxCanceled` the context. What happens under the mutex is one
action, with the save at its end: `SubmitSpec`, `RunBegin`, `RunEnd`,
`CancelRecord`, and one action per recorder call. What happens outside is one
of its own: `CancelFire`, `RunnerReturn`. `Crash` drops everything volatile,
`Restart` is `loadStoredJobs`. Save errors and damaged files are constants
(`SaveMayFail`, `DamageMayHappen`). Times and messages are dropped.

**WorkflowRun.** Two instances of `JobManager` share the process (`up`) and
nothing else: `J` for the children, `W` for the workflow. The runner is a
program counter (`at`) over `Plan`, with the stages of a step as the code has
them: `SubmitChild`, `SnapshotChild`, `StepStarted`, then `waitForJob` as
`GetChild`, `SelectTick` or `SelectDone`, `CancelChild`, `FireChild`, `Poll`,
then `StepFinished` and `HandOff`. `seen` is the snapshot it holds. `Import` is
the synchronous step of `create_dataset`. A client may also cancel a child
itself (`CancelJob`).

**OperationLog.** A request runs through the steps of its handler: `Work` and
`RecordWork`, or for a rebuild `CleanUp`, `SubmitRun`, `RecordRun`. The runs
are an instance of `JobManager` in the same process.

**DatasetFiles.** `Program[kind]` is the sequence of calls a request makes, in
the code's order, one action per call: `Check`, `ReadVersion`, `Open`, `Write`,
`Rename`, `Remove`, and `CallFails`, `RemoveFails` where the file system
refuses. An open file follows its inode: after somebody else's rename the
writer fills the renamed file (`handle`). Contents are "who wrote it".

**GraphWal.** Process `<<j, 0>>` is the worker of job `j`, `<<j, i>>` its
runners. The log is kept as its readers see it: last event per chunk, what the
last success was extracted with and under which manifest, manifests, whether a
row is torn. A process reads the schema when it loads the log (`Load`) and
hashes the file for its manifest later (`Hash`); a schema may be put at any
time, so each of the two finds any schema. It holds what it loaded (`loaded`),
what it will write (`built`), the chunks of its share (`todo`) and those at the
LLM (`busy`). `Kill` is the cancellation, `Abandon`
the death of the service, which the worker survives with a closed pipe:
its next progress line fails, and so does the process, but the executor
still starts all the chunks that are left (`Drained`). A build
starts when no process of an earlier one is left (`Start`); the code does not
see to that, section 6 says what happens otherwise.

**RateLimit.** A thread (`pc`) creates the lock file (`Lock`), reads the stamp
(`Read`) and sleeps what is left of its interval (`timer`), rewrites the stamp
(`Stamp`), removes the lock (`Unlock`), and calls. Times are ages that grow with
`Tick`, up to `Horizon`. `StampFails` and `Unwind` are an I/O error and the
`finally`; `CallFails`, `Backoff` and `TryAgain` the attempts at a chunk. `Kill`
stops a process anywhere, with what it holds. `calls` and `leaked` are history.

**Retrieval.** Operators only: `LoadedGraph` (nodes by first mention),
`CandidateNodes`, `OneHopTriples` and the native answer, `MergeTraceTriples` (a
stable sort cut to `top_k`), `SelectTripleTraceRecord`, and the raw candidates
of path 1 (`TopNodes`, `NeighborTriples`, `PathTriples`, `RelationTriples`),
whose path search is a fold over an accumulator of what it has visited and found.
Filters keep positions (`Picked`, `Ascending`, `Ranked`) rather than use
`SelectSeq`, whose operator parameter the provers cannot expand.

**Retrieve.** A build is `Begin`, `ChunksWritten`, `OpenGraph`, `GraphWritten`
or `Killed` between them; `chunksFile` and `graphFile` tell whose they are and
whether they are whole. The request is `LoadGraph`, `LoadChunks` (any prefix of
a file being written, its last line perhaps cut), the calls of its mode (`todo`,
`got`), and one of the five actions that answer, each of which may lose its own
sidecar calls (`Found`). Modes `native` and `sidecar` share the graph search
(`RetrieveNative`): without a sidecar it is all there is, with one it adds what
that finds. `Calls` is `applyMode` of both callers.

**BenchmarkWorker.** `worker` is the Python process: its position (`pc`), the
questions not begun (`queue`), at a thread (`busy`), answered and not yet seen
by the main thread (`ready`), and recorded (`done`, the code's
`items_by_index`). `Take` and `Return` are the thread pool, `Record` is
`record_done`, `Break` the `break` out of `as_completed`, `Joined` the end of the
`with` block. `ckpt` and `output` are the files; a kill may tear a row or the
result. `told` is what the job is reported as (`Report` is the launcher with
`validateOutput`).

**PaperBenchmark.** `ckpts[<<n, i>>]` is the checkpoint of shard `i` of `n`, and
`<<1, 0>>` the main one; `last` is what `load_checkpoint` makes of its rows.
`parent` is the shard runner (`Seed`, `Poll`, `Terminate`, `Merge`,
`WriteMerged`), `proc[i]` a worker (`LoadCheckpoint`, `Ask`, `Answer`, `Finish`,
`Write`). `SignalWorker`, `SignalParent`, `KillWorker` and `KillParent` may hit
each of them at every step; the workers of a killed runner go on. `StartRun`
begins the next run, with options of its own, another number of shards
included, over whatever the last left. `steady` is history: all runs so far had
the number of shards of this one.

## 3. The runs

Each run asks one question of the system. "Bound" names what was cut and why
that suffices.

| Run | Question and answer | Bound |
|---|---|---|
| `job_faults` | With every interleaving of two jobs, their recorders, watchers, cancels, crashes and restarts, failing saves and damaged files: is a job ever stranded, canceled unasked, rewritten after its end, or at odds with its log? No. | 2 jobs: they meet only in the mutex and in `loadStoredJobs`, which treats all or none. 1 accepted cancel per job (`MaxCancels`); custom events only while a log is shorter than 4 (`MaxEvents`), room for one before, during and after a lifecycle event. |
| `job_live` | Without storage faults: do files mirror the table, is `Lifecycle` implemented, does an acknowledged cancel end a job, and as canceled? Yes. | 2 cancels per job, so that one may overtake another between its halves. |
| `workflow` | `create_dataset` with cancels of the workflow and of its children, crashes and restarts everywhere: can a step start before its predecessor succeeded, a success be unearned, a child be left unsupervised? No. The workflow manager implements `Lifecycle`. Does a cancel end the workflow, even if the worker hangs, and does it reach the child? Yes. | The longest plan, with jobs before and after the step that is no job. 2 polls for 200: one that goes on, one that gives up. 1 client cancel per child besides the runner's. |
| `workflow_next_step` | "If cancellation happens between steps, do not submit the next step"? It does. | |
| `operations` | Is every answer on record, in this process and the next, does every reference resolve, do the two stores agree after a restart (nothing of the dead process is shown as running, what is declared interrupted has a run that is over)? Yes, with failing saves and damaged files. Within a process a record is not kept up to date (section 6). | 2 requests: records are independent but for the load, which takes all files. |
| `files` | With failing calls, crashes and two overlapping requests: does a request that has the dataset for itself do what it promises, whatever was left behind; can a managed file be half written? Yes; only if two requests overlapped. | 3 requests, 2 at a time: two to leave a mess and one to meet it. Kinds `import`, `put_over`, `delete`, `rebuild`: the others omit a check or a path of these. |
| `wal` | Builds one after the other: can a chunk be extracted by two runners or by none, can a success be lost, or a graph be reported that lacks a chunk or mixes in what was recorded under another manifest? No. | 2 jobs, 2 runners, 3 chunks: shares of unequal size, and a share of several chunks. Two schemas, either of which any read may find. Options: fresh, resumed with communities, compaction only. |
| `rate_limit` | With failing calls, failing I/O, kills and a restart: can two threads hold the lock, can two calls come closer than the limit of the later one, can a thread poll for ever? No; only if a holder of the lock was killed. | 3 processes of one thread, with limits of two lengths and without one; what threads of one process share beyond the files is the queue of chunks. 2 attempts per chunk. `Horizon` 3 is the longest interval. One process is started twice. |
| `rate_limit_leak` | "can resume after interruption"? Not if a holder of the lock was killed: later builds poll for ever. | the same instance |
| `retrieve` | A request of every mode and caller, with any call failing, beside two builds: is a mode replaced by a lesser one, a better triple dropped for a worse, a graph paired with older chunks, the edge from a top node to a neighbor missed? No, but for a trace with no record of the question, which the graph search answers (section 6). | 2 builds of different corpora: one to load the graph from, one to overtake it. A chain of 5 nodes (paths as long as the limit of depth, and one longer) with parallel and unnamed edges and a node mentioned twice; a pair that matches nothing. `TopK` 2: hits, scored lists and native triples of more, as many and fewer. |
| `benchmark` | Jobs one after the other, fresh or resumed, with a failure budget or none, signals and kills at every step: is a question of the checkpoint asked again, is a partial result reported as a success? No. | 3 questions and 2 threads: one question being asked, one answered and not recorded, one not begun. Budget 1 or none. |
| `paper` | Runs one after the other, signaled or killed anywhere, that change their number of shards or not: is an answered question asked again, an answer lost, an incomplete result exited with 0? Not as long as the number of shards is kept. Once it was changed answered questions may be asked again, and an answer may be lost in one way only: to an older failure in the checkpoint of a shard, when that is merged (section 6). | 3 questions and 2 shards: shards of unequal size, one of them with several questions. Any number of runs, each either one worker with `--resume`, or two shards with retries and without it: enough to switch and switch back. |

Deadlock is checked where the system always has something to do (a stopped
service can be restarted, the next benchmark run be started); in the runs over a
fixed set of requests or builds (`files`, `wal`, `rate_limit`,
`rate_limit_leak`, `retrieve`) the system stops when all are over, and the
configuration says so. Symmetry is used for ids that no definition tells apart,
in runs without liveness properties only.

Every passing run includes crashes of the service or kills of its workers, so
none of its properties depends on an orderly shutdown.

## 4. Fairness

* `JobManager.Fairness`: the Go scheduler runs goroutines that can run
  (`RunBegin`, `RunEnd`, `CancelFire`), and a runner whose context is canceled
  returns, because the runners pass the context to `exec.CommandContext`, which
  kills the process. A runner that is not canceled may run for ever.
* `WorkflowRun.Fairness`: the same for the workflow's goroutine and runner. The
  `select` of `waitForJob` chooses among its ready cases at random, so
  `ctx.Done()` is not passed over for ever: strong fairness of `SelectDone`.
  Nothing is assumed about the workers, so `CancelEndsWorkflow` also holds for
  workers that hang. `CancelReachesChild` has `WorkerFairness` as its premise.
* `RateLimit.FairSpec`: time passes, a thread that can go on does, an LLM call
  returns or fails (the client has a timeout). It is weak fairness per thread, so
  a thread that polls may find the lock taken each time: that everybody gets
  through rests on the number of attempts being bounded.
* Nothing is assumed about crashes, restarts or clients. All liveness
  properties are "while the process lives".

## 5. The proofs

`JobManagerProofs` holds for every set of jobs, every bound and both kinds of
fault. From `JobManagerAssumption` alone (watched jobs are jobs, `planned` is a
status, bounds are naturals, flags are booleans) it proves:

| Theorem | Statement |
|---|---|
| `TypeCorrect` | `Spec => []TypeOK` |
| `NoStrandedJob` | `Spec => []UnfinishedHasGoroutine` |
| `LogExplainsStatus` | `Spec => []EventLogExplainsStatus` |
| `OnlyRequestedCancels` | `Spec => []CanceledOnRequest` |
| `TableIsStored` | `Spec => []DiskMirrorsTable` |
| `OnlyDamageForgets` | `Spec => []ForgottenOnlyByDamage` |
| `FinishedIsFinal`, `StoredIsFinal` | the two action properties |
| `CancelNotLostHolds` | a cancel accepted of an unfinished job is still to be passed to its context, or has been |
| `CanceledRunsOutHolds` | a canceled context stays canceled, its goroutine only goes on, and nothing but `canceled` is recorded |
| `Refinement` | without storage faults, `Spec` implements `Lifecycle` |

None of the invariants is inductive as it stands. A job may be recorded as
canceled by its goroutine long after the request: what makes that right is that
a `Cancel` call in flight (`canceling`) or a canceled context implies a request
in the log of that very job. A stored record is safe only together with the
table that will overwrite it. So the inductive invariant `Inv` has three parts
per job: how the goroutine and the entry's status go together; that the
cancellation machinery is ahead of, never behind, the request in the log; and
how the file relates to the entry (equal when no save failed, an earlier state
of the same job otherwise, `Kept` by it once terminal). Records are handled by
lemmas of their own (`LogEventProperties`, `LifecycleEventSound`,
`OtherEventSound`), so that each action is one short lemma: the records it
writes are sound, the others untouched. The refinement needs `Inv` for one
direction only, that the reported status never changes except by a step of
`Lifecycle`; a crash maps to `Interrupt` because `Trusted` reads the file as the
next process will.

The other proof modules, each for every value of the constants:

| Module | Theorems, with the property of the runs each proves |
|---|---|
| `WorkflowRunProofs` | `StepsInOrderHolds`, `SuccessIsEarnedHolds`, `NoChildOutlivesHolds` (`NoChildOutlivesWorkflow`), `WorkflowLifecycleHolds` (the refinement of `Lifecycle`); of no run: `ChildrenAreJobs` (the children are a behaviour of `JobManager`), `CancelsNotLostHolds` |
| `OperationLogProofs` | `RefsAreKnownHolds`, `RestartSettlesHolds`, `AnsweredIsRecordedHolds` |
| `DatasetFilesProofs` | `RefusalIsCleanHolds`, `TornOnlyByOverlapHolds`, `SoloTakesEffectHolds` |
| `GraphWalProofs` | `NoChunkTwiceHolds`, `RunnersCoverHolds`, `BuildIsOfOneManifestHolds`, `ImplementsResumableBuildHolds` (the refinement of `ResumableBuild`) |
| `RateLimitProofs` | `HoldersExclude` (`OneHolder`), `LimitIsKept` (`CallsSpaced`); of no run: `AttemptsRunOutHolds` |
| `RetrieveProofs` | `ChunksNotOlderHolds`, `OnlyTraceFallsBackHolds`, `BestTriplesKeptHolds`, `CandidatesCompleteHolds`; about operators: `MergeIsStableSort`, `RawTriplesAreComplete` |
| `BenchmarkProofs` | `SuccessesAreWhole` (`SuccessIsWhole`), `NothingAskedTwice` (`ResumeSkips`); of `PaperBenchmark`: `ExitZeroIsCompleteHolds`, `AnswersKeptHolds`, `AskedOnceHolds`; about an operator: `ShardsPartition` |

Every invariant and every action property of the passing runs has its theorem.
Each rests on an inductive invariant `Inv` of its own (theorem `InvHolds`) and
on the named assumption of its module, which says no more than that counts are
positive, options are options and flags booleans. Only the theorems about
`PaperBenchmark` assume more, and say so: `AlwaysResumes`, that a worker without
shards is started with `--resume` (one that is not appends to a checkpoint it has
not read, asks again what is answered there, and loses its first row behind a
torn one). It is a premise of `PaperInvHolds`, `HistoryHolds`,
`ExitZeroIsCompleteHolds`, `AnswersKeptHolds` and `AskedOnceHolds`. Runs may
change their number of shards in all of them.

* `WorkflowRun`: `Inv` is the invariant of `JobManagerProofs` for both managers,
  whose steps these are (`Child!NextInv`, `Flow!NextInv`), and says that at any
  moment the plan stands at one step (`Stands`): everything before it is done
  and agrees with the child's record, everything after is untouched. `Waits`
  adds what the runner knows at each label, because a child changes between its
  snapshot and the runner's next step; `Resting` what survives the process.
  Proved for the four plans of the code. A step of the runner that writes into the
  workflow's record is no step of `JobManager` with the bound on its events at 0,
  so what `JobManagerProofs` says of all steps is lifted step by step
  (`FlowOrStutter`); those of the children are steps of `JobManager` as they are.
* `OperationLog`: again the invariant of `JobManagerProofs` for the runs, and per
  request what is handled, written, shown and linked at each step of its handler.
* `DatasetFiles`: what a request did has to last until it is answered. Nothing
  locks, so `Inv` speaks of requests that are alone: nobody else is in flight
  (`Solo`), and every call made still has its effect (`Effects`). The order of
  the calls is a fact about the nine programs, proved from their lists
  (`ProgramFacts`).
* `GraphWal`: processes decide by what they found in the log when they loaded it.
  `Inv` says who may be alive together (`OneBuild`, `Belongs`), that shares are
  apart (`Apart`), what a process has loaded is still true of its share
  (`Knows`), what is not on record is still to be done (`Complete`), and log,
  memory and outputs go together (`LogIsSound`, `Sound`, `Agrees`, `Built`,
  `OutputsInOrder`). It rests on the guard of `Start`: builds do not overlap.
* `RateLimit`: spacing depends on what a holder has read and how long it has
  slept, so `Inv` has that the stamp is as young as the youngest call and that a
  holder's sleep makes up for what each call is short of its interval.
  `AttemptsRunOut` is a measure: `Left(t)`, at most seven steps for each attempt
  a thread still has, falls with every step, or a chunk is taken up; only the
  start of an idle process adds chunks.
* `Retrieve`: nothing locks here either. `Inv` says that a graph file is never
  newer than the chunks file, that this stays true of a loaded graph while
  builds go on, that each call is made once and that what is collected is what
  was called for, by a request that has a sidecar if anything was
  (`CollectedOfSidecar`). `Heard` adds the values: what is in a slot is what the
  sidecar, or the engine in its place, may have returned.
* `Retrieval`: what the operators compute, for every graph and every list. A
  merge sorts by counting who comes before whom; that each element has a place
  and each place an element (`PlacesAreTaken`) makes it a stable sort cut to
  `top_k` (`MergeIsStableSort`), so no triple left out was better than one kept.
  A fold of the library is run through step by step (`FoldExists`, `IterRuns`),
  and the three folds of the path search, one for each hop, only ever add to
  what they found; so the raw candidates
  are named edges near the top nodes, the first of the parallel edges from a top
  node to each neighbor is among them if it has a name, and more top nodes only
  add to them
  (`RawTriplesAreComplete`).
* `BenchmarkWorker`: every question is in one place (queue, thread, answered, on
  record), none is lost between them while the loop runs, and a stop without a
  signal means a budget exceeded.
* `PaperBenchmark`: `shard_ranges` gives every question to exactly one shard, and
  every shard a question if there are enough (`ShardsPartition`, through a closed
  form of where a shard starts). `PaperInv` says whose workers may run when (`Staffed`) and that a
  worker has counted what its checkpoint says of its own share (`Counted`); it is
  enough for `ExitZeroIsComplete`. That nothing is lost or asked again needs the
  past, `History`. Whatever runs there were, a shard's checkpoint has rows of its
  own questions only (`RowsInShard`), and once a shard is seeded it has a row
  wherever the main checkpoint has one, until the merge (`MainSeeded`): so a
  merge replaces an answer by a failure, or keeps it. While the number of shards
  was kept (`steady`), no other shards have left a row (`NoOthers`) and the main
  checkpoint has no answer that the shards do not have (`MainBehind`): so
  nothing is lost or asked twice.

Induction over the naturals is by the least counterexample: a set of numbers
that is not empty has a least element (`LeastNumber`, from the well-foundedness
of `<` in the library), for the library's induction rules take an operator as
parameter and cannot be used.

Only model-checked is all liveness: `CancelTerminates`, `CanceledContextWins`,
`CancelEndsWorkflow`, `CancelReachesChild` and `SettledUnlessLeaked` need
fairness and `ENABLED`, which are out of the prover's reach. The half of them
that is safety is proved: that an accepted cancel cannot get lost before it
reaches the context (`CancelNotLostHolds`, and `CancelsNotLostHolds` for a
workflow and its children), that from there on the goroutine only goes to its
end, which is `canceled` (`CanceledRunsOutHolds`), and that the attempts of a
build run out (`AttemptsRunOutHolds`). What is left to TLC is that what may
happen next does.

## 6. Where code and documents disagree

Two have a run that ends in a counterexample, and a finding in `PROJECT.json`
with the line that is contradicted.

* A workflow canceled between two steps still starts the next one
  (`workflow_next_step`).
* A build process killed while it holds the lock of the rate limit, which it does
  while it sleeps, leaves the lock file; every later build with a limit waits for
  it without end (`rate_limit_leak`).

Seen while modelling, and without a run:

* Jobs: one unreadable job file empties the job table of the next process
  (`jobs.go:552`), though `docs/contracts/service_jobs.md:459` says that jobs
  survive a restart. `ForgottenOnlyByDamage` says that nothing else does it.
* Files: an upload interrupted between its two renames leaves schema and metadata
  of different versions, though `PUT` is said to write them atomically. Two
  concurrent uploads report the same version (`registry.go:180`), and
  two imports without `overwrite` both succeed (`importer.go:159`), since neither
  check is done under a lock. A delete that dies after it has removed the
  metadata can only be repeated with `force`.
* Operations: a rebuild whose cleanup fails is answered with 500 and leaves no
  operation record (`svc.go:452`), though `docs/contracts/dataset_operations.md`
  asks for one, so `AnsweredIsRecorded` excepts that answer. An operation that
  refers to a run stays `running` when the run is over, until a restart makes it
  `failed`, whatever the run's outcome (`ops.go:164`); the same contract says in
  line 122 that its status "follows the workflow terminal state". What does hold
  of the two stores is `RestartSettles`.
* Builds: `--compact-only` returns as soon as the last compaction succeeded and
  both outputs exist, whatever input they are of (`build_graph_worker.py:573`);
  `BuildIsOfOneManifest` excepts the builds that may do so. The worker reads the
  schema at line 458 and hashes the file for its manifest at line 484: after a
  `PUT` in between, its extractions are recorded under a manifest that names a
  schema they were not made with, and later builds of that schema reuse them,
  though `docs/contracts/graph_construction_wal.md:221` says that successes of a
  changed schema "are stale and must not be reused". So `BuildIsOfOneManifest`
  is about the manifest that was recorded, not about the schema that was read. A
  cancel kills the worker
  and not its runners, and a build resumed meanwhile repeats their calls
  (`buildgraph.go:139`), into the same log and outputs: `Start` excludes what
  nothing in the code excludes.
* Retrieval: a graph may be answered from with the chunks of a later build, whole
  or cut, since nothing holds the two files together; `ChunksNotOlder` is all
  that the order of the writes gives. A trace that has no record of the question
  (and not exactly one record) is answered by the graph search as if it had been
  asked for, in modes `runtime-trace` and `path2-detrace` (`service.go:70-80`).
  Mode `sidecar` answers by the graph search alone when its calls fail, with the
  error in the debug section only, and in the command also when no sidecar is
  given (`main.go:159`). `docs/service_test_strategy.md:83-90` wants "the
  intended primitive, not silently falling back", and a debug strategy that
  matches the mode. `OnlyTraceFallsBack` says that there is no other case.
* Benchmarks: a worker that is asked to stop, or is over `max_failures`, leaves
  the loop and then waits in the executor until every question has been asked;
  the outcomes are thrown away. A signaled worker writes the result it has and exits 0, so its job
  succeeds with questions missing; `SuccessIsWhole` excepts it. A failed item of
  the checkpoint is resumed as done. A resumed run that is over its budget and
  has nothing left to ask succeeds. A stopped single paper worker may exit 0,
  which `ExitZeroIsComplete` excepts.
* Paper benchmark: with `retry_failed`, which `docs/benchmark_guide.md` recommends
  for resuming, a retried question has two rows in its checkpoint, and
  `check_paper_benchmark_result.py` refuses the successful run. After a
  change of the number of shards a stale row of a shard checkpoint wins over a
  newer one of the main when the shard is seeded (`paper_benchmark_shard_runner.py:124-130`): a
  question answered meanwhile is asked again, or, if the stale row is a failure
  and stays one, the merge (`paper_benchmark_shard_runner.py:268-285`) erases the answer from the
  main checkpoint. `docs/contracts/paper_aligned_benchmark.md` says of the rows
  of the main checkpoint that they "are preserved and not re-run" (line 223) and
  of failures that they "should not erase previous successful rows" (line 523),
  and `docs/benchmark_guide.md:484-486` that resuming with shards does not burn
  what is answered. `AskedOnce` and `AnswersKept` except exactly this. The shard runner
  passes `--resume` to its workers even if it was not given. A torn row makes
  every later resume refuse the checkpoint until somebody repairs it. A run with
  a smaller `limit` drops the rows of the other questions when it merges.

## 7. What is not modelled

* HTTP routing, decoding, error bodies and listings: no state.
* Artifact status, sidecar status, configuration, smoke and regression scripts:
  nothing that changes state.
* In retrieval: embedding and scoring themselves (a score is a number, a node's
  text the set of query terms in it), formatting, the debug section, graph
  snapshots and edges to nodes a graph does not have, the separate flags of the
  command, and a sidecar whose index is of another build than the graph. A file
  is read at one instant. Hits are whatever the instance has, whatever `top_k`
  is, while the code asks for more of them with a greater one
  (`min(3 * top_k, 50)` nodes and `top_k` relations, `service.go:691-708`):
  `CandidatesComplete` compares values of `top_k` over the same hits.
* Answer, document and golden launchers beyond "a worker returns a result or an
  error": they keep nothing.
* Inside a benchmark: what is done to answer and judge one question, scores and
  metrics, progress files, the worker's rate limiter, preflight runs.
* What two imports at once leave of a dataset is modelled (section 6), but no
  property promises anything of it: `SoloTakesEffect` is about the next request
  alone.
* Inside a build: a corpus that changes (other chunks, other keys; a build that
  reads it before a change and hashes it after leaves a manifest that no later
  build has), short writes without a kill, logs of the old format, the
  content of the graph. In `RateLimit`, calls are dated by the time they stamp,
  not by when they reach the LLM.
* The operating system is modelled from its use: POSIX rename, unlink and open
  files in `DatasetFiles`, `SIGKILL` and closed pipes in `GraphWal`. Power
  failure (unsynced data) is not.

## 8. The plan

Order: what loses or misreports a user's work first. Done: `JobManager`,
`WorkflowRun`, `OperationLog`, `DatasetFiles`, `GraphWal`, `RateLimit`, `Retrieve`
with `Retrieval`, `BenchmarkWorker` and `PaperBenchmark`, all with their proofs.

Left:

1. `DatasetFiles` together with a running build, builds of one dataset that
   overlap, and `WorkflowRun` with failing saves: the code promises nothing there
   yet, so properties would have to be agreed on first.
2. Graph snapshots in `Retrieval`, and a sidecar index older than the graph.
