# TLA+ models of dagryn

dagryn is a workflow runner: a task graph read from `dagryn.toml` is sorted
into levels and executed by goroutines, with a content-addressed task cache,
plugins, and, in its server mode, an API, a job worker, a dashboard and a
cluster of worker agents.  This directory models the parts in which order,
concurrency and failure decide whether the program is correct.

Paths below are relative to `src/`.

## 1. Inventory

| Component | State it keeps | Operations | Talks to |
|---|---|---|---|
| **Task graph** `pkg/dagryn/dag` | `Graph.Nodes`, `Edges` (task -> dependencies) | `DetectCycle`, `TopoSort`, `TopoSortFrom` | called once per run by the scheduler |
| **Scheduler** `pkg/dagryn/scheduler` | plan, `states`, `summary`, semaphore channel, `levelResults`, context, `cacheSaveWg` | `Run`, `executeTask`, callbacks, `WaitCacheSaves` | executor, cache backend, plugins, the cluster's `RemoteTaskExecutor`, CLI/worker callbacks |
| **Composite plugin set-up** `scheduler.go:927-1060` | `setupCache.entries`, a singleflight group | `runCompositeSetup`, `runCachedCompositeCleanups` | task goroutines of one run |
| **Cluster control plane** `pkg/cluster` | registry map (`ConnectedWorker` with two channels), `workers` and `task_assignments` rows | `RegisterWorker`/`TaskStream` gRPC handlers, `Dispatcher.Execute`, `Reassigner`, stale detector, drain endpoint | scheduler above, agents below, the database |
| **Worker agent** `pkg/agent` | semaphore, `draining`, wait group, event channel | heartbeat loop, task loop, `Shutdown` | the control plane over two streams |
| **Task cache backends** `pkg/dagryn/cache` | `.dagryn/cache`: files (hard links), metadata, markers of the hybrid backend; a shared bucket of blobs and manifests | `Check`, `Restore`, `Save`, `Clear` under a strategy and a fallback rule | scheduler; other checkouts through the bucket |
| **Server run lifecycle** `pkg/worker`, `pkg/api/handlers/runs.go`, `pkg/database/repo/runs.go` | the run's row and task results, the cancel key and its channel in Redis | trigger, start, task events, finish, cancel, heartbeat, mark stale | API, job worker, CLI, stale detector all write one row |
| **CLI remote sync** `cmd/dagryn/run` | offline flag, buffered logs, heartbeat ticker | `OnRunStart` ... `OnCancelled`, `flush`, `Stop` | scheduler callbacks, a signal handler, the API |
| **SSE hub** `pkg/server/sse` | clients per topic, one loop, four channels | `Publish`, `Register`, `Unregister`, `Stop` | API handlers and browsers |
| **Audit log** `pkg/service/audit.go` | hash chain per team | `logEntry`, `VerifyChain`, retention GC | every API handler |
| **Server cache service** `pkg/service/cache.go` | quota, blobs, entries | `Upload`, `RunGC` | agents and CLIs |
| **Configuration, conditions, task model** | none that changes | parse, validate, evaluate `if` | scheduler |
| **Plugins, toolchains, containers** | files on disk | resolve, install, run | scheduler, executor |
| **API, authentication, enterprise** | rows | CRUD | dashboard |

The behaviours that are hard, and that unit tests of this repository do not
reach, are listed line by line in `PROJECT.json` under `hazards`.  By kind:

* *interleaving inside a run*: a goroutine that loses the `select` between the
  semaphore and the context returns no result; seven return paths each have to
  call the completion callback; background saves outlive `Run`; a failing task
  cancels its siblings while the collector is still reading;
* *shared set-up*: a map is read before a singleflight call and not inside it;
* *unconditional writers of one row*: dispatcher, event handler and reassigner
  all write `task_assignments.status` without looking at it; heartbeats write
  `workers.status` the same way;
* *channels of a removed worker*: they are closed by the detector, or by the end
  of a stream of another session, while a dispatcher holds a pointer to them;
* *loss*: a dispatch or an event disappears with the stream that carries it;
* *server runs*: the row is written by statements on single columns and by
  whole copies read earlier; the queue delivers a job again after an error or a
  crash; a cancellation is a row, a key and a message, each a step;
* *reports of the CLI*: three goroutines and a signal handler report one run,
  over requests that are lost before or after they took effect;
* *cache files*: an entry becomes visible with its last file; entries and outputs
  share inodes; a download stops half-way; a bucket of files takes a blob half
  written for a whole one; a clear that is killed leaves entries in part.

For each component, what makes it correct:

* task graph: the plan is a partition of exactly what the targets need, levels
  respect dependencies, a cycle is reported exactly when there is one, the path
  printed is a cycle, the sort ends;
* scheduler: dependencies first, failures contained, parallelism respected, no
  task silently dropped, summary and callbacks consistent, nothing after the
  return except saves, the run ends;
* composite set-up: set-ups of one key do not overlap, every command runs with
  environments that exist and are not cleaned up meanwhile, nobody waits for ever;
* cluster: a verdict is what a worker did, a dispatch is executed once at most,
  registry entries are usable, the dead leave;
* server run: a settled run tells what its tasks did, a success is earned, a
  cancelled run stays cancelled, a confirmed cancellation is not lost;
* CLI reports: what the server says in the end is what happened here, no log
  line is lost but by the rules, the dashboard knows whether the client lives;
* cache: an entry that is found is complete, and after a run that executed or
  downloaded, the outputs are those of the inputs.

## 2. The modules

| Module | Kind | Models |
|---|---|---|
| `Dag` | constant operators, no state | reference definitions: reachability, cyclicity, the levels of a graph |
| `TopoSort` | state machine | `toposort.go`: worklist of `TopoSortFrom`, then Kahn's counters |
| `CycleDetect` | state machine | `cycle.go`: three-colour search with an explicit stack, parent walk |
| `DagRun` | abstract specification | what a run promises, no levels, slots, goroutines, cache or counters |
| `Scheduler` | state machine | `Run`, `executeTask`, the collector, cache saves, the caller |
| `DagProofs` | theorems | what the definitions of `Dag` compute, for every finite graph |
| `PlanContract` | abstract specification | what search and sort promise together: one answer, without their algorithms |
| `PlanGraph` | composition | `CycleDetect` and then `TopoSort` on one graph, as `scheduler.New`/`Run` call them |
| `PlanGraphProofs` | theorems | proofs about `PlanGraph`, and that it implements `PlanContract` |
| `MCScheduler` | instance | constants of `Scheduler` for TLC; plans come from `Dag!PlanFor` |
| `SchedulerProofs` | theorems | proofs about `Scheduler`: its control, what it reports, that it implements `DagRun`, that it is never stuck |
| `CompositeSetup`, `MCCompositeSetup` | state machine, instance | the shared set-up of composite plugins |
| `CompositeSetupProofs` | theorems | proofs about `CompositeSetup` |
| `DispatchContract` | abstract specification | what the scheduler may rely on when a task is dispatched |
| `Cluster` | state machine | control plane and agents together |
| `ClusterProofs` | theorems | proofs about `Cluster`, and that it implements `DispatchContract` |
| `ServerRun` | state machine | a run on the server: `TriggerRun`, `ExecuteRunHandler.Handle`, callbacks, `CancelRun`, `CancelManager` |
| `ServerRunProofs` | theorems | proofs about `ServerRun` |
| `RemoteSync`, `MCRemoteSync` | state machine, instance | a run of the CLI and its reports, the API behind them, heartbeats and the stale job |
| `RemoteSyncProofs` | theorems | proofs about `RemoteSync` |
| `HybridCache`, `MCHybridCache` | state machine, instance | local store and bucket of several checkouts |
| `HybridCacheProofs` | theorems | proofs about `HybridCache` |

`Dag` connects the graph modules to the scheduler.  `TopoSort` is checked
for every graph of the bound, and proved for every finite one, to return
`PlanFor(needs, targets)` (`PlanGraphProofs!EarliestPlan`).  `Scheduler` takes
`Plans` as a constant and assumes their validity (`PlansAssumption`);
`DagProofs!PlansAreValid` proves that of `PlanFor` for every finite acyclic
workflow, so that the two halves meet without a gap.  `MCScheduler` uses
`PlanFor` for every set of targets.

Operators with a suffix (`Collect_OnlyFailed`, `Remove_LeavesOpen`, ...) and a
comment that begins with "Faulty:" are not used by the specifications.  Each is
a plausible mistake in the operator it is named after; exchanging the two makes
some property fail, which shows that the property depends on that piece of code.

### 2.1 TopoSort, CycleDetect and PlanGraph

`PlanGraph` runs `DetectCycle` on the whole graph and, if it finds nothing,
`TopoSortFrom` for the targets; its properties are those of its two parts, and
one of the composition: what passed `DetectCycle` is never refused by the sort.
`work` and `needed` are the queue and the set of `TopoSortFrom`; `inDegree`,
`queue` and `levels` are Kahn's.  Go's map iteration is arbitrary, so the next
name is any element of `work`, and a level is a set.  `StartSort` asks for
cyclicity by its definition, as `TopoSort` asks `DetectCycle` first, and
`CycleDetect` shows that `DetectCycle` answers exactly that.

`PlanContract` says what the caller sees of all this: the graph and the targets,
and one verdict, a refusal for a graph with a cycle and otherwise
`PlanFor(needs, targets)`.  `ImplementsContract` maps `found` to the refusal and
`levels` to the plan once the sort has returned; it is proved, not a property of
a run, since the run has every part of it already.

In `CycleDetect` the recursion of `dfs` is `stack`; `parent` and `color` are the
code's maps, and `PathTo` is its walk up the parents, empty name included.  The
path printed for a self-loop is outside `PathIsSimpleCycle`: a self-loop on a
node reached through another edge gives a path such as `a, b, b`.

### 2.2 Scheduler

`main` is where `Run` is: `starting`, `between` levels, `collecting`, `ending`,
`returned` or `error`, `exited` (the caller has waited for the saves).  `pc[t]`
is the goroutine of a task; `idle` also stands for "not created".

| Code (`scheduler.go`) | Action |
|---|---|
| empty plan, plugin installation, level loop entered | `BeginRun` |
| `ctx.Done()` test, goroutines created | `StartLevel` |
| `select` on semaphore or context | `Acquire`, `Abandon` |
| dependency states, `onTaskComplete` without start | `SkipOnNeed` |
| condition false | `SkipOnCondition` (result `waived`: Skipped with `conditionSkipped`) |
| `onTaskStart`; cache check and restore | `Start`, `RestoreFromCache`, `MissCache` |
| execution, remote dispatch, dry run, composite; save spawned; callback | `Execute` |
| send to `levelResults` | `Send` |
| fail-fast cancel, deferred release and `wg.Done` | `Leave` |
| collector's loop and its end | `Collect`, `CloseLevel` |
| end-of-run hook with Run's context | `DispatchEndHook` |
| goroutine of the background save | `FinishSave` |
| Ctrl-C, API cancellation, shutdown | `CancelByCaller` |

Guards, early returns and their order are kept.  Abstracted: outputs and error
texts, how a command is run (a container or a plugin path changes no outcome),
and what a condition says (a conditional task may go either way).  Two details
that follow the code rather than what one might expect: a task routed to the
cluster executes even in a dry run, because the remote dispatch comes before
the dry-run test (501-510); and a composite task never reports `cancelled`.  A dry run registers no
plugin with a hook (264-266), so its hook is `none`; the option `--no-plugins`,
which does no more to a run, is not an option of the model.

`DagRun` is the abstract specification.  `StatusOf` is the refinement mapping:
a task is idle until `onTaskStart`, active while looked up or executed, and
settled from the moment its goroutine has the result, before the collector
records it.

### 2.3 CompositeSetup

`at[t]` walks through `runCompositeSetup` for each plugin in `Uses[t]`: read the
map under its mutex, `group.Do`, execute, store, return.  singleflight is a
library: the first caller of a key leads, the others join, the key is forgotten
when the function returns.  Then the task's command runs with the environments
(`run`) until it ends and the goroutine is through (`Leave`, the deferred
`wg.Done`).  `main` is `Run` around it: `StartTask` counts a goroutine into `wg`,
`AllStarted` turns to the results, `Collected` ends the level when the channel is
closed, which waits for `wg` to be zero, and `RunCleanups` comes after the last level,
or before a level with the context cancelled.  That no clean-up meets a command
is not in the guard of `RunCleanups`: it follows from these.  The levels are any
partition of the tasks.  `RunCleanups` walks over the entries of the map, so a
set-up whose entry was replaced is never cleaned up.

### 2.4 Cluster

A worker keeps its identity (host name) across restarts, so a connection is a
worker and the number of its registration, and `closed`, `handlers`, `leaving`
and `taskCh` are about connections.  `registry[w]` is the session of the
entry, 0 without one.  `Execute(t)` of the dispatcher is split where another
goroutine can come in between: choose, insert the row, send, mark running, poll,
write the final status.  `Deliver` and `LoseDispatch` are the sending goroutine
of the task stream; `BeginTask`, `EndTask`, `BeginShutdown`, `EndShutdown` and
`Crash` are the agent; `HandleEvent` is `handleTaskEvent`; `ListOrphaned` and
`Reassign` are one sweep of the reassigner.  Every database update whose error
the code ignores may happen or not.  A send on a closed channel sets `panicked`,
and nothing of the server steps any more.

Simplified: `Choose` reads rows, registry and load in one step (each is a single
read, and what matters, the time between choosing and sending, is kept);
`Register` merges the upsert, the map insertion and the first heartbeat; a task
accepted between the draining test and `wg.Add` (`agent.go:273-302`) ends as in
`Crash`.  The reassigner's branch for exhausted retries needs a row that has a
worker and a retry, and a row made pending has no worker (`IncrementAssignmentRetry`
sets it to NULL), so with a limit of one or more, which `NewRemoteTaskExecutor`
ensures (`dispatcher.go:64`), it is never met.  Nor does anything in the code take
up a row that has been made pending: `Execute` goes on polling it until its
deadline, and the model does the same.

### 2.5 ServerRun

Every statement on the database and every command to Redis is an action, in the
order of the code; between two of them anything may happen.  `pc` is the attempt
in `Handle`: `exists`, `subscribe` (the two halves of `Watch`), `check`,
`delete`, `reset` (what an earlier attempt left), `clone`, `cloning`, `plan`,
`announce`, `run`, `complete`, `notify`, the steps of `markRunCancelled`
(`mark...`), `clear`, `return`.  `snap` is the `run` variable of `Handle`, `latest`
the copy that `notifyGitHub` reloads before it creates a comment and saves its
id (`Reload`, `SaveComment`; `announced`, `notified` and `markNotified` are between
the two); `Update` writes one of them, or `asnap` of `CancelRun`, as a whole, while
`StartWithTotal`, `Complete` and the counters write columns.  `ctx` is the
attempt's context: once it is cancelled, the statements made with it do nothing
(`InCtx`), while `markRunCancelled` has a context of its own.  `stage[t]`
follows the callbacks of a task: insert its row, read and write it back, count.
The scheduler's context is a child of the attempt's: with fail-fast, which the
handler leaves on, a task that has failed cancels its siblings (`Cancelled`), whose
rows end as `cancelled` and are counted as failed, under a live context.  An attempt
fails the run before it returns an error, but for two that come too early: what it
was sent cannot be read (`Refuse`), or it cannot make its directory (`NoWorkDir`);
and a clone that cannot be opened fails without a word to its task (`CloneEnds`).

The queue is external: a job whose attempt returns `nil` is acknowledged, one
whose attempt failed or died is delivered again up to `MaxAttempts`, then
archived; one attempt at a time.  A shutdown of the worker cancels the context
of its attempts (`ShutDown`); a crash forgets them (`Crash`).  `pr` says whether
the run has a pull request, whose comment makes another writer of the whole row.
Left out: logs, artifacts, webhooks, deleted runs and projects, database errors
other than those of `Refuse` and of a cancelled context, and the time to live of
the key (an hour).

### 2.6 RemoteSync

`pc` is the main goroutine from creating the run to its exit, `stage` and `out`
the tasks' callbacks (the scheduler starts what its needs allow), `hb` the heartbeat goroutine (which must note a remote
cancellation, record it and cancel the context, in this order), `sig` the signal
handler of Ctrl-C, and `buf`, `errors`, `offline` the shared state of
`RemoteSync`.  `UpdateRunStatus` and `CancelRun` are read and write of the row in
two steps (`HandlerRead`, `HandlerWrite`), so that requests of the main goroutine,
of the signal handler and of a user of the dashboard interleave; `call[a]` is
where the request of caller `a` is.  A request is lost before or after it took
effect; the CLI may die, with a request under way.  `errorCount` and `offline`
are shared without a lock, so an increment or a reset may be lost (`Count`,
`SyncOk`).  The handler of a log request answers OK whether or not it could insert
the lines, and the CLI then empties its buffer: `Store`, with the lines so lost in
`unstored`.  As on the server, fail-fast cancels the siblings of a task that failed
(`Cancelled`), which `UpdateTaskStatus` counts nowhere.  `ListStaleRuns` and `MarkAsStale` are the two halves of the job that
looks for runs without a heartbeat; the passage of time is its freedom to run
early.  Left out: task names, times, output, and the local record but its status.

### 2.7 HybridCache

A key stands for the inputs it is the hash of and for the content a task makes
of them; `input[h]` is what checkout `h` has.  `disk[h][f]` is all that the
checkout has of one output file: for the project and for every entry an inode
and a content.  `CopyFile` is the link that `copyFile` makes, and `WriteInto`
opens an existing file and writes: all links change.  `pc` is the task's run:
`Check` chooses between the stores (as `HybridBackend.Check` and `Restore`
choose under the strategy, with `FallbackOnError`), `OpenLocal`/`RestoreFile`
and `FetchManifest`/`DownloadFile` restore one file at a time, `RestoreFails` leaves
one half written, `WarmLocal` writes its marker, `Exec` runs the task (writing into
its outputs or replacing them, or failing after some), `OpenSave` ... `SaveMetadata`
and `AskRemote` ... `WriteManifest` are the two saves.  Between runs a user edits
the inputs, removes outputs or clears the cache.

`cfg.bucket` is the kind of the bucket.  One of *objects* (S3, GCS) takes a `Put`
whole or not at all.  One of *files* (`pkg/storage/filesystem.go`) creates the file
and then writes it, two steps (`PutBlob`/`WriteBlob`, `PutManifest`/`WriteManifest`)
between which another checkout looks, or the process dies or fails for good:
`halfBlobs` and `halfManifests` are what is there and not whole.  `Exists` accepts
both, so a half blob is not uploaded again; a download writes it out as it is,
since nobody checks the digest; a half manifest does not parse.  If two processes
write one file, it is whole when the later one closes it, or when the earlier one
does (`Closed`: the file is then either).  A `cache clear` is an `os.RemoveAll`;
`Clear` is one that ends, `ClearDies` one that is killed after some entries, some
files of the next, its directory, or its metadata.  Metadata that lists outputs
which such a clear may have taken is `left`.

`outputsAlreadyPresent` looks for at most five of the files listed in the
metadata: `AlreadyPresent`, with the constant `Sampled`.  The code treats
`write-through` exactly like `local-first`, at every place where it asks for the
strategy, so it has no value of its own.  A step that fails is modelled where it
matters (requests, process deaths, an interrupted clear); other operations on the
checkout's own files are taken not to fail.  Simplified: one task, one process
per checkout.

## 3. Runs

| Run | Bounds | Question |
|---|---|---|
| `PlanGraph` | all 512 graphs over 3 nodes, cyclic and self-looping, every visiting order, all 8 target sets | 4.2, graphs |
| `Scheduler` | 4 tasks in 3 levels (`c` needs `a`,`b`; `d` needs `c`), every set of targets, 4 option records, every initial cache content | everything in 4.1 |
| `SchedulerHook` | same | does `on_run_failure` run (it does not) |
| `CompositeSetup` | 3 tasks in any levels, 2 keys, opposite orders | are set-ups exclusive, shared, and cleaned up after use |
| `CompositeSetupOnce` | same | "exactly once" (it is not) |
| `Cluster` | 1 task, 1 worker, capacity 1, 2 registrations, 3 disturbances | 4.3 |
| `ClusterDrain` | same | does draining prevent assignments (it does not) |
| `ServerRun` | 2 tasks, 1 cancellation, 2 deliveries, 1 fault (crash, shutdown, early error), with and without pull request | 4.4 |
| `ServerRunCancel` | 1 task, 1 cancellation, 1 delivery | is a confirmed cancellation kept (it is not) |
| `RemoteSync` | 1 task and 2 disturbances, or 2 tasks, side by side or in a row, and 1; 2 log lines, buffer of 1, offline after 2 errors | 4.5 |
| `HybridCache` | 2 checkouts, 2 keys, 2 files, both sampled, 3 runs, 1 fault, all strategies, both kinds of bucket | 4.6 |
| `HybridCacheStale` | 1 checkout, 2 keys, 1 file, 3 runs, no fault | does a local hit deliver (it does not) |

Why the bounds are enough.  *Graphs*: with three nodes there are self-loops,
two- and three-cycles, diamonds with a shared dependency, and unreachable parts;
nothing in the algorithms counts beyond neighbours and levels.  *Scheduler*: the
code looks at the current level and the direct dependencies; three levels give
a transitive skip, two tasks in a level give contention for one slot and a
failure that cancels a sibling, `b` is dispatched remotely, `d` is composite,
`b` and `c` have conditions, `a` and `d` are cacheable.  The options are the
default, one slot, no fail-fast, and a dry run; the theorems of section 6 cover
the rest.  *CompositeSetup*: opposite orders over two keys is the shape in which
waiting could be circular; a third task can arrive during or after a set-up.
*Cluster*: every property is about one task and one worker; another task only
delays this one (a full channel, a used slot) and another worker only offers a
choice.  Two registrations are the least with which a stale stream, a stale
channel and a row made pending meet; three disturbances (crash, silence, shutdown,
drain) allow three of them in one execution.  Two tasks exceed what finishes in
minutes, and so do two workers with three disturbances; the safety properties are
proved for any number of tasks, workers, registrations and disturbances (section 6).  *ServerRun*: two tasks let one fail while the other runs, two
deliveries let one attempt meet what another left; a second cancellation only
meets a row that is final or repeats the first.  *RemoteSync*: the buffer of one
line overflows with the second, two errors make it offline, and two disturbances
are the least with which a loss meets a cancellation, or two cancellations meet;
`Disturbances` in the module counts them, and `MaxSize` bounds them together with
the tasks, so that a run of two tasks, of which one may be cancelled by the other's
failure or skipped for it, has one; what that
leaves out (two tasks with two losses, more lines, larger buffers) the theorems
of section 6 cover.  *HybridCache*: three runs are save,
overwrite and restore, a second file makes "half of an entry" possible, a second
checkout makes a bucket whose entries this one did not write.  With more files
than the sample, `AlreadyPresent` holds more often, which matters to `HitDelivers`
only; the theorems hold of every `Sampled`.

`CHECK_DEADLOCK FALSE` is set where the system stops by design: the search or
the sort returns, the process exits, the run ends, the server panicked.
`HybridCache` declares hosts, keys and files symmetric (it has invariants only);
the other runs do not use symmetry, since the tasks of the scheduler's instance
differ and runs with liveness must not.

## 4. Properties

### 4.1 Scheduler

`RunsAfterNeeds`, `FailureIsContained`: no task starts, executes or is restored
before every dependency is recorded and lets it; what depends on a blocking
result is skipped or has no result.  `SlotsBounded`: the semaphore equals the
goroutines between acquiring and leaving.  `SummaryAgrees`: the counters are
those of the results listed.  `NoTaskDropped`: a planned task without a result
is explained by the caller or by a counted failure.  `CallbacksPaired`: at the
return every started task was completed, and completed without start means
skipped on a dependency.  `SuccessHookSound`: the success hook means no failure
and nothing missing.  `QuietAfterReturn` (action property): after the return
only saves end, none begins, so the caller's wait covers them.  `RunExits`
(liveness).  `ImplementsDagRun` (refinement).

### 4.2 Graph and set-up

`PlanGraph`: `CountersExact` (the counter is the number of unplaced dependencies and the
queue exactly what is ready), `LevelsRespectNeeds`, `PlanIsEarliest`,
`PlanEnds` (liveness); `GrayIsCurrentPath`, `DetectsExactlyCycles`, `PathIsSimpleCycle`.
`CompositeSetup`: `SetupsDoNotOverlap`; `EnvFromSetup` (a command runs with executed
set-ups of all its plugins, and none is cleaned up while a goroutine of the run sets
up or runs its command); `JoinersServed` (liveness).

### 4.3 Cluster

`VerdictIsOutcome`: whatever mixture of late events, crashes, re-registrations
and rewritten rows occurs, a success or failure reported to the scheduler is what
an execution ended in.  `ExecutedAtMostOnce`: a task is executed once at most, in
the session it was sent to; no dispatch is delivered twice or to the agent that
comes back.  It is about dispatches, and says nothing of the reassigner's promise to
dispatch again (section 7).  `RegistryEntriesOpen`: an entry's
channels are open, so no channel is closed twice, and the entry is that of the
last session.  `DeadWorkersLeave` (liveness).

### 4.4 ServerRun

`SettledRunIsAccurate`: when the job of a run that nobody disturbed is done,
the row has ended and its counters are those of its task rows, a sibling that
fail-fast cancelled counted as failed, however many attempts died on the way.  Two
exceptions are stated in it because the code does not do better: a run that was
cancelled (counters written between the reading and the writing of `CancelRun` are
lost) and a worker that was shut down (its runs are marked as cancelled by the
user).  A run given up without a fault is reported as failed.
`SuccessIsEarned` holds of these too.  `CancelledRunNotRevived` (action
property): a cancelled run at rest, with no attempt and no call under way, is
left as it is by every later delivery.

### 4.5 RemoteSync

`StoppedIsNotSuccess`: a run stopped from the dashboard before its tasks had run
is nowhere a success.  `ReportAgrees`: at the exit of the CLI the row is final
unless something was lost, has the status of the local record, and counts what
the tasks did, those that fail-fast cancelled in no counter.  It is about a CLI that
has begun to report: one that fails before (`Setup`) exits with `tries = 0`, and
reports nothing.  `NoLineLost`: every line is on the server or in the buffer
until later lines push it out or the CLI is offline, unless the server answered for
it and failed to insert it (section 7); and, repetitions aside, the server has them
in order.  `ClientPresence` (liveness): a client that died is
marked as gone, one that was wrongly marked is marked back.

### 4.6 HybridCache

`EntriesComplete`: what a check accepts has every file, unless a clear died on it, and
a manifest in the bucket names the right content, of which a bucket of files may
have a part only.  `RunDelivers`: after an execution the outputs are those of the
inputs, whatever was there before, and so they are after a download from a bucket
of objects; from a bucket of files an output may come truncated, but never from
other inputs.  For a local hit even that is false (`HitDelivers`, section 7).

## 5. Fairness

* `Scheduler`, `FairSpec`: weak fairness of `Run`'s goroutine, of each task's
  goroutine and of each save.  Go schedules every runnable goroutine; a command
  ends by itself, by its timeout, or killed with its context.  Weak fairness of
  the whole `TaskStep(t)` says nothing about which branch of a `select` wins.
  Nobody is assumed to cancel.
* `PlanGraph`: weak fairness of the one sequential step.
* `CompositeSetup`: weak fairness of `TaskStep(t)`: set-up commands end.  Nothing
  is assumed of `StartTask`, `Arrive` or `Leave`: a task need never come, and its command
  need not end.
* `Cluster`: a broken stream is noticed by its handler (`StreamEnds`), the detector's
  ticker fires for an agent that is gone, and the row is written (`MarkOffline`).
  Nothing is assumed of agents, dispatches, events or the reassigner.
* `RemoteSync`: the heartbeat's ticker and the periodic stale job go on
  (`WF(Heartbeat)`, `WF(StaleJob)`).  Nothing is assumed of requests, tasks, users
  or the main goroutine.
* `ServerRun` and `HybridCache` have safety properties only, and no fairness: a
  job that is archived, or lost with its queue, need never end.

## 6. What is proved

`SchedulerProofs` proves, for every finite or infinite set of tasks, every
dependency relation, every set of plans and options and every cache content:

| Theorem | Statement |
|---|---|
| `Invariance` | `Spec => []IInv` |
| `TypeCorrect` | `Spec => []TypeOK` |
| `DependenciesFirst` | `Spec => []RunsAfterNeeds` |
| `FailuresContained` | `Spec => []FailureIsContained` |
| `ParallelismRespected` | `Spec => []SlotsBounded` |

Assumptions: `NeedsAssumption` (dependencies are tasks, which configuration
validation ensures), `PlansAssumption` (a plan is disjoint levels, dependencies
in earlier ones: what `LevelsValid` proves of the sort's result, and
`PlansAreValid` of `PlanFor`) and
`OptionsAssumption` (parallelism is a positive number: the default is
the number of CPUs, and the command line's value replaces it only when positive,
`cmd/dagryn/run/run.go:131`).  No fairness is used, so the theorems hold of
`FairSpec` as well.

The argument.  `RunsAfterNeeds` is not inductive: that a dependency is
*recorded* when its dependent starts follows from the barrier between levels.
`IInv` says why:

* `PhaseInv`: outside a level no goroutine is between creation and end, and the
  channel is empty;
* `LevelInv`: the goroutines created are those of the levels started, and every
  task of every level but the last has a *recorded* result;
* `ResultInv`: a result is produced once, is in the channel or recorded
  unchanged, and a goroutine is done without one only if the context was
  cancelled, which is why no further level can begin over a gap;
* `NeedsInv`: whoever was let past its dependencies found them recorded and not
  blocking; it stays true because a recorded result is never changed;
* `SlotInv`: the semaphore is the cardinality of `HasSlot`, which is finite, and
  within its capacity; `TypeInv` is the type invariant without that bound.

`StartLevel` is the decisive step: not cancelled, so by `ResultInv` every
goroutine of the level that just closed has a result, and by `PhaseInv` the
channel is empty, so it is recorded.  Each part has a lemma with one step per
action (`TypeStep`, `PhaseStep`, `LevelStep`, `ResultStep`, `NeedsStep`,
`SlotStep`); `AppendMembers` and `TailMembers` are the facts about the channel.

From `IInv`, under the same assumptions, it goes on to what `Run` hands to its
caller, and to how `Run` ends:

| Theorem | Statement |
|---|---|
| `ReportsInvariant` | `Spec => [](IInv /\ RInv)` |
| `SummaryCorrect` | `Spec => []SummaryAgrees` |
| `NothingDropped` | `Spec => []NoTaskDropped` |
| `CallbacksInPairs` | `Spec => []CallbacksPaired` |
| `SuccessHookCorrect` | `Spec => []SuccessHookSound` |
| `FailureHookDecided` | `Spec => []FailureHookExact` |
| `QuietInTheEnd` | `Spec => QuietAfterReturn` |
| `Refinement` | `Spec => ImplementsDagRun` |
| `Unstuck` | `Spec => []NeverStuck` |
| `RunAdvances` | `Spec => [][RunGoesOn]_vars` |

`RInv` adds to `IInv`: `ChannelInv`, a result is in the channel once and not yet
recorded, so that the collector counts it once (`SummaryInv`); `EndInv`, levels are
left out only by a cancellation, and one that no caller made has a failed task
behind it; `CallInv`, the callbacks are those of the results, a task that was
started had all its dependencies recorded and not blocking; `HookInv`, when the
success hook was chosen.  `FailureHookDecided` is the other side of the finding
`SchedulerHook`: by `FailFastInv` a recorded failure has cancelled a fail-fast run
before its level closes, so its failure hook never runs, whatever the interleaving;
without fail-fast it always runs, unless the caller cancelled or the run is dry.  For the refinement, a step of a task changes the status of
that task only (`RunTaskStep`, one case per action), and of the others only the
return and the cancellation show (`RunMainStep`).  The decisive cases are
`SkipOnNeed` and `Start`: the code looks at *recorded* results, `DagRun` at settled
tasks, and `IInv` says that the recorded ones are settled in the same way.

`Unstuck` and `RunAdvances` are what `RunExits` needs besides fairness.
`NeverStuck` spells out the guards: until the caller exits, `Run` or some
goroutine or save has a step, and a goroutine that waits for a slot finds one or
a goroutine *with* a slot that has a step, so that slots, channel and barrier
never make a circle of waits.  `RunGoesOn` is a lexicographic measure: a step
starts a level, or moves exactly one goroutine one stage forward, or empties the
channel, or moves `Run` within its level, or ends a save, or is the caller's one
cancellation.  What is left to TLC is that enabledness (`ENABLED`) is those
guards, and the step from there to `<>` under fairness.

`DagProofs` proves what the definitions of `Dag` mean, for every finite graph:

| Theorem | Statement |
|---|---|
| `NeededLeast` | `NeededBy(needs, S)` is the least set with `S` closed under dependencies |
| `PlansAreValid` | for an acyclic graph, `PlanFor` is a valid plan of exactly what the targets need |

Both are about iterations (`Needed`, `Placed`), so they need an induction.
`SetInduction` does it without an operator as a parameter: it is about a *set* of
numbers with 0 and closed under successor; `Iterated` gives the value of a
recursive function at 0 and at `n + 1` from it.  An iteration that grows inside
a finite set is constant after as many steps as there are elements
(cardinality), hence `NeededThrough` and `PlacingEnds`.  `AcyclicMinimal` is the
other half: a non-empty finite part of an acyclic graph has a task that needs
nothing of that part, since otherwise the tasks reached from a fixed one would
shrink for ever; so Kahn's algorithm stops only when everything is placed.

`PlanGraphProofs` proves, for every finite set of tasks (`NodeAssumption`), every
graph over it and all targets:

| Theorem | Statement |
|---|---|
| `Invariance`, `Whole` | `PlanSpec => [](SearchInv /\ SortInv)`, and with what follows, `[]WholeInv` |
| `TypesHold` | `PlanSpec => []PlanTypeOK` |
| `GrayIsPath` | `PlanSpec => []GrayIsCurrentPath` |
| `DetectionExact` | `PlanSpec => []DetectsExactlyCycles` |
| `PathSimple` | `PlanSpec => []PathIsSimpleCycle` |
| `Counts` | `PlanSpec => []CountersExact` |
| `LevelsValid` | `PlanSpec => []LevelsRespectNeeds` |
| `EarliestPlan` | `PlanSpec => []PlanIsEarliest` |
| `Terminates` | `PlanSpec => [][SearchProgress \/ SortProgress]_...` |
| `PlansAsPromised` | `PlanSpec => ImplementsContract` |

The counters carry the sort: since a counter is the number of unplaced
dependencies, whatever is in the queue has all of its dependencies in levels, and
nothing is queued twice.  `ListInv` is why dependencies outside the worklist's
result cannot exist.  For the search, the calls on the stack are of different nodes,
exactly the gray ones, each a dependency of the one above, and what a call has looked
at is finished unless it is the call below it.

`WholeInv` adds what ties them to the definitions.  `CycleInv`: no finished task
is on a cycle, so when everything is finished there is none; an edge to a gray
task closes one along the stack.  `ParentInv`: the parent of a gray task is the
call above it, so the walk of `PathTo`, itself a recursive function, reads the
stack backwards (`PathOfStack`).  `NeededInv`: the worklist stays inside
`NeededBy` and ends closed, so it is `NeededBy` by `NeededLeast`.  `EarlyInv`:
the levels so far are a prefix of `PlanFor`; that nothing is left over when the
queue is empty (`AllPlaced`) is `AcyclicMinimal` once more, and is why the
sort's own check for a cycle never fires after `DetectCycle`.  In `Terminates`
every alternative shrinks a finite set, or is one of finitely many phases: there
is no infinite run.

`CompositeSetupProofs` proves, for any tasks and any lists of plugins
(`UsesAssumption`):

| Theorem | Statement |
|---|---|
| `TypeCorrect` | `Spec => []TypeOK` |
| `NoOverlap` | `Spec => []SetupsDoNotOverlap` |
| `EnvironmentsExist` | `Spec => []EnvFromSetup` |
| `SetupAdvances` | `Spec => [][SetupGoesOn]_vars` |
| `RunsBounded` | `Spec => []SetupsBounded` |

`FlightInv` is the argument for the first property: the callers of `Do` for a key are
the tasks that are in it for that key, and exactly one of them leads.  `EnvInv` says
that what a task has and what it still has to set up are, together, the plugins it
uses, and that what it has was executed; `CountInv` that what is stored or returned
was; `EndInv` that `wg` is the number of goroutines from their creation to their
`wg.Done`, so that there are none between levels, and that nothing is cleaned up
before the end: hence no clean-up meets a command.  By `SetupAdvances` no step sends a
task back: it shortens the lists of plugins still to set up, or moves one task to the
next stage with its current one.  `RunsBounded` is the other side of the finding
`CompositeSetupOnce`: a set-up does not run once, but at most once for every task that
uses it.  `RunsLeft` counts: the tasks that may still execute a set-up
(`MayRun`) never become more, as nobody comes to call with an entry stored, and
who executes leaves them.  The bound is reached: all users may have looked before
the first entry is stored.

`ClusterProofs` proves, for any tasks and workers and any values of the bounds
(`ClusterAssumption`):

| Theorem | Statement |
|---|---|
| `TypeCorrect` | `Spec => []TypeOK` |
| `EntriesOpen` | `Spec => []RegistryEntriesOpen` |
| `ExecutedOnce` | `Spec => []ExecutedAtMostOnce` |
| `VerdictsTrue` | `Spec => []VerdictIsOutcome` |
| `Dispatches` | `Spec => ImplementsContract` |

`RegistryInv` adds that only sessions there have been are closed, so the next one is
open.  `PlaceInv` says where a dispatch is: once in the channel of the connection
that was chosen, or accepted by the agent of that session, or begun; it disappears
with its stream or its agent and comes back nowhere: nothing that the model, like the
code, does to rows puts it anywhere again.  `ReportInv` follows the answer back: an event under way, the
row while it is polled, and the verdict each say what the execution ended in.  It
also needs that nothing that was retried is on the reassigner's list: a row that it
fails would be a verdict without an execution.

`DispatchContract` has two variables per task, the execution (`work`) and the
answer; `Dispatches` maps `outcome` and `verdict` to them.  A task begins once and
is never begun again, the answer is given once, success and failure are what the
execution ended in, and an answer without a dispatch means that there never will
be an execution.  A time-out or a cancellation promises nothing: the
worker may go on.  Beyond `IInv` it needs `AnswerInv`: nothing is answered while
`Execute` waits, and what was reported as not sent is in no channel and with no
agent, *and stays out*, although rows are made pending again.  It is proved and
not a property of a run; the runs have its parts.

`ServerRunProofs` proves, for every plan and any number of cancellations,
deliveries, crashes and shutdowns:

| Theorem | Statement |
|---|---|
| `TypeCorrect` | `Spec => []TypeOK` |
| `SuccessEarned` | `Spec => []SuccessIsEarned` |
| `NotRevived` | `Spec => CancelledRunNotRevived` |
| `SettledAccurate` | `Spec => []SettledRunIsAccurate` |

Assumptions: `ServerRunAssumption` (a finite, non-empty plan; bounds are numbers)
and `CloneAssumption`.  `SuccessIsEarned` speaks of a job that is done; what makes
it true happens before.  `RowEarned` says that a row with `success` is earned in
*every* state, that no attempt that can still write begins from a success, and
that no copy that will be written back says success.  `TasksFollowed` says how far
a task's row is when its goroutine is at each stage, provided the context was
not cancelled; with the rows of earlier attempts deleted, the rows of a plan
without failure are fine when `CompleteRun` writes its verdict.  `RowStep`,
`TasksStep` and `TypeStep` have one step per action.  `SettledRunIsAccurate` adds
`Settling`, four statements about a run that nobody disturbed: no attempt hears of
a cancellation (`Untouched`), a task's row says what its goroutine knows
(`Reported`), the counters are zero in the row *and in the copy that overwrites it*
(`snap`, and `latest` of the comment) until the first task and then count the
goroutines that are through (`Counters`),
and an attempt that returns leaves either a verdict with accurate counters or a
failure (`Left`).  A crash, or an error before the attempt could report it, may leave
anything; the next attempt deletes it.

`HybridCacheProofs` proves, for any number of checkouts, files, runs and faults
and every finite set of keys:

| Theorem | Statement |
|---|---|
| `TypeCorrect` | `Spec => []TypeOK`, with the coherence of links |
| `Complete` | `Spec => []EntriesComplete` |
| `Delivers` | `Spec => []RunDelivers` |

Assumptions: `HybridCacheAssumption` (finitely many keys: a file needs an unused
inode) and `PlaceAssumption` (names differ).  The invariant has six parts.
`DiskInv`: links of one inode have one content, and what does not exist has none.
`LocalComplete` and `RemoteComplete` are the property.  `ProcInv` is why they are
inductive: a process that saves has delivered outputs, and each file is either
still to do or linked, or uploaded with its own key's content, and the one it is
putting is the one in its manifest and still to do; a process that downloads has
delivered each file that is not still to do, or a part of it (`Got`).  `HalfInv`:
what is half written is in a bucket of files, and until the first fault only
while somebody writes it.  The operators on
files have their lemmas (`Writing`, `Linking`, and `FreshInode`, by the
pigeonhole principle), then each step on the disk one (`Half`, `Executing`,
`Restoring`, `Downloading`, `Saving`, `Cleaning`, `Clearing`); a step of one
checkout leaves the processes of the others alone (`Others`).  A crash may leave
a file half written *through its links*, in an entry too: that is why
`LocalComplete` speaks of existence only, and `HitDelivers` fails.

`RemoteSyncProofs` proves, for every finite workflow, any number of log lines,
losses and cancellations, any size of the log buffer and any limit of errors:

| Theorem | Statement |
|---|---|
| `TypeCorrect` | `Spec => []TypeOK` |
| `StoppedNotSuccess` | `Spec => []StoppedIsNotSuccess` |
| `ReportsAgree` | `Spec => []ReportAgrees` |
| `LinesKept` | `Spec => []NoLineLost` |

Assumption: `RemoteSyncAssumption` (finitely many tasks, at least one; the buffer
and the limit of errors are positive).  The invariant has five parts.  `LogInv` is
about lines: the buffer holds the last ones without a gap, each of them is already
on the server or newer than all the server has, and the most recent `MaxLogBuf`
lines are in one place or the other, or in `unstored`, while the CLI is online; that the server gets
them in order is then inductive, since a lost answer only repeats a part of the
buffer.  `CountInv` says that the counters of the row, *and of every copy of it that
a handler will write back*, count no more than the tasks that are done.  `SettleInv`
follows the verdict: a context cancelled without a signal means the heartbeat
goroutine has made its note (`NoteInv`), a task is blocked only behind a failure
(`OutcomeInv`), so from the return of the scheduler on, a verdict of success means
that every task has run, in every place where it is stored or under way
(`VerdictInv`).  `ReportInv` is what the agreement at the exit needs: if nothing is
lost, the CLI is online and the server knows each running task (`ReachInv`); which
request each call belongs to (`PlaceInv`); if nobody cancels, only the main goroutine
writes the status (`AloneInv`), so no counter is overwritten by an older copy
(`FinalInv`).  Each part has a lemma with one step per action, and the later ones
use the earlier.

Only model-checked: the five liveness properties, `PlanEnds`, `RunExits`,
`JoinersServed`, `DeadWorkersLeave` and `ClientPresence`.  `tlapm` has no rules
for `ENABLED` and for fairness.  Of the first three the safety half is proved: a
measure every step brings down (`Terminates`, `RunAdvances`, `SetupAdvances`) and,
for the scheduler, that some step is possible (`Unstuck`).  Every safety property
of every run is a theorem.

## 7. Findings

Five runs end in a counterexample to what the repository says of itself:

* `SchedulerHook`: in fail-fast mode, the default, `on_run_failure` never runs (proved:
  `FailureHookDecided`),
  because the failure has cancelled the context the hook's command is started
  with (`scheduler.go:311-313, 350-352`);
* `CompositeSetupOnce`: a composite set-up can run twice (`scheduler.go:971-984`),
  and the first one is then not cleaned up; it runs at most once per task that
  uses it (`RunsBounded`);
* `ClusterDrain`: a drained worker is `online` again with its next heartbeat
  (`database/repo/cluster.go:513`) and is chosen for new tasks;
* `ServerRunCancel`: a cancellation that the API confirmed is lost, and the run
  succeeds: the worker writes back the run as it read it
  (`execute_run.go:358-363`), or subscribes just after the signal
  (`worker/cancel.go:59-64`);
* `HybridCacheStale`: a local hit leaves the outputs of other inputs in place
  (`store.go:131-136, 168-195`).

Met on the way, without a run of their own:

* the `HitDelivers` property also fails through the marker of `warmLocal`
  (`hybrid.go:166-174`): after a download, a later hit finds an entry without
  files and restores nothing; and through hard links (`store.go:292`): a task
  that rewrites its output in place rewrites the entry;
* `dagryn cache push` copies an entry's file into the project only where it is
  missing (`cmd/dagryn/cache/cache.go:206`), so it uploads the checkout's current
  files under the keys of older entries;
* a cancellation from the dashboard while the CLI starts is overwritten with
  `running` (`handlers/runs.go:1575-1581`), and a CLI that has already seen it
  reports nothing more: `ReportAgrees` excludes runs cancelled remotely;
* `AppendLog` ignores the error of its insert and answers OK
  (`handlers/runs.go:2004-2006`, "Persist logs but don't fail the request if it
  errors"), and the CLI then empties its buffer (`remote_sync.go:482-483`): such
  lines are nowhere (`unstored`);
* the reassigner makes assignments of lost workers pending "for dispatch to healthy
  workers" (`reassigner.go:12-13`), but no code dispatches a pending row: `Execute`
  waits for its deadline, and the task is not executed elsewhere;
* a `Put` into a bucket of files that is cut short leaves a blob which `Exists`
  accepts (`filesystem.go:39-47`, `backend.go:105`): it is never uploaded again and
  every checkout restores it truncated, as a success; a manifest left so is not
  replaced either, as long as `Check` finds it, and every restore fails on it;
* a clear that is killed may leave `metadata.json` without its outputs
  (`store.go:216`): each later run looks at the entry, and no save repairs it;
* an attempt that cannot read its payload or make its directory returns the error
  without a word to the run (`execute_run.go:268-303, 379-382`), which stays pending
  when the job is given up;
* a worker that is shut down marks its runs as "Cancelled by user"
  (`execute_run.go:345, 898`), and the job is not delivered again;
* the error of queueing a triggered run is ignored (`handlers/runs.go:605`): the
  run stays pending; so does a run in whose last attempt the worker crashed stay
  running.

## 8. Not modelled

* *SSE hub*: one `select` loop.  `Publish`, `Register` and `Unregister` block once
  `Stop` has ended it (`hub.go:250`), which happens when the process exits.
* *Audit hash chain*: two concurrent entries chain to one predecessor
  (`service/audit.go:181`), and the check of the chain then reports a break.  This
  follows from two statements without a lock; a model would add the hash function
  as an assumption and nothing else.
* *Server cache service*: quotas and garbage collection as sums over rows.  The
  server's own cache backends (cloud, gRPC) reach the same bucket by way of it.
* *Cache keys*: hashing and globbing.  `globCache` keeps the list of a pattern for
  the life of the process (`glob.go:52`), so a key may miss a file that an earlier
  task of the same run wrote; `HybridCache` takes a key for the inputs.
* *Cluster*: log streaming, labels, scopes, the CRUD handlers of clusters.
* Parsing and validation of the configuration and of conditions (pure functions of
  text), plugin and toolchain installation and containers (external processes),
  CRUD handlers, authentication and licences (one database statement each), the
  dashboard, generated code (`docs/docs.go`, `cluster.pb.go`), the HTTP client.

What would come next: the remote case of `ReportAgrees` once the start of a CLI
run writes columns, and the stored order of an audit chain once it is locked.
