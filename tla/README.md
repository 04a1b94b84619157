# Verification of the CV algorithm platform

TLA+ models of the platform's own logic, TLC configurations that model-check
them on small instances, and proofs that TLAPS checks for every value of the
constants. Paths below are relative to the repository, with `B` for
`backend/src/cv_platform` and `AM` for
`services/algorithm-manager/src/algorithm_manager`.

## 1. The system

The platform (FastAPI, one process, many threads) keeps its rows in PostgreSQL
or in memory. It executes inference tasks on a thread pool, asks the Algorithm
Manager (another FastAPI process that drives Docker) for a container of the
algorithm version, posts the input to that container and stores the result.
Workflows, media runs and comparisons are built on tasks; routing, scaling and
scheduling choose versions and nodes.

```
 user -- TaskService -- task rows -- LocalTaskQueue (pool) -- AlgorithmManager -- Docker
   |        ^   ^                        |                        |
   |   workflows media runs              +-- prediction request   +- health loop, idle loop
   +-- algorithms (build thread), traffic, autoscaling loop, cluster routing
```

No write to a row is conditional on what the row holds: a service reads a row,
makes a changed copy of the immutable entity and saves the whole copy. Almost
every hard behaviour of this code comes from that, together with threads that
hold a copy across a slow call.

### Inventory

| Component | State | Operations | Interacts with | What is hard | What makes it correct |
|---|---|---|---|---|---|
| Inference tasks (`B/modules/tasks`) | task rows; per task a cancel event; work queue of the pool | create, retry, execute, cancel, fail, recover, shut down | Algorithm Manager and container (calls), event stream (rows), workflows and media (create, cancel, poll) | creator, worker and cancel requests race on one row; store errors; process death in any phase | settled once; cancel is effective; one prediction per completed task; nothing orphaned; all tasks end |
| Startup and shutdown (`B/main.py`, `B/core/seed.py`) | mode of the process, background loops | seed the built-in version; recover tasks, workflow and media runs; start loops; drain | all queues, version rows | order of recovery and serving, calls during the drain, a seed that meets what clients have done since | recovery touches interrupted work only; the built-in version is there after every start |
| Readers of tasks (`tasks/api/events.py`, archive in `tasks/api/router.py`) | last status sent; files collected | poll, emit, end; read one by one | task rows | statuses that change after the stream ended or the file was read | what a reader took away is contradicted by a cancellation at most |
| Workflows (`B/modules/workflows`) | workflow and run rows, cancel events, two run threads | define, start, execute, cancel, recover | tasks | run thread against cancel, each with an old copy of the run; partial creation of node tasks; refusal half way; pool of two | acyclic definitions only; dependency order; completed means every node; outcomes stay; no run or node task nobody sees to; run threads end |
| Media runs (`B/modules/media`) | sources, run rows, frames, two run threads | add and delete sources, start, extract, refresh, recover | tasks, assets, media worker | runs advance only when asked for; concurrent refreshes; errors half way through the frames; cancelled frames | completed means every frame; outcomes stay; runs settle for a client that asks |
| Algorithms (`B/modules/algorithms`) | version and job rows, package directories, build thread | import, build, enable, disable, roll back, delete | manager build, tasks | build thread against administrators, each with an old copy; a second import of a zip; interrupted builds | what is offered was built and tested; deleted stays deleted; builds end; a registered package stays whole |
| Algorithm Manager (`AM`) | instance records, containers, lock per version, failure counts | ensure, scale, stop, remove, touch, reclaim idle, monitor, discover | Docker | records and containers drift apart; unlocked operations; two loops; restart | containers stay known; the lock is released; the version is served; idle ones are stopped |
| Image builder (`AM/infrastructure/image_builder.py`) | none between calls | build | Docker | a build may fail at any point | (a step of the build thread) |
| Instances gateway (`B/modules/instances`) | none | forward | manager | - | project check before every forward |
| Cluster scheduling (`B/modules/scheduling`) | nodes, replica targets, route table | register, probe, choose node, ensure, scale, route | managers | nodes that go away between the count and the call; memory that changes under the placement; two starts at once | replicas are placed where memory is; the loop reaches what is wanted |
| Operations (`B/modules/operations`) | traffic weights, policies, reconcile loop | set traffic, choose version, set policy, reconcile | tasks, scheduling | stale counts, partial updates, boundary of the weighted choice, an error in a pass, which ends the loop | slots are split as the weights say; a policy's maximum is kept; the loop converges |
| Comparisons (`B/modules/comparisons`) | comparison rows | create, read | tasks | partial creation | no task outside its comparison |
| Assets (`B/modules/assets`) | files by digest, temporary files, rows | upload, read | storage | equal uploads side by side, a crash between temporary file, file and row | every row has its file; an image once per project; no stray temporary files |
| Projects (`B/modules/projects`) | members, roles | add and change members, check access | every request | the owner's role is checked before it is overwritten | access is checked before every forward |
| Security (`B/modules/security`) | users, sessions, audit log, rate windows | log in and out, check, change users, limit | every request | a login during a change of the user, sessions in memory and in PostgreSQL, the edge of the window | a revoked session serves nothing; exactly the limit per window |
| Media worker (`services/media-worker`) | none between calls | extract | media runs | rounding of the interval, short videos, the limit | the frames at the multiples of the stride, up to the limit |
| Frontend (`frontend/src`) | refs of each page, timers, streams, requests under way | load, poll, subscribe, buttons, leave | every API | answers in any order, pages left while a request is under way, a second build | a page that is quiet shows what stays; every chain of requests ends |
| Deployments, system API, SDK, migrations, examples | none shared | render, serve | - | - | - |

## 2. Modules

| Module | Models |
|---|---|
| `TaskContract` | what the task component promises: one outcome per task |
| `TaskQueue` | `TaskService`, `InferenceTask`, `LocalTaskQueue`, both repositories, the parts of `lifespan` that concern tasks; implements `TaskContract` and `TaskPort` |
| `TaskPort` | a task as its clients see it: which status follows which, what a cancellation and a restart do to it |
| `InstanceManager` | `InstanceService`, its repository, the calls to Docker, both loops of the Algorithm Manager |
| `WorkflowPlan`, `Workflows` | the cycle check and the choice of the next nodes; runs, run threads, cancel requests, shutdown, recovery; over `TaskPort` |
| `MediaRuns` | sources, extraction, frame tasks, refreshes, recovery, and the frames the media worker keeps; over `TaskPort` |
| `AlgorithmVersions` | the seed, import, build thread, enable, disable, rollback, delete, traffic weights and the weighted choice, tasks and comparisons that use versions |
| `ClusterScaling` | policies, the reconcile loop, placement on nodes by the memory they report, starts for tasks |
| `RequestGate` | the security middleware, users, sessions, members of a project |
| `RateLimiter` | the sliding window |
| `Assets` | uploads: temporary file, file by digest, row |
| `TaskReaders` | event streams and the archive of results; over `TaskPort` |
| `TaskPage`, `TaskList`, `BuildPage` | the pages of the browser where requests overlap; the first two over `TaskPort` |
| `MCTaskQueue`, `MCInstanceManager` | symmetry sets for TLC |
| `MCServices` | the parts from `Workflows` to `BuildPage` as one specification for TLC |
| `TaskQueueProofs`, `InstanceManagerProofs`, `WorkflowsProofs`, `MediaRunsProofs`, `AlgorithmVersionsProofs` | theorems about the module of that name |
| `ClientsProofs` | theorems about `TaskReaders`, `TaskPage`, `TaskList` and `BuildPage` |
| `ServicesProofs` | theorems about `ClusterScaling`, `RequestGate`, `RateLimiter` and `Assets`, and about `MCServices`, the services together |
| `NatFacts` | facts about natural numbers the proofs share: least elements, induction over a set, the existence of functions defined by recursion |

Everything the user sees hangs on tasks, and every task needs an instance: these
two components are modelled in most detail. The others are clients of tasks. They
are composed with the view `TaskPort` instead of the component, and `TaskQueue`
is shown to keep that view (`PortKept`), so that what the clients' modules assume
of a task is what the task component does.

What is left, in the order of its worth: the order of the recoveries of tasks,
workflow runs and media runs within one start of the platform; the route table
of the cluster gateway, with several instances of a version; the audit log.

## 3. The task component: `TaskQueue`

### State

| Variable | Code |
|---|---|
| `tasks` | rows of the task repository; one record per task with status, stored result, error, who cancelled, container, `retry_of` |
| `phase` | where the thread of the task is in `create_task`, `retry` or `LocalTaskQueue._execute`; a phase ends where the code reads or writes the table or a cancel event, or calls out |
| `local` | the `task` variable of that thread, the copy that it will write back |
| `cancelEvents` | `_cancel_events`: absent, clear, set |
| `queue` | work queue of the `ThreadPoolExecutor` |
| `request` | a thread in `TaskService.cancel`: has read the row and will save, or has saved and will signal |
| `mode`, `restarts` | the process serves, drains, is down, recovers |
| `predictions`, `signalled` | history: calls to the container; whether a cancel request returned before the worker's last look at the event |

### Actions

`Create` and `Retry` validate and build the row (`Validate`), then `Add`, `Arm`
(the cancel event) and `Submit` are the three effects of the code in its order.
`Start` takes a task from the queue when a pool thread is free. `Check1` to
`Check4` are the calls of `_cancelled`, `SavePreparing` to `SaveCompleted` the
saves of a new status, `Lookup`, `StartAlgorithm`, `Predict` and `Touch` the
outside calls, each of which answers or raises. `AbortRead`/`AbortSave` and
`FailRead`/`FailSave` are the two halves of a worker's cancellation and of
`_fail`; `Finally` drops the event. `BeginCancel`, `CancelSave` and
`CancelSignal` are a cancel request. `StoreFails` and `CancelStoreFails` are
errors of the store (only with `FaultyStore`). `Crash`, `Shutdown`, `Exit`,
`Restart`, `RecoverTask`, `RecoveryFails` and `Serve` are the life of the
process. Each save writes the whole copy, `InferenceTask.transition` raises on a
copy that is terminal, and the raise takes the path of the code
(`except`, `_fail`).

Inputs, parameters, timestamps, progress and result payloads are abstracted; of
a result only whether one is stored matters.

### Properties

- `OrphanFree`: while the platform serves, with a store that works, each active
  row has a creator or a pool thread that will settle it. It relates row,
  thread and mode across crash, drain and recovery.
- `EarlyCancelNeverCompletes`: a cancellation acknowledged before the worker's
  last look at the event is never followed by completion, although the event
  table may be re-armed by `submit` and the row overwritten by an older copy.
- `CompletedWasPredicted`: completed means exactly one call of a recorded
  container and a stored result; a result is shown by no other task.
- `SettledRowIsOvertakenOnlyByCancel`: a terminal row whose worker is gone
  changes only through a cancel request that had read it before.
- `ContractSpec`: the refinement. A task whose worker may still report counts as
  pending (`outcomeBar`); then it is decided at most once by the platform, and
  later only a cancellation may overtake the decision.
- `EventuallyTerminal`: every created task becomes and stays terminal.
- `PortKept`: the refinement to the view of the clients: as they see them, task
  rows move by `TaskPort` only; of a settled row whose worker may still write,
  they are told so (`fading`).
- `LifecycleInv`, `TypeOK`: the inductive invariant and its types, section 7.

### Runs

Times on two cores.

| Run | Instance | Distinct states | Shows |
|---|---|---|---|
| `task_queue` | 2 tasks, 1 worker, 1 cancel request, 1 restart, no symmetry | 279 646, 68 s | nothing is orphaned, the view of the clients is kept, and every task ends (`EventuallyTerminal`) |
| `task_queue_faults` | 2 tasks, 1 worker, 2 cancel requests, store may raise | 2 052 083, 100 s | cancellation, results, settled rows and the contract survive store errors and two requests on one row; `OrphanFree` does not survive them and is stated with its premise |
| `task_terminal_final` | 1 task, 1 request | violation | see section 6 |
| `task_operator` | 1 task, 1 request | violation | see section 6 |

Two tasks are enough for a task to wait behind another and for a retry and its
original; tasks share nothing but the queue and the mode, and their creators,
canceller and worker run side by side. A second worker would triple the states and
only start the second task earlier; the theorems of section 7 are about any number
of workers.
Two cancel requests race with each other and with retry in the
second run. One restart follows every phase of every task; a second one would
start from the same kind of state, with all tasks settled or queued anew.

## 4. The Algorithm Manager: `InstanceManager`

### State

`container` and `name` are what Docker has; `record` is the in-memory
repository; `lock` the lock of the version; `call` the progress, copies and
work list of each API thread and of the reclaimer; `failures` and `monitor` the
health monitor; `spent` how much of each bound is used up. One algorithm version
is modelled: two versions share neither record, container nor lock. The clock is
reduced to one question, whether `last_used_at` lies within the idle time
(`fresh`). The repository's order is left open, which covers `min` by last use
in `find_by_algorithm` and the order of dictionaries.

### Actions

`ensure_running` is `Ensure` and the `EnsureStep`s, `ensure_replicas` is
`Replicas` and the `ReplicasStep`s: lock, read, probe one by one, create, save,
start, wait, undo, scale down. `stop`, `remove` and `touch` read the record
(`ReadNext`, which raises for a record that is gone), call Docker and save, for
one instance or for the list of `reclaim_idle` or of a scale-down. An error that
reaches the reclaimer ends it (`Raise`), as in `main.py`. `Monitor...` is one
round of `monitor_health`. A container may be unready (`Unready`), Docker may
raise (`FaultyDocker`), somebody may stop or remove a container (`Meddle`), the
idle time may pass (`TimePasses`, only between calls: it is 30 minutes, the
longest wait in a call 60 seconds) and the manager may restart and discover what
Docker has (`Restart`). A creation is refused when its name is in use, or when
the host is full: `Id` is the room it has.

### Properties

- `ContainersAreTracked`: with a Docker that works, each container has a record
  or a thread that is about to write it, through undo, scale-down, removal,
  stale saves and restart.
- `NamesNeverClash`: the lock alone keeps creations apart; without `remove`,
  `touch` and meddling no thread meets a name in use. `touch` is excluded because
  it may save its copy of an instance that a scale-down has removed meanwhile:
  the record is healthy without a container, `ensure_running` takes it, forgets
  it and creates a container under the plain name, which another instance bears.
- `LockIsReleased`: no call keeps the lock, whatever Docker raises.
- `DeadInstanceNoticed`: a healthy record whose container does not run is
  corrected.

### Runs

| Run | Instance | Distinct states | Shows |
|---|---|---|---|
| `instance_manager` | 2 ids, 2 threads, 2 calls of scale or stop, 0..2 replicas, unready containers | 564 821, 26 s | type, tracking, names |
| `instance_manager_loops` | 2 ids, 1 thread, scale, remove, touch, reclaim; both loops; idle time; restart | 371 990, 20 s | tracking against the loops and across restarts |
| `instance_liveness` | 2 ids, 1 thread, Docker may raise, meddling | 70 030, 37 s | `LockIsReleased`, `DeadInstanceNoticed` |
| `instance_reused`, `instance_served`, `instance_idle` | 2 ids, 1 or 2 threads | violations | see section 6 |

Two ids let a dead and a live container, a plain one and a replica, or two
replicas exist at once. Two threads compete for the lock and
the second also plays the unlocked caller; `ensure` is not bounded, the other
calls are. The failure threshold is 2, so that a first failure does not
decide and a count can be left over.

## 5. The other services and the pages: `MCServices`

### Composition

The eleven modules share no variable: what one says of another component (a
task, an algorithm version, a container) is in its own state, by the interface
of that component. All interleavings of all of them would multiply states
without one more conflict, so `MCServices` is their sum: the variable `part`
names one module, whose steps a behaviour takes while the rest stays in an
initial state. The constant `Part` says which modules a run looks at. Each
module also has a specification of its own (`WfSpec`, `MdSpec`, ...), about which
the proofs speak.

The task in `Workflows`, `MediaRuns`, `TaskReaders`, `TaskPage` and `TaskList` is
a `TaskState` of `TaskPort`. A worker moves it (`WorkerMoves`), a cancel request
overwrites it (`AfterCancel`), a restart fails it (`AfterRestart`). The state
`fading` is the one that matters: the row shows cancelled, and the worker, whose
copy is older, may still store anything over it.

### State and actions

As in `TaskQueue`, a thread or request has a phase (`pc`) that ends where the
code reads or writes a row, an event, a task or a file, and a copy of what it
read; a save stores the copy.

| Module | State | Actions and the code they stand for |
|---|---|---|
| `Workflows` | stored workflow, run rows, run threads with `run`, `completed`, `node_tasks`, cancel events, queue of the executor, a task per node, cancel requests | `CreateWorkflow` (with `_validate`), `InsertRun`/`SubmitRun` (`start`), `TakeRun`, `LoadRun` to `StoreOutcome` (`_execute`: mark, choose the next nodes, create, record, poll, finish or fail), `AskCancel` to `StoreCancelled` (`cancel`, task by task, with its 409 half way), `ShutdownWorkflows`, `RestartWorkflows` (`recover_incomplete`) |
| `MediaRuns` | source, run rows, run threads, a task per frame, refreshes | sources and their deletion, start, load, mark, extract, one asset and task per frame, record or fail; `AskMediaRun`, `ReadFrameTask`, `StoreVerdict` (`refresh`); restart with recovery; `KeptFrames`, `FrameStride` (`extract` of the media worker) |
| `AlgorithmVersions` | the versions of the seed, version rows, package directories, jobs, build queue and thread, requests with the rows they read, tasks, comparisons | import (empty, extract, inspect, check, add), build request (job, validating, submit), build thread (`TakeJob` to `CloseJob`, `FailVersion`, `FailJob`), enable, disable, rollback, traffic (one save per version), delete, `create_task` and comparisons, restart with the seed, which may fail it; `Routed` is the weighted choice |
| `ClusterScaling` | nodes with the memory they report free, their healthy and other instances, policy, version, unfinished tasks, the loop, starts | the reconcile loop (read the version, count, plan, call node by node), `Targets` (the placement of `ensure_replicas`), `ensure_running` for a task, nodes that leave, come back, refuse or report other memory (`MemoryChanges`), policies, deletion, errors that end the loop (`GetVersion`, `PassDies`) |
| `RequestGate` | users, sessions, members, requests | `Login`/`OpenSession`, the middleware (`Admit`, `Refuse`), logout, change of a user, members, expiry; `rgStore` is the store in use |
| `RateLimiter` | clock, the deque | `allow`, and time |
| `Assets` | files, temporary files, rows, uploads | spool, inspect, look for the file, move it, look for the row, add; death of the process; `asStore` is the store in use |
| `TaskReaders` | tasks, streams, archives | one turn of the stream's loop, one task of the archive |
| `TaskPage` | task, refs of the page, calls of `load()` | mount, timer, events of the stream, answers in any order, buttons, leaving |
| `TaskList` | tasks, the list, requests of each kind | polling, answers, create, cancel; no button waits for the answer to another one or to itself |
| `BuildPage` | jobs, calls of `startBuild`, chains of `pollBuild`, the timer, the refs | import, start, refusal, answers (lost ones too), timers, errors, leaving. A start begins the chain of whatever build the page shows when it gets there (`FollowBuild`), or throws (`FollowNothing`) |

### Properties

Safety, each over all interleavings of the module:

- `ValidationIsExact`: the cycle check accepts exactly the graphs of 1 to 32
  nodes without a cycle, where the definition of a cycle is independent of it
  (every set of nodes has one that depends on none of the others).
- `NodesRunInOrder`, `CompletedRunIsWhole`: no node before its dependencies; a
  completed run has a completed task for every node.
- `OutcomeIsKept`: the outcome of a run changes only into cancelled.
- `WorkflowIsAttended`: a run that shows queued or running has a thread, and an
  active node task is in its run's row, unless the row or the event of the run
  says why not.
- `SamplingIsExact`: the frames kept are the multiples of the stride, up to the
  limit; the stride is the interval rounded.
- `CompletedMediaRunIsWhole`, `SettledMediaRunIsFinal`, `MediaRunIsAttended`: the
  same questions for media runs, against refreshes that overlap.
- `PublishedHasDigest`, `BuildIsAttended`, `RegisteredPackageIsWhole`: what is
  offered was built and tested, except the version of the seed, which never is;
  no build is left open with nobody to close it; no registered version without
  its package; each with its exceptions, section 6.
- `SplitIsExact`: each candidate gets the slots its weight says.
- `ComparisonIsWhole`: a stored comparison lists exactly the versions that were
  asked for; a task outside of a comparison means one that was refused
  or lost later on.
- `PlacementIsGreedy`: with the memory the nodes report when a pass plans, no
  replica would be better placed on another node.
- `RevokedNeverServes`: a session that was there when its user was disabled
  admits no request any more, also after the user has been enabled again.
- `LimiterIsExact`: the pruned deque refuses exactly when the full history has
  `RlLimit` requests in the window.
- `AssetsAreSound`: rows have their file, answers are one's own asset, an image
  is added to a project once, temporary files belong to running or crashed
  uploads.
- `ReadingsStand`: the last event of a stream and the files of an archive are
  contradicted later by a cancellation at most.
- `QuietPagesAreRight`: a page with nothing under way shows what stays, up to a
  cancellation, and a page that was left is silent. A list may keep two entries
  of a task, but the upper one is then cancelled.
- `BuildPageIsRight`: a build shown as under way is followed by some chain, or
  about to be, or an error is shown; a page with nothing under way does not say
  that it is building.
- `ServicesTypeOK`: the conjunction of the modules' type invariants.

Liveness: `RunThreadEnds` (the pool of run threads is never used up, unless the
platform stays in its shutdown), `MediaRunSettles` (for a client that keeps
asking, unless a frame was cancelled), `ScalerConverges` (when tasks, policy and
nodes change no more, the healthy instances are again and again what the policy
and the tasks want, and stay so once the memory the nodes report rests; until
then replicas may move to and fro, since a placed replica makes its own node less
attractive), `ClientsSettle` (streams end, a page catches up with its task, the
list settles, every chain of polls ends).

### Runs and bounds

| Run | Parts | Distinct states | Shows |
|---|---|---|---|
| `services` | workflows, media, algorithms, gate, limiter, assets | 292 362, 105 s | the services of the backend keep their promises, and their runs end |
| `cluster_pages` | scaling, readers, page, list, build page | 238 957, 132 s | placement, convergence, and what streams, archives and pages are left with |

| Part | Instance | Why it is enough |
|---|---|---|
| workflows | ten graphs of 1 to 3 nodes, some with a cycle or an unknown node, both modes, the parallel one with and without dependencies; up to 3 node tasks in all, so two runs of one node or one run of three; 1 pool thread, 1 cancel request, 1 restart | a chain, a fork, and a batch of two with a node that needs both; a run that waits for the thread; the request and the restart hit every phase. Two requests would both store cancelled |
| media | 1 run, 2 refreshes, videos of up to 5 frames, limit 2, stride 2, 1 restart | runs share nothing but the pool; two refreshes are what conflicts; the length, the limit and the stride each decide once |
| algorithms | 2 versions in any of four initial states, one of them of the seed or none; 2 requests of any kind against the build thread, 1 restart, weights in halves | every pair of operations; two versions are needed for rollback, traffic and comparisons |
| scaling | 2 nodes of one unit of memory each, of which any part may be reported free, up to 3 replicas, 2 policies, 1 task, 1 start, 3 changes of the environment | placement differs with what is free, and memory is there or not; a change before, during and after a pass |
| gate | 2 users, 2 sessions, 2 requests, 2 changes, both stores | an administrator and the user that is changed; disable and enable again |
| limiter | 2 per window of 3, clock up to 6, 5 calls | hits before, at and behind the edge of a window that is full |
| assets | 2 uploads, 2 images, 2 projects, 1 crash, both stores | equal and different content, same and different project |
| readers, pages | 2 tasks for the archive; 1 stream; 2 loads, 1 task on the page; 2 fetches, 2 cancel requests, 1 task on the list; 2 builds; 1 error each | an archive with one file read and one to come; answers that overtake each other; a build replaced by another. A second task on the list would only ask more often, entries of different tasks never meet |

`DeletedStaysDeleted` and `RoleIsCurrent` are proved without being part of the
run (section 7).

## 6. Where code and documents differ

Each is a run that TLC ends with a counterexample.

- `task_terminal_final`: `InferenceTask.transition` refuses to leave a terminal
  status, on the caller's copy. The stored task does leave it: a worker writes
  `preparing` or `completed` over `cancelled`, a cancel request `cancelled` over
  `completed`.
- `task_operator` (FR-TSK-004): the worker may cancel a second time as `system`
  and the user who cancelled is lost.
- `instance_reused` (FR-CTR-002): `ensure_running` looks at one healthy record;
  when its container is gone it creates a new one beside a healthy replica.
- `instance_served` (FR-CTR-001): `remove` during a start lets a record without
  a container come back; the version then fails to start for ever.
- `instance_idle` (FR-CTR-003): an instance removed during a round of the idle
  reclaimer ends the reclaimer.

The exceptions that the properties of section 5 have to name are observations
about the code as well. They are no runs of their own: the property would restate
a line that can be read off directly, or would need a promise that no document
makes in so many words. Some are in tension with a document all the same:

- The built-in version can be deleted like any other (with PostgreSQL, as long as
  no task refers to it). The seed does not find the tombstone at the next start,
  adds the row again, the primary key refuses it, and the platform does not start
  any more (`SeedFails`). `docs/ROUND-2-DEVELOPMENT.md:27` says of the stores in
  memory that the seed restores the built-in versions.
- Within the idle time a pass of the reconcile loop asks for as many replicas as
  there are records, stopped and failed ones included, also beyond the maximum of
  the policy (`operations/service.py:173`); `docs/FEATURE-COVERAGE.md:56` lists
  "min/max".
- Weights need not add up, since a new version brings the whole weight: the last
  candidate has what is left (PRD line 224 wants a split by the weights).

The others:

- Workflows: a run cancelled while it waits in the queue is set to running by
  its thread, which then sees the event and leaves: the row stays running. A node
  task that settles in between makes the cancellation answer 409 half way, with
  the event set and the run unmarked. Node tasks created before `create_task`
  raised for a later node run on in no run. A shutdown drops the queued tasks
  (`local_queue.py:56`); they stay queued until the next start, so a run thread
  that waits for one polls on and the process does not end by itself. The
  container runtime kills it after the grace period.
- Media runs: a cancelled frame task neither fails nor completes its run.
- Algorithms: nothing recovers builds at startup. A traffic change that read a
  version during its build stores validating or building over the end of it; one
  with a weight outside 0..100 raises (`entities.py:82`) when the versions before
  it have been saved. The version of the seed is offered without a digest. A
  deletion during a build leaves the job open. A second import of a zip that
  fails half way leaves the registered version without its package.
- Scaling: the loop ends with an `AttributeError` (`operations/service.py:179`)
  when an algorithm is deleted under its policy, and with whatever else a pass
  does not catch, such as an error of the database or an answer of a node that is
  no JSON. The shutdown awaits the ended loop, which raises again, and skips the
  shutdowns behind it. The idle stop of a Manager and a minimum of replicas work
  against each other. A placed replica lowers the score of its own node, so
  replicas can move between two like nodes pass after pass.
- Gate: a login that read the user before it was disabled opens a session
  afterwards, which is good again once the user is enabled. The store in memory
  keeps the role of the login. `add_member` may overwrite the last owner.
- Assets: with the store in memory two uploads at once give a project two rows
  of one image. A crash leaves temporary files that nobody removes.
- Pages: the page of a task stays at loading when its first request fails, asks
  for a result only once, and, when it is left during its first load, opens a
  stream nobody closes. The browser reconnects a stream the server has ended, so
  a page with a settled task goes on loading. The answer of an old list request
  drops a task created since, or lists one twice. Cancel pressed while the answer
  to the creation is under way leaves two entries of the task, cancelled above
  what it was before. A build request that is refused
  has already cleared the timer of the build shown. Two starts side by side may
  both follow the later build, with two chains for it and none for the other; an
  import in between sets the ref to null and the start throws a `TypeError`, which
  the page shows.

## 7. What is proved

All theorems follow from the named assumptions on the constants of their module
alone, for every value of them: any number of tasks, threads, requests, runs,
versions, containers, restarts and crashes.

| Module | Theorem | Property |
|---|---|---|
| `TaskQueueProofs` | `TypeCorrect`, `LifecycleHolds` | `TypeOK`, `LifecycleInv` (proved only) |
| | `NoOrphans` | `OrphanFree` |
| | `EarlyCancelHolds` | `EarlyCancelNeverCompletes` |
| | `CompletedOnce` | `CompletedWasPredicted` |
| | `SettledRowsStay` | `SettledRowIsOvertakenOnlyByCancel` |
| | `ImplementsContract` | `ContractSpec` |
| | `KeepsPort` | `PortKept` |
| `InstanceManagerProofs` | `InstanceManagerTypeCorrect` | `TypeOK` |
| | `ContainersStayTracked` | `ContainersAreTracked` |
| | `NamesStayApart` | `NamesNeverClash` |
| `WorkflowsProofs` | `WorkflowsTypeCorrect` | `WorkflowsTypeOK` |
| | `ValidationStaysExact` | `ValidationIsExact` |
| | `StartsInOrder` | `NodesRunInOrder` |
| | `CompletesWhole` | `CompletedRunIsWhole` |
| | `KeepsOutcome` | `OutcomeIsKept` |
| | `WorkflowsStayAttended` | `WorkflowIsAttended` |
| `MediaRunsProofs` | `SamplingStaysExact` | `SamplingIsExact` |
| | `MediaRunsTypeCorrect` | `MediaRunsTypeOK` |
| | `CompletedMediaRunsAreWhole` | `CompletedMediaRunIsWhole` |
| | `SettledMediaRunsAreFinal` | `SettledMediaRunIsFinal` |
| | `MediaRunsStayAttended` | `MediaRunIsAttended` |
| `AlgorithmVersionsProofs` | `AlgorithmsTypeCorrect` | `AlgorithmsTypeOK` |
| | `PublishedAlwaysHasDigest` | `PublishedHasDigest` |
| | `DeletedStays` | `DeletedStaysDeleted` (proved only) |
| | `BuildsAlwaysAttended` | `BuildIsAttended` |
| | `RegisteredPackagesStayWhole` | `RegisteredPackageIsWhole` |
| | `ComparisonsStayWhole` | `ComparisonIsWhole` |
| | `SplitStaysExact` | `SplitIsExact` |
| `ClientsProofs` | `TaskReadersTypeCorrect`, `ReadingsAlwaysStand` | `TaskReadersTypeOK`, `ReadingsStand` |
| | `TaskPageTypeCorrect`, `QuietPagesStayRight` | `TaskPageTypeOK`, `QuietPageIsRight`, `LeftPageIsSilent` |
| | `TaskListTypeCorrect`, `QuietListsAreRight` | `TaskListTypeOK`, `QuietListIsRight` |
| | `BuildPageTypeCorrect`, `BuildPageStaysRight` | `BuildPageTypeOK`, `BuildPageIsRight` |
| `ServicesProofs` | `ClusterScalingTypeCorrect` | `ClusterScalingTypeOK` |
| | `PlacementStaysGreedy` | `PlacementIsGreedy` |
| | `RequestGateTypeCorrect` | `RequestGateTypeOK` |
| | `RevokedIsRefused` | `RevokedNeverServes` |
| | `RoleStaysCurrent` | `RoleIsCurrent` (proved only) |
| | `LimiterStaysExact` | `LimiterIsExact` |
| | `AssetsStaySound` | `AssetsAreSound` |
| | `PartsBehaveAsSpecified` | every behaviour of `MCServices` is one of each part's specification |
| | `ServicesTypeCorrect` | `ServicesTypeOK` |
| | `QuietPagesAreAlwaysRight` | `QuietPagesAreRight` |
| | `ServicesStaySafe` | the other invariants and the action properties of the runs `services` and `cluster_pages` |

### Tasks

None of the safety properties is inductive: each speaks of rows, while what
happens next depends on the copy and the phase of threads. `LifecycleInv` is the
strengthening, a conjunction of four parts that are proved one after another:

- `RequestInv`: a cancel request in flight works on a task in the table.
- `RowInv`: what status a row can have in each phase of its thread; in
  particular completed only after the worker's last save, and terminal when the
  thread is done and the store works.
- `PredictInv`: no call before the prediction phase, one behind it, and the
  container is in the worker's copy from there on.
- `EarlyCancelInv`: where an acknowledged cancellation is remembered. Before
  the worker reads the row, it is in the row; behind that, in the worker's copy,
  whose first save then raises, or in the event, which the next check sees;
  `saveCompleted` is out of reach.

For each part there is one lemma for `Init` and one for `[Next]_vars`, with one
step per action; `SaveEffect` says once what the worker's five saves do.
`SettledStep` describes a step of one task and carries `SettledRowsStay` and
both refinements: each step of `TaskQueue` maps to a step of `TaskContract` (the
crash decides several tasks at once when their rows are terminal already) or to
a stutter, and each row moves by `TaskPort`.

### The Algorithm Manager

`Inv` adds two parts to the types and to `ContainersAreTracked`. `CallOK`: what a
call in a phase knows of its instance; a call that is about to delete a record
knows, when Docker works, that the container is gone, and it stays gone, because
a new container gets an id nobody holds. `MonitorOK`: the count of failures
reaches the threshold only for the instance the monitor is about to stop, which
the bound on the counts needs. The steps of calls are brought down to five
lemmas (a call goes on, saves, forgets, changes its container, creates one), each
an instance of `CallMoves`.

That a name is free when a container is created (`NamesStayApart`) rests on the
lock of the version. `NamesInv` adds to `Inv`: a call in a phase between its first
look at the containers and its last record holds the lock, so what it has seen of
them stays true, and a healthy record has its container unless the call that
removed the container is about to delete the record. `LockHolderSees` draws the
conclusion. Like the property, the argument assumes a Docker that works and nobody
who works beside the lock: no outsider removes containers, and neither `remove`
nor `touch` is called.

### Workflows

`WfIInv` is the types, `PlanOK`, `QueueOK`, `Asked` and `Sound`. The argument
is about `completed` (`done`), which a thread only enlarges: it holds only nodes
whose task completed, and it contains the dependencies of every node that was
touched, since a batch is taken from the nodes whose dependencies are in it. A
cancel request can turn a completed task into a cancelled one, which is why the
properties allow that status. A completed row is stored by a thread only, with
`done` the whole graph and its copy of the row the union of all batches.

`WorkflowsStayAttended` adds `Attended`, which says for each phase of a thread
where the tasks it has created are: in the batch it is creating, in its copy of
the run, in the row, or, at the end, recorded unless the run failed or its
cancellation was asked for.

`ValidationStaysExact` is about the loop of `_validate`, a recursive function of
the turn. `PeelingUnfolds` turns it into the growing set of nodes that are gone.
In a graph without a cycle every turn frees a node, so nothing is left after as
many turns as there are nodes; a set of nodes that all wait for one of the set is
never entered. The assumption on `WfSent` says that a list of nodes is finite.

### Media runs

`SamplingStaysExact` is an induction over the positions of the video: the loop
of `extract` is a recursive function, and `NatFacts` supplies the induction over
a set of numbers and the existence of such functions. For the outcomes the
invariant needs a history that the model does not keep: what a frame task has
once shown. `MdInv` quantifies over it: there is an assignment of ok, bad or open
to the frame tasks, consistent with all rows and all refreshes under way, and
never changed once it is ok or bad. Two refreshes that store a verdict therefore
store the same.

### Algorithm versions

Four invariants, one after another. `CopiesOK`: a copy of a version that is
usable has its digest, in requests and in the build thread, and copies of deleted
versions cannot be saved. `BuildsOK`: which phases of the build thread and which
jobs belong together, and who watches a version that shows a build. `PackagesOK`:
the phase of an import says what its directory holds, and two imports of a zip do
not extract at once. `ComparisonsOK`: a request's tasks and what is left to do
make up what was asked for. The first and third except the version of the seed,
which is stored as available without a build.

`SplitStaysExact` needs of the state only the types. The running total of the
weights (`UpToUnfolds`) grows, and only at a candidate (`SumGrows`), so the slots
of a candidate are those from the total before it up to its own
(`RoutedExactly`), and `SlotsOf` counts them.

### Readers and pages

`Told(status, state)`: an outcome that was read is still the task's, or the task
was cancelled since. By `TaskPort` it stays so (`ToldStays`), whoever reads and
however long the answer takes. `TrIInv`, `PgIInv` and `TlIInv` say it of every
answer under way and of everything that is kept or shown. Besides, `TrIInv` says
that a stream that has sent the last save goes on only if it showed no outcome;
`PgIInv` that what an open page lacks is still asked for, or an error is shown;
`TlIInv` when a task can have two entries, and that the upper one is then active
or cancelled, never another outcome. `BpIInv`
is about the one job a build page shows: while it is under way, some chain
follows it, whichever start has begun that chain, or a start is still to begin
one, which clears no timer any more once it has been applied; and a page that says
it is building has a chain or a start that will end the notice.

### Placement and the reconcile loop

`ScIInv` is the types and one fact about the loop: a pass that applies its plan
has nodes left to apply it to.

`ensure_replicas` orders all pairs of a node and a number of replicas by what
would be left of the node's memory and takes the first so many of them.
`PlacementStaysGreedy` shows, for whatever memory the nodes report, that this is
greedy: the order is strict and total (`EarlierOrders`), the set of the first m members of a finite total order has m
members (`FirstAreMany`), the pairs of a node that are taken are an initial piece
of its replicas because more replicas leave less (`LaterHasMore`,
`PrefixIsInterval`), so their number is the number of replicas asked of the node,
the numbers add up (`TotalCounts`), and no node that got a replica would have left
less than any other would have.

### The rate limit

`RlIInv`: the deque is the end of the history of requests that were let through,
what it lacks has expired, the history is sorted, and of RlLimit + 1 requests in
a row the last is a whole window behind the first. `RecentIsTheEnd` says what the
loop of `allow` leaves of the deque. That no window holds more than the limit then
follows by counting: the positions of a window start at one of them and span fewer
than RlLimit + 1.

### Assets and the gate

`AsIInv` says of each phase of an upload which of the temporary file, the file
and the row are there. For the gate it is enough that a revoked session is gone,
that no step brings back a session that is gone, and that only `Admit` puts a
request into a handler.

### The services together

A step of `MCServices` is a step of one part and a stutter of every other
(`OnePartMoves`), so a behaviour of the whole satisfies the specification of every
part, and the invariants and action properties proved of the parts are theorems
of the specification that TLC checks. It is a composition of parts that share no
variable: what one part relies on in another is in its own module (`TaskPort` for
tasks, with `KeepsPort` proved on the side of the tasks).

## 8. What is only model-checked

- Liveness: `EventuallyTerminal`, `LockIsReleased`, `DeadInstanceNoticed`,
  `RunThreadEnds`, `MediaRunSettles`, `ScalerConverges`, `ClientsSettle`. The proof
  system has no rules for fairness and ENABLED that would carry them.
- The properties of the runs that find a violation (section 6) are refuted, so
  there is nothing to prove.

Every invariant and every action property of a passing run is stated by a theorem.

## 9. Fairness

- `TaskQueue!Fairness`: threads that have a step take it (the operating system
  schedules them; each outside call has a timeout), the pool takes a queued
  task when a thread is free, the process ends its drain, is restarted
  (`restart: unless-stopped` in `compose.yaml`) and finishes its recovery. Weak
  fairness is enough because nobody else disables these steps for ever. There is
  no fairness on `Create`, `Retry`, `BeginCancel`, `Crash` or errors.
- `InstanceManager!Fairness`: API threads and the reclaimer proceed, the two
  loops wake up again and again. `DemandSpec` adds callers that ask for the
  version over and over and get the lock in turn; it is used only where it makes
  a violation harder to find.
- `MCServices!Fairness`: run threads, the pool, the reconcile loop, starts,
  streams and requests of the pages proceed; tasks settle, which is
  `TaskQueue!EventuallyTerminal` seen from outside; builds end, since their calls
  have timeouts; the idle time passes; clients that poll go on polling (timers of
  the browser, the reconnect of `EventSource`). There is no fairness on requests
  of users, cancellations, errors, restarts or changes of the environment, the
  memory of the nodes among them, and errors of the pages are bounded.
- The tasks of a workflow settle only while the platform is up
  (`NodeTaskSettles` needs `wfUp`): a task that the shutdown has dropped settles at
  the next start, which a run thread that waits for it may put off.
  `RunThreadEnds` therefore says nothing of a platform that stays in its
  shutdown. `TaskQueue`'s fairness on `Exit` is not that of the code alone there:
  it stands for the runtime of the container, which kills the process after its
  grace period (`docker stop`, `compose.yaml`).

## 10. Not modelled, and why

- Reading operations, request validation, formatting and wrappers have no state
  that actors share. The PostgreSQL and the in-memory repositories are one model
  where they behave alike; where they differ (assets, sessions, recovery of media
  runs) the store in use is part of the state. For the other services a restart
  is one of a platform with PostgreSQL: with the stores in memory it is an
  initial state again.
- The audit log is written and never read by the program; the deployment renderer,
  the SDK, the system API and the template package keep nothing between calls;
  the image builder and the media worker are steps of their callers.
- The route table of the cluster gateway (which node has which instance) needs
  several instances that differ; `ClusterScaling` counts them.
- Errors of the database are modelled for tasks (`FaultyStore`) and for the
  reconcile loop (`PassDies`) only. So an event stream is not cut by one, nor by a
  restart; the browser would reconnect. A traffic change with a weight outside
  0..100 is left out too: what it has saved before it raises is what a change of
  fewer versions saves.
- `RestartMediaRuns` is shutdown, exit and start in one step: `extract` is not
  interrupted, and what is left of it after the shutdown is lost with the process.
- Of the frontend the three places where requests overlap are modelled. The
  other views load once and render, or follow the same pattern as the list.
- Migrations define the schema; the constraints that decide an outcome are part
  of the modules that meet them. Examples and scripts are outside the program.

## 11. Running

Model checking: `tlc -config <run>.cfg <module>` with the module `PROJECT.json`
names for the run. Proofs: `tlapm <module>.tla` for each module whose name ends
in `Proofs`, and for `NatFacts`. The definitions marked
as a seeded fault are used by no specification; each is a plausible bug, and
putting it in the place of the definition it is modelled on makes the run named
in `PROJECT.json` under `mutants` fail, which shows that the property is about
the code.
