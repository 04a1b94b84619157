------------------------------ MODULE TaskQueue ------------------------------
(***************************************************************************)
(* The inference-task component of the platform:                           *)
(*   TaskService      (modules/tasks/application/service.py)               *)
(*   InferenceTask    (modules/tasks/domain/entities.py)                   *)
(*   LocalTaskQueue   (modules/tasks/infrastructure/local_queue.py)        *)
(*   the lifespan of main.py that recovers interrupted tasks and shuts the *)
(*   queue down.                                                           *)
(*                                                                         *)
(* Three kinds of actor share the task table: the thread that creates or   *)
(* retries a task, the pool thread that executes it, and the threads that  *)
(* serve cancel requests.  Each works on a snapshot of the row and writes  *)
(* the whole row back, so a phase below ends wherever the code reads or    *)
(* writes the table or a cancel event.                                     *)
(*                                                                         *)
(* Covered: creation, retry, execution, cancellation, failure of every     *)
(* call, errors of the task store, process death, graceful shutdown and    *)
(* the recovery at startup.  Abstracted: inputs, parameters, timestamps    *)
(* and result payloads.  Not covered here: the algorithm instances (an     *)
(* external call that answers or fails) and the event stream.              *)
(***************************************************************************)
EXTENDS Naturals, Sequences, FiniteSets, TaskPort

CONSTANTS
  Task,         \* task identifiers
  Request,      \* threads that serve cancel requests
  NoTask,       \* retry_of of a task that is no retry
  WorkerCount,  \* settings.task_worker_count, threads of the executor
  MaxRestarts,  \* bound: how often the process goes down
  FaultyStore   \* TRUE: a call to the task store may raise

ASSUME TaskQueueAssumption ==
  /\ NoTask \notin Task
  /\ WorkerCount \in Nat \ {0}
  /\ MaxRestarts \in Nat
  /\ FaultyStore \in BOOLEAN

VARIABLES
  tasks,        \* [Task -> Row]     the task repository
  phase,        \* [Task -> Phase]   where the task's creator or worker is
  local,        \* [Task -> Row]     the `task` variable of that thread
  cancelEvents, \* [Task -> EventState]  _cancel_events
  queue,        \* Seq(Task)         work queue of the ThreadPoolExecutor
  request,      \* [Request -> ...]  progress of TaskService.cancel
  mode,         \* life of the platform process
  restarts,     \* how often the process went down so far
  predictions,  \* history: prediction calls made for each task
  signalled     \* history: when a cancel request returned to its caller,
                \* relative to the last cancellation check of the worker

vars == <<tasks, phase, local, cancelEvents, queue, request, mode, restarts,
          predictions, signalled>>

--------------------------------------------------------------------------
(* Rows of the task table *)

Terminal == {"completed", "failed", "cancelled"}

Active == {"queued", "preparing", "starting", "running"}

Row == [status      : {"absent"} \union Active \union Terminal,
        result      : {"none", "stored"},
        error       : {"none", "raised"},
        cancelledBy : {"nobody", "operator", "system"},
        container   : {"none", "instance"},
        retryOf     : Task \union {NoTask}]

NoRow == [status |-> "absent", result |-> "none", error |-> "none",
          cancelledBy |-> "nobody", container |-> "none", retryOf |-> NoTask]

\* InferenceTask.queued
Queued(origin) == [NoRow EXCEPT !.status = "queued", !.retryOf = origin]

\* InferenceTask.transition: every optional field is replaced by the argument
\* or its default, only the container survives.  The callers below apply it to
\* rows that are not terminal; the ValueError for the others is in Save.
Transition(row, status) ==
  [status |-> status, result |-> "none", error |-> "none",
   cancelledBy |-> "nobody", container |-> row.container,
   retryOf |-> row.retryOf]

Advanced(row, status) ==
  CASE status = "running"   -> [Transition(row, status) EXCEPT !.container = "instance"]
    [] status = "completed" -> [Transition(row, status) EXCEPT !.result = "stored"]
    [] status = "failed"    -> [Transition(row, status) EXCEPT !.error = "raised"]
    [] OTHER                -> Transition(row, status)

Cancelled(row, actor) ==
  [Transition(row, "cancelled") EXCEPT !.cancelledBy = actor]

--------------------------------------------------------------------------
(* Phases of the thread that owns a task *)

CreatorPhase == {"validated", "added", "armed"}

\* Phases of LocalTaskQueue._execute, in the order of its statements; the
\* names say what the thread does next.
WorkerPhase == {"check1", "savePreparing", "lookup", "check2", "saveStarting",
                "startAlgorithm", "check3", "saveRunning", "predict", "touch",
                "check4", "saveCompleted", "abortRead", "abortSave",
                "failRead", "failSave", "finally"}

\* "lost": the row is in the table but no thread of the process works on it.
Phase == {"absent", "queued", "done", "lost"} \union CreatorPhase \union WorkerPhase

EventState == {"absent", "clear", "set"}

Mode == {"up", "draining", "down", "recovering"}

RequestState == [pc : {"idle", "save", "signal"}, task : Task \union {NoTask},
                 snapshot : Row]

IdleRequest == [pc |-> "idle", task |-> NoTask, snapshot |-> NoRow]

Alive == mode \in {"up", "draining"}

Executing == {t \in Task : phase[t] \in WorkerPhase}

Goto(t, p) == phase' = [phase EXCEPT ![t] = p]

Init ==
  /\ tasks = [t \in Task |-> NoRow]
  /\ phase = [t \in Task |-> "absent"]
  /\ local = [t \in Task |-> NoRow]
  /\ cancelEvents = [t \in Task |-> "absent"]
  /\ queue = <<>>
  /\ request = [r \in Request |-> IdleRequest]
  /\ mode = "up"
  /\ restarts = 0
  /\ predictions = [t \in Task |-> 0]
  /\ signalled = [t \in Task |-> "no"]

--------------------------------------------------------------------------
(* TaskService.create_task and TaskService.retry *)

\* The checks of create_task pass and a fresh row is built.  Workflow and media
\* threads create tasks too, also while the process is draining.
Validate(t, origin) ==
  /\ Alive
  /\ phase[t] = "absent"
  /\ local' = [local EXCEPT ![t] = Queued(origin)]
  /\ Goto(t, "validated")
  /\ UNCHANGED <<tasks, cancelEvents, queue, request, mode, restarts,
                 predictions, signalled>>

Create(t) == Validate(t, NoTask)

\* Seeded fault: the retry resets the row of the original.
RetryInPlace(t, origin) ==
  /\ Alive
  /\ tasks[origin].status \in {"failed", "cancelled"}
  /\ tasks' = [tasks EXCEPT ![origin] = Queued(NoTask)]
  /\ UNCHANGED <<phase, local, cancelEvents, queue, request, mode, restarts,
                 predictions, signalled>>

\* retry wants a failed or cancelled original and creates a task of its own.
Retry(t, origin) ==
  /\ tasks[origin].status \in {"failed", "cancelled"}
  /\ Validate(t, origin)

\* self._tasks.add(task): from here on the task is visible to every request.
Add(t) ==
  /\ phase[t] = "validated"
  /\ tasks' = [tasks EXCEPT ![t] = local[t]]
  /\ Goto(t, "added")
  /\ UNCHANGED <<local, cancelEvents, queue, request, mode, restarts,
                 predictions, signalled>>

\* First half of submit: a fresh event replaces whatever was there.
Arm(t) ==
  /\ phase[t] = "added"
  /\ cancelEvents' = [cancelEvents EXCEPT ![t] = "clear"]
  /\ Goto(t, "armed")
  /\ UNCHANGED <<tasks, local, queue, request, mode, restarts, predictions,
                 signalled>>

\* Second half of submit; an executor that was shut down raises instead.
Submit(t) ==
  /\ phase[t] = "armed"
  /\ \/ /\ mode = "up"
        /\ queue' = Append(queue, t)
        /\ Goto(t, "queued")
     \/ /\ mode = "draining"
        /\ queue' = queue
        /\ Goto(t, "lost")
  /\ UNCHANGED <<tasks, local, cancelEvents, request, mode, restarts,
                 predictions, signalled>>

--------------------------------------------------------------------------
(* LocalTaskQueue._execute *)

\* A pool thread takes the oldest future and reads the row.
Start(t) ==
  /\ Alive
  /\ queue # <<>>
  /\ t = Head(queue)
  /\ phase[t] = "queued"
  /\ Cardinality(Executing) < WorkerCount
  /\ queue' = Tail(queue)
  /\ local' = [local EXCEPT ![t] = tasks[t]]
  /\ Goto(t, "check1")
  /\ UNCHANGED <<tasks, cancelEvents, request, mode, restarts, predictions,
                 signalled>>

\* _cancelled reads the event; when it is set it goes on to read the row.
Check(t, from, to) ==
  /\ phase[t] = from
  /\ Goto(t, IF cancelEvents[t] = "set" THEN "abortRead" ELSE to)
  /\ UNCHANGED <<tasks, local, cancelEvents, queue, request, mode, restarts,
                 predictions, signalled>>

\* task = task.transition(status); self._tasks.save(task): the row becomes the
\* thread's copy, whatever was written since that copy was read.  A copy that
\* is terminal makes transition raise, which the thread turns into _fail.
Save(t, from, status, to) ==
  /\ phase[t] = from
  /\ \/ /\ local[t].status \notin Terminal
        /\ local' = [local EXCEPT ![t] = Advanced(local[t], status)]
        /\ tasks' = [tasks EXCEPT ![t] = Advanced(local[t], status)]
        /\ Goto(t, to)
     \/ /\ local[t].status \in Terminal
        /\ Goto(t, "failRead")
        /\ UNCHANGED <<tasks, local>>
  /\ UNCHANGED <<cancelEvents, queue, request, mode, restarts, predictions,
                 signalled>>

\* A call of another component: it answers, or it raises and the task fails.
Call(t, from, to) ==
  /\ phase[t] = from
  /\ \/ Goto(t, to)
     \/ Goto(t, "failRead")
  /\ UNCHANGED <<tasks, local, cancelEvents, queue, request, mode, restarts,
                 signalled>>

\* Seeded fault: the last look at the event is missing.
Check4Skipped(t) ==
  /\ phase[t] = "check4"
  /\ Goto(t, "saveCompleted")
  /\ UNCHANGED <<tasks, local, cancelEvents, queue, request, mode, restarts,
                 predictions, signalled>>

\* Seeded fault: an error of touch repeats the prediction.
TouchRepeatsPredict(t) ==
  /\ phase[t] = "touch"
  /\ Goto(t, "check4") \/ Goto(t, "predict")
  /\ UNCHANGED <<tasks, local, cancelEvents, queue, request, mode, restarts,
                 predictions, signalled>>

Check1(t) == Check(t, "check1", "savePreparing")
SavePreparing(t) == Save(t, "savePreparing", "preparing", "lookup")
Lookup(t) == Call(t, "lookup", "check2") /\ UNCHANGED predictions
Check2(t) == Check(t, "check2", "saveStarting")
SaveStarting(t) == Save(t, "saveStarting", "starting", "startAlgorithm")
StartAlgorithm(t) == Call(t, "startAlgorithm", "check3") /\ UNCHANGED predictions
Check3(t) == Check(t, "check3", "saveRunning")
SaveRunning(t) == Save(t, "saveRunning", "running", "predict")
Predict(t) ==
  /\ Call(t, "predict", "touch")
  /\ predictions' = [predictions EXCEPT ![t] = @ + 1]
Touch(t) == Call(t, "touch", "check4") /\ UNCHANGED predictions
Check4(t) == Check(t, "check4", "saveCompleted")
SaveCompleted(t) == Save(t, "saveCompleted", "completed", "finally")

\* Seeded fault: _cancelled trusts the request to have saved.
AbortWithoutSave(t) ==
  /\ phase[t] = "abortRead"
  /\ Goto(t, "finally")
  /\ UNCHANGED <<tasks, local, cancelEvents, queue, request, mode, restarts,
                 predictions, signalled>>

\* _required_task in _cancelled, and the statuses that need no write.
AbortRead(t) ==
  /\ phase[t] = "abortRead"
  /\ local' = [local EXCEPT ![t] = tasks[t]]
  /\ Goto(t, IF tasks[t].status \in Terminal THEN "finally" ELSE "abortSave")
  /\ UNCHANGED <<tasks, cancelEvents, queue, request, mode, restarts,
                 predictions, signalled>>

AbortSave(t) ==
  /\ phase[t] = "abortSave"
  /\ tasks' = [tasks EXCEPT ![t] = Cancelled(local[t], "system")]
  /\ Goto(t, "finally")
  /\ UNCHANGED <<local, cancelEvents, queue, request, mode, restarts,
                 predictions, signalled>>

\* _fail reads the row again and leaves a terminal one alone.
FailRead(t) ==
  /\ phase[t] = "failRead"
  /\ local' = [local EXCEPT ![t] = tasks[t]]
  /\ Goto(t, IF tasks[t].status \in Terminal THEN "finally" ELSE "failSave")
  /\ UNCHANGED <<tasks, cancelEvents, queue, request, mode, restarts,
                 predictions, signalled>>

FailSave(t) ==
  /\ phase[t] = "failSave"
  /\ tasks' = [tasks EXCEPT ![t] = Advanced(local[t], "failed")]
  /\ Goto(t, "finally")
  /\ UNCHANGED <<local, cancelEvents, queue, request, mode, restarts,
                 predictions, signalled>>

Finally(t) ==
  /\ phase[t] = "finally"
  /\ cancelEvents' = [cancelEvents EXCEPT ![t] = "absent"]
  /\ local' = [local EXCEPT ![t] = NoRow]
  /\ Goto(t, "done")
  /\ UNCHANGED <<tasks, queue, request, mode, restarts, predictions,
                 signalled>>

--------------------------------------------------------------------------
(* Errors raised by the task store *)

\* Inside the try block an error leads to _fail, inside _fail it escapes to
\* finally.  "check1" stands for the read that opens _execute.
StoreFails(t) ==
  /\ FaultyStore
  /\ \/ /\ phase[t] \in {"check1", "savePreparing", "saveStarting",
                         "saveRunning", "saveCompleted", "abortRead", "abortSave"}
        /\ Goto(t, "failRead")
     \/ /\ phase[t] \in {"failRead", "failSave"}
        /\ Goto(t, "finally")
     \/ /\ phase[t] = "validated"
        /\ Goto(t, "absent")
  /\ UNCHANGED <<tasks, local, cancelEvents, queue, request, mode, restarts,
                 predictions, signalled>>

CancelStoreFails(r) ==
  /\ FaultyStore
  /\ request[r].pc = "save"
  /\ request' = [request EXCEPT ![r] = IdleRequest]
  /\ UNCHANGED <<tasks, phase, local, cancelEvents, queue, mode, restarts,
                 predictions, signalled>>

--------------------------------------------------------------------------
(* TaskService.cancel *)

\* get_task and the refusal of a terminal task (409).
BeginCancel(r, t) ==
  /\ mode = "up"
  /\ request[r].pc = "idle"
  /\ tasks[t].status \in Active
  /\ request' = [request EXCEPT ![r] = [pc |-> "save", task |-> t,
                                        snapshot |-> tasks[t]]]
  /\ UNCHANGED <<tasks, phase, local, cancelEvents, queue, mode, restarts,
                 predictions, signalled>>

CancelSave(r) ==
  /\ request[r].pc = "save"
  /\ tasks' = [tasks EXCEPT ![request[r].task] =
                 Cancelled(request[r].snapshot, "operator")]
  /\ request' = [request EXCEPT ![r].pc = "signal"]
  /\ UNCHANGED <<phase, local, cancelEvents, queue, mode, restarts,
                 predictions, signalled>>

\* The worker has left the last point at which it looks at the event.
PastLastCheck(t) ==
  phase[t] \in {"saveCompleted", "failRead", "failSave", "finally", "done", "lost"}

\* queue.cancel: setdefault and set; then the request returns.
CancelSignal(r) ==
  LET t == request[r].task IN
  /\ request[r].pc = "signal"
  /\ cancelEvents' = [cancelEvents EXCEPT ![t] = "set"]
  /\ request' = [request EXCEPT ![r] = IdleRequest]
  /\ signalled' = [signalled EXCEPT ![t] =
       IF @ # "no" THEN @ ELSE IF PastLastCheck(t) THEN "late" ELSE "early"]
  /\ UNCHANGED <<tasks, phase, local, queue, mode, restarts, predictions>>

--------------------------------------------------------------------------
(* The life of the process *)

\* Threads, events and the executor's queue go, the table stays.
AllThreadsDie ==
  /\ phase' = [t \in Task |-> IF phase[t] \in {"absent", "validated"} THEN "absent"
                              ELSE IF phase[t] = "done" THEN "done" ELSE "lost"]
  /\ local' = [t \in Task |-> NoRow]
  /\ cancelEvents' = [t \in Task |-> "absent"]
  /\ queue' = <<>>
  /\ request' = [r \in Request |-> IdleRequest]
  /\ mode' = "down"
  /\ restarts' = restarts + 1
  /\ UNCHANGED <<tasks, predictions, signalled>>

Crash ==
  /\ mode \in {"up", "draining", "recovering"}
  /\ restarts < MaxRestarts
  /\ AllThreadsDie

\* lifespan's finally: shutdown(wait=False, cancel_futures=True).  The server
\* has already waited for the open requests.
Shutdown ==
  /\ mode = "up"
  /\ restarts < MaxRestarts
  /\ \A r \in Request : request[r].pc = "idle"
  /\ mode' = "draining"
  /\ queue' = <<>>
  /\ phase' = [t \in Task |-> IF phase[t] = "queued" THEN "lost" ELSE phase[t]]
  /\ UNCHANGED <<tasks, local, cancelEvents, request, restarts, predictions,
                 signalled>>

\* The interpreter joins the running threads before it exits.
Exit ==
  /\ mode = "draining"
  /\ \A t \in Task : phase[t] \in {"absent", "done", "lost"}
  /\ AllThreadsDie

\* restart: unless-stopped
Restart ==
  /\ mode = "down"
  /\ mode' = "recovering"
  /\ UNCHANGED <<tasks, phase, local, cancelEvents, queue, request, restarts,
                 predictions, signalled>>

\* Seeded fault: every task without a result is interrupted.
RecoverAll(t) ==
  /\ mode = "recovering"
  /\ tasks[t].status \notin {"absent", "completed"}
  /\ tasks' = [tasks EXCEPT ![t] = Advanced(tasks[t], "failed")]
  /\ UNCHANGED <<phase, local, cancelEvents, queue, request, mode, restarts,
                 predictions, signalled>>

\* One turn of the loop over the interrupted tasks at the start of lifespan.
RecoverTask(t) ==
  /\ mode = "recovering"
  /\ tasks[t].status \in Active
  /\ tasks' = [tasks EXCEPT ![t] = Advanced(tasks[t], "failed")]
  /\ UNCHANGED <<phase, local, cancelEvents, queue, request, mode, restarts,
                 predictions, signalled>>

\* An error of the store ends the start; the process is started again.
RecoveryFails ==
  /\ FaultyStore
  /\ mode = "recovering"
  /\ mode' = "down"
  /\ UNCHANGED <<tasks, phase, local, cancelEvents, queue, request, restarts,
                 predictions, signalled>>

\* Seeded fault: only running tasks count as interrupted.
ServeEarly ==
  /\ mode = "recovering"
  /\ \A t \in Task : tasks[t].status # "running"
  /\ mode' = "up"
  /\ UNCHANGED <<tasks, phase, local, cancelEvents, queue, request, restarts,
                 predictions, signalled>>

Serve ==
  /\ mode = "recovering"
  /\ \A t \in Task : tasks[t].status \notin Active
  /\ mode' = "up"
  /\ UNCHANGED <<tasks, phase, local, cancelEvents, queue, request, restarts,
                 predictions, signalled>>

\* Nothing is left to do for the tasks of this model.
Idle ==
  /\ mode = "up"
  /\ \A t \in Task : phase[t] \in {"done", "lost"}
  /\ \A r \in Request : request[r].pc = "idle"
  /\ UNCHANGED vars

--------------------------------------------------------------------------

CreatorStep(t) == Add(t) \/ Arm(t) \/ Submit(t)

WorkerStep(t) ==
  \/ Check1(t) \/ SavePreparing(t) \/ Lookup(t)
  \/ Check2(t) \/ SaveStarting(t) \/ StartAlgorithm(t)
  \/ Check3(t) \/ SaveRunning(t) \/ Predict(t) \/ Touch(t)
  \/ Check4(t) \/ SaveCompleted(t)
  \/ AbortRead(t) \/ AbortSave(t)
  \/ FailRead(t) \/ FailSave(t) \/ Finally(t)

CancelStep(r) == CancelSave(r) \/ CancelSignal(r)

Next ==
  \/ \E t \in Task : \/ Create(t)
                     \/ \E origin \in Task : Retry(t, origin)
                     \/ CreatorStep(t)
                     \/ Start(t)
                     \/ WorkerStep(t)
                     \/ StoreFails(t)
                     \/ RecoverTask(t)
                     \/ \E r \in Request : BeginCancel(r, t)
  \/ \E r \in Request : CancelStep(r) \/ CancelStoreFails(r)
  \/ Crash \/ Shutdown \/ Exit \/ Restart \/ RecoveryFails \/ Serve \/ Idle

Spec == Init /\ [][Next]_vars

\* Threads are scheduled, calls to other components time out, and the
\* container runtime restarts the process.  Nobody has to create, cancel or
\* crash anything.
Fairness ==
  /\ \A t \in Task : WF_vars(CreatorStep(t) \/ WorkerStep(t) \/ RecoverTask(t))
  /\ \A r \in Request : WF_vars(CancelStep(r))
  /\ WF_vars(\E t \in Task : Start(t))
  /\ WF_vars(Exit)
  /\ WF_vars(Restart)
  /\ WF_vars(Serve)

FairSpec == Spec /\ Fairness
--------------------------------------------------------------------------
(* Properties *)

\* Type invariant.
TypeOK ==
  /\ tasks \in [Task -> Row]
  /\ phase \in [Task -> Phase]
  /\ local \in [Task -> Row]
  /\ cancelEvents \in [Task -> EventState]
  /\ queue \in Seq(Task)
  /\ request \in [Request -> RequestState]
  /\ mode \in Mode
  /\ restarts \in Nat
  /\ predictions \in [Task -> Nat]
  /\ signalled \in [Task -> {"no", "early", "late"}]

--------------------------------------------------------------------------
(* The inductive invariant behind the safety properties, one part per idea *)

\* A cancel request in flight works on a task that is in the table.
RequestInv ==
  \A r \in Request : request[r].pc # "idle" =>
    /\ request[r].task \in Task
    /\ phase[request[r].task] \notin {"absent", "validated"}

\* What the row of a task can be in each phase of the thread that owns it.
RowInv(t) ==
  /\ phase[t] \in {"absent", "validated"} <=> tasks[t].status = "absent"
  /\ phase[t] = "validated" => local[t].status = "queued" /\ local[t].result = "none"
  /\ tasks[t].result = "stored" <=> tasks[t].status = "completed"
  /\ tasks[t].status \in {"completed", "failed"} => phase[t] \in {"finally", "done", "lost"}
  /\ ~FaultyStore /\ phase[t] \in {"finally", "done"} => tasks[t].status \in Terminal
  /\ mode = "up" /\ phase[t] = "lost" => tasks[t].status \in Terminal
  /\ mode \in {"down", "recovering"} => phase[t] \in {"absent", "done", "lost"}

BeforePredict == CreatorPhase \union
  {"absent", "queued", "check1", "savePreparing", "lookup", "check2",
   "saveStarting", "startAlgorithm", "check3", "saveRunning", "predict"}

AfterPredict == {"touch", "check4", "saveCompleted"}

\* How often the container was called, and that the thread knows which one.
PredictInv(t) ==
  /\ phase[t] \in BeforePredict => predictions[t] = 0
  /\ phase[t] \in AfterPredict => predictions[t] = 1
  /\ predictions[t] <= 1
  /\ phase[t] \in AfterPredict \union {"predict"} => local[t].container = "instance"
  /\ tasks[t].status = "completed" => predictions[t] = 1 /\ tasks[t].container = "instance"

\* Why an early cancellation holds: before the worker reads the row, the row
\* itself stays cancelled; after that, either the worker's copy is terminal
\* and the first save raises, or the event is set and the next check sees it.
EarlyCancelInv(t) ==
  /\ \A r \in Request :
       request[r].pc = "signal" /\ request[r].task = t
         /\ phase[t] \in {"added", "armed", "queued"}
       => tasks[t].status = "cancelled"
  /\ phase[t] \in {"absent", "validated"} => signalled[t] = "no"
  /\ signalled[t] = "early" =>
       /\ phase[t] \in {"added", "armed", "queued"} => tasks[t].status = "cancelled"
       /\ phase[t] \in {"check1", "savePreparing"} =>
            local[t].status \in Terminal \/ cancelEvents[t] = "set"
       /\ phase[t] \in {"lookup", "check2", "saveStarting", "startAlgorithm",
                        "check3", "saveRunning", "predict", "touch", "check4"} =>
            cancelEvents[t] = "set"
       /\ phase[t] # "saveCompleted"
       /\ tasks[t].status # "completed"

LifecycleInv ==
  /\ RequestInv
  /\ \A t \in Task : RowInv(t) /\ PredictInv(t) /\ EarlyCancelInv(t)

--------------------------------------------------------------------------
\* Somebody still works on the task: its creator, the executor or a worker.
Owned(t) == phase[t] \in {"added", "armed", "queued"} \union WorkerPhase

\* While the platform serves, a task that is shown as active is in somebody's
\* hands: neither a lost cancel race, a failed call, a shutdown nor a restart
\* leaves a row that nobody will ever finish.  (With a store that raises, the
\* write in _fail may be lost and the promise is gone until a restart.)
OrphanFree ==
  ~FaultyStore /\ mode = "up" =>
    \A t \in Task : tasks[t].status \in Active => Owned(t)

\* A cancel request that has returned before the worker's last look at the
\* event is final: the task never completes, although worker and request
\* overwrite each other's rows and submit replaces the event.
EarlyCancelNeverCompletes ==
  \A t \in Task : signalled[t] = "early" => tasks[t].status # "completed"

\* A completed task was run in a container exactly once, and only a completed
\* one shows a result, across restarts, failed calls and cancellations.
CompletedWasPredicted ==
  \A t \in Task :
    /\ predictions[t] <= 1
    /\ tasks[t].status = "completed" => predictions[t] = 1 /\ tasks[t].container = "instance"
    /\ tasks[t].result = "stored" <=> tasks[t].status = "completed"

\* Phases after the last write of the thread that owns the task.
NothingToStore == {"finally", "done", "lost"}

\* Once a task is terminal and its worker is gone, its row changes only by a
\* cancel request that had read the row before.
SettledRowIsOvertakenOnlyByCancel ==
  [][\A t \in Task :
       /\ tasks[t].status \in Terminal
       /\ phase[t] \in {"done", "lost"}
       /\ \A r \in Request : ~(request[r].pc = "save" /\ request[r].task = t)
       => tasks'[t] = tasks[t]]_vars

\* What the component shows of a task: the status counts as decided when no
\* thread can report on the task any more.
outcomeBar ==
  [t \in Task |->
     IF tasks[t].status = "absent" THEN "absent"
     ELSE IF tasks[t].status \in Terminal /\ phase[t] \in {"done", "lost"}
          THEN tasks[t].status
     ELSE "pending"]

Contract == INSTANCE TaskContract WITH outcome <- outcomeBar

\* The component implements its contract.
ContractSpec == Contract!Spec

\* The task as its readers see it: a stored `cancelled` is the last word only
\* when the worker has none any more.
portBar ==
  [t \in Task |->
     CASE tasks[t].status = "absent"                                      -> "absent"
       [] tasks[t].status \in Active                                      -> "active"
       [] tasks[t].status = "cancelled" /\ phase[t] \notin NothingToStore -> "fading"
       [] OTHER                                                           -> tasks[t].status]

\* The component keeps to the view of TaskPort, with which the clients of tasks
\* are modelled: whatever creators, workers, cancel requests, crashes and the
\* recovery do, a reader sees no other move.
PortKept ==
  [][\A t \in Task : portBar'[t] # portBar[t] => <<portBar[t], portBar'[t]>> \in PortMoves]_vars

\* Every task that was created is terminal in the end and stays so.
EventuallyTerminal ==
  \A t \in Task :
    tasks[t].status # "absent" ~> [](tasks[t].status \in Terminal)

\* The claim of InferenceTask.transition that a terminal task has no further
\* transition (it raises ValueError), read as a promise about the stored task.
TerminalIsFinal ==
  [][\A t \in Task : tasks[t].status \in Terminal
       => tasks'[t].status = tasks[t].status]_vars

\* FR-TSK-004: the platform records who cancelled a task.  A cancelled task
\* with an acknowledged cancel request names the user of a request.
OperatorRecorded ==
  \A t \in Task : tasks[t].status = "cancelled" /\ signalled[t] # "no"
                   => tasks[t].cancelledBy = "operator"
=============================================================================
