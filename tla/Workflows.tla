------------------------------ MODULE Workflows ------------------------------
(***************************************************************************)
(* Workflow runs: modules/workflows/service.py and the handlers that call  *)
(* it.  A pool thread walks the graph of a run and creates an inference    *)
(* task per node; cancel requests work on a copy of the run they read      *)
(* before; both write the whole row back.  A phase ends wherever the code  *)
(* reads or writes the run table, the event of the run or a task.          *)
(*                                                                         *)
(* Covered: creation with validation, start, execution, failure of         *)
(* create_task, cancellation with its partial failure, shutdown, process   *)
(* death and the recovery at startup.  Abstracted: parameters, assets,     *)
(* projects, timestamps.  Not covered: errors of the database.             *)
(***************************************************************************)
EXTENDS Naturals, Sequences, FiniteSets, WorkflowPlan, TaskPort

CONSTANTS
  WfRun,          \* run identifiers
  WfRequest,      \* threads that serve cancel requests, each serves one
  WfNode,         \* nodes a workflow may have: 1..n
  WfSent,         \* workflows that clients send: [depends, mode]
  WfWorkers,      \* max_workers of the executor (2 in the code)
  WfMaxTasks,     \* bound: node tasks of the runs that are started
  WfMaxRestarts   \* bound: how often the process goes down

ASSUME WorkflowsAssumption ==
  /\ WfRun # {}
  /\ WfNode \subseteq Nat
  /\ WfWorkers \in Nat \ {0}
  /\ WfMaxTasks \in Nat
  /\ WfMaxRestarts \in Nat
  /\ \A plan \in WfSent : /\ DOMAIN plan.depends \subseteq WfNode /\ IsFiniteSet(DOMAIN plan.depends)
                          /\ plan.mode \in {"sequential", "parallel"}

VARIABLES
  wfPlan,     \* the stored workflow, <<>> while there is none
  wfRow,      \* [WfRun -> WfRowType]     table of runs
  wfThread,   \* [WfRun -> WfThreadType]  _execute of the run
  wfQueue,    \* work queue of the executor
  wfEvent,    \* [WfRun -> state of the run's entry in _cancel_events]
  wfTask,     \* [WfRun -> [WfNode -> TaskState]]  the task of each node
  wfRequest,  \* [WfRequest -> progress of cancel]
  wfUp,       \* FALSE between shutdown and the next start
  wfRestarts

wfVars == <<wfPlan, wfRow, wfThread, wfQueue, wfEvent, wfTask, wfRequest, wfUp, wfRestarts>>

WfSettled == {"completed", "failed", "cancelled"}

WfRowType == [status : {"absent", "queued", "running"} \union WfSettled, tasks : SUBSET WfNode]

NoRun == [status |-> "absent", tasks |-> {}]

\* Phases of _execute by what the thread does next; "lost" has no thread.
WfWorking == {"load", "markRunning", "look", "create", "record", "poll", "scan", "finish", "fail"}

\* local: the variable `run`; done: `completed`; batch: keys of `node_tasks`;
\* todo: what is left of the loop over the batch; seen: `terminal`.
WfThreadType ==
  [pc : {"absent", "inserted", "queued", "done", "lost"} \union WfWorking,
   local : WfRowType, done : SUBSET WfNode, batch : SUBSET WfNode,
   todo : SUBSET WfNode, seen : SUBSET WfNode]

NoThreadYet == [pc |-> "absent", local |-> NoRun, done |-> {}, batch |-> {}, todo |-> {}, seen |-> {}]

WfRequestType ==
  [pc : {"unused", "signal", "look", "confirm", "overwrite", "store", "stored", "refused", "lost"},
   run : WfRun, snapshot : WfRowType, todo : SUBSET WfNode]

WorkflowsTypeOK ==
  /\ wfRow \in [WfRun -> WfRowType]
  /\ wfThread \in [WfRun -> WfThreadType]
  /\ wfEvent \in [WfRun -> {"absent", "clear", "set"}]
  /\ wfTask \in [WfRun -> [WfNode -> TaskState]]
  /\ wfRequest \in [WfRequest -> WfRequestType]
  /\ wfQueue \in Seq(WfRun)
  /\ wfUp \in BOOLEAN
  /\ wfRestarts \in 0..WfMaxRestarts

WfInit ==
  /\ wfPlan = <<>>
  /\ wfRow = [r \in WfRun |-> NoRun]
  /\ wfThread = [r \in WfRun |-> NoThreadYet]
  /\ wfQueue = <<>>
  /\ wfEvent = [r \in WfRun |-> "absent"]
  /\ wfTask = [r \in WfRun |-> [n \in WfNode |-> "absent"]]
  /\ wfRequest = [q \in WfRequest |-> [pc |-> "unused", run |-> CHOOSE r \in WfRun : TRUE,
                                       snapshot |-> NoRun, todo |-> {}]]
  /\ wfUp = TRUE
  /\ wfRestarts = 0

--------------------------------------------------------------------------
(* create and start *)

\* POST /workflows
CreateWorkflow(plan) ==
  /\ wfUp /\ wfPlan = <<>>
  /\ Accepts(plan.depends)
  /\ wfPlan' = plan
  /\ UNCHANGED <<wfRow, wfThread, wfQueue, wfEvent, wfTask, wfRequest, wfUp, wfRestarts>>

WfNodes == DOMAIN wfPlan.depends

\* start stores the run: from here on it is in the list and can be cancelled.
InsertRun(r) ==
  /\ wfUp /\ wfPlan # <<>> /\ wfRow[r] = NoRun
  /\ Cardinality({o \in WfRun : wfRow[o] # NoRun} \union {r}) * Cardinality(WfNodes) <= WfMaxTasks
  /\ wfRow' = [wfRow EXCEPT ![r].status = "queued"]
  /\ wfThread' = [wfThread EXCEPT ![r].pc = "inserted"]
  /\ UNCHANGED <<wfPlan, wfQueue, wfEvent, wfTask, wfRequest, wfUp, wfRestarts>>

\* start replaces whatever event the run has and hands it to the executor.
SubmitRun(r) ==
  /\ wfUp /\ wfThread[r].pc = "inserted"
  /\ wfEvent' = [wfEvent EXCEPT ![r] = "clear"]
  /\ wfQueue' = Append(wfQueue, r)
  /\ wfThread' = [wfThread EXCEPT ![r].pc = "queued"]
  /\ UNCHANGED <<wfPlan, wfRow, wfTask, wfRequest, wfUp, wfRestarts>>

--------------------------------------------------------------------------
(* _execute *)

WfBusy == {r \in WfRun : wfThread[r].pc \in WfWorking}

\* A thread of the pool takes the first run of the queue.
TakeRun ==
  /\ wfQueue # <<>> /\ Cardinality(WfBusy) < WfWorkers
  /\ wfThread' = [wfThread EXCEPT ![Head(wfQueue)].pc = "load"]
  /\ wfQueue' = Tail(wfQueue)
  /\ UNCHANGED <<wfPlan, wfRow, wfEvent, wfTask, wfRequest, wfUp, wfRestarts>>

\* The thread of r is at pc, goes on as t and stores row; what _execute does
\* besides is the creation of tasks.
ThreadStep(r, pc, t, row) ==
  /\ wfThread[r].pc = pc
  /\ wfThread' = [wfThread EXCEPT ![r] = t]
  /\ wfRow' = [wfRow EXCEPT ![r] = row]
  /\ UNCHANGED <<wfPlan, wfQueue, wfEvent, wfRequest, wfUp, wfRestarts>>

LoadRun(r) ==
  /\ ThreadStep(r, "load", [wfThread[r] EXCEPT !.pc = "markRunning", !.local = wfRow[r]], wfRow[r])
  /\ UNCHANGED wfTask

\* _update_run: the copy gets a status and is stored over the whole row.
Updated(run, status) == [run EXCEPT !.status = status]

MarkRunning(r) ==
  LET running == Updated(wfThread[r].local, "running") IN
  /\ ThreadStep(r, "markRunning", [wfThread[r] EXCEPT !.pc = "look", !.local = running], running)
  /\ UNCHANGED wfTask

\* The head of `while pending`: all done, cancelled, or a next batch.
LookForNodes(r) ==
  LET t == wfThread[r]
      next == NextNodes(wfPlan.depends, wfPlan.mode, WfNodes \ t.done, t.done)
      After(pc) == ThreadStep(r, "look", [t EXCEPT !.pc = pc], wfRow[r])
  IN
  /\ t.pc = "look"
  /\ \/ t.done = WfNodes /\ After("finish")
     \/ t.done # WfNodes /\ wfEvent[r] = "set" /\ After("done")
     \/ /\ t.done # WfNodes /\ wfEvent[r] # "set"
        /\ ThreadStep(r, "look",
             [t EXCEPT !.pc = "create", !.batch = next, !.todo = next, !.seen = {}], wfRow[r])
  /\ UNCHANGED wfTask

\* create_task for the next node of the batch.
CreateNodeTask(r) ==
  LET t == wfThread[r]  n == FirstOf(t.todo)  left == t.todo \ {n} IN
  /\ t.todo # {}
  /\ wfTask' = [wfTask EXCEPT ![r][n] = "active"]
  /\ ThreadStep(r, "create",
       [t EXCEPT !.todo = left, !.pc = IF left = {} THEN "record" ELSE "create"], wfRow[r])

\* It raises: the version or the asset is not there or not available any more.
NodeTaskRefused(r) ==
  /\ ThreadStep(r, "create", [wfThread[r] EXCEPT !.pc = "fail"], wfRow[r])
  /\ UNCHANGED wfTask

\* Seeded fault: the tasks of earlier batches are replaced, not kept.
RecordOnlyBatch(r) ==
  LET t == wfThread[r]
      run == [t.local EXCEPT !.tasks = t.batch]
  IN
  /\ ThreadStep(r, "record", [t EXCEPT !.pc = "poll", !.local = run], run)
  /\ UNCHANGED wfTask

RecordBatch(r) ==
  LET t == wfThread[r]
      run == [t.local EXCEPT !.tasks = @ \union t.batch]
  IN
  /\ ThreadStep(r, "record", [t EXCEPT !.pc = "poll", !.local = run], run)
  /\ UNCHANGED wfTask

\* The head of a turn of the polling loop.
PollBatch(r) ==
  LET t == wfThread[r] IN
  /\ ThreadStep(r, "poll",
       IF wfEvent[r] = "set" THEN [t EXCEPT !.pc = "done"]
       ELSE [t EXCEPT !.pc = "scan", !.todo = t.batch], wfRow[r])
  /\ UNCHANGED wfTask

\* The next task of the turn is read; after the last one the batch is through,
\* or the thread sleeps and polls again.
ScanWith(r, failing) ==
  LET t == wfThread[r]
      n == FirstOf(t.todo)
      status == Shown(wfTask[r][n])
      left == t.todo \ {n}
      seen == IF status = "completed" THEN t.seen \union {n} ELSE t.seen
      through == [t EXCEPT !.todo = left, !.seen = seen]
      After(next) == ThreadStep(r, "scan", next, wfRow[r])
  IN
  /\ t.pc = "scan"
  /\ \/ status \in failing /\ After([t EXCEPT !.pc = "fail"])
     \/ status \notin failing /\ left # {} /\ After(through)
     \/ status \notin failing /\ left = {} /\ seen # t.batch /\ After([through EXCEPT !.pc = "poll"])
     \/ /\ status \notin failing /\ left = {} /\ seen = t.batch
        /\ After([through EXCEPT !.pc = "look", !.done = @ \union t.batch])
  /\ UNCHANGED wfTask

\* Seeded fault: a cancelled node task is not taken for a failure.
ScanFailedOnly(r) == ScanWith(r, {"failed"})

ScanTask(r) == ScanWith(r, {"failed", "cancelled"})

\* The last save: COMPLETED, or FAILED in the except clause.
StoreOutcome(r) ==
  LET t == wfThread[r] IN
  /\ \/ ThreadStep(r, "finish", [t EXCEPT !.pc = "done"], Updated(t.local, "completed"))
     \/ ThreadStep(r, "fail", [t EXCEPT !.pc = "done"], Updated(t.local, "failed"))
  /\ UNCHANGED wfTask

WfThreadSteps(r) ==
  \/ LoadRun(r) \/ MarkRunning(r) \/ LookForNodes(r) \/ CreateNodeTask(r) \/ NodeTaskRefused(r)
  \/ RecordBatch(r) \/ PollBatch(r) \/ ScanTask(r) \/ StoreOutcome(r)

--------------------------------------------------------------------------
(* cancel *)

\* Request q works on: its progress and the row, the event and the task it
\* leaves behind.
RequestStep(q, pc, next) ==
  /\ wfUp
  /\ wfRequest[q].pc = pc
  /\ wfRequest' = [wfRequest EXCEPT ![q] = next]
  /\ UNCHANGED <<wfPlan, wfThread, wfQueue, wfUp, wfRestarts>>

\* POST /workflows/runs/{id}/cancel: the run is read, whatever its status.
AskCancel(q, r) ==
  /\ wfRow[r] # NoRun
  /\ RequestStep(q, "unused",
       [wfRequest[q] EXCEPT !.pc = "signal", !.run = r, !.snapshot = wfRow[r], !.todo = wfRow[r].tasks])
  /\ UNCHANGED <<wfRow, wfEvent, wfTask>>

NextOfRequest(req) == IF req.todo = {} THEN "store" ELSE "look"

SetEvent(q) ==
  LET req == wfRequest[q] IN
  /\ RequestStep(q, "signal", [req EXCEPT !.pc = NextOfRequest(req)])
  /\ wfEvent' = [wfEvent EXCEPT ![req.run] = "set"]
  /\ UNCHANGED <<wfRow, wfTask>>

\* The loop over the node tasks of the copy: a settled task is left alone.
LookAtTask(q) ==
  LET req == wfRequest[q]
      n == FirstOf(req.todo)
      skipped == [req EXCEPT !.todo = req.todo \ {n}]
  IN
  /\ RequestStep(q, "look",
       IF Shown(wfTask[req.run][n]) \in TaskSettled
       THEN [skipped EXCEPT !.pc = NextOfRequest(skipped)]
       ELSE [req EXCEPT !.pc = "confirm"])
  /\ UNCHANGED <<wfRow, wfEvent, wfTask>>

\* TaskService.cancel reads the task again: 409 when it has settled meanwhile,
\* and the request ends there.
ConfirmTask(q) ==
  LET req == wfRequest[q]  status == Shown(wfTask[req.run][FirstOf(req.todo)]) IN
  /\ RequestStep(q, "confirm",
       [req EXCEPT !.pc = IF status \in TaskSettled THEN "refused" ELSE "overwrite"])
  /\ UNCHANGED <<wfRow, wfEvent, wfTask>>

CancelNodeTask(q) ==
  LET req == wfRequest[q]
      n == FirstOf(req.todo)
      left == [req EXCEPT !.todo = req.todo \ {n}]
  IN
  /\ RequestStep(q, "overwrite", [left EXCEPT !.pc = NextOfRequest(left)])
  /\ wfTask' = [wfTask EXCEPT ![req.run][n] = AfterCancel(@)]
  /\ UNCHANGED <<wfRow, wfEvent>>

\* The copy read at the start of the request is stored as cancelled.
StoreCancelled(q) ==
  LET req == wfRequest[q] IN
  /\ RequestStep(q, "store", [req EXCEPT !.pc = "stored"])
  /\ wfRow' = [wfRow EXCEPT ![req.run] = Updated(req.snapshot, "cancelled")]
  /\ UNCHANGED <<wfEvent, wfTask>>

WfRequestSteps(q) ==
  SetEvent(q) \/ LookAtTask(q) \/ ConfirmTask(q) \/ CancelNodeTask(q) \/ StoreCancelled(q)

--------------------------------------------------------------------------
(* The task component, and the life of the process *)

NodeTaskMoves(r, n) ==
  /\ \E s \in TaskState : /\ <<wfTask[r][n], s>> \in WorkerMoves
                          /\ wfTask' = [wfTask EXCEPT ![r][n] = s]
  /\ UNCHANGED <<wfPlan, wfRow, wfThread, wfQueue, wfEvent, wfRequest, wfUp, wfRestarts>>

\* shutdown: queued runs are dropped, running threads go on.
ShutdownWorkflows ==
  /\ wfUp /\ wfRestarts < WfMaxRestarts
  /\ \A r \in WfRun : wfThread[r].pc # "inserted"
  /\ \A q \in WfRequest : wfRequest[q].pc \in {"unused", "stored", "refused", "lost"}
  /\ wfUp' = FALSE
  /\ wfQueue' = <<>>
  /\ wfThread' = [r \in WfRun |-> IF wfThread[r].pc = "queued"
                                  THEN [wfThread[r] EXCEPT !.pc = "lost"] ELSE wfThread[r]]
  /\ UNCHANGED <<wfPlan, wfRow, wfEvent, wfTask, wfRequest, wfRestarts>>

\* Seeded faults: a queued run is left as it is, a completed one is failed.
InterruptedRunning(status) == status = "running"
InterruptedUncancelled(status) == status \in {"queued", "running", "completed"}

\* recover_incomplete: the runs the start of the platform finds interrupted.
Interrupted(status) == status \in {"queued", "running"}

\* The process dies, in any state, and starts again: threads and events are
\* gone, tasks and then runs are recovered before the first request.
RestartWorkflows ==
  /\ wfRestarts < WfMaxRestarts
  /\ wfRestarts' = wfRestarts + 1
  /\ wfUp' = TRUE
  /\ wfQueue' = <<>>
  /\ wfEvent' = [r \in WfRun |-> "absent"]
  /\ wfTask' = [r \in WfRun |-> [n \in WfNode |-> AfterRestart(wfTask[r][n])]]
  /\ wfRow' = [r \in WfRun |-> IF Interrupted(wfRow[r].status) THEN Updated(wfRow[r], "failed")
                               ELSE wfRow[r]]
  /\ wfThread' = [r \in WfRun |-> IF wfThread[r].pc \in {"absent", "done"} THEN wfThread[r]
                                  ELSE [wfThread[r] EXCEPT !.pc = "lost"]]
  /\ wfRequest' = [q \in WfRequest |-> IF wfRequest[q].pc \in {"unused", "stored", "refused"}
                                       THEN wfRequest[q] ELSE [wfRequest[q] EXCEPT !.pc = "lost"]]
  /\ UNCHANGED wfPlan

WfNext ==
  \/ \E plan \in WfSent : CreateWorkflow(plan)
  \/ \E r \in WfRun : InsertRun(r) \/ SubmitRun(r) \/ WfThreadSteps(r)
  \/ TakeRun
  \/ \E q \in WfRequest : WfRequestSteps(q) \/ \E r \in WfRun : AskCancel(q, r)
  \/ \E r \in WfRun, n \in WfNode : NodeTaskMoves(r, n)
  \/ ShutdownWorkflows
  \/ RestartWorkflows

\* Nothing is left to do but to wait for a client.
WfQuiet ==
  /\ \A r \in WfRun : wfThread[r].pc \in {"absent", "done", "lost"}
  /\ \A q \in WfRequest : wfRequest[q].pc \in {"unused", "stored", "refused", "lost"}

WfIdle == WfQuiet /\ UNCHANGED wfVars

WfSpec == WfInit /\ [][WfNext \/ WfIdle]_wfVars

\* Scheduling of the threads, and what TaskQueue!EventuallyTerminal promises as
\* long as the platform is up (after shutdown, queued tasks are dropped).
WfThreadRuns(r) == SubmitRun(r) \/ WfThreadSteps(r)

NodeTaskSettles(r, n) == wfUp /\ NodeTaskMoves(r, n) /\ wfTask'[r][n] \in TaskSettled

--------------------------------------------------------------------------
\* _validate accepts exactly the graphs of 1 to 32 nodes in which every set of
\* nodes has one that depends on none of the others in it: no cycle.
WellFounded(depends) ==
  \A S \in SUBSET DOMAIN depends : S # {} => \E i \in S : depends[i] \intersect S = {}

ValidationIsExact == wfPlan = <<>> =>
  \A depends \in {plan.depends : plan \in WfSent} :
    Accepts(depends) <=>
      /\ Cardinality(DOMAIN depends) \in 1..MaxNodes
      /\ \A i \in DOMAIN depends : depends[i] \subseteq DOMAIN depends
      /\ WellFounded(depends)

\* A node is started only when every node it depends on has completed (a cancel
\* request under way may have overtaken the result since), in both modes, also
\* when other nodes fail or are cancelled meanwhile.
NodesRunInOrder ==
  \A r \in WfRun : \A n \in WfNode :
    wfTask[r][n] # "absent" =>
      \A d \in wfPlan.depends[n] : wfTask[r][d] \in {"completed", "cancelled"}

\* A run that shows COMPLETED lists a task for every node, and each of them did
\* complete.
CompletedRunIsWhole ==
  \A r \in WfRun : wfRow[r].status = "completed" =>
    /\ wfRow[r].tasks = WfNodes
    /\ \A n \in WfNodes : wfTask[r][n] \in {"completed", "cancelled"}

\* The outcome a thread has stored changes only into CANCELLED, by a request.
OutcomeIsKept ==
  [][\A r \in WfRun :
       wfRow[r].status \in {"completed", "failed"} /\ wfThread[r].pc \in {"done", "lost"}
       => wfRow'[r] = wfRow[r] \/ wfRow'[r].status = "cancelled"]_wfVars

\* A run that shows queued or running is in somebody's hands, also after a
\* restart; the exception is a run whose cancellation was asked for: its thread
\* leaves without a word, and the request may be refused half way or have been
\* overwritten by the thread's first save.
WfShownRunIsAlive ==
  \A r \in WfRun : wfRow[r].status \in {"queued", "running"} /\ wfUp =>
    \/ wfThread[r].pc \in {"inserted", "queued"} \union WfWorking
    \/ wfEvent[r] = "set"

\* A node task runs outside its run's row only while it is being recorded,
\* after create_task failed for a later node, or after a cancellation.
WfTaskIsRecorded ==
  \A r \in WfRun : \A n \in WfNode :
    wfTask[r][n] = "active" /\ n \notin wfRow[r].tasks =>
      \/ wfThread[r].pc \in {"create", "record", "fail"}
      \/ wfRow[r].status \in {"failed", "cancelled"}
      \/ wfEvent[r] = "set"

\* So no run and no node task is left alone without a reason a client can see.
WorkflowIsAttended == WfShownRunIsAlive /\ WfTaskIsRecorded

\* The pool is never used up: again and again every run that was handed in has
\* got its thread and left it, whatever happens to its tasks and requests.  The
\* exception is a platform that stays in its shutdown: tasks that it dropped from
\* the queue settle at the next start only, and a thread that waits for one keeps
\* the process from ending by itself.
RunThreadEnds ==
  <>[]~wfUp \/ []<>(\A r \in WfRun : wfThread[r].pc \in {"absent", "done", "lost"})
=============================================================================
