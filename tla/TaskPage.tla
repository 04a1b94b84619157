------------------------------- MODULE TaskPage -------------------------------
(***************************************************************************)
(* The page of one task in the browser: frontend/src/views/TaskDetailView. *)
(* Calls of load() are started by the mounting of the page, by a timer and *)
(* by events of the stream; they overlap, and their answers come in any    *)
(* order.  The task moves as TaskPort allows.                              *)
(*                                                                         *)
(* External: EventSource, which reconnects when the server ends a stream,  *)
(* and gives up when a connection is refused.                              *)
(***************************************************************************)
EXTENDS Naturals, TaskPort

CONSTANTS
  PgLoad,        \* calls of load() under way at a time
  PgMaxErrors    \* bound: requests that fail

ASSUME TaskPageAssumption == PgMaxErrors \in Nat

VARIABLES
  pgTask,    \* the task, as the server has it
  pgPage,    \* the refs of the page
  pgLoad,    \* [PgLoad -> progress of load()]
  pgErrors

pgVars == <<pgTask, pgPage, pgLoad, pgErrors>>

PgStatus == {"none", "active"} \union TaskSettled

\* task: the status of `task`, none for null; early: history, the page was left
\* while its first load was under way.
PgPageType ==
  [state : {"unopened", "open", "left"}, task : PgStatus, result : BOOLEAN, error : BOOLEAN,
   subscribed : BOOLEAN, early : BOOLEAN]

\* mount: the call onMounted waits for; status: what the answer says.
PgLoadType ==
  [pc : {"idle", "asked", "answered", "askedResult", "answeredResult"}, status : PgStatus, mount : BOOLEAN]

TaskPageTypeOK ==
  /\ pgTask \in TaskState
  /\ pgPage \in PgPageType
  /\ pgLoad \in [PgLoad -> PgLoadType]
  /\ pgErrors \in 0..PgMaxErrors

NotLoading == [pc |-> "idle", status |-> "none", mount |-> FALSE]

PgInit ==
  /\ pgTask = "active"
  /\ pgPage = [state |-> "unopened", task |-> "none", result |-> FALSE, error |-> FALSE,
               subscribed |-> FALSE, early |-> FALSE]
  /\ pgLoad = [l \in PgLoad |-> NotLoading]
  /\ pgErrors = 0

--------------------------------------------------------------------------
(* load() *)

\* A call begins with its first request; the page is left as page.
StartLoad(l, page, mount) ==
  /\ pgLoad[l] = NotLoading
  /\ pgLoad' = [pgLoad EXCEPT ![l].pc = "asked", ![l].mount = mount]
  /\ pgPage' = page
  /\ UNCHANGED <<pgTask, pgErrors>>

OpenPage(l) ==
  /\ pgPage.state = "unopened"
  /\ StartLoad(l, [pgPage EXCEPT !.state = "open"], TRUE)

Polls == pgPage.task = "active"

PollPage(l) == pgPage.state = "open" /\ Polls /\ StartLoad(l, pgPage, FALSE)

\* The stream tells of every save, and of the task after each reconnection.
StreamEvent(l) == pgPage.subscribed /\ StartLoad(l, pgPage, FALSE)

\* The server answers a request.
ServePage(l) ==
  /\ \/ pgLoad[l].pc = "asked" /\ pgLoad' = [pgLoad EXCEPT ![l].pc = "answered", ![l].status = Shown(pgTask)]
     \/ /\ pgLoad[l].pc = "askedResult"
        /\ pgLoad' = [pgLoad EXCEPT ![l].pc = "answeredResult", ![l].status = Shown(pgTask)]
  /\ UNCHANGED <<pgTask, pgPage, pgErrors>>

\* The call is over, with the page as page; onMounted goes on and subscribes,
\* whether the page is still there or not.
EndLoad(l, page) ==
  /\ pgLoad' = [pgLoad EXCEPT ![l] = NotLoading]
  /\ pgPage' = [page EXCEPT !.subscribed = @ \/ (pgLoad[l].mount /\ page.task = "active")]
  /\ UNCHANGED pgTask

\* Seeded fault: the result is looked for by the first call only.
ApplyTaskOnce(l) ==
  LET status == pgLoad[l].status  page == [pgPage EXCEPT !.task = status] IN
  /\ pgLoad[l].pc = "answered"
  /\ IF status = "completed" /\ pgLoad[l].mount
     THEN /\ pgLoad' = [pgLoad EXCEPT ![l].pc = "askedResult"]
          /\ pgPage' = page /\ UNCHANGED pgTask
     ELSE EndLoad(l, page)
  /\ UNCHANGED pgErrors

\* `task` is replaced; a completed one has a result to ask for.
ApplyTask(l) ==
  LET status == pgLoad[l].status  page == [pgPage EXCEPT !.task = status] IN
  /\ pgLoad[l].pc = "answered"
  /\ \/ /\ status = "completed"
        /\ pgLoad' = [pgLoad EXCEPT ![l].pc = "askedResult"]
        /\ pgPage' = page /\ UNCHANGED pgTask
     \/ status # "completed" /\ EndLoad(l, page)
  /\ UNCHANGED pgErrors

\* The server refuses the result of a task that is not completed any more.
ApplyResult(l) ==
  LET there == pgLoad[l].status = "completed" IN
  /\ pgLoad[l].pc = "answeredResult"
  /\ EndLoad(l, [pgPage EXCEPT !.result = @ \/ there, !.error = @ \/ ~there])
  /\ UNCHANGED pgErrors

\* A request fails on its way.
LoadFails(l) ==
  /\ pgLoad[l].pc # "idle" /\ pgErrors < PgMaxErrors
  /\ pgErrors' = pgErrors + 1
  /\ EndLoad(l, [pgPage EXCEPT !.error = TRUE])

LoadSteps(l) == ServePage(l) \/ ApplyTask(l) \/ ApplyResult(l)

--------------------------------------------------------------------------
StreamBreaks ==
  /\ pgPage.subscribed /\ pgErrors < PgMaxErrors
  /\ pgErrors' = pgErrors + 1
  /\ pgPage' = [pgPage EXCEPT !.subscribed = FALSE]
  /\ UNCHANGED <<pgTask, pgLoad>>

\* onUnmounted
LeavePage ==
  /\ pgPage.state = "open"
  /\ pgPage' = [pgPage EXCEPT !.state = "left", !.subscribed = FALSE,
                              !.early = \E l \in PgLoad : pgLoad[l].mount]
  /\ UNCHANGED <<pgTask, pgLoad, pgErrors>>

PageTaskMoves ==
  /\ \E s \in TaskState : <<pgTask, s>> \in PortMoves /\ pgTask' = s
  /\ UNCHANGED <<pgPage, pgLoad, pgErrors>>

PgNext ==
  \/ \E l \in PgLoad : OpenPage(l) \/ PollPage(l) \/ StreamEvent(l) \/ LoadSteps(l) \/ LoadFails(l)
  \/ StreamBreaks
  \/ LeavePage
  \/ PageTaskMoves

PgQuiet == \A l \in PgLoad : pgLoad[l] = NotLoading

PgIdle == PgQuiet /\ pgTask \in TaskSettled /\ pgPage.state # "unopened" /\ UNCHANGED pgVars

PgSpec == PgInit /\ [][PgNext \/ PgIdle]_pgVars

\* The timer fires and the stream reconnects; a task settles (TaskQueue).
PageAsks == \E l \in PgLoad : PollPage(l) \/ StreamEvent(l)

PageTaskSettles == PageTaskMoves /\ pgTask \in TaskUnsettled /\ pgTask' \in TaskSettled

--------------------------------------------------------------------------
\* A page that has stopped asking shows the outcome of its task, contradicted
\* by nothing but a cancellation, and the result of a completed one; what it
\* lacks it reports as an error.
QuietPageIsRight ==
  LET now == Shown(pgTask) IN
  pgPage.state = "open" /\ PgQuiet /\ ~pgPage.subscribed /\ pgPage.task # "active" =>
    /\ pgPage.task # "none" => pgPage.task = now \/ "cancelled" \in {pgPage.task, now}
    /\ pgPage.task = "none" => pgPage.error
    /\ pgPage.task = "completed" => pgPage.result \/ pgPage.error

\* An open page catches up with its task again and again, while it has its
\* stream also with a settled one that changes; overtaken answers only delay it.
PageCatchesUp ==
  []<>(pgPage.state = "open" =>
         \/ pgPage.task = Shown(pgTask)
         \/ ~pgPage.subscribed /\ pgPage.task # "active")

\* A page that was left keeps a stream open only if it was left during its
\* first load.
LeftPageIsSilent == pgPage.state = "left" /\ pgPage.subscribed => pgPage.early
=============================================================================
