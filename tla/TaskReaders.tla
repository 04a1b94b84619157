----------------------------- MODULE TaskReaders -----------------------------
(***************************************************************************)
(* The clients of a task that only read it: the event stream               *)
(* (modules/tasks/api/events.py) and the archive of results (archive in    *)
(* modules/tasks/api/router.py).  Both read again and again while workers  *)
(* and cancel requests go on writing.  A task moves as TaskPort allows;    *)
(* its updated_at is the number of its saves.                              *)
(***************************************************************************)
EXTENDS Naturals, FiniteSets, TaskPort

CONSTANTS
  TrTask,
  TrStream,     \* event streams, each of one connection
  TrArchive,    \* requests for an archive
  TrMaxSaves    \* bound: saves of a task

ASSUME TaskReadersAssumption == TrTask # {} /\ TrMaxSaves \in Nat \ {0}

VARIABLES
  trTask,      \* [TrTask -> [state : TaskState, saves]]
  trStream,    \* [TrStream -> progress]
  trArchive    \* [TrArchive -> progress]

trVars == <<trTask, trStream, trArchive>>

\* last: last_updated, 0 for None; sent: the status of the last event.
TrStreamType ==
  [pc : {"unused", "read", "closed"}, task : TrTask, last : 0..TrMaxSaves,
   sent : {"none", "active"} \union TaskSettled]

TrArchiveType ==
  [pc : {"unused", "read", "done", "refused"}, asked : SUBSET TrTask, todo : SUBSET TrTask,
   files : SUBSET TrTask]

TaskReadersTypeOK ==
  /\ trTask \in [TrTask -> [state : TaskState, saves : 0..TrMaxSaves]]
  /\ trStream \in [TrStream -> TrStreamType]
  /\ trArchive \in [TrArchive -> TrArchiveType]

TrInit ==
  /\ trTask = [t \in TrTask |-> [state |-> "absent", saves |-> 0]]
  /\ trStream = [s \in TrStream |-> [pc |-> "unused", task |-> CHOOSE t \in TrTask : TRUE,
                                     last |-> 0, sent |-> "none"]]
  /\ trArchive = [a \in TrArchive |-> [pc |-> "unused", asked |-> {}, todo |-> {}, files |-> {}]]

\* A save of the task; while it is active its status may stay the same to us.
\* The last save is kept for the one that settles it.
SaveTask(t, state) ==
  /\ \/ <<trTask[t].state, state>> \in PortMoves
     \/ trTask[t].state = "active" /\ state = "active"
  /\ trTask[t].saves < TrMaxSaves - (IF state \in TaskSettled THEN 0 ELSE 1)
  /\ trTask' = [trTask EXCEPT ![t] = [state |-> state, saves |-> @.saves + 1]]
  /\ UNCHANGED <<trStream, trArchive>>

--------------------------------------------------------------------------
(* The event stream *)

TrStreamStep(s, pc, next) ==
  /\ trStream[s].pc = pc
  /\ trStream' = [trStream EXCEPT ![s] = next]
  /\ UNCHANGED <<trTask, trArchive>>

\* A task that is not there is refused.
OpenStream(s, t) ==
  /\ trTask[t].state # "absent"
  /\ TrStreamStep(s, "unused", [trStream[s] EXCEPT !.pc = "read", !.task = t])

Ends(status) == status \in TaskSettled

\* Seeded fault: the end is looked for before the event is sent.
TurnEndFirst(s) ==
  LET stream == trStream[s]  task == trTask[stream.task] IN
  TrStreamStep(s, "read",
    IF Ends(Shown(task.state)) THEN [stream EXCEPT !.pc = "closed"]
    ELSE [stream EXCEPT !.last = task.saves, !.sent = Shown(task.state)])

\* One turn of the loop, with one read: an event if the task was saved since.
Turn(s) ==
  LET stream == trStream[s]  task == trTask[stream.task] IN
  TrStreamStep(s, "read",
    [stream EXCEPT !.pc = IF Ends(Shown(task.state)) THEN "closed" ELSE "read",
                   !.last = task.saves,
                   !.sent = IF task.saves # stream.last THEN Shown(task.state) ELSE @])

--------------------------------------------------------------------------
(* The archive *)

TrArchiveStep(a, pc, next) ==
  /\ trArchive[a].pc = pc
  /\ trArchive' = [trArchive EXCEPT ![a] = next]
  /\ UNCHANGED <<trTask, trStream>>

AskArchive(a, tasks) ==
  TrArchiveStep(a, "unused", [trArchive[a] EXCEPT !.pc = "read", !.asked = tasks, !.todo = tasks])

\* Task t of archive a has been read, and its result put in if there is one.
Packed(archive, t, files) ==
  [archive EXCEPT !.todo = @ \ {t}, !.files = files,
                  !.pc = IF archive.todo = {t} THEN "done" ELSE "read"]

\* The next task of the list, in any order, is read: without a result there is
\* no archive.
ArchiveTask(a, t) ==
  LET archive == trArchive[a] IN
  /\ t \in archive.todo
  /\ TrArchiveStep(a, "read",
       IF Shown(trTask[t].state) # "completed" THEN [archive EXCEPT !.pc = "refused"]
       ELSE Packed(archive, t, archive.files \union {t}))

TrNext ==
  \/ \E t \in TrTask, state \in TaskState : SaveTask(t, state)
  \/ \E s \in TrStream : Turn(s) \/ \E t \in TrTask : OpenStream(s, t)
  \/ \E a \in TrArchive :
       \/ \E tasks \in SUBSET TrTask \ {{}} : AskArchive(a, tasks)
       \/ \E t \in TrTask : ArchiveTask(a, t)

TrIdle ==
  /\ \A s \in TrStream : trStream[s].pc = "closed"
  /\ \A a \in TrArchive : trArchive[a].pc \in {"done", "refused"}
  /\ UNCHANGED trVars

TrSpec == TrInit /\ [][TrNext \/ TrIdle]_trVars

\* What TaskQueue!EventuallyTerminal promises.
ReadTaskSettles(t) == \E state \in TaskSettled : SaveTask(t, state) /\ trTask[t].state \in TaskUnsettled

--------------------------------------------------------------------------
\* The last event of a stream that has ended carries a status that is terminal
\* and is contradicted later only by a cancellation: a request that overtook
\* the worker, or was overtaken by it.
LastEventStands ==
  \A s \in TrStream : trStream[s].pc = "closed" =>
    LET sent == trStream[s].sent  now == Shown(trTask[trStream[s].task].state) IN
    /\ sent \in TaskSettled
    /\ sent = now \/ "cancelled" \in {sent, now}

\* A stream ends when its task does: it does not go on reading.
StreamEnds == \A s \in TrStream : []<>(trStream[s].pc # "read")

\* An archive that is delivered holds a result for every task that was asked
\* for, and only a cancellation can have taken one of them back since.
ArchiveIsWhole ==
  \A a \in TrArchive : trArchive[a].pc = "done" =>
    /\ trArchive[a].files = trArchive[a].asked
    /\ \A t \in trArchive[a].files : Shown(trTask[t].state) \in {"completed", "cancelled"}

\* So what a reader took away stands.
ReadingsStand == LastEventStands /\ ArchiveIsWhole
=============================================================================
