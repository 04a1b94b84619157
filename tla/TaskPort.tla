------------------------------ MODULE TaskPort ------------------------------
(***************************************************************************)
(* An inference task as the components that use it see it: workflows,      *)
(* media runs, comparisons and the event stream read its status through    *)
(* TaskService and know nothing of workers, locks and events.              *)
(*                                                                         *)
(* TaskQueue models how the task component works inside and implements     *)
(* this view (TaskQueue!PortKept); the modules of the clients are composed *)
(* with the view instead of the component, which keeps them small.         *)
(*                                                                         *)
(*   active   the row shows a status that is not terminal                  *)
(*   fading   a cancel request has stored `cancelled` while the worker     *)
(*            was at it: the worker may still store anything over it       *)
(***************************************************************************)

TaskSettled == {"completed", "failed", "cancelled"}

TaskUnsettled == {"active", "fading"}

TaskState == {"absent"} \union TaskUnsettled \union TaskSettled

\* The status TaskService.get_task shows.
Shown(s) == IF s = "fading" THEN "cancelled" ELSE s

\* The moves of the worker, and of the recovery at startup.
WorkerMoves == {"active"} \X TaskSettled  \union  {"fading"} \X (TaskSettled \union {"active"})

\* The row after TaskService.cancel has saved it, for a request that had read
\* it while it was active.
AfterCancel(s) == IF s \in TaskUnsettled THEN "fading" ELSE "cancelled"

\* The row after the start of the platform has failed what was interrupted.
AfterRestart(s) == CASE s = "active" -> "failed" [] s = "fading" -> "cancelled" [] OTHER -> s

\* Every move a client can see.
PortMoves == {<<"absent", "active">>} \union WorkerMoves
               \union {<<s, AfterCancel(s)>> : s \in TaskUnsettled \union TaskSettled}
=============================================================================
