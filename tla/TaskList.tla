------------------------------- MODULE TaskList -------------------------------
(***************************************************************************)
(* The list of tasks in the browser: frontend/src/composables/useTasks.ts. *)
(* Answers to list requests replace the whole list, those to the buttons   *)
(* change one entry; they come in any order.  No button waits for the      *)
(* answer to another one, nor to itself.  Tasks move as TaskPort allows.   *)
(* Abstracted: the order of the entries of different tasks; retry is a     *)
(* creation.                                                               *)
(***************************************************************************)
EXTENDS Naturals, Sequences, TaskPort

CONSTANTS
  TlTask,
  TlFetch,       \* list requests under way at a time
  TlCancel,      \* cancel requests of one task under way at a time
  TlMaxErrors    \* bound: requests that fail

ASSUME TaskListAssumption == TlMaxErrors \in Nat

VARIABLES
  tlTask,      \* [TlTask -> TaskState]  the tasks, as the server has them
  tlShown,     \* [TlTask -> the statuses of its entries, the upper one first]
  tlFetch,     \* [TlFetch -> progress of refresh]
  tlLoading,   \* loading: the table, and its buttons, are hidden
  tlCreate,    \* [TlTask -> progress of create]
  tlCancel,    \* [TlTask -> [TlCancel -> progress of cancel]]
  tlErrors

tlVars == <<tlTask, tlShown, tlFetch, tlLoading, tlCreate, tlCancel, tlErrors>>

TlEntries == {<<>>} \union {<<s>> : s \in {"active"} \union TaskSettled}

TlRequest == {"idle", "asked", "answered"}

TaskListTypeOK ==
  /\ tlTask \in [TlTask -> TaskState]
  /\ \A t \in TlTask : /\ Len(tlShown[t]) \in 0..2
                       /\ \A i \in DOMAIN tlShown[t] : tlShown[t][i] \in {"active"} \union TaskSettled
  /\ tlFetch \in [TlFetch -> [pc : TlRequest, answer : [TlTask -> TlEntries]]]
  /\ tlLoading \in BOOLEAN
  /\ tlCreate \in [TlTask -> TlRequest]
  /\ tlCancel \in [TlTask -> [TlCancel -> TlRequest]]
  /\ tlErrors \in 0..TlMaxErrors

NoAnswer == [pc |-> "idle", answer |-> [t \in TlTask |-> <<>>]]

TlInit ==
  /\ tlTask = [t \in TlTask |-> "absent"]
  /\ tlShown = [t \in TlTask |-> <<>>]
  /\ tlFetch = [f \in TlFetch |-> NoAnswer]
  /\ tlLoading = FALSE
  /\ tlCreate = [t \in TlTask |-> "idle"]
  /\ tlCancel = [t \in TlTask |-> [k \in TlCancel |-> "idle"]]
  /\ tlErrors = 0

--------------------------------------------------------------------------
(* refresh *)

\* Some entry is not terminal: the timer goes on asking.
Unsettled == \E t \in TlTask : \E i \in DOMAIN tlShown[t] : tlShown[t][i] = "active"

\* By the mounting of a view, by its button, or by the timer.
Refresh(f) ==
  /\ tlFetch[f] = NoAnswer
  /\ tlFetch' = [tlFetch EXCEPT ![f].pc = "asked"]
  /\ tlLoading' = TRUE
  /\ UNCHANGED <<tlTask, tlShown, tlCreate, tlCancel, tlErrors>>

PollList(f) == Unsettled /\ Refresh(f)

ServeList(f) ==
  /\ tlFetch[f].pc = "asked"
  /\ tlFetch' = [tlFetch EXCEPT ![f] =
       [pc |-> "answered",
        answer |-> [t \in TlTask |-> IF tlTask[t] = "absent" THEN <<>> ELSE <<Shown(tlTask[t])>>]]]
  /\ UNCHANGED <<tlTask, tlShown, tlLoading, tlCreate, tlCancel, tlErrors>>

\* finally: the table is shown, also when another request is under way.
FetchEnds(f) ==
  /\ tlFetch' = [tlFetch EXCEPT ![f] = NoAnswer]
  /\ tlLoading' = FALSE
  /\ UNCHANGED <<tlTask, tlCreate, tlCancel>>

\* The answer replaces the list, however old it is.
ApplyList(f) ==
  /\ tlFetch[f].pc = "answered"
  /\ tlShown' = tlFetch[f].answer
  /\ FetchEnds(f) /\ UNCHANGED tlErrors

ListFails(f) ==
  /\ tlFetch[f].pc # "idle" /\ tlErrors < TlMaxErrors
  /\ tlErrors' = tlErrors + 1
  /\ FetchEnds(f) /\ UNCHANGED tlShown

FetchSteps(f) == ServeList(f) \/ ApplyList(f)

--------------------------------------------------------------------------
(* create and retry *)

CreateStep(t, from, to) ==
  /\ tlCreate[t] = from
  /\ tlCreate' = [tlCreate EXCEPT ![t] = to]
  /\ UNCHANGED <<tlFetch, tlLoading, tlCancel, tlErrors>>

PressCreate(t) ==
  /\ tlTask[t] = "absent" /\ CreateStep(t, "idle", "asked")
  /\ UNCHANGED <<tlTask, tlShown>>

ServeCreate(t) ==
  /\ CreateStep(t, "asked", "answered")
  /\ tlTask' = [tlTask EXCEPT ![t] = "active"]
  /\ UNCHANGED tlShown

\* The new task goes on top, also when a list answer has brought it already.
ApplyCreate(t) ==
  /\ CreateStep(t, "answered", "idle")
  /\ tlShown' = [tlShown EXCEPT ![t] = <<"active">> \o @]
  /\ UNCHANGED tlTask

\* The request of create or its answer is lost.
CreateFails(t) ==
  /\ tlCreate[t] # "idle" /\ tlErrors < TlMaxErrors
  /\ tlCreate' = [tlCreate EXCEPT ![t] = "idle"]
  /\ tlErrors' = tlErrors + 1
  /\ UNCHANGED <<tlTask, tlShown, tlFetch, tlLoading, tlCancel>>

--------------------------------------------------------------------------
(* cancel *)

CancelStep(t, k, from, to) ==
  /\ tlCancel[t][k] = from
  /\ tlCancel' = [tlCancel EXCEPT ![t][k] = to]
  /\ UNCHANGED <<tlFetch, tlLoading, tlCreate, tlErrors>>

\* Entries that are not terminal have a button; it is not disabled by a request
\* under way, of whichever button.
PressCancel(t, k) ==
  /\ ~tlLoading /\ \E i \in DOMAIN tlShown[t] : tlShown[t][i] = "active"
  /\ CancelStep(t, k, "idle", "asked")
  /\ UNCHANGED <<tlTask, tlShown>>

\* A task that has settled is refused, and nothing changes on the page.
ServeCancel(t, k) ==
  /\ \/ /\ Shown(tlTask[t]) \notin TaskSettled
        /\ CancelStep(t, k, "asked", "answered")
        /\ tlTask' = [tlTask EXCEPT ![t] = AfterCancel(@)]
     \/ /\ Shown(tlTask[t]) \in TaskSettled
        /\ CancelStep(t, k, "asked", "idle")
        /\ UNCHANGED tlTask
  /\ UNCHANGED tlShown

\* replaceTask: the first entry of the task, if there is one.
ApplyCancel(t, k) ==
  /\ CancelStep(t, k, "answered", "idle")
  /\ tlShown' = IF tlShown[t] = <<>> THEN tlShown ELSE [tlShown EXCEPT ![t][1] = "cancelled"]
  /\ UNCHANGED tlTask

CancelFails(t, k) ==
  /\ tlCancel[t][k] # "idle" /\ tlErrors < TlMaxErrors
  /\ tlCancel' = [tlCancel EXCEPT ![t][k] = "idle"]
  /\ tlErrors' = tlErrors + 1
  /\ UNCHANGED <<tlTask, tlShown, tlFetch, tlLoading, tlCreate>>

ListTaskMoves(t) ==
  /\ tlTask[t] # "absent"
  /\ \E s \in TaskState : <<tlTask[t], s>> \in PortMoves /\ tlTask' = [tlTask EXCEPT ![t] = s]
  /\ UNCHANGED <<tlShown, tlFetch, tlLoading, tlCreate, tlCancel, tlErrors>>

TlNext ==
  \/ \E f \in TlFetch : Refresh(f) \/ FetchSteps(f) \/ ListFails(f)
  \/ \E t \in TlTask :
       \/ PressCreate(t) \/ ServeCreate(t) \/ ApplyCreate(t) \/ CreateFails(t) \/ ListTaskMoves(t)
       \/ \E k \in TlCancel : PressCancel(t, k) \/ ServeCancel(t, k) \/ ApplyCancel(t, k) \/ CancelFails(t, k)

TlSpec == TlInit /\ [][TlNext]_tlVars

ListTaskSettles(t) ==
  ListTaskMoves(t) /\ tlTask[t] \in TaskUnsettled /\ tlTask'[t] \in TaskSettled

--------------------------------------------------------------------------
TlQuiet ==
  /\ \A f \in TlFetch : tlFetch[f] = NoAnswer
  /\ \A t \in TlTask : tlCreate[t] = "idle" /\ \A k \in TlCancel : tlCancel[t][k] = "idle"

\* A list that has stopped asking shows each task as it ended, up to a
\* cancellation, whatever the order in which polls and buttons were answered; a
\* second entry of a task stands only under one that shows it cancelled, which
\* is how the later answer to the creation and the one to a cancellation left it.
QuietListIsRight == TlQuiet /\ ~Unsettled =>
  \A t \in TlTask : \A i \in DOMAIN tlShown[t] :
    LET now == Shown(tlTask[t])  shown == tlShown[t][i] IN
    /\ shown = now \/ "cancelled" \in {shown, now}
    /\ i > 1 => tlShown[t][1] = "cancelled"

\* The list settles when its tasks do, again and again.
ListSettles == []<>(\A t \in TlTask : \A i \in DOMAIN tlShown[t] : tlShown[t][i] \in TaskSettled)
=============================================================================
