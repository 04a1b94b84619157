--------------------------- MODULE ClientsProofs ----------------------------
(***************************************************************************)
(* Proofs about the clients that watch tasks and builds: the event stream  *)
(* and the reads of a task (TaskReaders), the page of a task (TaskPage),   *)
(* the list of tasks (TaskList) and the page of builds (BuildPage), for    *)
(* any number of tasks, streams, loads, fetches and builds.                *)
(***************************************************************************)
EXTENDS TaskReaders, TaskPage, TaskList, BuildPage, SequenceTheorems, TLAPS

(* TaskReaders *)

LEMMA PortStates ==
  /\ TaskState = {"absent", "active", "fading", "completed", "failed", "cancelled"}
  /\ \A s, t : <<s, t>> \in PortMoves =>
       /\ s \in TaskState /\ t \in TaskState /\ t # "absent"
       /\ s \in {"completed", "failed"} => t = "cancelled"
       /\ s = "cancelled" => t = "cancelled"
BY DEF TaskState, TaskSettled, TaskUnsettled, PortMoves, WorkerMoves, AfterCancel

\* What a reader was told stays true up to a cancellation.
Told(status, state) == status \in {"completed", "failed"} => state \in {status, "cancelled"}

LEMMA ToldStays ==
  ASSUME NEW status, NEW s, NEW t, Told(status, s), <<s, t>> \in PortMoves
  PROVE  Told(status, t)
BY PortStates DEF Told

LEMMA ToldIsShown ==
  ASSUME NEW s \in TaskState, s # "absent"
  PROVE  Shown(s) \in {"active"} \union TaskSettled /\ Told(Shown(s), s)
BY DEF Told, Shown, TaskState, TaskSettled, TaskUnsettled

LEMMA ToldStands ==
  ASSUME NEW s \in TaskState, NEW status \in TaskSettled, Told(status, s)
  PROVE  status = Shown(s) \/ "cancelled" \in {status, Shown(s)}
BY DEF Told, Shown, TaskSettled

(***************************************************************************)
(* A stream has sent what its last read showed; if the task was not saved  *)
(* since, it goes on.  An archive has what it has packed.                  *)
(***************************************************************************)

StreamOK(stream) ==
  LET task == trTask[stream.task] IN
  /\ stream.pc = "read" => /\ task.state # "absent" /\ stream.last <= task.saves
                           /\ stream.last = task.saves => Shown(task.state) \notin TaskSettled
  /\ stream.pc = "closed" => stream.sent \in TaskSettled /\ Told(stream.sent, task.state)

ArchiveOK(archive) ==
  /\ archive.pc = "read" => archive.files \union archive.todo = archive.asked
  /\ archive.pc = "done" => archive.files = archive.asked
  /\ \A t \in archive.files : Told("completed", trTask[t].state)

TrIInv ==
  /\ TaskReadersTypeOK
  /\ \A t \in TrTask : trTask[t].saves = 0 <=> trTask[t].state = "absent"
  /\ \A s \in TrStream : /\ StreamOK(trStream[s])
                         /\ trStream[s].pc = "unused" => trStream[s].last = 0
  /\ \A a \in TrArchive : /\ ArchiveOK(trArchive[a])
                          /\ trArchive[a].pc = "unused" => trArchive[a].files = {}

LEMMA TrInitInv == ASSUME TrInit PROVE TrIInv
<1>1. (CHOOSE t \in TrTask : TRUE) \in TrTask
  BY TaskReadersAssumption
<1>2. TaskReadersTypeOK
  BY <1>1, TaskReadersAssumption DEF TrInit, TaskReadersTypeOK, TrStreamType, TrArchiveType, TaskState
<1> QED  BY <1>2 DEF TrInit, TrIInv, StreamOK, ArchiveOK

LEMMA SaveKeeps ==
  ASSUME TrIInv, NEW t \in TrTask, NEW state \in TaskState, SaveTask(t, state)
  PROVE  TrIInv'
<1> DEFINE new == [state |-> state, saves |-> trTask[t].saves + 1]
<1>1. /\ trTask[t] \in [state : TaskState, saves : 0..TrMaxSaves]
      /\ trTask' = [trTask EXCEPT ![t] = new] /\ UNCHANGED <<trStream, trArchive>>
  BY DEF SaveTask, TrIInv, TaskReadersTypeOK
<1>2. new \in [state : TaskState, saves : 0..TrMaxSaves] /\ new.saves # 0 /\ state # "absent"
  <2>1. trTask[t].saves < TrMaxSaves
    BY <1>1, TaskReadersAssumption DEF SaveTask
  <2>2. state # "absent"
    BY PortStates DEF SaveTask
  <2> QED  BY <1>1, <2>1, <2>2, TaskReadersAssumption
<1>3. /\ trTask'[t].state = state /\ trTask'[t].saves = trTask[t].saves + 1
      /\ \A u \in TrTask \ {t} : trTask'[u] = trTask[u]
      /\ trTask' \in [TrTask -> [state : TaskState, saves : 0..TrMaxSaves]]
  BY <1>1, <1>2 DEF TrIInv, TaskReadersTypeOK
<1>4. \A status : Told(status, trTask[t].state) => Told(status, state)
  BY ToldStays DEF SaveTask, Told
<1> HIDE DEF new
<1>5. TaskReadersTypeOK'
  BY <1>1, <1>3 DEF TrIInv, TaskReadersTypeOK
<1>6. ASSUME NEW s \in TrStream PROVE StreamOK(trStream[s])'
  <2>1. trStream'[s] = trStream[s] /\ trStream[s] \in TrStreamType /\ trStream[s].task \in TrTask /\ trStream[s].last \in Nat
    BY <1>1 DEF TrIInv, TaskReadersTypeOK, TrStreamType
  <2>2. CASE trStream[s].task = t
    BY <1>1, <1>2, <1>3, <1>4, <2>1, <2>2 DEF TrIInv, StreamOK
  <2>3. CASE trStream[s].task # t
    BY <1>3, <2>1, <2>3 DEF TrIInv, StreamOK
  <2> QED  BY <2>2, <2>3
<1>7. ASSUME NEW a \in TrArchive PROVE ArchiveOK(trArchive[a])'
  <2>1. trArchive'[a] = trArchive[a] /\ trArchive[a].files \subseteq TrTask
    BY <1>1 DEF TrIInv, TaskReadersTypeOK, TrArchiveType
  <2> QED  BY <1>3, <1>4, <2>1 DEF TrIInv, ArchiveOK
<1> QED  BY <1>1, <1>2, <1>3, <1>5, <1>6, <1>7 DEF TrIInv

LEMMA StreamStepKeeps ==
  ASSUME TrIInv, NEW s \in TrStream, NEW pc \in {"unused", "read"}, NEW next \in TrStreamType,
         next.pc # "unused", TrStreamStep(s, pc, next), StreamOK(next)
  PROVE  TrIInv'
<1>1. /\ trStream'[s] = next /\ \A o \in TrStream \ {s} : trStream'[o] = trStream[o]
      /\ TaskReadersTypeOK' /\ UNCHANGED <<trTask, trArchive>>
  BY DEF TrStreamStep, TrIInv, TaskReadersTypeOK
<1>2. StreamOK(next)'
  BY <1>1 DEF StreamOK
<1>3. \A o \in TrStream : StreamOK(trStream[o])' /\ (trStream'[o].pc = "unused" => trStream'[o].last = 0)
  BY <1>1, <1>2 DEF TrIInv, StreamOK
<1>4. \A a \in TrArchive : ArchiveOK(trArchive[a])'
  BY <1>1 DEF TrIInv, ArchiveOK
<1> QED  BY <1>1, <1>3, <1>4 DEF TrIInv

LEMMA TurnKeeps == ASSUME TrIInv, NEW s \in TrStream, Turn(s) PROVE TrIInv'
<1> DEFINE stream == trStream[s]
           task == trTask[stream.task]
           next == [stream EXCEPT !.pc = IF Ends(Shown(task.state)) THEN "closed" ELSE "read",
                                  !.last = task.saves,
                                  !.sent = IF task.saves # stream.last THEN Shown(task.state) ELSE @]
<1>1. stream \in TrStreamType /\ stream.task \in TrTask /\ stream.pc = "read" /\ StreamOK(stream)
      /\ TrStreamStep(s, "read", next)
  BY DEF Turn, TrStreamStep, TrIInv, TaskReadersTypeOK, TrStreamType
<1>2. task \in [state : TaskState, saves : 0..TrMaxSaves] /\ task.state # "absent"
  BY <1>1 DEF TrIInv, TaskReadersTypeOK, StreamOK
<1>3. Shown(task.state) \in {"active"} \union TaskSettled /\ Told(Shown(task.state), task.state)
  BY <1>2, ToldIsShown
<1>4. next \in TrStreamType /\ next.pc # "unused"
  BY <1>1, <1>2, <1>3 DEF TrStreamType
<1>5. /\ next.task = stream.task /\ next.last = task.saves
      /\ next.pc = IF Shown(task.state) \in TaskSettled THEN "closed" ELSE "read"
      /\ next.sent = IF task.saves # stream.last THEN Shown(task.state) ELSE stream.sent
  BY <1>1 DEF TrStreamType, Ends
<1> HIDE DEF next
<1>6. StreamOK(next)
  <2>1. CASE Shown(task.state) \in TaskSettled
    <3>1. task.saves # stream.last
      BY <1>1, <2>1 DEF StreamOK
    <3> QED  BY <1>3, <1>5, <2>1, <3>1 DEF StreamOK
  <2>2. CASE Shown(task.state) \notin TaskSettled
    BY <1>2, <1>5, <2>2 DEF StreamOK
  <2> QED  BY <2>1, <2>2
<1> QED  BY <1>1, <1>4, <1>6, StreamStepKeeps

LEMMA OpenKeeps == ASSUME TrIInv, NEW s \in TrStream, NEW t \in TrTask, OpenStream(s, t) PROVE TrIInv'
<1> DEFINE next == [trStream[s] EXCEPT !.pc = "read", !.task = t]
<1>1. trStream[s] \in TrStreamType /\ trStream[s].pc = "unused" /\ TrStreamStep(s, "unused", next)
  BY DEF OpenStream, TrStreamStep, TrIInv, TaskReadersTypeOK
<1>2. next \in TrStreamType /\ next.pc = "read" /\ next.task = t /\ next.last = 0
  BY <1>1 DEF TrIInv, TrStreamType
<1>3. trTask[t].saves # 0 /\ trTask[t].saves \in Nat /\ trTask[t].state # "absent"
  BY DEF OpenStream, TrIInv, TaskReadersTypeOK
<1> HIDE DEF next
<1>4. StreamOK(next)
  BY <1>2, <1>3 DEF StreamOK
<1> QED  BY <1>1, <1>2, <1>4, StreamStepKeeps

LEMMA ArchiveStepKeeps ==
  ASSUME TrIInv, NEW a \in TrArchive, NEW pc \in {"unused", "read"}, NEW next \in TrArchiveType,
         next.pc # "unused", TrArchiveStep(a, pc, next), ArchiveOK(next)
  PROVE  TrIInv'
<1>1. /\ trArchive'[a] = next /\ \A o \in TrArchive \ {a} : trArchive'[o] = trArchive[o]
      /\ TaskReadersTypeOK' /\ UNCHANGED <<trTask, trStream>>
  BY DEF TrArchiveStep, TrIInv, TaskReadersTypeOK
<1>2. ArchiveOK(next)'
  BY <1>1 DEF ArchiveOK
<1>3. \A o \in TrArchive : ArchiveOK(trArchive[o])' /\ (trArchive'[o].pc = "unused" => trArchive'[o].files = {})
  BY <1>1, <1>2 DEF TrIInv, ArchiveOK
<1>4. \A s \in TrStream : StreamOK(trStream[s])'
  BY <1>1 DEF TrIInv, StreamOK
<1> QED  BY <1>1, <1>3, <1>4 DEF TrIInv

LEMMA ArchiveAskKeeps ==
  ASSUME TrIInv, NEW a \in TrArchive, NEW tasks \in SUBSET TrTask, AskArchive(a, tasks)
  PROVE  TrIInv'
<1> DEFINE next == [trArchive[a] EXCEPT !.pc = "read", !.asked = tasks, !.todo = tasks]
<1>1. trArchive[a] \in TrArchiveType /\ trArchive[a].files = {} /\ TrArchiveStep(a, "unused", next)
  BY DEF AskArchive, TrArchiveStep, TrIInv, TaskReadersTypeOK
<1>2. next \in TrArchiveType /\ next.pc = "read" /\ next.files = {} /\ next.todo = next.asked
  BY <1>1 DEF TrArchiveType
<1> HIDE DEF next
<1> QED  BY <1>1, <1>2, ArchiveStepKeeps DEF ArchiveOK

LEMMA PackKeeps == ASSUME TrIInv, NEW a \in TrArchive, NEW t \in TrTask, ArchiveTask(a, t) PROVE TrIInv'
<1> DEFINE archive == trArchive[a]
           refused == [archive EXCEPT !.pc = "refused"]
           packed == Packed(archive, t, archive.files \union {t})
<1>1. archive \in TrArchiveType /\ archive.pc = "read" /\ ArchiveOK(archive) /\ t \in archive.todo
  BY DEF ArchiveTask, TrArchiveStep, TrIInv, TaskReadersTypeOK
<1>2. CASE Shown(trTask[t].state) # "completed"
  <2>1. refused \in TrArchiveType /\ refused.pc = "refused" /\ refused.files = archive.files
    BY <1>1 DEF TrArchiveType
  <2>2. TrArchiveStep(a, "read", refused)
    BY <1>2 DEF ArchiveTask
  <2> HIDE DEF refused
  <2>3. ArchiveOK(refused)
    BY <1>1, <2>1 DEF ArchiveOK
  <2> QED  BY <2>1, <2>2, <2>3, ArchiveStepKeeps
<1>3. CASE Shown(trTask[t].state) = "completed"
  <2>1. /\ packed \in TrArchiveType /\ packed.pc = (IF archive.todo = {t} THEN "done" ELSE "read")
        /\ packed.files = archive.files \union {t} /\ packed.todo = archive.todo \ {t}
        /\ packed.asked = archive.asked
    BY <1>1 DEF TrArchiveType, Packed
  <2>2. TrArchiveStep(a, "read", packed)
    BY <1>3 DEF ArchiveTask
  <2>3. trTask[t].state = "completed"
    BY <1>3 DEF Shown
  <2> HIDE DEF packed
  <2>4. ArchiveOK(packed)
    BY <1>1, <2>1, <2>3 DEF ArchiveOK, Told
  <2> QED  BY <2>1, <2>2, <2>4, ArchiveStepKeeps
<1> QED  BY <1>2, <1>3

LEMMA TrStepKeeps == ASSUME TrIInv, [TrNext \/ TrIdle]_trVars PROVE TrIInv'
<1>1. CASE TrIdle \/ UNCHANGED trVars
  BY <1>1 DEF TrIdle, trVars, TrIInv, TaskReadersTypeOK, StreamOK, ArchiveOK
<1>2. CASE TrNext
  BY <1>2, SaveKeeps, TurnKeeps, OpenKeeps, ArchiveAskKeeps, PackKeeps DEF TrNext
<1> QED  BY <1>1, <1>2

LEMMA TrAlwaysInv == TrSpec => []TrIInv
<1>1. TrInit => TrIInv
  BY TrInitInv
<1>2. TrIInv /\ [TrNext \/ TrIdle]_trVars => TrIInv'
  BY TrStepKeeps
<1> QED  BY <1>1, <1>2, PTL DEF TrSpec

\* The rows, streams and archives of TaskReaders keep their types.
THEOREM TaskReadersTypeCorrect == TrSpec => []TaskReadersTypeOK
<1>1. TrIInv => TaskReadersTypeOK
  BY DEF TrIInv
<1> QED  BY <1>1, TrAlwaysInv, PTL

\* The last event of a stream and the content of an archive stand, whatever
\* workers, cancel requests and recoveries store later (TaskReaders).
THEOREM ReadingsAlwaysStand == TrSpec => []ReadingsStand
<1>1. ASSUME TrIInv PROVE ReadingsStand
  <2>1. ASSUME NEW s \in TrStream, trStream[s].pc = "closed"
        PROVE  LET sent == trStream[s].sent  now == Shown(trTask[trStream[s].task].state) IN
               sent \in TaskSettled /\ (sent = now \/ "cancelled" \in {sent, now})
    <3>1. trTask[trStream[s].task].state \in TaskState
      BY <1>1 DEF TrIInv, TaskReadersTypeOK, TrStreamType
    <3>2. trStream[s].sent \in TaskSettled /\ Told(trStream[s].sent, trTask[trStream[s].task].state)
      BY <1>1, <2>1 DEF TrIInv, StreamOK
    <3> QED  BY <3>1, <3>2, ToldStands
  <2>2. ArchiveIsWhole
    BY <1>1 DEF TrIInv, ArchiveOK, ArchiveIsWhole, Told, Shown
  <2> QED  BY <2>1, <2>2 DEF ReadingsStand, LastEventStands
<1> QED  BY <1>1, TrAlwaysInv, PTL

--------------------------------------------------------------------------
(* TaskPage *)

(***************************************************************************)
(* What the page and the calls under way were told holds up to a           *)
(* cancellation.  What the page lacks, a call still brings or an error     *)
(* reports.                                                                *)
(***************************************************************************)

Asking == {"asked", "answered"}
AskingResult == {"askedResult", "answeredResult"}

LacksTask(page) == page.state = "open" /\ page.task = "none" /\ ~page.error
LacksResult(page) == page.task = "completed" /\ ~page.result /\ ~page.error

PgIInv ==
  /\ TaskPageTypeOK
  /\ pgTask # "absent"
  /\ Told(pgPage.task, pgTask)
  /\ \A l \in PgLoad : /\ Told(pgLoad[l].status, pgTask)
                       /\ pgLoad[l].pc = "answered" => pgLoad[l].status # "none"
  /\ LacksTask(pgPage) => \E l \in PgLoad : pgLoad[l].pc \in Asking
  /\ LacksResult(pgPage) => \E l \in PgLoad : pgLoad[l].pc \in AskingResult
  /\ pgPage.state = "left" /\ (pgPage.subscribed \/ \E l \in PgLoad : pgLoad[l].mount) => pgPage.early

LEMMA PgInitInv == ASSUME PgInit PROVE PgIInv
<1>1. TaskPageTypeOK
  BY TaskPageAssumption DEF PgInit, TaskPageTypeOK, PgPageType, PgLoadType, PgStatus, NotLoading, TaskState,
    TaskUnsettled
<1> QED  BY <1>1 DEF PgInit, PgIInv, Told, NotLoading, LacksTask, LacksResult

\* The task moves, or the server answers: only what it says matters.
LEMMA PageTaskMovesKeeps == ASSUME PgIInv, PageTaskMoves PROVE PgIInv'
<1>1. PICK s \in TaskState : <<pgTask, s>> \in PortMoves /\ pgTask' = s
  BY DEF PageTaskMoves
<1>2. UNCHANGED <<pgPage, pgLoad, pgErrors>>
  BY DEF PageTaskMoves
<1>3. s # "absent" /\ \A status : Told(status, pgTask) => Told(status, s)
  BY <1>1, PortStates, ToldStays
<1> QED  BY <1>1, <1>2, <1>3 DEF PgIInv, TaskPageTypeOK

\* Call l may go on to c, and the page to p.
MoveOK(l, c, p) ==
  /\ c \in PgLoadType /\ p \in PgPageType
  /\ Told(c.status, pgTask) /\ Told(p.task, pgTask)
  /\ c.pc = "answered" => c.status # "none"
  /\ LacksTask(p) => c.pc \in Asking \/ (LacksTask(pgPage) /\ pgLoad[l].pc \notin Asking)
  /\ LacksResult(p) => c.pc \in AskingResult \/ (LacksResult(pgPage) /\ pgLoad[l].pc \notin AskingResult)
  /\ p.state = "left" => /\ pgPage.state = "left" /\ p.early = pgPage.early
                         /\ p.subscribed \/ c.mount => pgPage.subscribed \/ pgLoad[l].mount

LEMMA LoadMoves ==
  ASSUME PgIInv, NEW l \in PgLoad, NEW c, NEW p, MoveOK(l, c, p),
         pgLoad' = [pgLoad EXCEPT ![l] = c], pgPage' = p, UNCHANGED pgTask, pgErrors' \in 0..PgMaxErrors
  PROVE  PgIInv'
<1>1. pgLoad'[l] = c /\ \A o \in PgLoad \ {l} : pgLoad'[o] = pgLoad[o]
  BY DEF PgIInv, TaskPageTypeOK
<1>2. TaskPageTypeOK'
  BY DEF PgIInv, TaskPageTypeOK, MoveOK
<1>3. \A o \in PgLoad : Told(pgLoad'[o].status, pgTask) /\ (pgLoad'[o].pc = "answered" => pgLoad'[o].status # "none")
  BY <1>1 DEF PgIInv, MoveOK
<1>4. ASSUME LacksTask(p) PROVE \E o \in PgLoad : pgLoad'[o].pc \in Asking
  <2>1. CASE c.pc \in Asking
    BY <1>1, <2>1
  <2>2. CASE c.pc \notin Asking
    <3>1. LacksTask(pgPage) /\ pgLoad[l].pc \notin Asking
      BY <1>4, <2>2 DEF MoveOK
    <3>2. PICK o \in PgLoad : pgLoad[o].pc \in Asking
      BY <3>1 DEF PgIInv
    <3> QED  BY <1>1, <3>1, <3>2
  <2> QED  BY <2>1, <2>2
<1>5. ASSUME LacksResult(p) PROVE \E o \in PgLoad : pgLoad'[o].pc \in AskingResult
  <2>1. CASE c.pc \in AskingResult
    BY <1>1, <2>1
  <2>2. CASE c.pc \notin AskingResult
    <3>1. LacksResult(pgPage) /\ pgLoad[l].pc \notin AskingResult
      BY <1>5, <2>2 DEF MoveOK
    <3>2. PICK o \in PgLoad : pgLoad[o].pc \in AskingResult
      BY <3>1 DEF PgIInv
    <3> QED  BY <1>1, <3>1, <3>2
  <2> QED  BY <2>1, <2>2
<1>6. ASSUME p.state = "left", p.subscribed \/ \E o \in PgLoad : pgLoad'[o].mount PROVE p.early
  <2>1. pgPage.state = "left" /\ p.early = pgPage.early
    BY <1>6 DEF MoveOK
  <2>2. pgPage.subscribed \/ \E o \in PgLoad : pgLoad[o].mount
    <3>1. CASE p.subscribed \/ c.mount
      BY <1>6, <3>1 DEF MoveOK
    <3>2. CASE \E o \in PgLoad \ {l} : pgLoad'[o].mount
      BY <1>1, <3>2
    <3> QED  BY <1>1, <1>6, <3>1, <3>2
  <2> QED  BY <2>1, <2>2 DEF PgIInv
<1>7. Told(p.task, pgTask)
  BY DEF MoveOK
<1> QED  BY <1>2, <1>3, <1>4, <1>5, <1>6, <1>7 DEF PgIInv, LacksTask, LacksResult

LEMMA StartKeeps ==
  ASSUME PgIInv, NEW l \in PgLoad, OpenPage(l) \/ PollPage(l) \/ StreamEvent(l)
  PROVE  PgIInv'
<1> DEFINE c(mount) == [pgLoad[l] EXCEPT !.pc = "asked", !.mount = mount]
<1>1. /\ pgLoad[l] = NotLoading /\ pgLoad[l] \in PgLoadType /\ pgPage \in PgPageType
      /\ UNCHANGED <<pgTask, pgErrors>> /\ pgErrors \in 0..PgMaxErrors /\ Told(pgPage.task, pgTask)
  BY DEF OpenPage, PollPage, StreamEvent, StartLoad, PgIInv, TaskPageTypeOK
<1>2. ASSUME NEW mount \in BOOLEAN
      PROVE  c(mount) \in PgLoadType /\ c(mount).pc = "asked" /\ c(mount).mount = mount /\ Told(c(mount).status, pgTask)
  <2>1. c(mount) \in PgLoadType /\ c(mount).pc = "asked" /\ c(mount).mount = mount /\ c(mount).status = pgLoad[l].status
    BY <1>1 DEF PgLoadType
  <2> HIDE DEF c
  <2> QED  BY <1>1, <2>1 DEF NotLoading, Told
<1>3. ASSUME NEW mount, NEW p, StartLoad(l, p, mount) PROVE pgLoad' = [pgLoad EXCEPT ![l] = c(mount)] /\ pgPage' = p
  BY <1>3 DEF StartLoad, PgIInv, TaskPageTypeOK
<1>4. pgLoad[l].pc \notin AskingResult
  BY <1>1 DEF NotLoading, AskingResult
<1> HIDE DEF c
<1>5. CASE OpenPage(l)
  <2> DEFINE p == [pgPage EXCEPT !.state = "open"]
  <2>1. p \in PgPageType /\ p.state = "open" /\ p.task = pgPage.task /\ p.result = pgPage.result /\ p.error = pgPage.error
    BY <1>1 DEF PgPageType
  <2>2. pgLoad' = [pgLoad EXCEPT ![l] = c(TRUE)] /\ pgPage' = p
    BY <1>3, <1>5 DEF OpenPage
  <2> HIDE DEF p
  <2>3. MoveOK(l, c(TRUE), p)
    BY <1>1, <1>2, <1>4, <2>1 DEF MoveOK, Asking, LacksResult
  <2> QED  BY <1>1, <2>2, <2>3, LoadMoves
<1>6. CASE PollPage(l) \/ StreamEvent(l)
  <2>1. pgLoad' = [pgLoad EXCEPT ![l] = c(FALSE)] /\ pgPage' = pgPage
    BY <1>3, <1>6 DEF PollPage, StreamEvent
  <2>2. MoveOK(l, c(FALSE), pgPage)
    BY <1>1, <1>2, <1>4 DEF MoveOK, Asking
  <2> QED  BY <1>1, <2>1, <2>2, LoadMoves
<1> QED  BY <1>5, <1>6

LEMMA ServePageKeeps == ASSUME PgIInv, NEW l \in PgLoad, ServePage(l) PROVE PgIInv'
<1> DEFINE pc == IF pgLoad[l].pc = "asked" THEN "answered" ELSE "answeredResult"
           c == [pgLoad[l] EXCEPT !.pc = pc, !.status = Shown(pgTask)]
<1>1. /\ pgLoad[l].pc \in {"asked", "askedResult"} /\ pgLoad[l] \in PgLoadType /\ pgPage \in PgPageType
      /\ pgTask \in TaskState /\ pgTask # "absent" /\ pgErrors \in 0..PgMaxErrors
      /\ pgLoad' = [pgLoad EXCEPT ![l] = c] /\ UNCHANGED <<pgTask, pgPage, pgErrors>>
  BY DEF ServePage, PgIInv, TaskPageTypeOK
<1>2. Shown(pgTask) \in {"active"} \union TaskSettled /\ Told(Shown(pgTask), pgTask)
  BY <1>1, ToldIsShown
<1>3. Shown(pgTask) \in PgStatus \ {"none"}
  BY <1>2 DEF PgStatus, TaskSettled
<1>4. /\ c \in PgLoadType /\ c.status = Shown(pgTask) /\ c.mount = pgLoad[l].mount
      /\ c.pc = IF pgLoad[l].pc = "asked" THEN "answered" ELSE "answeredResult"
  BY <1>1, <1>3 DEF PgLoadType
<1> HIDE DEF c
<1>5. /\ pgLoad[l].pc \in Asking => c.pc \in Asking
      /\ pgLoad[l].pc \in AskingResult => c.pc \in AskingResult
  BY <1>1, <1>4 DEF Asking, AskingResult
<1>6. Told(pgPage.task, pgTask)
  BY DEF PgIInv
<1>7. c.status # "none" /\ Told(c.status, pgTask)
  BY <1>2, <1>3, <1>4
<1>8. MoveOK(l, c, pgPage)
  BY <1>1, <1>4, <1>5, <1>6, <1>7 DEF MoveOK
<1> QED  BY <1>1, <1>8, LoadMoves

\* The call is over: the page is as it left it, but for its subscription.
EndOK(l, p) ==
  /\ p \in PgPageType /\ Told(p.task, pgTask)
  /\ p.state = pgPage.state /\ p.subscribed = pgPage.subscribed /\ p.early = pgPage.early
  /\ LacksTask(p) => LacksTask(pgPage) /\ pgLoad[l].pc \notin Asking
  /\ LacksResult(p) => LacksResult(pgPage) /\ pgLoad[l].pc \notin AskingResult

LEMMA EndKeeps ==
  ASSUME PgIInv, NEW l \in PgLoad, NEW p, EndOK(l, p), EndLoad(l, p), pgErrors' \in 0..PgMaxErrors
  PROVE  PgIInv'
<1> DEFINE on == p.subscribed \/ (pgLoad[l].mount /\ p.task = "active")
           page == [p EXCEPT !.subscribed = on]
<1>1. pgLoad' = [pgLoad EXCEPT ![l] = NotLoading] /\ UNCHANGED pgTask
  BY DEF EndLoad
<1>2. pgPage' = page
  BY DEF EndLoad, PgPageType, EndOK
<1>3. pgLoad[l] \in PgLoadType /\ p \in PgPageType
  BY DEF PgIInv, TaskPageTypeOK, EndOK
<1>4. /\ page \in PgPageType /\ page.state = p.state /\ page.task = p.task /\ page.result = p.result
      /\ page.error = p.error /\ page.early = p.early /\ page.subscribed = on
  BY <1>3 DEF PgPageType, PgLoadType
<1>5. page.subscribed => pgPage.subscribed \/ pgLoad[l].mount
  BY <1>4 DEF EndOK
<1>6. /\ NotLoading \in PgLoadType /\ ~NotLoading.mount /\ Told(NotLoading.status, pgTask)
      /\ NotLoading.pc # "answered"
  BY DEF NotLoading, PgLoadType, PgStatus, Told
<1> HIDE DEF page, on
<1>7. LacksTask(page) = LacksTask(p) /\ LacksResult(page) = LacksResult(p)
  BY <1>4 DEF LacksTask, LacksResult
<1>8. /\ LacksTask(page) => LacksTask(pgPage) /\ pgLoad[l].pc \notin Asking
      /\ LacksResult(page) => LacksResult(pgPage) /\ pgLoad[l].pc \notin AskingResult
      /\ Told(page.task, pgTask) /\ page.state = pgPage.state /\ page.early = pgPage.early
  BY <1>4, <1>7 DEF EndOK
<1>9. MoveOK(l, NotLoading, page)
  BY <1>4, <1>5, <1>6, <1>8 DEF MoveOK
<1> QED  BY <1>1, <1>2, <1>9, LoadMoves

LEMMA ApplyTaskKeeps == ASSUME PgIInv, NEW l \in PgLoad, ApplyTask(l) PROVE PgIInv'
<1> DEFINE status == pgLoad[l].status
           p == [pgPage EXCEPT !.task = status]
           c == [pgLoad[l] EXCEPT !.pc = "askedResult"]
<1>1. /\ pgLoad[l].pc = "answered" /\ pgLoad[l] \in PgLoadType /\ pgPage \in PgPageType
      /\ status \in PgStatus /\ status # "none" /\ Told(status, pgTask)
      /\ pgErrors' = pgErrors /\ pgErrors \in 0..PgMaxErrors
  BY DEF ApplyTask, PgIInv, TaskPageTypeOK, PgLoadType
<1>2. /\ p \in PgPageType /\ p.task = status /\ p.state = pgPage.state /\ p.early = pgPage.early
      /\ p.subscribed = pgPage.subscribed
  BY <1>1 DEF PgPageType
<1>3. CASE status = "completed"
  <2>1. pgLoad' = [pgLoad EXCEPT ![l] = c] /\ pgPage' = p /\ UNCHANGED pgTask
    BY <1>3 DEF ApplyTask, PgIInv, TaskPageTypeOK
  <2>2. c \in PgLoadType /\ c.pc = "askedResult" /\ c.status = status /\ c.mount = pgLoad[l].mount
    BY <1>1 DEF PgLoadType
  <2> HIDE DEF p, c
  <2>3. MoveOK(l, c, p)
    BY <1>1, <1>2, <1>3, <2>2 DEF MoveOK, AskingResult, LacksTask
  <2> QED  BY <1>1, <2>1, <2>3, LoadMoves
<1>4. CASE status # "completed"
  <2>1. EndLoad(l, p)
    BY <1>4 DEF ApplyTask
  <2> HIDE DEF p
  <2>2. EndOK(l, p)
    BY <1>1, <1>2, <1>4 DEF EndOK, LacksTask, LacksResult
  <2> QED  BY <1>1, <2>1, <2>2, EndKeeps
<1> QED  BY <1>3, <1>4

LEMMA ApplyResultKeeps == ASSUME PgIInv, NEW l \in PgLoad, ApplyResult(l) PROVE PgIInv'
<1> DEFINE there == pgLoad[l].status = "completed"
           p == [pgPage EXCEPT !.result = @ \/ there, !.error = @ \/ ~there]
<1>1. /\ pgLoad[l].pc = "answeredResult" /\ pgPage \in PgPageType /\ Told(pgPage.task, pgTask)
      /\ pgErrors' = pgErrors /\ pgErrors \in 0..PgMaxErrors /\ EndLoad(l, p)
  BY DEF ApplyResult, PgIInv, TaskPageTypeOK
<1>2. /\ p \in PgPageType /\ p.task = pgPage.task /\ p.state = pgPage.state /\ p.early = pgPage.early
      /\ p.subscribed = pgPage.subscribed /\ p.result = (pgPage.result \/ there)
      /\ p.error = (pgPage.error \/ ~there)
  BY <1>1 DEF PgPageType
<1>3. p.result \/ p.error
  BY <1>2
<1>4. ~LacksResult(p) /\ pgLoad[l].pc \notin Asking
  BY <1>1, <1>3 DEF LacksResult, Asking
<1>5. LacksTask(p) => LacksTask(pgPage)
  BY <1>2 DEF LacksTask
<1> HIDE DEF p
<1>6. EndOK(l, p)
  BY <1>1, <1>2, <1>4, <1>5 DEF EndOK
<1> QED  BY <1>1, <1>6, EndKeeps

LEMMA LoadFailKeeps == ASSUME PgIInv, NEW l \in PgLoad, LoadFails(l) PROVE PgIInv'
<1> DEFINE p == [pgPage EXCEPT !.error = TRUE]
<1>1. /\ pgPage \in PgPageType /\ Told(pgPage.task, pgTask) /\ EndLoad(l, p)
      /\ pgErrors' \in 0..PgMaxErrors
  BY TaskPageAssumption DEF LoadFails, PgIInv, TaskPageTypeOK
<1>2. /\ p \in PgPageType /\ p.task = pgPage.task /\ p.state = pgPage.state /\ p.early = pgPage.early
      /\ p.subscribed = pgPage.subscribed /\ p.error
  BY <1>1 DEF PgPageType
<1> HIDE DEF p
<1>3. EndOK(l, p)
  BY <1>1, <1>2 DEF EndOK, LacksTask, LacksResult
<1> QED  BY <1>1, <1>3, EndKeeps

LEMMA PageLeft == ASSUME PgIInv, StreamBreaks \/ LeavePage PROVE PgIInv'
<1>1. /\ pgPage \in PgPageType /\ UNCHANGED <<pgTask, pgLoad>> /\ pgErrors' \in 0..PgMaxErrors
  BY TaskPageAssumption DEF StreamBreaks, LeavePage, PgIInv, TaskPageTypeOK
<1>2. CASE StreamBreaks
  <2> DEFINE p == [pgPage EXCEPT !.subscribed = FALSE]
  <2>1. /\ pgPage' = p /\ p \in PgPageType /\ p.task = pgPage.task /\ p.state = pgPage.state
        /\ p.early = pgPage.early /\ p.result = pgPage.result /\ p.error = pgPage.error /\ ~p.subscribed
    BY <1>1, <1>2 DEF StreamBreaks, PgPageType
  <2> HIDE DEF p
  <2> QED  BY <1>1, <2>1 DEF PgIInv, TaskPageTypeOK, LacksTask, LacksResult
<1>3. CASE LeavePage
  <2> DEFINE early == \E l \in PgLoad : pgLoad[l].mount
             p == [pgPage EXCEPT !.state = "left", !.subscribed = FALSE, !.early = early]
  <2>1. /\ pgPage' = p /\ p \in PgPageType /\ p.task = pgPage.task /\ p.state = "left"
        /\ p.early = early /\ p.result = pgPage.result /\ p.error = pgPage.error /\ ~p.subscribed
    BY <1>1, <1>3 DEF LeavePage, PgPageType
  <2> HIDE DEF p
  <2> QED  BY <1>1, <2>1 DEF PgIInv, TaskPageTypeOK, LacksTask, LacksResult
<1> QED  BY <1>2, <1>3

LEMMA PgStepKeeps == ASSUME PgIInv, [PgNext \/ PgIdle]_pgVars PROVE PgIInv'
<1>1. CASE PgIdle \/ UNCHANGED pgVars
  BY <1>1 DEF PgIdle, pgVars, PgIInv, TaskPageTypeOK
<1>2. CASE PgNext
  BY <1>2, StartKeeps, ServePageKeeps, ApplyTaskKeeps, ApplyResultKeeps, LoadFailKeeps, PageLeft, PageTaskMovesKeeps
  DEF PgNext, LoadSteps
<1> QED  BY <1>1, <1>2

LEMMA PgAlwaysInv == PgSpec => []PgIInv
<1>1. PgInit => PgIInv
  BY PgInitInv
<1>2. PgIInv /\ [PgNext \/ PgIdle]_pgVars => PgIInv'
  BY PgStepKeeps
<1> QED  BY <1>1, <1>2, PTL DEF PgSpec

\* The page of a task, its loads and its stream keep their types.
THEOREM TaskPageTypeCorrect == PgSpec => []TaskPageTypeOK
<1>1. PgIInv => TaskPageTypeOK
  BY DEF PgIInv
<1> QED  BY <1>1, PgAlwaysInv, PTL

\* A page that has stopped asking shows the outcome its task has, up to a
\* cancellation, or an error; a page that was left keeps a stream only if it was
\* left during its first load: whatever the order in which answers of loads and
\* the event stream come in.
THEOREM QuietPagesStayRight == PgSpec => [](QuietPageIsRight /\ LeftPageIsSilent)
<1>1. ASSUME PgIInv PROVE QuietPageIsRight
  <2>1. SUFFICES ASSUME pgPage.state = "open", PgQuiet, ~pgPage.subscribed, pgPage.task # "active"
        PROVE  /\ pgPage.task # "none" => pgPage.task = Shown(pgTask) \/ "cancelled" \in {pgPage.task, Shown(pgTask)}
               /\ pgPage.task = "none" => pgPage.error
               /\ pgPage.task = "completed" => pgPage.result \/ pgPage.error
    BY DEF QuietPageIsRight
  <2>2. \A l \in PgLoad : pgLoad[l].pc \notin Asking /\ pgLoad[l].pc \notin AskingResult
    BY <2>1 DEF PgQuiet, NotLoading, Asking, AskingResult
  <2>3. pgPage.task \in {"none"} \union TaskSettled /\ Told(pgPage.task, pgTask) /\ pgTask \in TaskState
    BY <1>1, <2>1 DEF PgIInv, TaskPageTypeOK, PgPageType, PgStatus
  <2>4. ~LacksTask(pgPage) /\ ~LacksResult(pgPage)
    BY <1>1, <2>2 DEF PgIInv
  <2> QED  BY <2>1, <2>3, <2>4, ToldStands DEF LacksTask, LacksResult
<1>2. PgIInv => LeftPageIsSilent
  BY DEF PgIInv, LeftPageIsSilent
<1> QED  BY <1>1, <1>2, PgAlwaysInv, PTL

--------------------------------------------------------------------------
(* TaskList *)

(***************************************************************************)
(* A list answer and every entry hold up to a cancellation.  A task has a  *)
(* second entry once, when its creation is applied after a list answer has *)
(* brought it: the upper one is still active then, and stays until the     *)
(* answer to a cancellation replaces it or a list answer all of them.      *)
(***************************************************************************)

TlStatus == {"active"} \union TaskSettled

\* Entries that may be shown of a task.
EntriesOK(entries, state) ==
  /\ entries \in Seq(TlStatus)
  /\ \A i \in DOMAIN entries : Told(entries[i], state)
  /\ state = "absent" => entries = <<>>

TaskOK(t) ==
  LET shown == tlShown[t] IN
  /\ EntriesOK(shown, tlTask[t]) /\ Len(shown) \in 0..2
  /\ tlCreate[t] = "asked" => tlTask[t] = "absent"
  /\ tlCreate[t] # "idle" => Len(shown) \in 0..1
  /\ tlCreate[t] = "answered" => tlTask[t] # "absent"
  /\ \A k \in TlCancel : tlCancel[t][k] # "idle" => tlTask[t] # "absent"
  /\ Len(shown) = 2 => shown[1] \in {"active", "cancelled"}

TlIInv ==
  /\ TaskListTypeOK
  /\ tlShown \in [TlTask -> Seq(TlStatus)]
  /\ \A t \in TlTask : TaskOK(t)
  /\ \A f \in TlFetch, t \in TlTask : EntriesOK(tlFetch[f].answer[t], tlTask[t])

LEMMA EntryShape ==
  ASSUME NEW entries \in TlEntries
  PROVE  entries \in Seq(TlStatus) /\ Len(entries) \in 0..1
<1>1. CASE entries = <<>>
  BY <1>1
<1>2. ASSUME NEW e \in TlStatus, entries = <<e>> PROVE entries \in Seq(TlStatus) /\ Len(entries) \in 0..1
  BY <1>2
<1> QED  BY <1>1, <1>2 DEF TlEntries, TlStatus

LEMMA NoEntries == \A state : EntriesOK(<<>>, state) /\ <<>> \in TlEntries /\ Len(<<>>) = 0
BY DEF EntriesOK, TlEntries

LEMMA OneEntry ==
  ASSUME NEW e \in TlStatus, NEW state, Told(e, state), state # "absent"
  PROVE  EntriesOK(<<e>>, state) /\ <<e>> \in TlEntries
<1>1. <<e>> \in Seq(TlStatus) /\ DOMAIN <<e>> = {1} /\ <<e>>[1] = e
  OBVIOUS
<1>2. <<e>> \in TlEntries
  BY DEF TlEntries, TlStatus
<1> QED  BY <1>1, <1>2 DEF EntriesOK

LEMMA TlInitInv == ASSUME TlInit PROVE TlIInv
<1>1. TaskListTypeOK
  <2>1. NoAnswer \in [pc : TlRequest, answer : [TlTask -> TlEntries]]
    BY NoEntries DEF NoAnswer, TlRequest
  <2>2. \A t \in TlTask : Len(tlShown[t]) \in 0..2 /\ DOMAIN tlShown[t] = {}
    BY DEF TlInit
  <2>3. tlCreate \in [TlTask -> TlRequest] /\ tlCancel \in [TlTask -> [TlCancel -> TlRequest]]
    BY DEF TlInit, TlRequest
  <2>4. tlTask \in [TlTask -> TaskState] /\ tlErrors \in 0..TlMaxErrors
    BY TaskListAssumption DEF TlInit, TaskState
  <2> QED  BY <2>1, <2>2, <2>3, <2>4 DEF TlInit, TaskListTypeOK
<1>2. tlShown \in [TlTask -> Seq(TlStatus)]
  BY DEF TlInit
<1> QED  BY <1>1, <1>2, NoEntries DEF TlInit, TlIInv, TaskOK, NoAnswer

\* A refresh moves on; its answer is what holds now.
LEMMA FetchKeeps ==
  ASSUME TlIInv, NEW f \in TlFetch, Refresh(f) \/ ServeList(f) \/ ListFails(f)
  PROVE  TlIInv'
<1> DEFINE Fetch == [pc : TlRequest, answer : [TlTask -> TlEntries]]
<1>1. UNCHANGED <<tlTask, tlShown, tlCreate, tlCancel>> /\ tlFetch \in [TlFetch -> Fetch]
  BY DEF Refresh, ServeList, ListFails, FetchEnds, TlIInv, TaskListTypeOK
<1>6. tlErrors' \in 0..TlMaxErrors
  BY TaskListAssumption DEF Refresh, ServeList, ListFails, TlIInv, TaskListTypeOK
<1>7. tlLoading' \in BOOLEAN
  BY Zenon DEF Refresh, ServeList, ListFails, FetchEnds, TlIInv, TaskListTypeOK
<1>2. PICK new \in Fetch : /\ tlFetch' = [tlFetch EXCEPT ![f] = new]
                           /\ \A t \in TlTask : EntriesOK(new.answer[t], tlTask[t])
  <2>1. CASE Refresh(f)
    <3> DEFINE new == [tlFetch[f] EXCEPT !.pc = "asked"]
    <3>1. new \in Fetch /\ new.answer = tlFetch[f].answer /\ tlFetch' = [tlFetch EXCEPT ![f] = new]
      BY <1>1, <2>1 DEF Refresh, TlRequest
    <3> HIDE DEF new
    <3> QED  BY <3>1 DEF TlIInv
  <2>2. CASE ServeList(f)
    <3> DEFINE answer == [t \in TlTask |-> IF tlTask[t] = "absent" THEN <<>> ELSE <<Shown(tlTask[t])>>]
               new == [pc |-> "answered", answer |-> answer]
    <3>1. ASSUME NEW t \in TlTask PROVE answer[t] \in TlEntries /\ EntriesOK(answer[t], tlTask[t])
      <4>1. CASE tlTask[t] = "absent"
        BY <4>1, NoEntries
      <4>2. CASE tlTask[t] # "absent"
        <5>1. Shown(tlTask[t]) \in TlStatus /\ Told(Shown(tlTask[t]), tlTask[t])
          BY <4>2, ToldIsShown DEF TlIInv, TaskListTypeOK, TlStatus
        <5> QED  BY <4>2, <5>1, OneEntry
      <4> QED  BY <4>1, <4>2
    <3>2. tlFetch' = [tlFetch EXCEPT ![f] = new]
      BY <2>2 DEF ServeList
    <3>3. answer \in [TlTask -> TlEntries]
      BY <3>1
    <3> HIDE DEF answer
    <3>4. new \in Fetch /\ new.answer = answer
      BY <3>3 DEF TlRequest
    <3> HIDE DEF new
    <3> QED  BY <3>1, <3>2, <3>4
  <2>3. CASE ListFails(f)
    <3>1. NoAnswer \in Fetch /\ \A t \in TlTask : EntriesOK(NoAnswer.answer[t], tlTask[t])
      BY NoEntries DEF NoAnswer, TlRequest
    <3> QED  BY <2>3, <3>1 DEF ListFails, FetchEnds
  <2> QED  BY <2>1, <2>2, <2>3
<1>3. TaskListTypeOK'
  BY <1>1, <1>2, <1>6, <1>7 DEF TlIInv, TaskListTypeOK
<1>4. \A t \in TlTask : TaskOK(t)'
  BY <1>1 DEF TlIInv, TaskOK
<1>5. \A o \in TlFetch, t \in TlTask : EntriesOK(tlFetch[o].answer[t], tlTask[t])'
  BY <1>1, <1>2 DEF TlIInv, EntriesOK
<1> QED  BY <1>1, <1>3, <1>4, <1>5 DEF TlIInv

LEMMA ApplyListKeeps == ASSUME TlIInv, NEW f \in TlFetch, ApplyList(f) PROVE TlIInv'
<1> DEFINE Fetch == [pc : TlRequest, answer : [TlTask -> TlEntries]]
<1>1. /\ UNCHANGED <<tlTask, tlCreate, tlCancel, tlErrors>> /\ tlLoading' \in BOOLEAN
      /\ tlFetch \in [TlFetch -> Fetch]
      /\ tlShown' = tlFetch[f].answer /\ tlFetch' = [tlFetch EXCEPT ![f] = NoAnswer]
  BY DEF ApplyList, FetchEnds, TlIInv, TaskListTypeOK
<1>2. NoAnswer \in Fetch /\ \A t \in TlTask : EntriesOK(NoAnswer.answer[t], tlTask[t])
  BY NoEntries DEF NoAnswer, TlRequest
<1>3. \A t \in TlTask : /\ tlShown'[t] \in Seq(TlStatus) /\ Len(tlShown'[t]) \in 0..1
                        /\ EntriesOK(tlShown'[t], tlTask[t])
  <2>1. TAKE t \in TlTask
  <2>2. tlFetch[f].answer[t] \in TlEntries /\ EntriesOK(tlFetch[f].answer[t], tlTask[t])
    BY <1>1 DEF TlIInv
  <2>3. tlFetch[f].answer[t] \in Seq(TlStatus) /\ Len(tlFetch[f].answer[t]) \in 0..1
    BY <2>2, EntryShape
  <2> QED  BY <1>1, <2>2, <2>3
<1>4. TaskListTypeOK'
  <2>1. tlFetch' \in [TlFetch -> Fetch]
    BY <1>1, <1>2
  <2>2. ASSUME NEW t \in TlTask
        PROVE  /\ Len(tlShown'[t]) \in 0..2
               /\ \A i \in DOMAIN tlShown'[t] : tlShown'[t][i] \in {"active"} \union TaskSettled
    BY <1>3 DEF TlStatus
  <2>3. TaskListTypeOK
    BY DEF TlIInv
  <2>4. /\ tlTask' \in [TlTask -> TaskState] /\ tlErrors' \in 0..TlMaxErrors
        /\ tlCreate' \in [TlTask -> TlRequest] /\ tlCancel' \in [TlTask -> [TlCancel -> TlRequest]]
    BY <1>1, <2>3 DEF TaskListTypeOK
  <2> QED  BY <1>1, <2>1, <2>2, <2>4 DEF TaskListTypeOK
<1>5. \A t \in TlTask : TaskOK(t)'
  <2>1. TAKE t \in TlTask
  <2>2. TaskOK(t) /\ Len(tlShown'[t]) \in 0..1 /\ EntriesOK(tlShown'[t], tlTask[t])
    BY <1>3 DEF TlIInv
  <2>3. Len(tlShown'[t]) \in 0..2 /\ Len(tlShown'[t]) # 2
    BY <2>2
  <2> QED  BY <1>1, <2>2, <2>3 DEF TaskOK, EntriesOK
<1>6. \A o \in TlFetch, t \in TlTask : EntriesOK(tlFetch[o].answer[t], tlTask[t])'
  BY <1>1, <1>2 DEF TlIInv, EntriesOK
<1>7. tlShown' \in [TlTask -> Seq(TlStatus)]
  <2>1. tlShown' \in [TlTask -> TlEntries]
    BY <1>1
  <2> QED  BY <1>3, <2>1
<1> QED  BY <1>4, <1>5, <1>6, <1>7 DEF TlIInv

\* What concerns one task only.
LEMMA OneTaskKeeps ==
  ASSUME TlIInv, NEW t \in TlTask, UNCHANGED <<tlFetch, tlLoading>>, tlErrors' \in 0..TlMaxErrors,
         tlTask' \in [TlTask -> TaskState], tlShown' \in [TlTask -> Seq(TlStatus)],
         tlCreate' \in [TlTask -> TlRequest], tlCancel' \in [TlTask -> [TlCancel -> TlRequest]],
         \A o \in TlTask \ {t} : /\ tlTask'[o] = tlTask[o] /\ tlShown'[o] = tlShown[o]
                                 /\ tlCreate'[o] = tlCreate[o] /\ tlCancel'[o] = tlCancel[o],
         TaskOK(t)', tlTask[t] # "absent" => tlTask'[t] # "absent",
         \A status \in TlStatus : Told(status, tlTask[t]) => Told(status, tlTask'[t]) \/ tlTask[t] = "absent"
  PROVE  TlIInv'
<1>1. ASSUME NEW o \in TlTask PROVE TaskOK(o)'
  <2>1. CASE o = t
    BY <2>1
  <2>2. CASE o # t
    <3>1. /\ tlTask'[o] = tlTask[o] /\ tlShown'[o] = tlShown[o] /\ TaskOK(o)
          /\ tlCreate'[o] = tlCreate[o] /\ tlCancel'[o] = tlCancel[o]
      BY <2>2 DEF TlIInv
    <3> QED  BY <3>1 DEF TaskOK
  <2> QED  BY <2>1, <2>2
<1>2. ASSUME NEW f \in TlFetch, NEW o \in TlTask PROVE EntriesOK(tlFetch[f].answer[o], tlTask[o])'
  <2>1. EntriesOK(tlFetch[f].answer[o], tlTask[o])
    BY DEF TlIInv
  <2>2. CASE o # t
    BY <2>1, <2>2 DEF EntriesOK
  <2>3. CASE o = t
    BY <2>1, <2>3 DEF EntriesOK
  <2> QED  BY <2>2, <2>3
<1>3. TaskListTypeOK'
  <2>1. ASSUME NEW o \in TlTask
        PROVE  /\ Len(tlShown'[o]) \in 0..2
               /\ \A i \in DOMAIN tlShown'[o] : tlShown'[o][i] \in {"active"} \union TaskSettled
    <3>1. tlShown'[o] \in Seq(TlStatus) /\ Len(tlShown'[o]) \in 0..2
      BY <1>1 DEF TaskOK
    <3>2. /\ Len(tlShown'[o]) \in Nat
          /\ \A i \in DOMAIN tlShown'[o] : tlShown'[o][i] \in TlStatus
      BY <3>1, LenProperties
    <3>3. Len(tlShown'[o]) \in 0..2
      BY <3>1, <3>2
    <3> QED  BY <3>2, <3>3 DEF TlStatus
  <2> QED  BY <2>1 DEF TlIInv, TaskListTypeOK
<1> QED  BY <1>1, <1>2, <1>3 DEF TlIInv

LEMMA TlTypes ==
  ASSUME TlIInv, NEW t \in TlTask
  PROVE  /\ TaskOK(t) /\ tlTask \in [TlTask -> TaskState] /\ tlShown \in [TlTask -> Seq(TlStatus)]
         /\ tlCreate \in [TlTask -> TlRequest] /\ tlCancel \in [TlTask -> [TlCancel -> TlRequest]]
         /\ tlErrors \in 0..TlMaxErrors
BY DEF TlIInv, TaskListTypeOK

\* A button is pressed or its request fails: the tasks and the list stay.
LEMMA ButtonKeeps ==
  ASSUME TlIInv, NEW t \in TlTask, UNCHANGED <<tlTask, tlShown, tlFetch, tlLoading>>, tlErrors' \in 0..TlMaxErrors,
         \/ UNCHANGED tlCancel /\ \E to \in {"idle", "asked"} :
              tlCreate' = [tlCreate EXCEPT ![t] = to] /\ (to = "asked" => tlTask[t] = "absent")
         \/ UNCHANGED tlCreate /\ \E k \in TlCancel : \E to \in {"idle", "asked"} :
              tlCancel' = [tlCancel EXCEPT ![t][k] = to] /\ (to = "asked" => tlTask[t] # "absent")
  PROVE  TlIInv'
<1>1. tlTask[t] = "absent" => Len(tlShown[t]) = 0
  BY TlTypes DEF TaskOK, EntriesOK
<1>2. CASE UNCHANGED tlCancel /\ \E to \in {"idle", "asked"} :
             tlCreate' = [tlCreate EXCEPT ![t] = to] /\ (to = "asked" => tlTask[t] = "absent")
  <2>1. /\ tlCreate' \in [TlTask -> TlRequest] /\ tlCreate'[t] \in {"idle", "asked"}
        /\ tlCreate'[t] = "asked" => tlTask[t] = "absent"
        /\ \A o \in TlTask \ {t} : tlCreate'[o] = tlCreate[o]
    BY <1>2, TlTypes DEF TlRequest
  <2>2. TaskOK(t)'
    BY <1>1, <1>2, <2>1, TlTypes DEF TaskOK
  <2> QED  BY <1>2, <2>1, <2>2, TlTypes, OneTaskKeeps
<1>3. CASE UNCHANGED tlCreate /\ \E k \in TlCancel : \E to \in {"idle", "asked"} :
             tlCancel' = [tlCancel EXCEPT ![t][k] = to] /\ (to = "asked" => tlTask[t] # "absent")
  <2>1. PICK k \in TlCancel, to \in {"idle", "asked"} :
          tlCancel' = [tlCancel EXCEPT ![t][k] = to] /\ (to = "asked" => tlTask[t] # "absent")
    BY <1>3
  <2>2. /\ tlCancel' \in [TlTask -> [TlCancel -> TlRequest]] /\ tlCancel'[t] = [tlCancel[t] EXCEPT ![k] = to]
        /\ \A o \in TlTask \ {t} : tlCancel'[o] = tlCancel[o]
    BY <2>1, TlTypes DEF TlRequest
  <2>3. \A m \in TlCancel : tlCancel'[t][m] # "idle" => tlTask[t] # "absent"
    BY <2>1, <2>2, TlTypes DEF TaskOK
  <2>4. TaskOK(t)'
    BY <1>3, <2>3, TlTypes DEF TaskOK
  <2> QED  BY <1>3, <2>2, <2>4, TlTypes, OneTaskKeeps
<1> QED  BY <1>2, <1>3

LEMMA PressKeeps ==
  ASSUME TlIInv, NEW t \in TlTask,
         PressCreate(t) \/ CreateFails(t) \/ \E k \in TlCancel : PressCancel(t, k) \/ CancelFails(t, k)
  PROVE  TlIInv'
<1>1. CASE PressCreate(t)
  <2>1. /\ UNCHANGED <<tlTask, tlShown, tlFetch, tlLoading, tlCancel, tlErrors>> /\ tlTask[t] = "absent"
        /\ tlCreate' = [tlCreate EXCEPT ![t] = "asked"]
    BY <1>1 DEF PressCreate, CreateStep
  <2> QED  BY <2>1, TlTypes, ButtonKeeps
<1>2. CASE CreateFails(t)
  <2>1. /\ UNCHANGED <<tlTask, tlShown, tlFetch, tlLoading, tlCancel>> /\ tlErrors' \in 0..TlMaxErrors
        /\ tlCreate' = [tlCreate EXCEPT ![t] = "idle"]
    BY <1>2, TlTypes, TaskListAssumption DEF CreateFails
  <2> QED  BY <2>1, ButtonKeeps
<1>3. ASSUME NEW k \in TlCancel, PressCancel(t, k) PROVE TlIInv'
  <2>1. tlTask[t] = "absent" => \A i \in DOMAIN tlShown[t] : FALSE
    BY TlTypes DEF TaskOK, EntriesOK
  <2>2. /\ UNCHANGED <<tlTask, tlShown, tlFetch, tlLoading, tlCreate, tlErrors>> /\ tlTask[t] # "absent"
        /\ tlCancel' = [tlCancel EXCEPT ![t][k] = "asked"]
    BY <1>3, <2>1 DEF PressCancel, CancelStep
  <2> QED  BY <2>2, TlTypes, ButtonKeeps
<1>4. ASSUME NEW k \in TlCancel, CancelFails(t, k) PROVE TlIInv'
  <2>1. /\ UNCHANGED <<tlTask, tlShown, tlFetch, tlLoading, tlCreate>> /\ tlErrors' \in 0..TlMaxErrors
        /\ tlCancel' = [tlCancel EXCEPT ![t][k] = "idle"]
    BY <1>4, TlTypes, TaskListAssumption DEF CancelFails
  <2> QED  BY <2>1, ButtonKeeps
<1> QED  BY <1>1, <1>2, <1>3, <1>4

LEMMA ServeCreateKeeps == ASSUME TlIInv, NEW t \in TlTask, ServeCreate(t) PROVE TlIInv'
<1>1. /\ tlTask[t] = "absent" /\ tlShown[t] = <<>> /\ UNCHANGED <<tlFetch, tlLoading, tlShown, tlCancel, tlErrors>>
      /\ tlTask' = [tlTask EXCEPT ![t] = "active"] /\ tlCreate' = [tlCreate EXCEPT ![t] = "answered"]
      /\ \A k \in TlCancel : tlCancel[t][k] = "idle"
  BY TlTypes DEF ServeCreate, CreateStep, TaskOK, EntriesOK
<1>2. /\ tlTask' \in [TlTask -> TaskState] /\ tlTask'[t] = "active"
      /\ tlCreate' \in [TlTask -> TlRequest] /\ tlCreate'[t] = "answered"
      /\ \A o \in TlTask \ {t} : tlTask'[o] = tlTask[o] /\ tlCreate'[o] = tlCreate[o]
  BY <1>1, TlTypes DEF TaskState, TaskUnsettled, TlRequest
<1>3. TaskOK(t)'
  BY <1>1, <1>2, NoEntries DEF TaskOK
<1> QED  BY <1>1, <1>2, <1>3, TlTypes, OneTaskKeeps

LEMMA ApplyCreateKeeps == ASSUME TlIInv, NEW t \in TlTask, ApplyCreate(t) PROVE TlIInv'
<1> DEFINE new == <<"active">> \o tlShown[t]
<1>1. /\ tlCreate[t] = "answered" /\ UNCHANGED <<tlFetch, tlLoading, tlTask, tlCancel, tlErrors>>
      /\ tlShown' = [tlShown EXCEPT ![t] = new] /\ tlCreate' = [tlCreate EXCEPT ![t] = "idle"]
  BY DEF ApplyCreate, CreateStep
<1>2. /\ "active" \in TlStatus /\ tlShown[t] \in Seq(TlStatus) /\ Len(tlShown[t]) \in 0..1 /\ tlTask[t] # "absent"
      /\ EntriesOK(tlShown[t], tlTask[t])
  BY <1>1, TlTypes DEF TlStatus, TaskOK
<1>3. /\ new \in Seq(TlStatus) /\ Len(new) = Len(tlShown[t]) + 1 /\ new[1] = "active"
      /\ \A i \in DOMAIN new : i = 1 \/ (i - 1 \in DOMAIN tlShown[t] /\ new[i] = tlShown[t][i - 1])
  BY <1>2
<1> HIDE DEF new
<1>4. \A i \in DOMAIN new : Told(new[i], tlTask[t])
  BY <1>2, <1>3 DEF EntriesOK, Told
<1>5. /\ tlShown'[t] = new /\ tlShown' \in [TlTask -> Seq(TlStatus)]
      /\ tlCreate'[t] = "idle" /\ tlCreate' \in [TlTask -> TlRequest]
      /\ \A o \in TlTask \ {t} : tlShown'[o] = tlShown[o] /\ tlCreate'[o] = tlCreate[o]
  BY <1>1, <1>3, TlTypes DEF TlRequest
<1>6. TaskOK(t)'
  <2>1. Len(new) \in 0..2
    BY <1>2, <1>3
  <2> QED  BY <1>1, <1>2, <1>3, <1>4, <1>5, <2>1, TlTypes DEF TaskOK, EntriesOK
<1> QED  BY <1>1, <1>5, <1>6, TlTypes, OneTaskKeeps

\* A cancel request takes its next step.
LEMMA CancelTypes ==
  ASSUME TlIInv, NEW t \in TlTask, NEW k \in TlCancel, NEW from \in {"asked", "answered"}, NEW to \in TlRequest,
         CancelStep(t, k, from, to)
  PROVE  /\ UNCHANGED <<tlFetch, tlLoading, tlCreate, tlErrors>> /\ tlTask[t] # "absent"
         /\ tlCancel' \in [TlTask -> [TlCancel -> TlRequest]]
         /\ \A o \in TlTask \ {t} : tlCancel'[o] = tlCancel[o]
BY TlTypes DEF CancelStep, TaskOK

LEMMA ServeCancelKeeps == ASSUME TlIInv, NEW t \in TlTask, NEW k \in TlCancel, ServeCancel(t, k) PROVE TlIInv'
<1>1. PICK to \in {"idle", "answered"} : CancelStep(t, k, "asked", to)
  BY DEF ServeCancel
<1>2. /\ UNCHANGED <<tlFetch, tlLoading, tlCreate, tlErrors, tlShown>> /\ tlTask[t] # "absent"
      /\ tlCancel' \in [TlTask -> [TlCancel -> TlRequest]]
      /\ \A o \in TlTask \ {t} : tlCancel'[o] = tlCancel[o]
  BY <1>1, CancelTypes DEF ServeCancel, TlRequest
<1>3. CASE Shown(tlTask[t]) \in TaskSettled
  <2>1. UNCHANGED tlTask
    BY <1>3 DEF ServeCancel
  <2>2. TaskOK(t)'
    BY <1>2, <2>1, TlTypes DEF TaskOK
  <2> QED  BY <1>2, <2>1, <2>2, TlTypes, OneTaskKeeps
<1>4. CASE Shown(tlTask[t]) \notin TaskSettled
  <2>1. tlTask[t] = "active"
    BY <1>2, <1>4, TlTypes DEF Shown, TaskState, TaskUnsettled, TaskSettled
  <2>2. tlTask' = [tlTask EXCEPT ![t] = "fading"]
    BY <1>4, <2>1, TlTypes DEF ServeCancel, AfterCancel, TaskUnsettled
  <2>3. /\ tlTask' \in [TlTask -> TaskState] /\ tlTask'[t] = "fading"
        /\ \A o \in TlTask \ {t} : tlTask'[o] = tlTask[o]
    BY <2>2, TlTypes DEF TaskState, TaskUnsettled
  <2>4. \A status \in TlStatus : Told(status, "active") => Told(status, "fading")
    BY DEF Told
  <2>5. \A i \in DOMAIN tlShown[t] : tlShown[t][i] \in TlStatus /\ Told(tlShown[t][i], "active")
    BY <2>1, TlTypes DEF TaskOK, EntriesOK
  <2>6. TaskOK(t)'
    BY <1>2, <2>1, <2>3, <2>4, <2>5, TlTypes DEF TaskOK, EntriesOK
  <2> QED  BY <1>2, <2>1, <2>3, <2>4, <2>6, TlTypes, OneTaskKeeps
<1> QED  BY <1>3, <1>4

LEMMA ApplyCancelKeeps == ASSUME TlIInv, NEW t \in TlTask, NEW k \in TlCancel, ApplyCancel(t, k) PROVE TlIInv'
<1> DEFINE new == [tlShown[t] EXCEPT ![1] = "cancelled"]
<1>1. /\ UNCHANGED <<tlFetch, tlLoading, tlCreate, tlErrors, tlTask>> /\ tlTask[t] # "absent"
      /\ tlCancel' \in [TlTask -> [TlCancel -> TlRequest]]
      /\ \A o \in TlTask \ {t} : tlCancel'[o] = tlCancel[o]
  BY CancelTypes DEF ApplyCancel, TlRequest
<1>2. EntriesOK(tlShown[t], tlTask[t]) /\ Len(tlShown[t]) \in 0..2
  BY TlTypes DEF TaskOK
<1>3. CASE tlShown[t] = <<>>
  <2>1. UNCHANGED tlShown
    BY <1>3 DEF ApplyCancel
  <2>2. TaskOK(t)'
    BY <1>1, <2>1, TlTypes DEF TaskOK
  <2> QED  BY <1>1, <2>1, <2>2, TlTypes, OneTaskKeeps
<1>4. CASE tlShown[t] # <<>>
  <2>1. tlShown' = [tlShown EXCEPT ![t] = new]
    BY <1>4, TlTypes DEF ApplyCancel
  <2>2. "cancelled" \in TlStatus /\ tlShown[t] \in Seq(TlStatus)
    BY <1>2 DEF TlStatus, TaskSettled, EntriesOK
  <2>3. /\ new \in Seq(TlStatus) /\ Len(new) = Len(tlShown[t]) /\ DOMAIN new = DOMAIN tlShown[t]
        /\ \A i \in DOMAIN new : i # 1 => new[i] = tlShown[t][i]
        /\ 1 \in DOMAIN new /\ new[1] = "cancelled"
    <3> DEFINE s == tlShown[t]
    <3>1. s \in Seq(TlStatus) /\ "cancelled" \in TlStatus /\ new = [s EXCEPT ![1] = "cancelled"]
      BY <2>2
    <3> HIDE DEF s
    <3>2. /\ DOMAIN s = 1..Len(s) /\ Len(s) \in Nat /\ DOMAIN new = DOMAIN s
          /\ \A i \in DOMAIN s : new[i] = IF i = 1 THEN "cancelled" ELSE s[i]
      BY <3>1
    <3>3. 1 \in 1..Len(s)
      BY <1>4, <3>1 DEF s
    <3>4. new \in Seq(TlStatus) /\ Len(new) = Len(s)
      <4>1. [s EXCEPT ![1] = "cancelled"] \in Seq(TlStatus) /\ Len([s EXCEPT ![1] = "cancelled"]) = Len(s)
        BY <3>1, <3>3, ExceptSeq
      <4> QED  BY <3>1, <4>1
    <3> QED  BY <3>2, <3>3, <3>4 DEF s
  <2> HIDE DEF new
  <2>4. \A i \in DOMAIN new : Told(new[i], tlTask[t])
    <3>1. TAKE i \in DOMAIN new
    <3>2. CASE i = 1
      BY <2>3, <3>2 DEF Told
    <3>3. CASE i # 1
      BY <1>2, <2>3, <3>3 DEF EntriesOK
    <3> QED  BY <3>2, <3>3
  <2>5. /\ tlShown'[t] = new /\ tlShown' \in [TlTask -> Seq(TlStatus)]
        /\ \A o \in TlTask \ {t} : tlShown'[o] = tlShown[o]
    BY <2>1, <2>3, TlTypes
  <2>6. TaskOK(t)'
    BY <1>1, <1>2, <2>3, <2>4, <2>5, TlTypes DEF TaskOK, EntriesOK
  <2> QED  BY <1>1, <2>5, <2>6, TlTypes, OneTaskKeeps
<1> QED  BY <1>3, <1>4

LEMMA ListTaskMovesKeeps == ASSUME TlIInv, NEW t \in TlTask, ListTaskMoves(t) PROVE TlIInv'
<1>1. tlTask[t] # "absent" /\ UNCHANGED <<tlShown, tlFetch, tlLoading, tlCreate, tlCancel, tlErrors>>
  BY DEF ListTaskMoves
<1>2. PICK s \in TaskState : <<tlTask[t], s>> \in PortMoves /\ tlTask' = [tlTask EXCEPT ![t] = s]
  BY DEF ListTaskMoves
<1>3. s # "absent" /\ \A status \in TlStatus : Told(status, tlTask[t]) => Told(status, s)
  BY <1>2, PortStates, ToldStays
<1>4. tlTask' \in [TlTask -> TaskState] /\ tlTask'[t] = s /\ \A o \in TlTask \ {t} : tlTask'[o] = tlTask[o]
  BY <1>2, TlTypes
<1>5. TaskOK(t)'
  BY <1>1, <1>3, <1>4, TlTypes DEF TaskOK, EntriesOK
<1> QED  BY <1>1, <1>2, <1>3, <1>4, <1>5, TlTypes, OneTaskKeeps

LEMMA TlStepKeeps == ASSUME TlIInv, [TlNext]_tlVars PROVE TlIInv'
<1>1. CASE UNCHANGED tlVars
  BY <1>1 DEF tlVars, TlIInv, TaskListTypeOK, TaskOK
<1>2. CASE TlNext
  BY <1>2, FetchKeeps, ApplyListKeeps, PressKeeps, ServeCreateKeeps, ApplyCreateKeeps, ServeCancelKeeps,
    ApplyCancelKeeps, ListTaskMovesKeeps
  DEF TlNext, FetchSteps
<1> QED  BY <1>1, <1>2

LEMMA TlAlwaysInv == TlSpec => []TlIInv
<1>1. TlInit => TlIInv
  BY TlInitInv
<1>2. TlIInv /\ [TlNext]_tlVars => TlIInv'
  BY TlStepKeeps
<1> QED  BY <1>1, <1>2, PTL DEF TlSpec

\* The list of tasks, its fetches and the rows they show keep their types.
THEOREM TaskListTypeCorrect == TlSpec => []TaskListTypeOK
<1>1. TlIInv => TaskListTypeOK
  BY DEF TlIInv
<1> QED  BY <1>1, TlAlwaysInv, PTL

\* A list that has stopped polling shows every task as it is, up to a
\* cancellation, and a second entry only under one that shows the task cancelled,
\* whatever the order in which polls and any number of buttons are answered.
THEOREM QuietListsAreRight == TlSpec => []QuietListIsRight
<1>1. ASSUME TlIInv, TlQuiet, ~Unsettled, NEW t \in TlTask, NEW i \in DOMAIN tlShown[t]
      PROVE  LET now == Shown(tlTask[t])  shown == tlShown[t][i] IN
             /\ shown = now \/ "cancelled" \in {shown, now}
             /\ i > 1 => tlShown[t][1] = "cancelled"
  <2>1. /\ tlShown[t] \in Seq(TlStatus) /\ Len(tlShown[t]) \in 0..2 /\ tlTask[t] \in TaskState
        /\ \A k \in DOMAIN tlShown[t] : tlShown[t][k] # "active" /\ Told(tlShown[t][k], tlTask[t])
        /\ Len(tlShown[t]) = 2 => tlShown[t][1] \in {"active", "cancelled"}
    BY <1>1 DEF TlIInv, TaskListTypeOK, TaskOK, EntriesOK, Unsettled
  <2>2. tlShown[t][i] \in TaskSettled
    BY <2>1 DEF TlStatus
  <2>3. i > 1 => Len(tlShown[t]) = 2 /\ 1 \in DOMAIN tlShown[t]
    <3>1. i \in 1..Len(tlShown[t]) /\ Len(tlShown[t]) \in Nat /\ DOMAIN tlShown[t] = 1..Len(tlShown[t])
      BY <1>1, <2>1
    <3>2. \A n \in 0..2 : \A k \in 1..n : k > 1 => n = 2 /\ 1 \in 1..n
      OBVIOUS
    <3> QED  BY <2>1, <3>1, <3>2
  <2>4. i > 1 => tlShown[t][1] = "cancelled"
    BY <2>1, <2>3
  <2> QED  BY <2>1, <2>2, <2>4, ToldStands
<1>2. TlIInv => QuietListIsRight
  BY <1>1 DEF QuietListIsRight
<1> QED  BY <1>2, TlAlwaysInv, PTL

--------------------------------------------------------------------------
(* BuildPage *)

(***************************************************************************)
(* A chain counts for the page when it polls the job the page shows; it is *)
(* live until the answer that ends it has been applied.  A page that shows *)
(* an open build has a live chain, or a start that has cleared the timer   *)
(* and will set one again or tell an error; one that says it is building   *)
(* waits for the build of an import, or has a chain that will say how the  *)
(* build ended.                                                            *)
(***************************************************************************)

Counts(c) == bpChain[c].pc # "none" /\ bpChain[c].job = bpPage.job

Live(c) == Counts(c) /\ (bpChain[c].pc = "refreshing" => bpChain[c].status = "open")

StartAsks == \E k \in BpJob : bpStart[k].pc \in {"asked", "answered", "refreshing"}

Awaited == \E k \in BpJob : bpStart[k].imported /\ bpStart[k].pc \in {"asked", "answered"}

Followed ==
  bpPage.job # {} /\ \E k \in BpJob : bpStart[k].pc = "refreshing" \/ Counts(k)

ShownInv ==
  bpPage.open /\ bpPage.job # {} /\ bpPage.shown = "open" =>
    bpPage.error \/ StartAsks \/ \E c \in BpJob : Live(c)

NoticeInv == bpPage.open /\ bpPage.notice = "building" => Awaited \/ Followed

BpIInv ==
  /\ BuildPageTypeOK
  /\ \A j \in BpJob : bpStart[j].pc = "importing" => bpStart[j].imported
  /\ \A j \in bpPage.job : bpPage.job = {j}
  /\ ShownInv /\ NoticeInv

LEMMA BpInitInv == ASSUME BpInit PROVE BpIInv
<1>1. BuildPageTypeOK
  BY BuildPageAssumption DEF BpInit, BuildPageTypeOK, NoChain, BpPageType, BpStartType, BpChainType, BpStatus
<1> QED  BY <1>1 DEF BpInit, BpIInv, ShownInv, NoticeInv

LEMMA BpTypes ==
  ASSUME BpIInv
  PROVE  /\ bpStart \in [BpJob -> BpStartType] /\ bpChain \in [BpJob -> BpChainType] /\ bpPage \in BpPageType
         /\ bpPage.job \subseteq BpJob /\ bpErrors \in 0..BpMaxErrors
BY DEF BpIInv, BuildPageTypeOK, BpPageType

LEMMA NoChainType == NoChain \in BpChainType /\ NoChain.pc = "none"
BY DEF NoChain, BpChainType, BpStatus

LEMMA ClearedChains ==
  ASSUME BpIInv
  PROVE  /\ Cleared \in [BpJob -> BpChainType]
         /\ \A j \in BpJob : Cleared[j] = NoChain \/ Cleared[j] = bpChain[j]
BY BpTypes, NoChainType DEF Cleared

\* A start takes its next step.
LEMMA StartTypes ==
  ASSUME BpIInv, NEW j \in BpJob, NEW pc,
         NEW next \in {"idle", "importing", "asked", "answered", "refreshing", "followed", "refused", "threw"},
         BpStartStep(j, pc, next)
  PROVE  /\ bpStart' \in [BpJob -> BpStartType] /\ bpErrors' \in 0..BpMaxErrors
         /\ bpStart[j].pc = pc /\ bpStart'[j].pc = next
         /\ bpStart'[j].imported = (bpStart[j].imported \/ next = "importing")
         /\ \A k \in BpJob \ {j} : bpStart'[k] = bpStart[k]
<1>1. bpStart \in [BpJob -> BpStartType] /\ bpStart[j] \in BpStartType
  BY BpTypes
<1> DEFINE new == [bpStart[j] EXCEPT !.pc = next, !.imported = @ \/ next = "importing"]
<1>2. new \in BpStartType /\ new.pc = next /\ new.imported = (bpStart[j].imported \/ next = "importing")
  BY <1>1 DEF BpStartType
<1>3. bpStart' = [bpStart EXCEPT ![j] = new] /\ bpStart[j].pc = pc /\ UNCHANGED bpErrors
  BY <1>1 DEF BpStartStep
<1> HIDE DEF new
<1> QED  BY <1>1, <1>2, <1>3, BpTypes

\* A start step forgets no import.
LEMMA StartFlags ==
  ASSUME BpIInv, NEW j \in BpJob, NEW pc,
         NEW next \in {"importing", "asked", "answered", "refreshing", "followed", "refused", "threw"},
         BpStartStep(j, pc, next)
  PROVE  /\ \A k \in BpJob : bpStart'[k].pc = "importing" => bpStart'[k].imported
         /\ bpStart[j].imported => bpStart'[j].imported
<1>1. /\ bpStart'[j].imported = (bpStart[j].imported \/ next = "importing") /\ bpStart'[j].pc = next
      /\ \A k \in BpJob \ {j} : bpStart'[k] = bpStart[k]
  BY StartTypes
<1> QED  BY <1>1 DEF BpIInv

LEMMA ImportKeeps == ASSUME BpIInv, NEW j \in BpJob, ImportPackage(j) PROVE BpIInv'
<1> DEFINE p == [bpPage EXCEPT !.job = {}, !.shown = "absent", !.notice = "none", !.error = FALSE]
<1>1. BpStartStep(j, "idle", "importing") /\ bpPage' = p /\ UNCHANGED <<bpJob, bpChain, bpTimer>>
  BY DEF ImportPackage
<1>2. p \in BpPageType /\ p.job = {} /\ p.notice = "none"
  BY BpTypes DEF BpPageType, BpStatus
<1> HIDE DEF p
<1>3. BuildPageTypeOK'
  BY <1>1, <1>2, StartTypes DEF BpIInv, BuildPageTypeOK
<1>4. ShownInv' /\ NoticeInv'
  BY <1>1, <1>2 DEF ShownInv, NoticeInv
<1> QED  BY <1>1, <1>2, <1>3, <1>4, StartFlags DEF BpIInv

\* A build is asked for: the timer that is kept is cleared.
LEMMA BuildAskKeeps ==
  ASSUME BpIInv, NEW j \in BpJob, NEW pc \in {"idle", "importing"}, BpStartStep(j, pc, "asked"),
         NEW p \in BpPageType, bpPage' = p, p.job = bpPage.job,
         p.notice = "building" => bpStart[j].imported,
         bpChain' = Cleared, UNCHANGED <<bpJob, bpTimer>>
  PROVE  BpIInv'
<1>1. bpStart' \in [BpJob -> BpStartType] /\ bpErrors' \in 0..BpMaxErrors /\ bpStart'[j].pc = "asked"
  BY StartTypes
<1>2. BuildPageTypeOK'
  BY <1>1, ClearedChains DEF BpIInv, BuildPageTypeOK
<1>3. ShownInv'
  BY <1>1 DEF ShownInv, StartAsks
<1>4. NoticeInv'
  BY <1>1, StartFlags DEF NoticeInv, Awaited
<1> QED  BY <1>2, <1>3, <1>4, StartFlags DEF BpIInv

LEMMA ImportedKeeps == ASSUME BpIInv, NEW j \in BpJob, Imported(j) PROVE BpIInv'
<1> DEFINE p == [bpPage EXCEPT !.notice = "building"]
<1>1. /\ BpStartStep(j, "importing", "asked") /\ bpPage' = p /\ bpChain' = Cleared /\ UNCHANGED <<bpJob, bpTimer>>
      /\ bpStart[j].imported
  BY DEF Imported, BpStartStep, BpIInv
<1>2. p \in BpPageType /\ p.job = bpPage.job
  BY BpTypes DEF BpPageType
<1> HIDE DEF p
<1> QED  BY <1>1, <1>2, BuildAskKeeps

LEMMA BuildAlgorithmKeeps == ASSUME BpIInv, NEW j \in BpJob, BuildAlgorithm(j) PROVE BpIInv'
<1> DEFINE p == [bpPage EXCEPT !.notice = "none", !.error = FALSE]
<1>1. BpStartStep(j, "idle", "asked") /\ bpPage' = p /\ bpChain' = Cleared /\ UNCHANGED <<bpJob, bpTimer>>
  BY DEF BuildAlgorithm
<1>2. p \in BpPageType /\ p.job = bpPage.job /\ p.notice = "none"
  BY BpTypes DEF BpPageType
<1> HIDE DEF p
<1> QED  BY <1>1, <1>2, BuildAskKeeps

LEMMA ServeBuildKeeps == ASSUME BpIInv, NEW j \in BpJob, ServeBuild(j) PROVE BpIInv'
<1>1. BpStartStep(j, "asked", "answered") /\ UNCHANGED <<bpChain, bpTimer, bpPage>>
      /\ bpJob' = [bpJob EXCEPT ![j] = "open"]
  BY DEF ServeBuild
<1>2. /\ bpStart' \in [BpJob -> BpStartType] /\ bpErrors' \in 0..BpMaxErrors
      /\ bpStart[j].pc = "asked" /\ bpStart'[j].pc = "answered"
      /\ \A k \in BpJob \ {j} : bpStart'[k] = bpStart[k]
  BY <1>1, StartTypes
<1>3. BuildPageTypeOK'
  BY <1>1, <1>2 DEF BpIInv, BuildPageTypeOK, BpStatus
<1>4. ShownInv'
  BY <1>1, <1>2 DEF BpIInv, ShownInv, StartAsks, Live, Counts
<1>5. Awaited => Awaited'
  BY <1>1, <1>2, StartFlags DEF Awaited
<1>6. Followed => Followed'
  BY <1>1, <1>2 DEF Followed, Counts
<1> QED  BY <1>1, <1>3, <1>4, <1>5, <1>6, StartFlags DEF BpIInv, NoticeInv

\* A start fails and the page is told.
LEMMA StartFailsKeeps ==
  ASSUME BpIInv, NEW j \in BpJob, NEW pc \in {"importing", "asked", "answered", "refreshing"},
         NEW next \in {"refused", "threw"}, BpStartStep(j, pc, next), TellError(j),
         pc = "refreshing" => bpPage.job = {}
  PROVE  BpIInv'
<1> DEFINE p == [bpPage EXCEPT !.error = TRUE, !.notice = IF bpStart[j].imported THEN "none" ELSE @]
<1>1. UNCHANGED <<bpJob, bpChain, bpTimer>> /\ bpPage' = p
  BY DEF TellError
<1>2. /\ p \in BpPageType /\ p.job = bpPage.job /\ p.open = bpPage.open /\ p.error
      /\ p.notice = "building" => bpPage.notice = "building" /\ ~bpStart[j].imported
  BY BpTypes DEF BpPageType
<1> HIDE DEF p
<1>3. /\ bpStart' \in [BpJob -> BpStartType] /\ bpErrors' \in 0..BpMaxErrors
      /\ bpStart[j].pc = pc /\ \A k \in BpJob \ {j} : bpStart'[k] = bpStart[k]
  BY StartTypes
<1>4. BuildPageTypeOK'
  BY <1>1, <1>2, <1>3 DEF BpIInv, BuildPageTypeOK
<1>5. ShownInv'
  BY <1>1, <1>2 DEF ShownInv
<1>6. ~bpStart[j].imported /\ Awaited => Awaited'
  BY <1>3 DEF Awaited
<1>7. Followed => Followed'
  <2>1. SUFFICES ASSUME bpPage.job # {}, NEW k \in BpJob, bpStart[k].pc = "refreshing" \/ Counts(k)
        PROVE  bpStart'[k].pc = "refreshing" \/ Counts(k)'
    BY <1>1, <1>2 DEF Followed
  <2> QED  BY <1>1, <1>2, <1>3, <2>1 DEF Counts
<1>8. NoticeInv'
  BY <1>1, <1>2, <1>6, <1>7 DEF BpIInv, NoticeInv
<1>9. \A k \in bpPage'.job : bpPage'.job = {k}
  BY <1>1, <1>2 DEF BpIInv
<1> QED  BY <1>4, <1>5, <1>8, <1>9, StartFlags DEF BpIInv

LEMMA StartRefusedKeeps ==
  ASSUME BpIInv, NEW j \in BpJob, StartRefused(j) \/ FollowNothing(j)
  PROVE  BpIInv'
<1>1. CASE StartRefused(j)
  BY <1>1, StartFailsKeeps DEF StartRefused
<1>2. CASE FollowNothing(j)
  BY <1>2, StartFailsKeeps DEF FollowNothing
<1> QED  BY <1>1, <1>2

LEMMA ApplyBuildKeeps == ASSUME BpIInv, NEW j \in BpJob, ApplyBuild(j) PROVE BpIInv'
<1> DEFINE p == [bpPage EXCEPT !.job = {j}, !.shown = "open", !.notice = "building"]
<1>1. BpStartStep(j, "answered", "refreshing") /\ bpPage' = p /\ UNCHANGED <<bpJob, bpChain, bpTimer>>
  BY DEF ApplyBuild
<1>2. p \in BpPageType /\ p.job = {j}
  BY BpTypes DEF BpPageType, BpStatus
<1> HIDE DEF p
<1>3. bpStart' \in [BpJob -> BpStartType] /\ bpErrors' \in 0..BpMaxErrors /\ bpStart'[j].pc = "refreshing"
  BY <1>1, StartTypes
<1>4. BuildPageTypeOK'
  BY <1>1, <1>2, <1>3 DEF BpIInv, BuildPageTypeOK
<1>5. ShownInv' /\ NoticeInv'
  BY <1>1, <1>2, <1>3 DEF ShownInv, NoticeInv, StartAsks, Followed
<1> QED  BY <1>1, <1>2, <1>4, <1>5, StartFlags DEF BpIInv

LEMMA FollowKeeps == ASSUME BpIInv, NEW j \in BpJob, FollowBuild(j) PROVE BpIInv'
<1> DEFINE c == [pc |-> "armed", job |-> bpPage.job, status |-> "absent"]
<1>1. BpStartStep(j, "refreshing", "followed") /\ UNCHANGED <<bpJob, bpPage>> /\ bpPage.job # {}
      /\ bpChain' = [bpChain EXCEPT ![j] = c] /\ bpTimer' = {j}
  BY DEF FollowBuild, Arm
<1>2. c \in BpChainType /\ c.pc = "armed" /\ c.job = bpPage.job
  BY BpTypes DEF BpChainType, BpStatus
<1> HIDE DEF c
<1>3. /\ bpStart' \in [BpJob -> BpStartType] /\ bpErrors' \in 0..BpMaxErrors
      /\ bpStart[j].pc = "refreshing" /\ \A k \in BpJob \ {j} : bpStart'[k] = bpStart[k]
  BY <1>1, StartTypes
<1>4. BuildPageTypeOK'
  BY <1>1, <1>2, <1>3 DEF BpIInv, BuildPageTypeOK
<1>5. Live(j)' /\ Counts(j)'
  BY <1>1, <1>2, BpTypes DEF Live, Counts
<1> QED  BY <1>1, <1>4, <1>5, StartFlags DEF BpIInv, ShownInv, NoticeInv, Followed

(***************************************************************************)
(* Chain c goes on to next, or ends.                                       *)
(***************************************************************************)
LEMMA ChainKeeps ==
  ASSUME BpIInv, NEW c \in BpJob, NEW next \in BpChainType, bpChain' = [bpChain EXCEPT ![c] = next],
         UNCHANGED <<bpJob, bpStart>>, bpTimer' \subseteq BpJob, bpErrors' \in 0..BpMaxErrors,
         bpPage' \in BpPageType, bpPage'.job = bpPage.job, bpPage'.open = bpPage.open,
         bpPage'.shown = "open" =>
           bpPage'.error \/ (bpPage.shown = "open" /\ (bpPage.error => bpPage'.error)) \/ Live(c)',
         Live(c) => bpPage'.shown # "open" \/ Live(c)',
         bpPage'.notice = "building" => bpPage.notice = "building" /\ (Counts(c) => Counts(c)')
  PROVE  BpIInv'
<1>1. bpChain' \in [BpJob -> BpChainType] /\ bpChain'[c] = next
      /\ \A k \in BpJob \ {c} : bpChain'[k] = bpChain[k]
  BY BpTypes
<1>2. BuildPageTypeOK'
  BY <1>1 DEF BpIInv, BuildPageTypeOK
<1>3. \A k \in BpJob \ {c} : Counts(k)' = Counts(k) /\ Live(k)' = Live(k)
  BY <1>1 DEF Live, Counts
<1>4. StartAsks' = StartAsks /\ Awaited' = Awaited
  BY DEF StartAsks, Awaited
<1>5. ShownInv'
  BY <1>3, <1>4 DEF BpIInv, ShownInv
<1>6. NoticeInv'
  BY <1>3, <1>4 DEF BpIInv, NoticeInv, Followed
<1> QED  BY <1>2, <1>5, <1>6 DEF BpIInv

LEMMA ArmedChain ==
  ASSUME BpIInv, NEW c \in BpJob, Arm(c, bpChain[c].job)
  PROVE  \E next \in BpChainType :
           /\ next.pc = "armed" /\ next.job = bpChain[c].job
           /\ bpChain' = [bpChain EXCEPT ![c] = next] /\ bpTimer' \subseteq BpJob
<1>1. [pc |-> "armed", job |-> bpChain[c].job, status |-> "absent"] \in BpChainType
  BY BpTypes DEF BpChainType, BpStatus
<1> QED  BY <1>1 DEF Arm

\* A step of chain c that leaves its job and what the page shows.
LEMMA PollGoesOn ==
  ASSUME BpIInv, NEW c \in BpJob, bpChain[c].pc \in {"armed", "asked", "answered"},
         NEW next \in BpChainType, next.pc \in {"armed", "asked", "answered"}, next.job = bpChain[c].job,
         bpChain' = [bpChain EXCEPT ![c] = next],
         UNCHANGED <<bpJob, bpStart>>, bpTimer' \subseteq BpJob, bpErrors' \in 0..BpMaxErrors,
         bpPage' = bpPage \/ bpPage' = [bpPage EXCEPT !.error = TRUE]
  PROVE  BpIInv'
<1>1. /\ bpPage' \in BpPageType /\ bpPage'.job = bpPage.job /\ bpPage'.open = bpPage.open
      /\ bpPage'.notice = bpPage.notice /\ bpPage'.shown = bpPage.shown /\ (bpPage.error => bpPage'.error)
  BY BpTypes DEF BpPageType
<1>2. bpChain'[c] = next
  BY BpTypes
<1>3. (Live(c) => Live(c)') /\ (Counts(c) => Counts(c)')
  BY <1>1, <1>2 DEF Live, Counts
<1> QED  BY <1>1, <1>3, ChainKeeps

LEMMA TimerFiresKeeps == ASSUME BpIInv, NEW c \in BpJob, TimerFires(c) PROVE BpIInv'
<1> DEFINE n == [bpChain[c] EXCEPT !.pc = "asked"]
<1>1. /\ bpChain[c] \in BpChainType /\ bpChain[c].pc = "armed" /\ bpChain' = [bpChain EXCEPT ![c] = n]
      /\ UNCHANGED <<bpJob, bpStart, bpTimer, bpErrors, bpPage>>
  BY BpTypes DEF TimerFires, ChainStep
<1>2. n \in BpChainType /\ n.pc = "asked" /\ n.job = bpChain[c].job
  BY <1>1 DEF BpChainType
<1> HIDE DEF n
<1> QED  BY <1>1, <1>2, PollGoesOn, BpTypes DEF BpIInv, BuildPageTypeOK

LEMMA ServeJobKeeps == ASSUME BpIInv, NEW c \in BpJob, ServeJob(c) PROVE BpIInv'
<1>1. PICK j \in bpChain[c].job :
        /\ bpChain[c].pc = "asked"
        /\ bpChain' = [bpChain EXCEPT ![c] = [bpChain[c] EXCEPT !.pc = "answered", !.status = bpJob[j]]]
        /\ UNCHANGED <<bpJob, bpStart, bpTimer, bpErrors, bpPage>>
  BY DEF ServeJob, ChainStep
<1> DEFINE n == [bpChain[c] EXCEPT !.pc = "answered", !.status = bpJob[j]]
<1>2. bpChain[c] \in BpChainType /\ bpChain' = [bpChain EXCEPT ![c] = n]
  BY <1>1, BpTypes
<1>3. bpJob[j] \in BpStatus
  BY <1>2 DEF BpIInv, BuildPageTypeOK, BpChainType
<1>4. n \in BpChainType /\ n.pc = "answered" /\ n.job = bpChain[c].job
  BY <1>2, <1>3 DEF BpChainType
<1> HIDE DEF n
<1> QED  BY <1>1, <1>2, <1>4, PollGoesOn, BpTypes DEF BpIInv, BuildPageTypeOK

LEMMA PollFailsKeeps == ASSUME BpIInv, NEW c \in BpJob, PollFails(c) PROVE BpIInv'
<1>1. /\ bpChain[c].pc \in {"asked", "answered"} /\ Arm(c, bpChain[c].job)
      /\ UNCHANGED <<bpJob, bpStart>> /\ bpPage' = [bpPage EXCEPT !.error = TRUE]
      /\ bpErrors < BpMaxErrors /\ bpErrors' = bpErrors + 1
  BY DEF PollFails, PollError
<1>2. bpErrors' \in 0..BpMaxErrors
  BY <1>1, BpTypes, BuildPageAssumption
<1> QED  BY <1>1, <1>2, ArmedChain, PollGoesOn

LEMMA ApplyJobKeeps == ASSUME BpIInv, NEW c \in BpJob, ApplyJob(c) PROVE BpIInv'
<1>1. /\ bpChain[c] \in BpChainType /\ bpChain[c].pc = "answered" /\ bpTimer \subseteq BpJob
      /\ UNCHANGED <<bpJob, bpStart, bpTimer, bpErrors>>
  BY BpTypes DEF ApplyJob, ChainStep, BpIInv, BuildPageTypeOK
<1>2. CASE bpPage.job # bpChain[c].job
  <2>1. bpChain' = [bpChain EXCEPT ![c] = NoChain] /\ UNCHANGED bpPage
    BY <1>2 DEF ApplyJob, ChainStep
  <2>2. ~Counts(c) /\ ~Live(c)
    BY <1>2 DEF Live, Counts
  <2> QED  BY <1>1, <2>1, <2>2, NoChainType, ChainKeeps, BpTypes
<1>3. CASE bpPage.job = bpChain[c].job
  <2> DEFINE n == [bpChain[c] EXCEPT !.pc = "refreshing"]
             p == [bpPage EXCEPT !.shown = bpChain[c].status, !.error = FALSE]
  <2>1. bpChain' = [bpChain EXCEPT ![c] = n] /\ bpPage' = p
    BY <1>3 DEF ApplyJob, ChainStep
  <2>2. n \in BpChainType /\ n.pc = "refreshing" /\ n.status = bpChain[c].status /\ n.status \in BpStatus
        /\ n.job = bpPage.job
    BY <1>1, <1>3 DEF BpChainType
  <2>3. /\ p \in BpPageType /\ p.job = bpPage.job /\ p.open = bpPage.open /\ p.notice = bpPage.notice
        /\ p.shown = bpChain[c].status
    BY <2>2, BpTypes DEF BpPageType
  <2> HIDE DEF n, p
  <2>4. bpChain'[c] = n
    BY <2>1, BpTypes
  <2>5. Counts(c)' /\ (bpPage'.shown = "open" => Live(c)')
    BY <2>1, <2>2, <2>3, <2>4 DEF Live, Counts
  <2> QED  BY <1>1, <2>1, <2>2, <2>3, <2>5, ChainKeeps, BpTypes
<1> QED  BY <1>2, <1>3

LEMMA GoOnKeeps == ASSUME BpIInv, NEW c \in BpJob, GoOn(c) PROVE BpIInv'
<1> DEFINE status == bpChain[c].status
<1>1. /\ bpChain[c] \in BpChainType /\ bpChain[c].pc = "refreshing" /\ bpTimer \subseteq BpJob
      /\ UNCHANGED <<bpJob, bpStart, bpErrors>>
  BY BpTypes DEF GoOn, BpIInv, BuildPageTypeOK
<1>2. CASE status = "open"
  <2>1. Arm(c, bpChain[c].job) /\ UNCHANGED bpPage
    BY <1>2 DEF GoOn
  <2>2. PICK next \in BpChainType : /\ next.pc = "armed" /\ next.job = bpChain[c].job
                                    /\ bpChain' = [bpChain EXCEPT ![c] = next] /\ bpTimer' \subseteq BpJob
    BY <2>1, ArmedChain
  <2>3. bpChain'[c] = next
    BY <2>2, BpTypes
  <2>4. (Live(c) => Live(c)') /\ (Counts(c) => Counts(c)')
    BY <1>1, <2>1, <2>2, <2>3 DEF Live, Counts
  <2> QED  BY <1>1, <2>1, <2>2, <2>4, ChainKeeps, BpTypes
<1>3. CASE status # "open"
  <2>1. bpChain' = [bpChain EXCEPT ![c] = NoChain] /\ UNCHANGED bpTimer /\ ~Live(c)
    BY <1>1, <1>3 DEF GoOn, Live
  <2>2. /\ bpPage' \in BpPageType /\ bpPage'.job = bpPage.job /\ bpPage'.open = bpPage.open
        /\ bpPage'.shown = bpPage.shown /\ bpPage'.notice # "building" /\ (bpPage.error => bpPage'.error)
    <3>1. \/ bpPage' = [bpPage EXCEPT !.notice = "published"]
          \/ bpPage' = [bpPage EXCEPT !.notice = "none", !.error = TRUE]
      BY <1>3 DEF GoOn
    <3> QED  BY <3>1, BpTypes DEF BpPageType
  <2> QED  BY <1>1, <2>1, <2>2, NoChainType, ChainKeeps, BpTypes
<1> QED  BY <1>2, <1>3

LEMMA LeaveBuildPageKeeps == ASSUME BpIInv, LeaveBuildPage PROVE BpIInv'
<1> DEFINE p == [bpPage EXCEPT !.open = FALSE]
<1>1. bpPage' = p /\ bpChain' = Cleared /\ UNCHANGED <<bpJob, bpStart, bpTimer, bpErrors>>
  BY DEF LeaveBuildPage
<1>2. p \in BpPageType /\ p.job = bpPage.job /\ ~p.open
  BY BpTypes DEF BpPageType
<1> HIDE DEF p
<1>3. BuildPageTypeOK'
  BY <1>1, <1>2, ClearedChains DEF BpIInv, BuildPageTypeOK
<1> QED  BY <1>1, <1>2, <1>3 DEF BpIInv, ShownInv, NoticeInv

LEMMA BpStutters == ASSUME BpIInv, UNCHANGED <<bpStart, bpChain, bpTimer, bpPage, bpErrors>>,
                           bpJob' \in [BpJob -> BpStatus]
                    PROVE  BpIInv'
BY DEF BpIInv, BuildPageTypeOK, ShownInv, NoticeInv, StartAsks, Awaited, Followed, Live, Counts

LEMMA BpStepKeeps == ASSUME BpIInv, [BpNext \/ BpIdle]_bpVars PROVE BpIInv'
<1>1. CASE BpIdle \/ UNCHANGED bpVars
  BY <1>1, BpStutters DEF BpIdle, bpVars, BpIInv, BuildPageTypeOK
<1>2. ASSUME NEW j \in BpJob, NEW outcome \in {"completed", "failed"}, BuildEnds(j, outcome) PROVE BpIInv'
  BY <1>2, BpStutters DEF BuildEnds, BpIInv, BuildPageTypeOK, BpStatus
<1>3. CASE BpNext
  <2>1. CASE LeaveBuildPage
    BY <2>1, LeaveBuildPageKeeps
  <2>2. ASSUME NEW j \in BpJob, ImportPackage(j) \/ BuildAlgorithm(j) \/ StartSteps(j) \/ StartRefused(j)
        PROVE  BpIInv'
    <3>1. CASE ImportPackage(j)
      BY <3>1, ImportKeeps
    <3>2. CASE Imported(j)
      BY <3>2, ImportedKeeps
    <3>3. CASE BuildAlgorithm(j)
      BY <3>3, BuildAlgorithmKeeps
    <3>4. CASE ServeBuild(j)
      BY <3>4, ServeBuildKeeps
    <3>5. CASE ApplyBuild(j)
      BY <3>5, ApplyBuildKeeps
    <3>6. CASE FollowBuild(j)
      BY <3>6, FollowKeeps
    <3>7. CASE StartRefused(j) \/ FollowNothing(j)
      BY <3>7, StartRefusedKeeps
    <3> QED  BY <2>2, <3>1, <3>2, <3>3, <3>4, <3>5, <3>6, <3>7 DEF StartSteps
  <2>3. ASSUME NEW c \in BpJob, ChainSteps(c) \/ PollFails(c) PROVE BpIInv'
    <3>1. CASE TimerFires(c)
      BY <3>1, TimerFiresKeeps
    <3>2. CASE ServeJob(c)
      BY <3>2, ServeJobKeeps
    <3>3. CASE PollFails(c)
      BY <3>3, PollFailsKeeps
    <3>4. CASE ApplyJob(c)
      BY <3>4, ApplyJobKeeps
    <3>5. CASE GoOn(c)
      BY <3>5, GoOnKeeps
    <3> QED  BY <2>3, <3>1, <3>2, <3>3, <3>4, <3>5 DEF ChainSteps
  <2> QED  BY <1>2, <1>3, <2>1, <2>2, <2>3 DEF BpNext
<1> QED  BY <1>1, <1>3

LEMMA BpAlwaysInv == BpSpec => []BpIInv
<1>1. BpInit => BpIInv
  BY BpInitInv
<1>2. BpIInv /\ [BpNext \/ BpIdle]_bpVars => BpIInv'
  BY BpStepKeeps
<1> QED  BY <1>1, <1>2, PTL DEF BpSpec

\* The page of builds, its starts and its polling chains keep their types.
THEOREM BuildPageTypeCorrect == BpSpec => []BuildPageTypeOK
<1>1. BpIInv => BuildPageTypeOK
  BY DEF BpIInv
<1> QED  BY <1>1, BpAlwaysInv, PTL

\* A page that shows a build as open follows it by some chain of timers, waits for
\* a start that will, or shows an error, and a page at rest does not say that it
\* is building: for any number of builds started, refused or left, and any number
\* of chains that follow one job.
THEOREM BuildPageStaysRight == BpSpec => []BuildPageIsRight
<1>1. ASSUME BpIInv PROVE ShownBuildIsFollowed
  BY <1>1 DEF BpIInv, ShownInv, ShownBuildIsFollowed, StartAsks, Live, Counts
<1>2. ASSUME BpIInv PROVE QuietPageIsNotBuilding
  <2>1. SUFFICES ASSUME BpQuiet PROVE ~Awaited /\ ~Followed
    BY <1>2 DEF QuietPageIsNotBuilding, BpIInv, NoticeInv
  <2>2. \A j \in BpJob : bpStart[j].pc \notin {"asked", "answered", "refreshing"} /\ bpChain[j].pc = "none"
    BY <2>1 DEF BpQuiet, BpStarting, NoChain
  <2> QED  BY <2>2 DEF Awaited, Followed, Counts
<1> QED  BY <1>1, <1>2, BpAlwaysInv, PTL DEF BuildPageIsRight
=============================================================================
