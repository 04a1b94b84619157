--------------------------- MODULE TaskQueueProofs ---------------------------
(***************************************************************************)
(* Proofs about TaskQueue for every set of tasks and requests, every       *)
(* number of workers and restarts, with and without a store that raises.   *)
(***************************************************************************)
EXTENDS TaskQueue, SequenceTheorems, TLAPS

USE DEF Goto

(***************************************************************************)
(* Facts about rows.  The actions write rows only through these operators, *)
(* so the proofs below use the lemmas and keep the definitions closed.     *)
(***************************************************************************)

\* InferenceTask.transition with the arguments of one of the worker's saves
\* yields a row of the new status; only "completed" carries a result, and a
\* container once recorded is kept.
LEMMA AdvancedRow ==
  ASSUME NEW row \in Row, NEW status \in Active \union Terminal
  PROVE  /\ Advanced(row, status) \in Row
         /\ Advanced(row, status).status = status
         /\ Advanced(row, status).result = "stored" <=> status = "completed"
         /\ Advanced(row, status).container
              = IF status = "running" THEN "instance" ELSE row.container
BY DEF Advanced, Transition, Row, Active, Terminal

\* A cancelled row is a row, and shows no result.
LEMMA CancelledRow ==
  ASSUME NEW row \in Row, NEW actor \in {"operator", "system"}
  PROVE  /\ Cancelled(row, actor) \in Row
         /\ Cancelled(row, actor).status = "cancelled"
         /\ Cancelled(row, actor).result = "none"
BY DEF Cancelled, Transition, Row, Active, Terminal

\* A new row is queued and empty.
LEMMA QueuedRow ==
  ASSUME NEW origin \in Task \union {NoTask}
  PROVE  /\ Queued(origin) \in Row
         /\ Queued(origin).status = "queued"
         /\ Queued(origin).result = "none"
BY DEF Queued, NoRow, Row, Active, Terminal

\* The mark for an absent row is itself a row, and has no result.
LEMMA NoRowRow ==
  /\ NoRow \in Row
  /\ NoRow.status = "absent"
  /\ NoRow.result = "none"
BY DEF NoRow, Row

--------------------------------------------------------------------------
(* Type correctness *)

\* Initially the table is empty, no thread works and nothing is counted.
LEMMA TypeInit == Init => TypeOK
BY NoRowRow DEF Init, TypeOK, Phase, Mode, EventState, RequestState, IdleRequest

\* Every step of creators, workers, cancel requests and the platform's life
\* cycle keeps the state well typed.
LEMMA TypeNext == TypeOK /\ [Next]_vars => TypeOK'
<1> SUFFICES ASSUME TypeOK, [Next]_vars PROVE TypeOK'
  OBVIOUS
<1> USE DEF TypeOK, Phase, CreatorPhase, WorkerPhase
<1>1. ASSUME NEW t \in Task, NEW origin \in Task \union {NoTask}, Validate(t, origin)
      PROVE  TypeOK'
  BY <1>1, QueuedRow DEF Validate
<1>2. ASSUME NEW t \in Task, CreatorStep(t)
      PROVE  TypeOK'
  <2>1. CASE Add(t)     BY <2>1 DEF Add
  <2>2. CASE Arm(t)     BY <2>2 DEF Arm, EventState
  <2>3. CASE Submit(t)
    <3>1. phase' \in [Task -> Phase]
      BY <2>3 DEF Submit
    <3>2. queue' \in Seq(Task)
      <4>1. Append(queue, t) \in Seq(Task)
        BY AppendProperties
      <4>2. queue' = Append(queue, t) \/ queue' = queue
        BY <2>3 DEF Submit
      <4> QED  BY <4>1, <4>2
    <3> QED  BY <2>3, <3>1, <3>2 DEF Submit
  <2> QED  BY <1>2, <2>1, <2>2, <2>3 DEF CreatorStep
<1>3. ASSUME NEW t \in Task, Start(t)
      PROVE  TypeOK'
  BY <1>3 DEF Start
<1>4. ASSUME NEW t \in Task, WorkerStep(t)
      PROVE  TypeOK'
  <2>1. CASE Check1(t) \/ Check2(t) \/ Check3(t) \/ Check4(t)
    BY <2>1 DEF Check1, Check2, Check3, Check4, Check
  <2>2. ASSUME NEW from, NEW status \in Active \union Terminal, NEW to \in Phase,
               Save(t, from, status, to)
        PROVE  TypeOK'
    <3>1. Advanced(local[t], status) \in Row
      BY AdvancedRow
    <3>2. phase' \in [Task -> Phase]
      BY <2>2 DEF Save
    <3>3. local' \in [Task -> Row] /\ tasks' \in [Task -> Row]
      <4>1. CASE UNCHANGED <<tasks, local>>
        BY <4>1
      <4>2. CASE /\ local' = [local EXCEPT ![t] = Advanced(local[t], status)]
                 /\ tasks' = [tasks EXCEPT ![t] = Advanced(local[t], status)]
        BY <3>1, <4>2
      <4> QED  BY <2>2, <4>1, <4>2 DEF Save
    <3> QED  BY <2>2, <3>2, <3>3 DEF Save
  <2>3. CASE SavePreparing(t) \/ SaveStarting(t) \/ SaveRunning(t) \/ SaveCompleted(t)
    BY <2>2, <2>3
    DEF SavePreparing, SaveStarting, SaveRunning, SaveCompleted, Active, Terminal
  <2>4. CASE Lookup(t) \/ StartAlgorithm(t) \/ Touch(t)
    BY <2>4 DEF Lookup, StartAlgorithm, Touch, Call
  <2>5. CASE Predict(t)
    <3>1. phase' \in [Task -> Phase]
      BY <2>5 DEF Predict, Call
    <3>2. predictions' \in [Task -> Nat]
      BY <2>5 DEF Predict
    <3> QED  BY <2>5, <3>1, <3>2 DEF Predict, Call
  <2>6. CASE AbortRead(t)
    BY <2>6 DEF AbortRead
  <2>7. CASE AbortSave(t)
    BY <2>7, CancelledRow DEF AbortSave
  <2>8. CASE FailRead(t)
    BY <2>8 DEF FailRead
  <2>9. CASE FailSave(t)
    BY <2>9, AdvancedRow DEF FailSave, Terminal
  <2>10. CASE Finally(t)
    BY <2>10, NoRowRow DEF Finally, EventState
  <2> QED
    BY <1>4, <2>1, <2>3, <2>4, <2>5, <2>6, <2>7, <2>8, <2>9, <2>10 DEF WorkerStep
<1>5. ASSUME NEW t \in Task, StoreFails(t)
      PROVE  TypeOK'
  BY <1>5 DEF StoreFails
<1>6. ASSUME NEW t \in Task, RecoverTask(t)
      PROVE  TypeOK'
  BY <1>6, AdvancedRow DEF RecoverTask, Terminal
<1>7. ASSUME NEW t \in Task, NEW r \in Request, BeginCancel(r, t)
      PROVE  TypeOK'
  BY <1>7 DEF BeginCancel, RequestState
<1>8. ASSUME NEW r \in Request, CancelSave(r)
      PROVE  TypeOK'
  <2>1. Cancelled(request[r].snapshot, "operator") \in Row
    BY CancelledRow DEF RequestState
  <2> QED  BY <1>8, <2>1 DEF CancelSave, RequestState
<1>9. ASSUME NEW r \in Request, CancelSignal(r)
      PROVE  TypeOK'
  BY <1>9, NoRowRow DEF CancelSignal, RequestState, IdleRequest, EventState
<1>10. ASSUME NEW r \in Request, CancelStoreFails(r)
       PROVE  TypeOK'
  BY <1>10, NoRowRow DEF CancelStoreFails, RequestState, IdleRequest
<1>11. CASE Crash \/ Exit
  <2>1. AllThreadsDie
    BY <1>11 DEF Crash, Exit
  <2>2. phase' \in [Task -> Phase] /\ mode' \in Mode /\ restarts' \in Nat
    BY <2>1 DEF AllThreadsDie, Mode
  <2>3. /\ local' \in [Task -> Row]
        /\ cancelEvents' \in [Task -> EventState]
        /\ request' \in [Request -> RequestState]
        /\ queue' \in Seq(Task)
    BY <2>1, NoRowRow DEF AllThreadsDie, EventState, RequestState, IdleRequest
  <2> QED  BY <2>1, <2>2, <2>3 DEF AllThreadsDie
<1>12. CASE Shutdown
  BY <1>12 DEF Shutdown, Mode
<1>13. CASE Restart \/ RecoveryFails \/ Serve
  BY <1>13 DEF Restart, RecoveryFails, Serve, Mode
<1>14. CASE Idle \/ UNCHANGED vars
  BY <1>14 DEF Idle, vars
<1> QED
  BY <1>1, <1>2, <1>3, <1>4, <1>5, <1>6, <1>7, <1>8, <1>9, <1>10, <1>11, <1>12,
     <1>13, <1>14
  DEF Next, Create, Retry, CancelStep

\* Every reachable state is well typed: in particular every row that any of
\* the racing threads writes back is a row the table can hold.
THEOREM TypeCorrect == Spec => []TypeOK
BY TypeInit, TypeNext, PTL DEF Spec

--------------------------------------------------------------------------
(* Rows and phases *)

\* What one of the worker's saves does to the state the invariants speak of:
\* it writes the new row from the thread's own copy, or it raises.
LEMMA SaveEffect ==
  ASSUME TypeOK, NEW t \in Task, NEW from, NEW to,
         NEW status \in Active \union Terminal, Save(t, from, status, to)
  PROVE  /\ phase[t] = from
         /\ \A u \in Task \ {t} : /\ tasks'[u] = tasks[u]
                                 /\ phase'[u] = phase[u]
                                 /\ local'[u] = local[u]
         /\ \/ /\ local[t].status \notin Terminal
               /\ phase'[t] = to
               /\ local'[t] = tasks'[t]
               /\ tasks'[t].status = status
               /\ tasks'[t].result = "stored" <=> status = "completed"
               /\ tasks'[t].container
                    = IF status = "running" THEN "instance" ELSE local[t].container
            \/ /\ local[t].status \in Terminal
               /\ phase'[t] = "failRead"
               /\ tasks'[t] = tasks[t]
         /\ UNCHANGED <<cancelEvents, request, mode, predictions, signalled>>
<1> DEFINE new == Advanced(local[t], status)
<1>1. /\ new.status = status
      /\ new.result = "stored" <=> status = "completed"
      /\ new.container = IF status = "running" THEN "instance" ELSE local[t].container
  BY AdvancedRow DEF TypeOK
<1> HIDE DEF new
<1>2. CASE /\ local[t].status \notin Terminal
           /\ local' = [local EXCEPT ![t] = new]
           /\ tasks' = [tasks EXCEPT ![t] = new]
           /\ Goto(t, to)
  BY <1>1, <1>2 DEF Save, TypeOK
<1>3. CASE /\ local[t].status \in Terminal
           /\ Goto(t, "failRead")
           /\ UNCHANGED <<tasks, local>>
  BY <1>3 DEF Save, TypeOK
<1> QED  BY <1>2, <1>3 DEF Save, new

\* Initially no request has read a row, and no thread holds one.
LEMMA RowInit == Init => RequestInv /\ \A t \in Task : RowInv(t)
BY NoRowRow DEF Init, RequestInv, RowInv, IdleRequest, Terminal

\* What a cancel request has read stays what it read until it is done, and the
\* row it saves is cancelled in its name.
LEMMA RequestNext ==
  TypeOK /\ RequestInv /\ (\A t \in Task : RowInv(t)) /\ [Next]_vars => RequestInv'
<1> SUFFICES ASSUME TypeOK, RequestInv, \A t \in Task : RowInv(t), [Next]_vars
             PROVE  RequestInv'
  OBVIOUS
<1> USE DEF TypeOK, RequestInv
<1>1. ASSUME UNCHANGED request,
             \A u \in Task : phase[u] \notin {"absent", "validated"}
                             => phase'[u] \notin {"absent", "validated"}
      PROVE  RequestInv'
  BY <1>1
<1>2. ASSUME NEW t \in Task, NEW origin \in Task \union {NoTask}, Validate(t, origin)
      PROVE  RequestInv'
  BY <1>2, <1>1 DEF Validate
<1>3. ASSUME NEW t \in Task, CreatorStep(t) \/ Start(t)
      PROVE  RequestInv'
  BY <1>3, <1>1 DEF CreatorStep, Add, Arm, Submit, Start
<1>4. ASSUME NEW t \in Task, WorkerStep(t)
      PROVE  RequestInv'
  <2>1. CASE Check1(t) \/ Check2(t) \/ Check3(t) \/ Check4(t)
    BY <2>1, <1>1 DEF Check1, Check2, Check3, Check4, Check
  <2>2. CASE SavePreparing(t) \/ SaveStarting(t) \/ SaveRunning(t) \/ SaveCompleted(t)
    BY <2>2, <1>1 DEF SavePreparing, SaveStarting, SaveRunning, SaveCompleted, Save
  <2>3. CASE Lookup(t) \/ StartAlgorithm(t) \/ Predict(t) \/ Touch(t)
    BY <2>3, <1>1 DEF Lookup, StartAlgorithm, Predict, Touch, Call
  <2>4. CASE AbortRead(t) \/ AbortSave(t) \/ FailRead(t) \/ FailSave(t) \/ Finally(t)
    BY <2>4, <1>1 DEF AbortRead, AbortSave, FailRead, FailSave, Finally
  <2> QED  BY <1>4, <2>1, <2>2, <2>3, <2>4 DEF WorkerStep
<1>5. ASSUME NEW t \in Task, StoreFails(t)
      PROVE  RequestInv'
  BY <1>5, <1>1 DEF StoreFails
<1>6. ASSUME NEW t \in Task, RecoverTask(t)
      PROVE  RequestInv'
  BY <1>6, <1>1 DEF RecoverTask
<1>7. ASSUME NEW t \in Task, NEW r \in Request, BeginCancel(r, t)
      PROVE  RequestInv'
  <2>1. phase[t] \notin {"absent", "validated"}
    BY <1>7 DEF BeginCancel, RowInv, Active
  <2> QED  BY <1>7, <2>1 DEF BeginCancel
<1>8. ASSUME NEW r \in Request, CancelStep(r) \/ CancelStoreFails(r)
      PROVE  RequestInv'
  <2>1. CASE CancelSave(r)
    <3>1. \A q \in Request : /\ request'[q].task = request[q].task
                             /\ request'[q].pc # "idle" => request[q].pc # "idle"
      BY <2>1 DEF CancelSave, RequestState
    <3> QED  BY <2>1, <3>1 DEF CancelSave
  <2>2. CASE CancelSignal(r)
    BY <2>2 DEF CancelSignal, IdleRequest
  <2>3. CASE CancelStoreFails(r)
    BY <2>3 DEF CancelStoreFails, IdleRequest
  <2> QED  BY <1>8, <2>1, <2>2, <2>3 DEF CancelStep
<1>9. CASE Crash \/ Exit
  BY <1>9 DEF Crash, Exit, AllThreadsDie, IdleRequest
<1>10. CASE Shutdown \/ Restart \/ RecoveryFails \/ Serve \/ Idle \/ UNCHANGED vars
  BY <1>10, <1>1 DEF Shutdown, Restart, RecoveryFails, Serve, Idle, vars
<1> QED
  BY <1>2, <1>3, <1>4, <1>5, <1>6, <1>7, <1>8, <1>9, <1>10 DEF Next, Create, Retry

\* Every step keeps the row a task can have, and the copy its worker holds, in
\* line with the phase of the worker.
LEMMA RowNext ==
  ASSUME TypeOK, RequestInv, \A t \in Task : RowInv(t), [Next]_vars, NEW u \in Task
  PROVE  RowInv(u)'
<1> USE DEF TypeOK, RowInv
<1>1. ASSUME NEW t \in Task, NEW origin \in Task \union {NoTask}, Validate(t, origin)
      PROVE  RowInv(u)'
  BY <1>1, QueuedRow DEF Validate, Alive
<1>2. ASSUME NEW t \in Task, CreatorStep(t)
      PROVE  RowInv(u)'
  <2>1. CASE Add(t)     BY <2>1 DEF Add
  <2>2. CASE Arm(t)     BY <2>2 DEF Arm
  <2>3. CASE Submit(t)  BY <2>3 DEF Submit
  <2> QED  BY <1>2, <2>1, <2>2, <2>3 DEF CreatorStep
<1>3. ASSUME NEW t \in Task, Start(t)
      PROVE  RowInv(u)'
  BY <1>3 DEF Start, Alive
<1>4. ASSUME NEW t \in Task, WorkerStep(t)
      PROVE  RowInv(u)'
  <2>1. CASE Check1(t) \/ Check2(t) \/ Check3(t) \/ Check4(t)
    <3>1. ASSUME NEW from, NEW to, Check(t, from, to),
                 from \in {"check1", "check2", "check3", "check4"},
                 to \in {"savePreparing", "saveStarting", "saveRunning", "saveCompleted"}
          PROVE  RowInv(u)'
      BY <3>1 DEF Check
    <3> QED  BY <2>1, <3>1 DEF Check1, Check2, Check3, Check4
  <2>2. CASE SavePreparing(t)
    BY <2>2, SaveEffect DEF SavePreparing, Active, Terminal
  <2>3. CASE SaveStarting(t)
    BY <2>3, SaveEffect DEF SaveStarting, Active, Terminal
  <2>4. CASE SaveRunning(t)
    BY <2>4, SaveEffect DEF SaveRunning, Active, Terminal
  <2>5. CASE SaveCompleted(t)
    <3>1. CASE u = t
      BY <2>5, <3>1, SaveEffect DEF SaveCompleted, Active, Terminal
    <3>2. CASE u # t
      BY <2>5, <3>2, SaveEffect DEF SaveCompleted, Active, Terminal
    <3> QED  BY <3>1, <3>2
  <2>6. CASE Lookup(t) \/ StartAlgorithm(t) \/ Predict(t) \/ Touch(t)
    BY <2>6 DEF Lookup, StartAlgorithm, Predict, Touch, Call
  <2>7. CASE AbortRead(t)
    BY <2>7 DEF AbortRead
  <2>8. CASE AbortSave(t)
    BY <2>8, CancelledRow DEF AbortSave, Terminal
  <2>9. CASE FailRead(t)
    BY <2>9 DEF FailRead
  <2>10. CASE FailSave(t)
    <3>1. /\ Advanced(local[t], "failed").status = "failed"
          /\ Advanced(local[t], "failed").result # "stored"
      BY AdvancedRow DEF Terminal
    <3> QED  BY <2>10, <3>1 DEF FailSave, Terminal
  <2>11. CASE Finally(t)
    BY <2>11 DEF Finally
  <2> QED
    BY <1>4, <2>1, <2>2, <2>3, <2>4, <2>5, <2>6, <2>7, <2>8, <2>9, <2>10, <2>11
    DEF WorkerStep
<1>5. ASSUME NEW t \in Task, StoreFails(t)
      PROVE  RowInv(u)'
  <2>1. /\ UNCHANGED <<tasks, local, mode>> /\ FaultyStore
        /\ \/ phase'[u] = phase[u]
           \/ /\ phase[u] \in {"check1", "savePreparing", "saveStarting", "saveRunning",
                              "saveCompleted", "abortRead", "abortSave", "failRead", "failSave"}
              /\ phase'[u] \in {"failRead", "finally"}
           \/ phase[u] = "validated" /\ phase'[u] = "absent"
    BY <1>5 DEF StoreFails
  <2> QED  BY <2>1
<1>6. ASSUME NEW t \in Task, RecoverTask(t)
      PROVE  RowInv(u)'
  <2>1. /\ Advanced(tasks[t], "failed").status = "failed"
        /\ Advanced(tasks[t], "failed").result # "stored"
    BY AdvancedRow DEF Terminal
  <2> QED  BY <1>6, <2>1 DEF RecoverTask, Active, Terminal
<1>7. ASSUME NEW t \in Task, NEW r \in Request, BeginCancel(r, t)
      PROVE  RowInv(u)'
  BY <1>7 DEF BeginCancel
<1>8. ASSUME NEW r \in Request, CancelSave(r)
      PROVE  RowInv(u)'
  <2>1. /\ Cancelled(request[r].snapshot, "operator").status = "cancelled"
        /\ Cancelled(request[r].snapshot, "operator").result = "none"
    BY CancelledRow DEF RequestState
  <2> QED  BY <1>8, <2>1 DEF CancelSave, RequestInv, Terminal
<1>9. ASSUME NEW r \in Request, CancelSignal(r) \/ CancelStoreFails(r)
      PROVE  RowInv(u)'
  BY <1>9 DEF CancelSignal, CancelStoreFails
<1>10. CASE Crash \/ Exit
  BY <1>10 DEF Crash, Exit, AllThreadsDie
<1>11. CASE Shutdown
  BY <1>11 DEF Shutdown
<1>12. CASE Serve
  <2>1. tasks[u].status \in {"absent"} \union Active \union Terminal
    BY DEF Row
  <2> QED  BY <1>12, <2>1 DEF Serve
<1>13. CASE Restart \/ RecoveryFails \/ Idle \/ UNCHANGED vars
  BY <1>13 DEF Restart, RecoveryFails, Idle, vars
<1> QED
  BY <1>1, <1>2, <1>3, <1>4, <1>5, <1>6, <1>7, <1>8, <1>9, <1>10, <1>11, <1>12, <1>13
  DEF Next, Create, Retry, CancelStep

--------------------------------------------------------------------------
(* Prediction calls *)

\* Initially no container was called for any task.
LEMMA PredictInit == Init => \A t \in Task : PredictInv(t)
BY NoRowRow DEF Init, PredictInv, BeforePredict, AfterPredict, CreatorPhase

\* Every step keeps the number of calls to the container in line with the
\* phase of the worker: none before its prediction, one behind it.
LEMMA PredictNext ==
  ASSUME TypeOK, RequestInv, \A t \in Task : RowInv(t) /\ PredictInv(t),
         [Next]_vars, NEW u \in Task
  PROVE  PredictInv(u)'
<1> USE DEF TypeOK, RowInv, PredictInv, BeforePredict, AfterPredict, CreatorPhase
<1>1. ASSUME NEW t \in Task, NEW origin \in Task \union {NoTask}, Validate(t, origin)
      PROVE  PredictInv(u)'
  BY <1>1 DEF Validate
<1>2. ASSUME NEW t \in Task, CreatorStep(t)
      PROVE  PredictInv(u)'
  <2>1. CASE Add(t)     BY <2>1 DEF Add
  <2>2. CASE Arm(t)     BY <2>2 DEF Arm
  <2>3. CASE Submit(t)  BY <2>3 DEF Submit
  <2> QED  BY <1>2, <2>1, <2>2, <2>3 DEF CreatorStep
<1>3. ASSUME NEW t \in Task, Start(t)
      PROVE  PredictInv(u)'
  BY <1>3 DEF Start, Terminal
<1>4. ASSUME NEW t \in Task, WorkerStep(t)
      PROVE  PredictInv(u)'
  <2>1. CASE Check1(t) \/ Check2(t) \/ Check3(t) \/ Check4(t)
    BY <2>1 DEF Check1, Check2, Check3, Check4, Check
  <2>2. CASE SavePreparing(t)
    BY <2>2, SaveEffect DEF SavePreparing, Active, Terminal
  <2>3. CASE SaveStarting(t)
    BY <2>3, SaveEffect DEF SaveStarting, Active, Terminal
  <2>4. CASE SaveRunning(t)
    BY <2>4, SaveEffect DEF SaveRunning, Active, Terminal
  <2>5. CASE SaveCompleted(t)
    BY <2>5, SaveEffect DEF SaveCompleted, Active, Terminal
  <2>6. CASE Lookup(t) \/ StartAlgorithm(t) \/ Touch(t)
    BY <2>6 DEF Lookup, StartAlgorithm, Touch, Call
  <2>7. CASE Predict(t)
    BY <2>7 DEF Predict, Call
  <2>8. CASE AbortRead(t) \/ FailRead(t)
    BY <2>8 DEF AbortRead, FailRead
  <2>9. CASE AbortSave(t)
    BY <2>9, CancelledRow DEF AbortSave
  <2>10. CASE FailSave(t)
    <3>1. Advanced(local[t], "failed").status = "failed"
      BY AdvancedRow DEF Terminal
    <3> QED  BY <2>10, <3>1 DEF FailSave
  <2>11. CASE Finally(t)
    BY <2>11 DEF Finally
  <2> QED
    BY <1>4, <2>1, <2>2, <2>3, <2>4, <2>5, <2>6, <2>7, <2>8, <2>9, <2>10, <2>11
    DEF WorkerStep
<1>5. ASSUME NEW t \in Task, StoreFails(t)
      PROVE  PredictInv(u)'
  BY <1>5 DEF StoreFails
<1>6. ASSUME NEW t \in Task, RecoverTask(t)
      PROVE  PredictInv(u)'
  <2>1. Advanced(tasks[t], "failed").status = "failed"
    BY AdvancedRow DEF Terminal
  <2> QED  BY <1>6, <2>1 DEF RecoverTask, Active
<1>7. ASSUME NEW t \in Task, NEW r \in Request, BeginCancel(r, t)
      PROVE  PredictInv(u)'
  BY <1>7 DEF BeginCancel
<1>8. ASSUME NEW r \in Request, CancelSave(r)
      PROVE  PredictInv(u)'
  <2>1. Cancelled(request[r].snapshot, "operator").status = "cancelled"
    BY CancelledRow DEF RequestState
  <2> QED  BY <1>8, <2>1 DEF CancelSave, RequestInv, RequestState
<1>9. ASSUME NEW r \in Request, CancelSignal(r)
      PROVE  PredictInv(u)'
  BY <1>9 DEF CancelSignal, RequestInv, PastLastCheck, IdleRequest
<1>10. ASSUME NEW r \in Request, CancelStoreFails(r)
       PROVE  PredictInv(u)'
  BY <1>10 DEF CancelStoreFails, IdleRequest
<1>11. CASE Crash \/ Exit
  <2>1. AllThreadsDie
    BY <1>11 DEF Crash, Exit
  <2>2. /\ phase'[u] \in {"absent", "done", "lost"}
        /\ phase'[u] = "absent" => phase[u] \in {"absent", "validated"}
        /\ tasks'[u] = tasks[u]
        /\ predictions'[u] = predictions[u]
    BY <2>1 DEF AllThreadsDie
  <2> QED  BY <2>2
<1>12. CASE Shutdown
  BY <1>12 DEF Shutdown
<1>13. CASE Restart \/ RecoveryFails \/ Serve \/ Idle \/ UNCHANGED vars
  BY <1>13 DEF Restart, RecoveryFails, Serve, Idle, vars
<1> QED
  BY <1>1, <1>2, <1>3, <1>4, <1>5, <1>6, <1>7, <1>8, <1>9, <1>10, <1>11, <1>12, <1>13
  DEF Next, Create, Retry, CancelStep

--------------------------------------------------------------------------
(* Early cancellation *)

\* Initially no cancel request was acknowledged.
LEMMA EarlyCancelInit == Init => \A t \in Task : EarlyCancelInv(t)
BY DEF Init, EarlyCancelInv, IdleRequest

\* Every step keeps the memory of an acknowledged early cancellation: in the
\* event of the worker, in the row, or in a phase that can no longer complete.
LEMMA EarlyCancelNext ==
  ASSUME TypeOK, RequestInv, \A t \in Task : RowInv(t) /\ EarlyCancelInv(t),
         [Next]_vars, NEW u \in Task
  PROVE  EarlyCancelInv(u)'
<1> USE DEF TypeOK, RowInv, EarlyCancelInv
<1>1. ASSUME NEW t \in Task, NEW origin \in Task \union {NoTask}, Validate(t, origin)
      PROVE  EarlyCancelInv(u)'
  BY <1>1 DEF Validate
<1>2. ASSUME NEW t \in Task, CreatorStep(t)
      PROVE  EarlyCancelInv(u)'
  <2>1. CASE Add(t)
    <3>1. CASE u = t
      BY <2>1, <3>1 DEF Add, RequestInv, Goto
    <3>2. CASE u # t
      BY <2>1, <3>2 DEF Add, Goto
    <3> QED  BY <3>1, <3>2
  <2>2. CASE Arm(t)     BY <2>2 DEF Arm
  <2>3. CASE Submit(t)  BY <2>3 DEF Submit
  <2> QED  BY <1>2, <2>1, <2>2, <2>3 DEF CreatorStep
<1>3. ASSUME NEW t \in Task, Start(t)
      PROVE  EarlyCancelInv(u)'
  BY <1>3 DEF Start, Terminal
<1>4. ASSUME NEW t \in Task, WorkerStep(t)
      PROVE  EarlyCancelInv(u)'
  <2>1. CASE Check1(t) \/ Check2(t) \/ Check3(t) \/ Check4(t)
    BY <2>1 DEF Check1, Check2, Check3, Check4, Check
  <2>2. CASE SavePreparing(t)
    <3>1. CASE u = t
      <4>1. /\ phase[t] = "savePreparing" /\ UNCHANGED <<cancelEvents, request, signalled>>
            /\ \/ /\ phase'[t] = "lookup" /\ local[t].status \notin Terminal
                  /\ tasks'[t].status = "preparing"
               \/ phase'[t] = "failRead" /\ tasks'[t] = tasks[t]
        BY <2>2, SaveEffect DEF SavePreparing, Active
      <4> QED  BY <3>1, <4>1
    <3>2. CASE u # t
      BY <2>2, <3>2, SaveEffect DEF SavePreparing, Active, Terminal
    <3> QED  BY <3>1, <3>2
  <2>3. CASE SaveStarting(t)
    <3>1. CASE u = t
      <4>1. /\ phase[t] = "saveStarting" /\ UNCHANGED <<cancelEvents, request, signalled>>
            /\ \/ /\ phase'[t] = "startAlgorithm" /\ local[t].status \notin Terminal
                  /\ tasks'[t].status = "starting"
               \/ phase'[t] = "failRead" /\ tasks'[t] = tasks[t]
        BY <2>3, SaveEffect DEF SaveStarting, Active
      <4> QED  BY <3>1, <4>1
    <3>2. CASE u # t
      BY <2>3, <3>2, SaveEffect DEF SaveStarting, Active, Terminal
    <3> QED  BY <3>1, <3>2
  <2>4. CASE SaveRunning(t)
    <3>1. CASE u = t
      <4>1. /\ phase[t] = "saveRunning" /\ UNCHANGED <<cancelEvents, request, signalled>>
            /\ \/ /\ phase'[t] = "predict" /\ local[t].status \notin Terminal
                  /\ tasks'[t].status = "running"
               \/ phase'[t] = "failRead" /\ tasks'[t] = tasks[t]
        BY <2>4, SaveEffect DEF SaveRunning, Active
      <4> QED  BY <3>1, <4>1
    <3>2. CASE u # t
      BY <2>4, <3>2, SaveEffect DEF SaveRunning, Active, Terminal
    <3> QED  BY <3>1, <3>2
  <2>5. CASE SaveCompleted(t)
    <3>1. CASE u = t
      <4>1. /\ phase[t] = "saveCompleted" /\ UNCHANGED <<cancelEvents, request, signalled>>
            /\ phase'[t] \in {"finally", "failRead"}
        BY <2>5, SaveEffect DEF SaveCompleted, Terminal
      <4> QED  BY <3>1, <4>1
    <3>2. CASE u # t
      BY <2>5, <3>2, SaveEffect DEF SaveCompleted, Active, Terminal
    <3> QED  BY <3>1, <3>2
  <2>6. CASE Lookup(t) \/ StartAlgorithm(t) \/ Touch(t)
    BY <2>6 DEF Lookup, StartAlgorithm, Touch, Call
  <2>7. CASE Predict(t)
    BY <2>7 DEF Predict, Call
  <2>8. CASE AbortRead(t) \/ FailRead(t)
    BY <2>8 DEF AbortRead, FailRead
  <2>9. CASE AbortSave(t)
    BY <2>9, CancelledRow DEF AbortSave
  <2>10. CASE FailSave(t)
    <3>1. Advanced(local[t], "failed").status = "failed"
      BY AdvancedRow DEF Terminal
    <3> QED  BY <2>10, <3>1 DEF FailSave
  <2>11. CASE Finally(t)
    BY <2>11 DEF Finally
  <2> QED
    BY <1>4, <2>1, <2>2, <2>3, <2>4, <2>5, <2>6, <2>7, <2>8, <2>9, <2>10, <2>11
    DEF WorkerStep
<1>5. ASSUME NEW t \in Task, StoreFails(t)
      PROVE  EarlyCancelInv(u)'
  BY <1>5 DEF StoreFails
<1>6. ASSUME NEW t \in Task, RecoverTask(t)
      PROVE  EarlyCancelInv(u)'
  <2>1. Advanced(tasks[t], "failed").status = "failed"
    BY AdvancedRow DEF Terminal
  <2> QED  BY <1>6, <2>1 DEF RecoverTask, Active
<1>7. ASSUME NEW t \in Task, NEW r \in Request, BeginCancel(r, t)
      PROVE  EarlyCancelInv(u)'
  BY <1>7 DEF BeginCancel
<1>8. ASSUME NEW r \in Request, CancelSave(r)
      PROVE  EarlyCancelInv(u)'
  <2>1. Cancelled(request[r].snapshot, "operator").status = "cancelled"
    BY CancelledRow DEF RequestState
  <2> QED  BY <1>8, <2>1 DEF CancelSave, RequestInv, RequestState
<1>9. ASSUME NEW r \in Request, CancelSignal(r)
      PROVE  EarlyCancelInv(u)'
  BY <1>9 DEF CancelSignal, RequestInv, PastLastCheck, IdleRequest
<1>10. ASSUME NEW r \in Request, CancelStoreFails(r)
       PROVE  EarlyCancelInv(u)'
  BY <1>10 DEF CancelStoreFails, IdleRequest
<1>11. CASE Crash \/ Exit
  <2>1. AllThreadsDie
    BY <1>11 DEF Crash, Exit
  <2>2. /\ phase'[u] \in {"absent", "done", "lost"}
        /\ phase'[u] = "absent" => phase[u] \in {"absent", "validated"}
        /\ tasks'[u] = tasks[u]
        /\ signalled'[u] = signalled[u]
    BY <2>1 DEF AllThreadsDie
  <2> QED  BY <2>2
<1>12. CASE Shutdown
  BY <1>12 DEF Shutdown
<1>13. CASE Restart \/ RecoveryFails \/ Serve \/ Idle \/ UNCHANGED vars
  BY <1>13 DEF Restart, RecoveryFails, Serve, Idle, vars
<1> QED
  BY <1>1, <1>2, <1>3, <1>4, <1>5, <1>6, <1>7, <1>8, <1>9, <1>10, <1>11, <1>12, <1>13
  DEF Next, Create, Retry, CancelStep

--------------------------------------------------------------------------
(* The invariants *)

\* Every reachable state satisfies the inductive invariant: what a row can be
\* in each phase of its thread, how often its container was called, and where
\* an early cancellation is remembered.
THEOREM LifecycleHolds == Spec => []LifecycleInv
<1>1. Init => LifecycleInv
  BY RowInit, PredictInit, EarlyCancelInit DEF LifecycleInv
<1>2. TypeOK /\ LifecycleInv /\ [Next]_vars => LifecycleInv'
  BY RequestNext, RowNext, PredictNext, EarlyCancelNext DEF LifecycleInv
<1> QED
  BY <1>1, <1>2, TypeCorrect, PTL DEF Spec

\* A serving platform has no active task that nobody works on, whatever cancel
\* races, failed calls, shutdowns and restarts came before.
THEOREM NoOrphans == Spec => []OrphanFree
<1>1. TypeOK /\ LifecycleInv => OrphanFree
  <2> SUFFICES ASSUME TypeOK, LifecycleInv, ~FaultyStore, mode = "up",
                      NEW t \in Task, tasks[t].status \in Active
               PROVE  Owned(t)
    BY DEF OrphanFree
  <2>1. phase[t] \notin {"absent", "validated", "finally", "done", "lost"}
    BY DEF LifecycleInv, RowInv, Active, Terminal
  <2>2. phase[t] \in Phase
    BY DEF TypeOK
  <2> QED  BY <2>1, <2>2 DEF Owned, Phase, CreatorPhase, WorkerPhase
<1> QED
  BY <1>1, TypeCorrect, LifecycleHolds, PTL

\* A cancel request that returned before the worker's last check is final.
THEOREM EarlyCancelHolds == Spec => []EarlyCancelNeverCompletes
<1>1. LifecycleInv => EarlyCancelNeverCompletes
  BY DEF LifecycleInv, EarlyCancelInv, EarlyCancelNeverCompletes
<1> QED
  BY <1>1, LifecycleHolds, PTL

\* A completed task was predicted exactly once, in a recorded container.
THEOREM CompletedOnce == Spec => []CompletedWasPredicted
<1>1. LifecycleInv => CompletedWasPredicted
  BY DEF LifecycleInv, RowInv, PredictInv, CompletedWasPredicted
<1> QED
  BY <1>1, LifecycleHolds, PTL

--------------------------------------------------------------------------
(* Settled rows, and the contract of the component *)

\* One step of one task: a row appears when its creator adds it, never
\* disappears, and once it is settled only a cancel request in flight writes it.
LEMMA SettledStep ==
  ASSUME TypeOK, LifecycleInv, [Next]_vars, NEW u \in Task
  PROVE  /\ tasks[u].status = "absent" /\ tasks'[u].status # "absent"
              => phase'[u] = "added"
         /\ tasks[u].status # "absent" => tasks'[u].status # "absent"
         /\ tasks[u].status \in Terminal /\ phase[u] \in {"done", "lost"} =>
              /\ phase'[u] \in {"done", "lost"}
              /\ \/ tasks'[u] = tasks[u]
                 \/ /\ \E r \in Request : request[r].pc = "save" /\ request[r].task = u
                    /\ tasks'[u].status = "cancelled"
<1> DEFINE Claim == /\ tasks[u].status = "absent" /\ tasks'[u].status # "absent"
                         => phase'[u] = "added"
                    /\ tasks[u].status # "absent" => tasks'[u].status # "absent"
                    /\ tasks[u].status \in Terminal /\ phase[u] \in {"done", "lost"} =>
                         /\ phase'[u] \in {"done", "lost"}
                         /\ \/ tasks'[u] = tasks[u]
                            \/ /\ \E r \in Request : /\ request[r].pc = "save"
                                                     /\ request[r].task = u
                               /\ tasks'[u].status = "cancelled"
<1> SUFFICES Claim
  OBVIOUS
<1> USE DEF TypeOK
<1>a. RowInv(u)
  BY DEF LifecycleInv
<1>1. ASSUME UNCHANGED tasks, phase[u] \in {"done", "lost"} => phase'[u] = phase[u]
      PROVE  Claim
  BY <1>1
<1>2. ASSUME NEW t \in Task, NEW origin \in Task \union {NoTask}, Validate(t, origin)
      PROVE  Claim
  BY <1>1, <1>2 DEF Validate
<1>3. ASSUME NEW t \in Task, CreatorStep(t) \/ Start(t)
      PROVE  Claim
  <2>1. CASE Add(t)
    <3>1. tasks[t].status = "absent" /\ tasks'[t].status = "queued"
      BY <2>1 DEF Add, LifecycleInv, RowInv
    <3> QED  BY <2>1, <3>1 DEF Add, Terminal
  <2>2. CASE Arm(t) \/ Submit(t) \/ Start(t)
    BY <1>1, <2>2 DEF Arm, Submit, Start
  <2> QED  BY <1>3, <2>1, <2>2 DEF CreatorStep
<1>4. ASSUME NEW t \in Task, WorkerStep(t)
      PROVE  Claim
  <2>1. CASE Check1(t) \/ Check2(t) \/ Check3(t) \/ Check4(t)
    BY <2>1, <1>1 DEF Check1, Check2, Check3, Check4, Check
  <2>2. CASE SavePreparing(t)
    BY <2>2, <1>a, SaveEffect DEF SavePreparing, RowInv, Active, Terminal
  <2>3. CASE SaveStarting(t)
    BY <2>3, <1>a, SaveEffect DEF SaveStarting, RowInv, Active, Terminal
  <2>4. CASE SaveRunning(t)
    BY <2>4, <1>a, SaveEffect DEF SaveRunning, RowInv, Active, Terminal
  <2>5. CASE SaveCompleted(t)
    BY <2>5, <1>a, SaveEffect DEF SaveCompleted, RowInv, Active, Terminal
  <2>6. CASE Lookup(t) \/ StartAlgorithm(t) \/ Predict(t) \/ Touch(t)
    BY <2>6, <1>1 DEF Lookup, StartAlgorithm, Predict, Touch, Call
  <2>7. CASE AbortRead(t) \/ FailRead(t) \/ Finally(t)
    BY <2>7, <1>1 DEF AbortRead, FailRead, Finally
  <2>8. CASE AbortSave(t)
    BY <2>8, <1>a, CancelledRow DEF AbortSave, RowInv
  <2>9. CASE FailSave(t)
    <3>1. Advanced(local[t], "failed").status = "failed"
      BY AdvancedRow DEF Terminal
    <3> QED  BY <2>9, <3>1, <1>a DEF FailSave, RowInv
  <2> QED
    BY <1>4, <2>1, <2>2, <2>3, <2>4, <2>5, <2>6, <2>7, <2>8, <2>9 DEF WorkerStep
<1>5. ASSUME NEW t \in Task, StoreFails(t)
      PROVE  Claim
  BY <1>1, <1>5 DEF StoreFails
<1>6. ASSUME NEW t \in Task, RecoverTask(t)
      PROVE  Claim
  <2>1. Advanced(tasks[t], "failed").status = "failed"
    BY AdvancedRow DEF Terminal
  <2> QED  BY <1>6, <2>1 DEF RecoverTask, Active, Terminal
<1>7. ASSUME NEW r \in Request, CancelSave(r)
      PROVE  Claim
  <2>1. Cancelled(request[r].snapshot, "operator").status = "cancelled"
    BY CancelledRow DEF RequestState
  <2>2. /\ request[r].task \in Task
        /\ tasks[request[r].task].status # "absent"
    BY <1>7 DEF CancelSave, LifecycleInv, RequestInv, RowInv
  <2> QED  BY <1>7, <2>1, <2>2 DEF CancelSave
<1>8. ASSUME NEW t \in Task, NEW r \in Request,
             BeginCancel(r, t) \/ CancelSignal(r) \/ CancelStoreFails(r)
      PROVE  Claim
  BY <1>1, <1>8 DEF BeginCancel, CancelSignal, CancelStoreFails
<1>9. CASE Crash \/ Exit
  BY <1>9 DEF Crash, Exit, AllThreadsDie
<1>10. CASE Shutdown \/ Restart \/ RecoveryFails \/ Serve \/ Idle \/ UNCHANGED vars
  BY <1>1, <1>10 DEF Shutdown, Restart, RecoveryFails, Serve, Idle, vars
<1> QED
  BY <1>2, <1>3, <1>4, <1>5, <1>6, <1>7, <1>8, <1>9, <1>10 DEF Next, Create, Retry, CancelStep

\* A settled row is overtaken only by a cancel request that had read it before.
THEOREM SettledRowsStay == Spec => SettledRowIsOvertakenOnlyByCancel
<1> DEFINE Settled(t) == /\ tasks[t].status \in Terminal
                         /\ phase[t] \in {"done", "lost"}
                         /\ \A r \in Request :
                              ~(request[r].pc = "save" /\ request[r].task = t)
<1>1. TypeOK /\ LifecycleInv /\ [Next]_vars
        => [\A t \in Task : Settled(t) => tasks'[t] = tasks[t]]_vars
  BY SettledStep
<1> QED
  BY <1>1, TypeCorrect, LifecycleHolds, PTL DEF Spec, SettledRowIsOvertakenOnlyByCancel

\* TaskQueue implements TaskContract.
THEOREM ImplementsContract == Spec => ContractSpec
<1>1. Init => Contract!Init
  BY NoRowRow DEF Init, Contract!Init, outcomeBar
<1>2. ASSUME TypeOK, LifecycleInv, [Next]_vars
      PROVE  [Contract!Next]_outcomeBar
  <2>1. TypeOK'
    BY <1>2, TypeNext
  <2>2. outcomeBar' \in [Task -> Contract!Outcome]
    BY <2>1 DEF outcomeBar, Contract!Outcome, Contract!Decided, Terminal
  <2>3. ASSUME NEW t \in Task
        PROVE  outcomeBar'[t] = outcomeBar[t] \/ Contract!Move(t)
    <3>1. tasks[t] \in Row /\ tasks'[t] \in Row
      BY <1>2, <2>1 DEF TypeOK
    <3>2. CASE tasks[t].status = "absent"
      BY <1>2, <3>2, SettledStep DEF outcomeBar, Contract!Move
    <3>3. CASE tasks[t].status \in Terminal /\ phase[t] \in {"done", "lost"}
      BY <1>2, <3>3, SettledStep
      DEF outcomeBar, Contract!Move, Contract!Decided, Terminal
    <3>4. CASE /\ tasks[t].status # "absent"
               /\ ~(tasks[t].status \in Terminal /\ phase[t] \in {"done", "lost"})
      BY <1>2, <3>4, SettledStep
      DEF outcomeBar, Contract!Move, Contract!Decided, Terminal
    <3> QED  BY <3>2, <3>3, <3>4 DEF Terminal
  <2> QED  BY <2>2, <2>3 DEF Contract!Next
<1> QED
  BY <1>1, <1>2, TypeCorrect, LifecycleHolds, PTL DEF Spec, ContractSpec, Contract!Spec
--------------------------------------------------------------------------
(* The view of a task that its clients have *)

\* What one step can do to the status of one task, given how far its thread is:
\* leave it, create it, write it as the worker that still owns it, fail it in
\* the recovery, or cancel it.
LEMMA StatusMoves ==
  ASSUME TypeOK, LifecycleInv, [Next]_vars, NEW u \in Task
  PROVE  \/ /\ tasks'[u].status = tasks[u].status
            /\ phase[u] \in NothingToStore => phase'[u] \in NothingToStore
         \/ tasks[u].status = "absent" /\ tasks'[u].status = "queued"
         \/ /\ phase[u] \notin NothingToStore
            /\ tasks[u].status # "absent" /\ tasks'[u].status \in Active \union Terminal
            /\ tasks'[u].status \in Terminal => phase'[u] = "finally"
         \/ tasks[u].status \in Active /\ tasks'[u].status = "failed"
         \/ /\ tasks[u].status # "absent" /\ tasks'[u].status = "cancelled"
            /\ phase'[u] = phase[u]
<1> DEFINE Kept    == /\ tasks'[u].status = tasks[u].status
                      /\ phase[u] \in NothingToStore => phase'[u] \in NothingToStore
           Added   == tasks[u].status = "absent" /\ tasks'[u].status = "queued"
           Written == /\ phase[u] \notin NothingToStore
                      /\ tasks[u].status # "absent"
                      /\ tasks'[u].status \in Active \union Terminal
                      /\ tasks'[u].status \in Terminal => phase'[u] = "finally"
           Failed  == tasks[u].status \in Active /\ tasks'[u].status = "failed"
           Ended   == /\ tasks[u].status # "absent" /\ tasks'[u].status = "cancelled"
                      /\ phase'[u] = phase[u]
           Claim   == Kept \/ Added \/ Written \/ Failed \/ Ended
<1> SUFFICES Claim
  OBVIOUS
<1> USE DEF TypeOK, NothingToStore
<1>a. RowInv(u)
  BY DEF LifecycleInv
<1>1. ASSUME UNCHANGED tasks, phase[u] \in NothingToStore => phase'[u] \in NothingToStore
      PROVE  Claim
  BY <1>1
<1>2. ASSUME NEW t \in Task, NEW origin \in Task \union {NoTask}, Validate(t, origin)
      PROVE  Claim
  BY <1>1, <1>2 DEF Validate
<1>3. ASSUME NEW t \in Task, CreatorStep(t) \/ Start(t)
      PROVE  Claim
  <2>1. CASE Add(t)
    <3>1. tasks[t].status = "absent" /\ tasks'[t].status = "queued"
      BY <2>1 DEF Add, LifecycleInv, RowInv
    <3> QED  BY <2>1, <3>1 DEF Add
  <2>2. CASE Arm(t) \/ Submit(t) \/ Start(t)
    BY <1>1, <2>2 DEF Arm, Submit, Start
  <2> QED  BY <1>3, <2>1, <2>2 DEF CreatorStep
<1>4. ASSUME NEW t \in Task, WorkerStep(t)
      PROVE  Claim
  <2>0. ASSUME NEW from \in WorkerPhase \ {"finally"}, NEW to, NEW status \in Active \union Terminal,
               status \in Terminal => to = "finally", Save(t, from, status, to)
        PROVE  Claim
    BY <2>0, <1>a, SaveEffect DEF RowInv, WorkerPhase
  <2>1. CASE Check1(t) \/ Check2(t) \/ Check3(t) \/ Check4(t)
    BY <2>1, <1>1 DEF Check1, Check2, Check3, Check4, Check
  <2>2. CASE SavePreparing(t) \/ SaveStarting(t) \/ SaveRunning(t) \/ SaveCompleted(t)
    BY <2>0, <2>2
    DEF SavePreparing, SaveStarting, SaveRunning, SaveCompleted, WorkerPhase, Active, Terminal
  <2>3. CASE Lookup(t) \/ StartAlgorithm(t) \/ Predict(t) \/ Touch(t)
    BY <2>3, <1>1 DEF Lookup, StartAlgorithm, Predict, Touch, Call
  <2>4. CASE AbortRead(t) \/ FailRead(t) \/ Finally(t)
    BY <2>4, <1>1 DEF AbortRead, FailRead, Finally
  <2>5. CASE AbortSave(t)
    BY <2>5, <1>a, CancelledRow DEF AbortSave, RowInv, Terminal
  <2>6. CASE FailSave(t)
    <3>1. Advanced(local[t], "failed").status = "failed"
      BY AdvancedRow DEF Terminal
    <3> QED  BY <2>6, <3>1, <1>a DEF FailSave, RowInv, Terminal
  <2> QED  BY <1>4, <2>1, <2>2, <2>3, <2>4, <2>5, <2>6 DEF WorkerStep
<1>5. ASSUME NEW t \in Task, StoreFails(t)
      PROVE  Claim
  BY <1>1, <1>5 DEF StoreFails
<1>6. ASSUME NEW t \in Task, RecoverTask(t)
      PROVE  Claim
  <2>1. Advanced(tasks[t], "failed").status = "failed"
    BY AdvancedRow DEF Terminal
  <2> QED  BY <1>6, <2>1 DEF RecoverTask
<1>7. ASSUME NEW r \in Request, CancelSave(r)
      PROVE  Claim
  <2>1. Cancelled(request[r].snapshot, "operator").status = "cancelled"
    BY CancelledRow DEF RequestState
  <2>2. /\ request[r].task \in Task
        /\ tasks[request[r].task].status # "absent"
    BY <1>7 DEF CancelSave, LifecycleInv, RequestInv, RowInv
  <2> QED  BY <1>7, <2>1, <2>2 DEF CancelSave
<1>8. ASSUME NEW t \in Task, NEW r \in Request,
             BeginCancel(r, t) \/ CancelSignal(r) \/ CancelStoreFails(r)
      PROVE  Claim
  BY <1>1, <1>8 DEF BeginCancel, CancelSignal, CancelStoreFails
<1>9. CASE Crash \/ Exit
  BY <1>1, <1>9 DEF Crash, Exit, AllThreadsDie
<1>10. CASE Shutdown \/ Restart \/ RecoveryFails \/ Serve \/ Idle \/ UNCHANGED vars
  BY <1>1, <1>10 DEF Shutdown, Restart, RecoveryFails, Serve, Idle, vars
<1> QED
  BY <1>2, <1>3, <1>4, <1>5, <1>6, <1>7, <1>8, <1>9, <1>10 DEF Next, Create, Retry, CancelStep

\* TaskQueue keeps to the view of a task that its clients are modelled with.
THEOREM KeepsPort == Spec => PortKept
<1>1. ASSUME TypeOK, LifecycleInv, [Next]_vars, NEW t \in Task, portBar'[t] # portBar[t]
      PROVE  <<portBar[t], portBar'[t]>> \in PortMoves
  <2>1. /\ tasks[t].status \in {"absent"} \union Active \union Terminal
        /\ tasks'[t].status \in {"absent"} \union Active \union Terminal
    BY <1>1, TypeNext DEF TypeOK, Row
  <2>2. tasks[t].status \in {"completed", "failed"} => phase[t] \in NothingToStore
    BY <1>1 DEF LifecycleInv, RowInv, NothingToStore
  <2> USE DEF portBar, PortMoves, WorkerMoves, AfterCancel, TaskSettled, TaskUnsettled,
              Active, Terminal
  <2>3. CASE /\ tasks'[t].status = tasks[t].status
             /\ phase[t] \in NothingToStore => phase'[t] \in NothingToStore
    BY <1>1, <2>1, <2>3
  <2>4. CASE tasks[t].status = "absent" /\ tasks'[t].status = "queued"
    BY <2>4
  <2>5. CASE /\ phase[t] \notin NothingToStore
             /\ tasks[t].status # "absent" /\ tasks'[t].status \in Active \union Terminal
             /\ tasks'[t].status \in Terminal => phase'[t] = "finally"
    BY <1>1, <2>1, <2>2, <2>5 DEF NothingToStore
  <2>6. CASE tasks[t].status \in Active /\ tasks'[t].status = "failed"
    BY <2>6
  <2>7. CASE /\ tasks[t].status # "absent" /\ tasks'[t].status = "cancelled"
             /\ phase'[t] = phase[t]
    BY <1>1, <2>1, <2>2, <2>7
  <2> QED  BY <1>1, <2>3, <2>4, <2>5, <2>6, <2>7, StatusMoves
<1>2. TypeOK /\ LifecycleInv /\ [Next]_vars
        => [\A t \in Task : portBar'[t] # portBar[t]
                            => <<portBar[t], portBar'[t]>> \in PortMoves]_vars
  BY <1>1
<1> QED
  BY <1>2, TypeCorrect, LifecycleHolds, PTL DEF Spec, PortKept
=============================================================================
