---------------------------- MODULE WorkflowsProofs ----------------------------
(***************************************************************************)
(* Proofs about Workflows, for every set of runs, requests and nodes, all  *)
(* workflows clients may send and any number of workers and restarts.      *)
(*                                                                         *)
(* What a run shows follows from what its thread remembers: `completed`    *)
(* only grows, holds only nodes whose task has completed, and contains the *)
(* dependencies of every node the thread has touched.  That nothing is     *)
(* left alone follows from where the thread remembers the tasks it made.   *)
(***************************************************************************)
EXTENDS Workflows, NatFacts, FiniteSetTheorems

\* The node a loop takes next.
LEMMA FirstOfIn ==
  ASSUME NEW S \in SUBSET Nat, S # {}
  PROVE  FirstOf(S) \in S
BY LeastIsIn DEF FirstOf

(***************************************************************************)
(* The inductive invariant                                                 *)
(***************************************************************************)

\* Before there is a workflow there is no run.
PlanOK ==
  /\ wfPlan \in WfSent \union {<<>>}
  /\ wfPlan = <<>> => \A r \in WfRun : /\ wfThread[r] = NoThreadYet /\ wfRow[r] = NoRun
                                       /\ \A n \in WfNode : wfTask[r][n] = "absent"

\* The executor holds runs that wait for it, each once.
QueueOK ==
  \A i, j \in DOMAIN wfQueue : /\ wfThread[wfQueue[i]].pc = "queued"
                               /\ wfQueue[i] = wfQueue[j] => i = j

Finished == {"completed", "cancelled"}

\* What the thread's memory, the tasks and the row of one run are to each other:
\* the thread first (memory, then phase by phase), the row last.
Sound(t, tasks, row) ==
  /\ t.todo \subseteq t.batch
  /\ t.batch \union row.tasks \union t.local.tasks \subseteq WfNodes
  /\ t.done \subseteq t.local.tasks
  /\ t.local.status # "completed"
  /\ \A n \in t.batch : wfPlan.depends[n] \subseteq t.done
  /\ \A n \in t.done \union t.seen : tasks[n] \in Finished
  /\ \A n \in WfNode : tasks[n] # "absent" => wfPlan.depends[n] \subseteq t.done
  /\ \A n \in row.tasks \union t.local.tasks : tasks[n] # "absent"
  /\ t.pc \in {"load", "inserted", "queued", "absent"} => t.done = {} /\ t.batch = {} /\ t.seen = {}
  /\ t.pc \in WfWorking \ {"load"} => t.local.status # "absent"
  /\ t.pc = "create" => /\ t.todo \intersect (t.done \union t.seen) = {}
                        /\ \A n \in t.batch \ t.todo : tasks[n] # "absent"
  /\ t.pc \in {"record", "poll", "scan"} => t.batch # {} /\ \A n \in t.batch : tasks[n] # "absent"
  /\ t.pc \in {"poll", "scan"} => t.batch \subseteq t.local.tasks
  /\ t.pc = "scan" => t.todo # {}
  /\ t.pc = "finish" => t.done = WfNodes
  /\ row.status = "absent" => t = NoThreadYet
  /\ row.status = "completed" => /\ t.pc \in {"done", "lost"}
                                 /\ row.tasks = WfNodes
                                 /\ \A n \in WfNodes : tasks[n] \in Finished

\* A cancel request knows tasks that exist.
Asked(req) ==
  req.pc # "unused" => /\ wfPlan # <<>>
                       /\ req.todo \subseteq req.snapshot.tasks
                       /\ req.snapshot.tasks \subseteq WfNodes
                       /\ \A n \in req.snapshot.tasks : wfTask[req.run][n] # "absent"
                       /\ req.pc \in {"look", "confirm", "overwrite"} => req.todo # {}

WfIInv ==
  /\ WorkflowsTypeOK
  /\ PlanOK
  /\ QueueOK
  /\ \A q \in WfRequest : Asked(wfRequest[q])
  /\ wfPlan # <<>> => \A r \in WfRun : Sound(wfThread[r], wfTask[r], wfRow[r])

\* The nodes of the workflow are nodes.
LEMMA NodesAreNodes == ASSUME PlanOK, wfPlan # <<>> PROVE WfNodes \subseteq WfNode
BY WorkflowsAssumption DEF PlanOK, WfNodes

\* Tasks that move on, neither created nor taken out of a final status, keep a
\* run sound.
LEMMA TasksMove ==
  ASSUME NEW t \in WfThreadType, NEW row \in WfRowType, NEW tasks, NEW moved,
         Sound(t, tasks, row), WfNodes \subseteq WfNode,
         \A n \in WfNode : /\ tasks[n] \in Finished => moved[n] \in Finished
                           /\ tasks[n] = "absent" <=> moved[n] = "absent"
  PROVE  Sound(t, moved, row)
BY DEF Sound, WfThreadType, WfRowType

\* Two rows in which only the tasks of some run moved.
TasksMoved ==
  \A r \in WfRun, n \in WfNode : /\ wfTask[r][n] \in Finished => wfTask'[r][n] \in Finished
                                 /\ wfTask[r][n] = "absent" <=> wfTask'[r][n] = "absent"

LEMMA TasksKeep ==
  ASSUME WfIInv, TasksMoved, WorkflowsTypeOK', UNCHANGED <<wfPlan, wfQueue, wfThread, wfRow>>,
         \A q \in WfRequest : Asked(wfRequest[q])'
  PROVE  WfIInv'
<1>1. ASSUME wfPlan # <<>> PROVE \A r \in WfRun : Sound(wfThread[r], wfTask'[r], wfRow[r])
  BY <1>1, TasksMove, NodesAreNodes DEF WfIInv, WorkflowsTypeOK, TasksMoved
<1>2. PlanOK' /\ QueueOK'
  BY DEF WfIInv, PlanOK, QueueOK, TasksMoved
<1> QED  BY <1>1, <1>2 DEF WfIInv, Sound, WfNodes

--------------------------------------------------------------------------
(* Steps of a thread *)

\* A step that changes one run, and leaves it sound, keeps the invariant.
LEMMA OneRunMoves ==
  ASSUME WfIInv, NEW r \in WfRun, wfPlan # <<>>, UNCHANGED <<wfPlan, wfRequest>>,
         WorkflowsTypeOK', QueueOK',
         \A o \in WfRun \ {r} : /\ wfThread'[o] = wfThread[o] /\ wfRow'[o] = wfRow[o]
                                /\ wfTask'[o] = wfTask[o],
         \A n \in WfNode : wfTask[r][n] # "absent" => wfTask'[r][n] # "absent",
         Sound(wfThread'[r], wfTask'[r], wfRow'[r])
  PROVE  WfIInv'
<1>1. \A o \in WfRun : Sound(wfThread'[o], wfTask'[o], wfRow'[o])
  BY DEF WfIInv
<1>2. ASSUME NEW q \in WfRequest PROVE Asked(wfRequest[q])'
  <2>1. wfRequest[q].run \in WfRun /\ Asked(wfRequest[q])
    BY DEF WfIInv, WorkflowsTypeOK, WfRequestType
  <2>2. WfNodes \subseteq WfNode
    BY NodesAreNodes DEF WfIInv
  <2> QED  BY <2>1, <2>2 DEF Asked, WfNodes
<1>3. PlanOK'
  BY DEF WfIInv, PlanOK
<1> QED  BY <1>1, <1>2, <1>3 DEF WfIInv, Sound, WfNodes

LEMMA ThreadKeeps ==
  ASSUME WfIInv, NEW r \in WfRun, NEW pc \in WfWorking,
         NEW t \in WfThreadType, NEW row \in WfRowType,
         ThreadStep(r, pc, t, row),
         wfTask' \in [WfRun -> [WfNode -> TaskState]],
         \A o \in WfRun \ {r} : wfTask'[o] = wfTask[o],
         \A n \in WfNode : wfTask[r][n] # "absent" => wfTask'[r][n] # "absent",
         wfPlan # <<>> => Sound(t, wfTask'[r], row)
  PROVE  WfIInv'
<1>1. wfPlan # <<>>
  BY DEF WfIInv, PlanOK, ThreadStep, NoThreadYet, WfWorking
<1>2. /\ WorkflowsTypeOK' /\ UNCHANGED <<wfPlan, wfRequest>>
      /\ wfThread'[r] = t /\ wfRow'[r] = row
      /\ \A o \in WfRun \ {r} : wfThread'[o] = wfThread[o] /\ wfRow'[o] = wfRow[o]
  BY DEF WfIInv, WorkflowsTypeOK, ThreadStep
<1>3. QueueOK'
  <2>1. \A i \in DOMAIN wfQueue : wfQueue[i] \in WfRun /\ wfQueue[i] # r
    BY DEF WfIInv, QueueOK, WorkflowsTypeOK, ThreadStep, WfWorking
  <2> QED  BY <1>2, <2>1 DEF WfIInv, QueueOK, ThreadStep
<1> QED  BY <1>1, <1>2, <1>3, OneRunMoves


\* Loading, marking, polling, recording and storing.
LEMMA ThreadRuns ==
  ASSUME WfIInv, NEW r \in WfRun,
         \/ LoadRun(r) \/ MarkRunning(r) \/ LookForNodes(r) \/ NodeTaskRefused(r) \/ RecordBatch(r)
         \/ PollBatch(r) \/ StoreOutcome(r)
  PROVE  WfIInv'
<1> DEFINE t == wfThread[r]
           row == wfRow[r]
           tasks == wfTask[r]
<1>1. /\ t \in WfThreadType /\ row \in WfRowType
      /\ wfTask \in [WfRun -> [WfNode -> TaskState]]
      /\ wfPlan # <<>> => Sound(t, tasks, row)
      /\ t # NoThreadYet => wfPlan # <<>>
      /\ wfPlan # <<>> => WfNodes \subseteq WfNode
  BY NodesAreNodes DEF WfIInv, WorkflowsTypeOK, PlanOK
<1>2. CASE LoadRun(r)
  <2> DEFINE u == [t EXCEPT !.pc = "markRunning", !.local = row]
  <2>1. t.pc = "load" /\ u \in WfThreadType
    BY <1>1, <1>2 DEF LoadRun, ThreadStep, WfThreadType, WfWorking
  <2>2. wfPlan # <<>> => Sound(u, tasks, row)
    BY <1>1, <2>1 DEF Sound, WfThreadType, WfRowType, WfWorking, NoThreadYet
  <2> QED  BY <1>1, <1>2, <2>1, <2>2, ThreadKeeps DEF LoadRun, WfWorking
<1>3. CASE MarkRunning(r)
  <2> DEFINE running == Updated(t.local, "running")
             u == [t EXCEPT !.pc = "look", !.local = running]
  <2>1. t.pc = "markRunning" /\ running \in WfRowType /\ u \in WfThreadType
    BY <1>1, <1>3 DEF MarkRunning, ThreadStep, WfThreadType, WfWorking, Updated, WfRowType
  <2>2. wfPlan # <<>> => Sound(u, tasks, running)
    BY <1>1, <2>1 DEF Sound, WfThreadType, WfRowType, WfWorking, NoThreadYet, Updated
  <2> QED  BY <1>1, <1>3, <2>1, <2>2, ThreadKeeps DEF MarkRunning, WfWorking
<1>4. CASE LookForNodes(r)
  <2> DEFINE next == NextNodes(wfPlan.depends, wfPlan.mode, WfNodes \ t.done, t.done)
             u == [t EXCEPT !.pc = "create", !.batch = next, !.todo = next, !.seen = {}]
  <2>1. t.pc = "look" /\ wfPlan # <<>>
    BY <1>1, <1>4 DEF LookForNodes, ThreadStep, NoThreadYet
  <2>2. /\ next \subseteq WfNodes \ t.done
        /\ \A n \in next : wfPlan.depends[n] \subseteq t.done
    <3> DEFINE ready == {i \in WfNodes \ t.done : wfPlan.depends[i] \subseteq t.done}
    <3>1. next \subseteq ready
      <4>1. ready # {} => FirstOf(ready) \in ready
        BY <1>1, <2>1, FirstOfIn, WorkflowsAssumption
      <4> QED  BY <4>1 DEF NextNodes
    <3> QED  BY <3>1
  <2>3. u \in WfThreadType /\ Sound(u, tasks, row)
    <3>1. next \subseteq WfNode /\ \A n \in next : n \notin t.done
      BY <1>1, <2>1, <2>2
    <3> HIDE DEF next
    <3>2. /\ u \in WfThreadType /\ u.pc = "create" /\ u.todo = next /\ u.batch = next
          /\ u.done = t.done /\ u.seen = {} /\ u.local = t.local
      BY <1>1, <3>1 DEF WfThreadType, WfWorking
    <3>3. t # NoThreadYet
      BY <2>1 DEF NoThreadYet
    <3> HIDE DEF u
    <3> QED  BY <1>1, <2>1, <2>2, <3>1, <3>2, <3>3 DEF Sound, WfWorking
  <2>4. ASSUME NEW pc \in {"finish", "done"}, pc = "finish" => t.done = WfNodes
        PROVE  [t EXCEPT !.pc = pc] \in WfThreadType /\ Sound([t EXCEPT !.pc = pc], tasks, row)
    BY <1>1, <2>1, <2>4 DEF WfThreadType, WfWorking, Sound, NoThreadYet
  <2>5. \E s \in WfThreadType : ThreadStep(r, "look", s, row) /\ Sound(s, tasks, row)
    BY <1>4, <2>3, <2>4 DEF LookForNodes
  <2> QED  BY <1>1, <1>4, <2>5, ThreadKeeps DEF LookForNodes, WfWorking
<1>5. CASE NodeTaskRefused(r)
  <2> DEFINE u == [t EXCEPT !.pc = "fail"]
  <2>1. t.pc = "create" /\ u \in WfThreadType
    BY <1>1, <1>5 DEF NodeTaskRefused, ThreadStep, WfThreadType, WfWorking
  <2>2. wfPlan # <<>> => Sound(u, tasks, row)
    BY <1>1, <2>1 DEF Sound, WfThreadType, WfRowType, WfWorking, NoThreadYet
  <2> QED  BY <1>1, <1>5, <2>1, <2>2, ThreadKeeps DEF NodeTaskRefused, WfWorking
<1>6. CASE RecordBatch(r)
  <2> DEFINE run == [t.local EXCEPT !.tasks = @ \union t.batch]
             u == [t EXCEPT !.pc = "poll", !.local = run]
  <2>1. t.pc = "record" /\ run \in WfRowType /\ u \in WfThreadType
    BY <1>1, <1>6 DEF RecordBatch, ThreadStep, WfThreadType, WfWorking, WfRowType
  <2>2. wfPlan # <<>> => Sound(u, tasks, run)
    BY <1>1, <2>1 DEF Sound, WfThreadType, WfRowType, WfWorking, NoThreadYet
  <2> QED  BY <1>1, <1>6, <2>1, <2>2, ThreadKeeps DEF RecordBatch, WfWorking
<1>7. CASE PollBatch(r)
  <2> DEFINE left == [t EXCEPT !.pc = "done"]
             u == [t EXCEPT !.pc = "scan", !.todo = t.batch]
  <2>1. t.pc = "poll" /\ u \in WfThreadType /\ left \in WfThreadType
    BY <1>1, <1>7 DEF PollBatch, ThreadStep, WfThreadType, WfWorking
  <2>2. wfPlan # <<>> => Sound(u, tasks, row) /\ Sound(left, tasks, row)
    <3>1. wfPlan # <<>> => Sound(u, tasks, row)
      BY <1>1, <2>1 DEF Sound, WfThreadType, WfRowType, WfWorking, NoThreadYet
    <3>2. wfPlan # <<>> => Sound(left, tasks, row)
      BY <1>1, <2>1 DEF Sound, WfThreadType, WfRowType, WfWorking, NoThreadYet
    <3> QED  BY <3>1, <3>2
  <2>3. ThreadStep(r, "poll", u, row) \/ ThreadStep(r, "poll", left, row)
    BY <1>7 DEF PollBatch
  <2>4. UNCHANGED wfTask
    BY <1>7 DEF PollBatch
  <2>5. CASE ThreadStep(r, "poll", u, row)
    BY <1>1, <2>1, <2>2, <2>4, <2>5, ThreadKeeps DEF WfWorking
  <2>6. CASE ThreadStep(r, "poll", left, row)
    BY <1>1, <2>1, <2>2, <2>4, <2>6, ThreadKeeps DEF WfWorking
  <2> QED  BY <2>3, <2>5, <2>6
<1>8. CASE StoreOutcome(r)
  <2> DEFINE u == [t EXCEPT !.pc = "done"]
  <2>1. /\ t.pc \in {"finish", "fail"} /\ u \in WfThreadType
        /\ Updated(t.local, "completed") \in WfRowType /\ Updated(t.local, "failed") \in WfRowType
    BY <1>1, <1>8 DEF StoreOutcome, ThreadStep, WfThreadType, WfWorking, Updated, WfRowType, WfSettled
  <2>2. wfPlan # <<>> => Sound(u, tasks, Updated(t.local, "failed"))
    BY <1>1, <2>1 DEF Sound, WfThreadType, WfRowType, WfWorking, NoThreadYet, Updated
  <2>3. wfPlan # <<>> /\ t.pc = "finish" => Sound(u, tasks, Updated(t.local, "completed"))
    <3>1. SUFFICES ASSUME wfPlan # <<>>, t.pc = "finish"
                   PROVE  Sound(u, tasks, Updated(t.local, "completed"))
      OBVIOUS
    <3>2. t.local.tasks = WfNodes /\ \A n \in WfNodes : tasks[n] \in Finished
      BY <1>1, <3>1 DEF Sound
    <3>3. /\ u.pc = "done" /\ u.done = t.done /\ u.seen = t.seen /\ u.batch = t.batch
          /\ u.local = t.local /\ u.todo = t.todo
          /\ Updated(t.local, "completed").tasks = t.local.tasks
          /\ Updated(t.local, "completed").status = "completed"
      BY <1>1 DEF WfThreadType, WfRowType, Updated
    <3> HIDE DEF u
    <3> QED  BY <1>1, <3>1, <3>2, <3>3 DEF Sound, WfWorking
  <2>4. \/ ThreadStep(r, "finish", u, Updated(t.local, "completed")) /\ t.pc = "finish"
        \/ ThreadStep(r, "fail", u, Updated(t.local, "failed"))
    BY <1>8 DEF StoreOutcome, ThreadStep
  <2>5. UNCHANGED wfTask
    BY <1>8 DEF StoreOutcome
  <2>6. CASE ThreadStep(r, "fail", u, Updated(t.local, "failed"))
    BY <1>1, <2>1, <2>2, <2>5, <2>6, ThreadKeeps DEF WfWorking
  <2>7. CASE ThreadStep(r, "finish", u, Updated(t.local, "completed")) /\ t.pc = "finish"
    BY <1>1, <2>1, <2>3, <2>5, <2>7, ThreadKeeps DEF WfWorking
  <2> QED  BY <2>4, <2>6, <2>7
<1> QED  BY <1>2, <1>3, <1>4, <1>5, <1>6, <1>7, <1>8

\* A task is created for a node of the batch, whose dependencies are completed.
LEMMA ThreadCreates == ASSUME WfIInv, NEW r \in WfRun, CreateNodeTask(r) PROVE WfIInv'
<1> DEFINE t == wfThread[r]
           row == wfRow[r]
           tasks == wfTask[r]
           n == FirstOf(t.todo)
           left == t.todo \ {n}
           u == [t EXCEPT !.todo = left, !.pc = IF left = {} THEN "record" ELSE "create"]
           moved == [tasks EXCEPT ![n] = "active"]
<1>1. /\ t \in WfThreadType /\ row \in WfRowType
      /\ wfTask \in [WfRun -> [WfNode -> TaskState]] /\ t.pc = "create"
  BY DEF WfIInv, WorkflowsTypeOK, CreateNodeTask, ThreadStep
<1>2. wfPlan # <<>> /\ Sound(t, tasks, row)
  BY <1>1 DEF WfIInv, PlanOK, NoThreadYet
<1>3. n \in t.todo /\ n \in WfNode
  <2>1. t.todo \in SUBSET Nat /\ t.todo # {} /\ t.todo \subseteq WfNode
    BY <1>1, WorkflowsAssumption DEF CreateNodeTask, WfThreadType
  <2> QED  BY <2>1, FirstOfIn
<1> HIDE DEF n
<1>4. u \in WfThreadType
  BY <1>1 DEF WfThreadType, WfWorking
<1>5. wfTask' = [wfTask EXCEPT ![r][n] = "active"] /\ ThreadStep(r, "create", u, row)
  BY DEF CreateNodeTask, n
<1>6. /\ wfTask' \in [WfRun -> [WfNode -> TaskState]] /\ wfTask'[r] = moved
      /\ \A o \in WfRun \ {r} : wfTask'[o] = wfTask[o]
      /\ \A m \in WfNode : tasks[m] # "absent" => moved[m] # "absent"
  BY <1>1, <1>3, <1>5 DEF TaskState, TaskUnsettled
<1>7. Sound(u, moved, row)
  <2>1. /\ WfNodes \subseteq WfNode /\ t.batch \subseteq WfNode
        /\ tasks \in [WfNode -> TaskState]
    BY <1>1, <1>2, NodesAreNodes DEF WfIInv, WfThreadType
  <2>2. /\ \A m \in WfNode \ {n} : moved[m] = tasks[m]
        /\ moved[n] = "active"
        /\ u.done = t.done /\ u.seen = t.seen /\ u.batch = t.batch /\ u.local = t.local
        /\ u.todo = t.todo \ {n}
        /\ u.pc \in {"record", "create"} /\ (u.pc = "record" => u.todo = {})
    BY <1>1, <1>3, <2>1 DEF WfThreadType
  <2>3. n \notin t.done \union t.seen
    BY <1>1, <1>2, <1>3 DEF Sound
  <2>4. t # NoThreadYet
    BY <1>1 DEF NoThreadYet
  <2> HIDE DEF u, moved
  <2> QED  BY <1>1, <1>2, <1>3, <2>1, <2>2, <2>3, <2>4 DEF Sound, WfWorking, WfThreadType, WfRowType
<1> QED  BY <1>1, <1>4, <1>5, <1>6, <1>7, ThreadKeeps DEF WfWorking

\* A task of the batch is read; after the last one, the batch is done if every
\* one of its tasks was seen completed.
LEMMA ThreadScans == ASSUME WfIInv, NEW r \in WfRun, ScanTask(r) PROVE WfIInv'
<1> DEFINE t == wfThread[r]
           row == wfRow[r]
           tasks == wfTask[r]
           n == FirstOf(t.todo)
           left == t.todo \ {n}
           seen == IF Shown(tasks[n]) = "completed" THEN t.seen \union {n} ELSE t.seen
           through == [t EXCEPT !.todo = left, !.seen = seen]
<1>1. /\ t \in WfThreadType /\ row \in WfRowType
      /\ wfTask \in [WfRun -> [WfNode -> TaskState]] /\ t.pc = "scan" /\ UNCHANGED wfTask
  BY DEF WfIInv, WorkflowsTypeOK, ScanTask, ScanWith
<1>2. wfPlan # <<>> /\ Sound(t, tasks, row)
  BY <1>1 DEF WfIInv, PlanOK, NoThreadYet
<1>3. n \in t.todo /\ n \in WfNode
  <2>1. t.todo \in SUBSET Nat /\ t.todo # {} /\ t.todo \subseteq WfNode
    BY <1>1, <1>2, WorkflowsAssumption DEF Sound, WfThreadType
  <2> QED  BY <2>1, FirstOfIn
<1> HIDE DEF n
<1>4. seen \subseteq WfNode /\ \A m \in seen : tasks[m] \in Finished
  BY <1>1, <1>2, <1>3 DEF Sound, Shown, Finished, WfThreadType
<1> HIDE DEF seen
<1>5. /\ through \in WfThreadType /\ through.pc = "scan" /\ through.todo = left
      /\ through.done = t.done /\ through.seen = seen /\ through.batch = t.batch
      /\ through.local = t.local
  BY <1>1, <1>3, <1>4 DEF WfThreadType, WfWorking
<1> HIDE DEF through
<1>6. ASSUME NEW pc \in {"poll", "scan"}, pc = "scan" => left # {}
      PROVE  Sound([through EXCEPT !.pc = pc], tasks, row)
  <2> DEFINE u == [through EXCEPT !.pc = pc]
  <2>1. /\ u.todo = left /\ u.done = t.done /\ u.seen = seen /\ u.batch = t.batch
        /\ u.local = t.local /\ u.pc = pc
    BY <1>5, <1>6 DEF WfThreadType
  <2>2. t # NoThreadYet
    BY <1>1 DEF NoThreadYet
  <2> HIDE DEF u
  <2>3. Sound(u, tasks, row)
    BY <1>1, <1>2, <1>4, <1>6, <2>1, <2>2 DEF Sound, WfWorking
  <2> QED  BY <2>3 DEF u
<1>7. LET u == [t EXCEPT !.pc = "fail"] IN u \in WfThreadType /\ Sound(u, tasks, row)
  BY <1>1, <1>2 DEF Sound, WfThreadType, WfWorking, NoThreadYet
<1>8. ASSUME seen = t.batch
      PROVE  LET u == [through EXCEPT !.pc = "look", !.done = @ \union t.batch]
             IN  u \in WfThreadType /\ Sound(u, tasks, row)
  <2> DEFINE u == [through EXCEPT !.pc = "look", !.done = @ \union t.batch]
  <2>1. /\ u \in WfThreadType /\ u.pc = "look" /\ u.todo = left
        /\ u.done = t.done \union t.batch /\ u.seen = seen /\ u.batch = t.batch
        /\ u.local = t.local
    BY <1>1, <1>5 DEF WfThreadType, WfWorking
  <2>2. t # NoThreadYet
    BY <1>1 DEF NoThreadYet
  <2> HIDE DEF u
  <2>3. Sound(u, tasks, row)
    BY <1>1, <1>2, <1>4, <1>8, <2>1, <2>2 DEF Sound, WfWorking
  <2> QED  BY <2>1, <2>3 DEF u
<1>9. \E u \in WfThreadType : ThreadStep(r, "scan", u, row) /\ Sound(u, tasks, row)
  <2>1. [through EXCEPT !.pc = "poll"] \in WfThreadType
    BY <1>5 DEF WfThreadType, WfWorking
  <2>2. through = [through EXCEPT !.pc = through.pc]
    BY <1>5 DEF WfThreadType
  <2>3. \/ ThreadStep(r, "scan", [t EXCEPT !.pc = "fail"], row)
        \/ left # {} /\ ThreadStep(r, "scan", through, row)
        \/ ThreadStep(r, "scan", [through EXCEPT !.pc = "poll"], row)
        \/ seen = t.batch
           /\ ThreadStep(r, "scan", [through EXCEPT !.pc = "look", !.done = @ \union t.batch], row)
    BY DEF ScanTask, ScanWith, n, seen, through
  <2>4. left # {} => Sound(through, tasks, row)
    BY <1>5, <1>6, <2>2
  <2>5. Sound([through EXCEPT !.pc = "poll"], tasks, row)
    BY <1>6
  <2> QED  BY <1>5, <1>7, <1>8, <2>1, <2>3, <2>4, <2>5
<1> QED  BY <1>1, <1>9, ThreadKeeps DEF WfWorking

\* The start of a run, and its way through the executor.
LEMMA RunStarts ==
  ASSUME WfIInv, NEW r \in WfRun, InsertRun(r) \/ SubmitRun(r)
  PROVE  WfIInv'
<1>1. CASE InsertRun(r)
  <2>0. wfPlan # <<>> /\ Sound(wfThread[r], wfTask[r], wfRow[r]) /\ wfRow[r].status = "absent"
    BY <1>1 DEF InsertRun, WfIInv, NoRun
  <2>1. wfThread[r] = NoThreadYet
    BY <2>0 DEF Sound
  <2>2. /\ wfThread'[r] = [NoThreadYet EXCEPT !.pc = "inserted"]
        /\ wfRow'[r] = [NoRun EXCEPT !.status = "queued"]
    BY <1>1, <2>1 DEF InsertRun, WfIInv, WorkflowsTypeOK
  <2>3. WorkflowsTypeOK'
    <3>0. /\ wfThread \in [WfRun -> WfThreadType] /\ wfRow \in [WfRun -> WfRowType]
          /\ wfThread[r] \in WfThreadType /\ wfRow[r] \in WfRowType
      BY DEF WfIInv, WorkflowsTypeOK
    <3>1. /\ [wfThread[r] EXCEPT !.pc = "inserted"] \in WfThreadType
          /\ [wfRow[r] EXCEPT !.status = "queued"] \in WfRowType
      BY <3>0 DEF WfThreadType, WfRowType
    <3>2. /\ wfThread' \in [WfRun -> WfThreadType] /\ wfRow' \in [WfRun -> WfRowType]
          /\ UNCHANGED <<wfPlan, wfQueue, wfEvent, wfTask, wfRequest, wfUp, wfRestarts>>
      BY <1>1, <3>0, <3>1 DEF InsertRun
    <3> QED  BY <3>2 DEF WfIInv, WorkflowsTypeOK
  <2>4. QueueOK'
    <3>1. \A i \in DOMAIN wfQueue : wfQueue[i] \in WfRun \ {r}
      BY <2>1 DEF WfIInv, WorkflowsTypeOK, QueueOK, NoThreadYet
    <3>2. wfQueue' = wfQueue /\ \A o \in WfRun \ {r} : wfThread'[o] = wfThread[o]
      BY <1>1 DEF InsertRun, WfIInv, WorkflowsTypeOK
    <3> QED  BY <3>1, <3>2 DEF WfIInv, QueueOK
  <2>5. Sound(wfThread'[r], wfTask'[r], wfRow'[r])
    BY <1>1, <2>0, <2>1, <2>2 DEF InsertRun, Sound, NoThreadYet, NoRun, WfWorking
  <2> QED  BY <1>1, <2>0, <2>3, <2>4, <2>5, OneRunMoves DEF InsertRun, WfIInv, WorkflowsTypeOK
<1>2. CASE SubmitRun(r)
  <2>1. wfPlan # <<>> /\ Sound(wfThread[r], wfTask[r], wfRow[r]) /\ wfThread[r].pc = "inserted"
    BY <1>2 DEF SubmitRun, WfIInv, PlanOK, NoThreadYet
  <2>2. wfThread'[r] = [wfThread[r] EXCEPT !.pc = "queued"] /\ wfThread'[r].pc = "queued"
    BY <1>2 DEF SubmitRun, WfIInv, WorkflowsTypeOK, WfThreadType
  <2>3. WorkflowsTypeOK'
    <3>0. /\ wfThread \in [WfRun -> WfThreadType] /\ wfThread[r] \in WfThreadType
          /\ wfQueue \in Seq(WfRun) /\ wfEvent \in [WfRun -> {"absent", "clear", "set"}]
      BY DEF WfIInv, WorkflowsTypeOK
    <3>1. [wfThread[r] EXCEPT !.pc = "queued"] \in WfThreadType
      BY <3>0 DEF WfThreadType
    <3>2. /\ wfThread' \in [WfRun -> WfThreadType] /\ wfQueue' \in Seq(WfRun)
          /\ wfEvent' \in [WfRun -> {"absent", "clear", "set"}]
          /\ UNCHANGED <<wfPlan, wfRow, wfTask, wfRequest, wfUp, wfRestarts>>
      BY <1>2, <3>0, <3>1 DEF SubmitRun
    <3> QED  BY <3>2 DEF WfIInv, WorkflowsTypeOK
  <2>4. QueueOK'
    <3>1. wfQueue \in Seq(WfRun) /\ wfQueue' = Append(wfQueue, r)
      BY <1>2 DEF SubmitRun, WfIInv, WorkflowsTypeOK
    <3>2. \A i \in DOMAIN wfQueue : wfQueue[i] \in WfRun \ {r}
      BY <2>1, <3>1 DEF WfIInv, QueueOK
    <3>3. \A i \in DOMAIN wfQueue' : \/ i \in DOMAIN wfQueue /\ wfQueue'[i] = wfQueue[i]
                                     \/ i = Len(wfQueue) + 1 /\ wfQueue'[i] = r
      BY <3>1
    <3>4. \A o \in WfRun \ {r} : wfThread'[o] = wfThread[o]
      BY <1>2 DEF SubmitRun, WfIInv, WorkflowsTypeOK
    <3>5. \A i \in DOMAIN wfQueue' : wfThread'[wfQueue'[i]].pc = "queued"
      BY <2>2, <3>2, <3>3, <3>4 DEF WfIInv, QueueOK
    <3>6. ASSUME NEW i \in DOMAIN wfQueue', NEW j \in DOMAIN wfQueue', wfQueue'[i] = wfQueue'[j] PROVE i = j
      BY <3>2, <3>3, <3>6 DEF WfIInv, QueueOK
    <3> QED  BY <3>5, <3>6 DEF QueueOK
  <2>5. Sound(wfThread'[r], wfTask'[r], wfRow'[r])
    BY <1>2, <2>1, <2>2 DEF SubmitRun, Sound, NoThreadYet, WfWorking, WfIInv, WorkflowsTypeOK, WfThreadType
  <2> QED  BY <1>2, <2>1, <2>3, <2>4, <2>5, OneRunMoves DEF SubmitRun, WfIInv, WorkflowsTypeOK
<1> QED  BY <1>1, <1>2

LEMMA RunTaken == ASSUME WfIInv, TakeRun PROVE WfIInv'
<1> DEFINE r == Head(wfQueue)
<1>1. /\ wfQueue \in Seq(WfRun) /\ wfQueue # <<>> /\ wfQueue' = Tail(wfQueue)
      /\ wfThread' = [wfThread EXCEPT ![r].pc = "load"] /\ r \in WfRun
  BY DEF TakeRun, WfIInv, WorkflowsTypeOK
<1>2. wfThread[r].pc = "queued" /\ r = wfQueue[1] /\ 1 \in DOMAIN wfQueue
  BY <1>1 DEF WfIInv, QueueOK
<1>3. wfPlan # <<>> /\ Sound(wfThread[r], wfTask[r], wfRow[r])
  BY <1>1, <1>2 DEF WfIInv, PlanOK, NoThreadYet
<1>4. WorkflowsTypeOK'
  <2> HIDE DEF r
  <2>0. wfThread \in [WfRun -> WfThreadType] /\ wfThread[r] \in WfThreadType
    BY <1>1 DEF WfIInv, WorkflowsTypeOK
  <2>1. [wfThread[r] EXCEPT !.pc = "load"] \in WfThreadType
    BY <2>0 DEF WfThreadType, WfWorking
  <2>2. Tail(wfQueue) \in Seq(WfRun)
    BY <1>1
  <2>3. wfThread' \in [WfRun -> WfThreadType]
    BY <1>1, <2>0, <2>1
  <2> QED  BY <1>1, <2>2, <2>3 DEF TakeRun, WfIInv, WorkflowsTypeOK
<1>5. QueueOK'
  <2>1. \A i \in DOMAIN wfQueue' : i + 1 \in DOMAIN wfQueue /\ i + 1 # 1 /\ wfQueue'[i] = wfQueue[i + 1]
    BY <1>1
  <2>2. \A i \in DOMAIN wfQueue' : wfQueue'[i] \in WfRun \ {r}
    <3>1. \A i \in DOMAIN wfQueue : wfQueue[i] \in WfRun
      BY <1>1
    <3>2. \A i \in DOMAIN wfQueue : wfQueue[i] = wfQueue[1] => i = 1
      BY <1>2 DEF WfIInv, QueueOK
    <3> QED  BY <1>2, <2>1, <3>1, <3>2
  <2>3. \A i, j \in DOMAIN wfQueue' : wfQueue'[i] = wfQueue'[j] => i = j
    <3>1. TAKE i, j \in DOMAIN wfQueue'
    <3>2. wfQueue'[i] = wfQueue'[j] => i + 1 = j + 1
      BY <2>1 DEF WfIInv, QueueOK
    <3> QED  BY <1>1, <3>2
  <2>4. \A i \in DOMAIN wfQueue' : wfThread'[wfQueue'[i]].pc = "queued"
    BY <1>1, <2>1, <2>2 DEF WfIInv, QueueOK, WorkflowsTypeOK
  <2> QED  BY <2>3, <2>4 DEF QueueOK
<1>6. Sound(wfThread'[r], wfTask'[r], wfRow'[r])
  BY <1>1, <1>2, <1>3 DEF TakeRun, Sound, NoThreadYet, WfWorking, WfIInv, WorkflowsTypeOK, WfThreadType
<1> HIDE DEF r
<1> QED  BY <1>1, <1>3, <1>4, <1>5, <1>6, OneRunMoves DEF TakeRun, WfIInv, WorkflowsTypeOK

--------------------------------------------------------------------------
(* Steps of a cancel request *)

LEMMA RequestsRun ==
  ASSUME WfIInv, NEW q \in WfRequest,
         WfRequestSteps(q) \/ \E r \in WfRun : AskCancel(q, r)
  PROVE  WfIInv'
<1> DEFINE req == wfRequest[q]
<1>1. /\ req \in WfRequestType /\ Asked(req)
      /\ wfRequest \in [WfRequest -> WfRequestType] /\ wfTask \in [WfRun -> [WfNode -> TaskState]]
  BY DEF WfIInv, WorkflowsTypeOK
<1>2. ASSUME wfPlan # <<>> PROVE WfNodes \subseteq WfNode
  BY <1>2, NodesAreNodes DEF WfIInv
<1>3. ASSUME NEW next \in WfRequestType, wfRequest' = [wfRequest EXCEPT ![q] = next],
             UNCHANGED <<wfPlan, wfThread, wfQueue, wfUp, wfRestarts, wfRow>>,
             wfEvent' \in [WfRun -> {"absent", "clear", "set"}],
             wfTask' \in [WfRun -> [WfNode -> TaskState]], TasksMoved, Asked(next)
      PROVE  WfIInv'
  <2>1. WorkflowsTypeOK'
    BY <1>3 DEF WfIInv, WorkflowsTypeOK
  <2>2. ASSUME NEW p \in WfRequest PROVE Asked(wfRequest[p])'
    <3>1. wfRequest'[p] \in WfRequestType /\ Asked(wfRequest'[p])
      BY <1>1, <1>3 DEF WfIInv
    <3>2. wfPlan # <<>> => \A n \in WfNodes : n \in WfNode
      BY <1>2
    <3> QED  BY <1>3, <3>1, <3>2 DEF Asked, TasksMoved, WfNodes, WfRequestType
  <2> QED  BY <1>3, <2>1, <2>2, TasksKeep
<1>4. ASSUME req.pc \in {"look", "confirm", "overwrite"}
      PROVE  FirstOf(req.todo) \in req.todo /\ FirstOf(req.todo) \in WfNode
  <2>1. req.todo \in SUBSET Nat /\ req.todo # {} /\ req.todo \subseteq WfNode
    BY <1>1, <1>4, WorkflowsAssumption DEF Asked, WfRequestType
  <2> QED  BY <2>1, FirstOfIn
<1>5. ASSUME NEW todo \in SUBSET req.todo, NEW pc \in {"look", "confirm", "overwrite", "store", "refused", "stored"},
             req.pc # "unused", pc \in {"look", "confirm", "overwrite"} => todo # {}
      PROVE  LET next == [req EXCEPT !.todo = todo, !.pc = pc]
             IN  next \in WfRequestType /\ Asked(next)
  BY <1>1, <1>5 DEF WfRequestType, Asked
<1>6. UNCHANGED wfTask => TasksMoved
  BY DEF TasksMoved
<1>7. CASE \E r \in WfRun : AskCancel(q, r)
  <2>1. PICK r \in WfRun : AskCancel(q, r)
    BY <1>7
  <2> DEFINE next == [req EXCEPT !.pc = "signal", !.run = r, !.snapshot = wfRow[r], !.todo = wfRow[r].tasks]
  <2>2. wfPlan # <<>> /\ wfRow[r] \in WfRowType /\ Sound(wfThread[r], wfTask[r], wfRow[r])
    BY <2>1 DEF WfIInv, PlanOK, AskCancel, WorkflowsTypeOK
  <2>3. next \in WfRequestType
    BY <1>1, <2>2 DEF WfRequestType, WfRowType
  <2>4. Asked(next)
    BY <1>1, <2>2 DEF Asked, Sound, WfRequestType
  <2>5. /\ wfRequest' = [wfRequest EXCEPT ![q] = next]
        /\ UNCHANGED <<wfPlan, wfThread, wfQueue, wfUp, wfRestarts, wfRow, wfEvent, wfTask>>
    BY <2>1 DEF AskCancel, RequestStep
  <2> HIDE DEF next
  <2>6. wfEvent' \in [WfRun -> {"absent", "clear", "set"}]
    BY <2>5 DEF WfIInv, WorkflowsTypeOK
  <2> QED  BY <1>1, <1>3, <1>6, <2>3, <2>4, <2>5, <2>6
<1>8. CASE SetEvent(q)
  <2> DEFINE next == [req EXCEPT !.todo = req.todo, !.pc = NextOfRequest(req)]
  <2>1. next = [req EXCEPT !.pc = NextOfRequest(req)] /\ req.pc = "signal"
    BY <1>1, <1>8 DEF WfRequestType, SetEvent, RequestStep
  <2>2. next \in WfRequestType /\ Asked(next)
    BY <1>5, <2>1 DEF NextOfRequest
  <2>3. wfEvent' \in [WfRun -> {"absent", "clear", "set"}]
    BY <1>8 DEF WfIInv, WorkflowsTypeOK, SetEvent
  <2> HIDE DEF next
  <2> QED  BY <1>1, <1>3, <1>6, <1>8, <2>1, <2>2, <2>3 DEF SetEvent, RequestStep
<1>9. CASE LookAtTask(q)
  <2> DEFINE n == FirstOf(req.todo)
             skipped == [req EXCEPT !.todo = req.todo \ {n}]
             skip == [req EXCEPT !.todo = req.todo \ {n}, !.pc = NextOfRequest(skipped)]
             stay == [req EXCEPT !.todo = req.todo, !.pc = "confirm"]
  <2>1. req.pc = "look" /\ req.todo # {} /\ stay = [req EXCEPT !.pc = "confirm"]
        /\ skip = [skipped EXCEPT !.pc = NextOfRequest(skipped)] /\ skipped.todo = req.todo \ {n}
    BY <1>1, <1>9 DEF WfRequestType, LookAtTask, RequestStep, Asked
  <2>2. skip \in WfRequestType /\ Asked(skip) /\ stay \in WfRequestType /\ Asked(stay)
    BY <1>5, <2>1 DEF NextOfRequest
  <2>3. wfEvent' \in [WfRun -> {"absent", "clear", "set"}]
    BY <1>9 DEF WfIInv, WorkflowsTypeOK, LookAtTask
  <2>4. wfRequest' = [wfRequest EXCEPT ![q] = skip] \/ wfRequest' = [wfRequest EXCEPT ![q] = stay]
    BY <1>9, <2>1 DEF LookAtTask, RequestStep
  <2> HIDE DEF skip, stay
  <2> QED  BY <1>1, <1>3, <1>6, <1>9, <2>2, <2>3, <2>4 DEF LookAtTask, RequestStep
<1>10. CASE ConfirmTask(q)
  <2> DEFINE next(pc) == [req EXCEPT !.todo = req.todo, !.pc = pc]
  <2>1. req.pc = "confirm" /\ req.todo # {} /\ \A pc : next(pc) = [req EXCEPT !.pc = pc]
    BY <1>1, <1>10 DEF WfRequestType, ConfirmTask, RequestStep, Asked
  <2>2. \A pc \in {"refused", "overwrite"} : next(pc) \in WfRequestType /\ Asked(next(pc))
    BY <1>5, <2>1
  <2>3. wfEvent' \in [WfRun -> {"absent", "clear", "set"}]
    BY <1>10 DEF WfIInv, WorkflowsTypeOK, ConfirmTask
  <2>4. \E pc \in {"refused", "overwrite"} : wfRequest' = [wfRequest EXCEPT ![q] = next(pc)]
    BY <1>10, <2>1 DEF ConfirmTask, RequestStep
  <2> HIDE DEF next
  <2> QED  BY <1>1, <1>3, <1>6, <1>10, <2>2, <2>3, <2>4 DEF ConfirmTask, RequestStep
<1>11. CASE CancelNodeTask(q)
  <2> DEFINE n == FirstOf(req.todo)
             left == [req EXCEPT !.todo = req.todo \ {n}]
             next == [req EXCEPT !.todo = req.todo \ {n}, !.pc = NextOfRequest(left)]
  <2>1. req.pc = "overwrite" /\ left.todo = req.todo \ {n}
        /\ next = [left EXCEPT !.pc = NextOfRequest(left)]
    BY <1>1, <1>11 DEF WfRequestType, CancelNodeTask, RequestStep
  <2>2. next \in WfRequestType /\ Asked(next)
    BY <1>5, <2>1 DEF NextOfRequest
  <2>3. wfEvent' \in [WfRun -> {"absent", "clear", "set"}] /\ wfRequest' = [wfRequest EXCEPT ![q] = next]
    BY <1>11, <2>1 DEF WfIInv, WorkflowsTypeOK, CancelNodeTask, RequestStep
  <2>4. n \in WfNode /\ req.run \in WfRun /\ wfTask[req.run][n] # "absent"
    BY <1>1, <1>4, <2>1 DEF Asked, WfRequestType
  <2>5. wfTask' = [wfTask EXCEPT ![req.run][n] = AfterCancel(@)]
    BY <1>11 DEF CancelNodeTask
  <2> HIDE DEF n, next
  <2>6. wfTask' \in [WfRun -> [WfNode -> TaskState]] /\ TasksMoved
    BY <1>1, <2>4, <2>5 DEF TasksMoved, AfterCancel, TaskState, TaskUnsettled, TaskSettled, Finished
  <2> QED  BY <1>1, <1>3, <1>11, <2>2, <2>3, <2>6 DEF CancelNodeTask, RequestStep
<1>12. CASE StoreCancelled(q)
  <2> DEFINE o == req.run
             row == Updated(req.snapshot, "cancelled")
             next == [req EXCEPT !.todo = req.todo, !.pc = "stored"]
  <2>1. req.pc = "store" /\ next = [req EXCEPT !.pc = "stored"] /\ o \in WfRun /\ row \in WfRowType
        /\ row.status = "cancelled" /\ row.tasks = req.snapshot.tasks
    BY <1>1, <1>12 DEF WfRequestType, StoreCancelled, RequestStep, WfRowType, Updated, WfSettled
  <2>2. wfPlan # <<>> /\ next \in WfRequestType /\ Asked(next)
    BY <1>1, <1>5, <2>1 DEF Asked
  <2>3. /\ wfRequest' = [wfRequest EXCEPT ![q] = next] /\ wfRow' = [wfRow EXCEPT ![o] = row]
        /\ UNCHANGED <<wfPlan, wfThread, wfQueue, wfUp, wfRestarts, wfEvent, wfTask>>
    BY <1>12, <2>1 DEF StoreCancelled, RequestStep
  <2> HIDE DEF next, row
  <2>4. WorkflowsTypeOK'
    BY <1>1, <2>1, <2>2, <2>3 DEF WfIInv, WorkflowsTypeOK
  <2>5. PlanOK' /\ QueueOK'
    BY <2>2, <2>3 DEF WfIInv, PlanOK, QueueOK
  <2>6. Sound(wfThread[o], wfTask[o], wfRow'[o])
    <3>1. wfRow'[o] = row
      BY <1>1, <2>1, <2>3 DEF WfIInv, WorkflowsTypeOK
    <3>2. row.tasks \subseteq WfNodes /\ \A m \in row.tasks : wfTask[o][m] # "absent"
      BY <1>1, <2>1 DEF WfIInv, Asked
    <3>3. Sound(wfThread[o], wfTask[o], wfRow[o])
      BY <1>1, <2>1, <2>2 DEF WfIInv
    <3>4. row.status = "cancelled"
      BY <2>1
    <3>5. Sound(wfThread[o], wfTask[o], row)
      BY <3>2, <3>3, <3>4 DEF Sound
    <3> QED  BY <3>1, <3>5
  <2>7. \A r \in WfRun : Sound(wfThread'[r], wfTask'[r], wfRow'[r])
    BY <2>1, <2>2, <2>3, <2>6 DEF WfIInv, WorkflowsTypeOK
  <2>8. \A p \in WfRequest : Asked(wfRequest[p])'
    BY <1>1, <2>2, <2>3 DEF WfIInv, Asked, WfNodes
  <2> QED  BY <2>2, <2>3, <2>4, <2>5, <2>7, <2>8 DEF WfIInv, Sound, WfNodes
<1> QED  BY <1>7, <1>8, <1>9, <1>10, <1>11, <1>12 DEF WfRequestSteps

--------------------------------------------------------------------------
(* The rest of the system *)

LEMMA TasksSettle ==
  ASSUME WfIInv, NEW r \in WfRun, NEW n \in WfNode, NodeTaskMoves(r, n)
  PROVE  WfIInv'
<1>1. PICK s \in TaskState : /\ <<wfTask[r][n], s>> \in WorkerMoves
                             /\ wfTask' = [wfTask EXCEPT ![r][n] = s]
  BY DEF NodeTaskMoves
<1>2. wfTask[r][n] \in TaskUnsettled /\ s \in TaskSettled \union {"active"}
  BY <1>1 DEF WorkerMoves, TaskUnsettled
<1>3. wfTask \in [WfRun -> [WfNode -> TaskState]]
  BY DEF WfIInv, WorkflowsTypeOK
<1>4. WorkflowsTypeOK'
  BY <1>1, <1>3 DEF NodeTaskMoves, WfIInv, WorkflowsTypeOK
<1>5. TasksMoved
  BY <1>1, <1>2, <1>3 DEF TasksMoved, Finished, TaskUnsettled, TaskSettled
<1>6. ASSUME NEW q \in WfRequest PROVE Asked(wfRequest[q])'
  <2>1. wfRequest[q] \in WfRequestType /\ Asked(wfRequest[q]) /\ wfRequest' = wfRequest /\ wfPlan' = wfPlan
    BY DEF WfIInv, WorkflowsTypeOK, NodeTaskMoves
  <2> QED  BY <1>5, <2>1 DEF Asked, TasksMoved, WfRequestType, WfRowType, WfNodes
<1> QED  BY <1>4, <1>5, <1>6, TasksKeep DEF NodeTaskMoves

LEMMA PlanCreated == ASSUME WfIInv, NEW plan \in WfSent, CreateWorkflow(plan) PROVE WfIInv'
<1>1. wfPlan = <<>> /\ wfPlan' = plan
      /\ UNCHANGED <<wfRow, wfThread, wfQueue, wfEvent, wfTask, wfRequest, wfUp, wfRestarts>>
  BY DEF CreateWorkflow
<1>2. \A r \in WfRun : /\ wfThread[r] = NoThreadYet /\ wfRow[r] = NoRun
                       /\ \A n \in WfNode : wfTask[r][n] = "absent"
  BY <1>1 DEF WfIInv, PlanOK
<1>3. \A r \in WfRun : Sound(wfThread[r], wfTask[r], wfRow[r])'
  BY <1>1, <1>2 DEF Sound, NoThreadYet, NoRun, WfWorking
<1>4. \A q \in WfRequest : Asked(wfRequest[q])'
  BY <1>1 DEF WfIInv, Asked
<1> QED  BY <1>1, <1>2, <1>3, <1>4 DEF WfIInv, PlanOK, WorkflowsTypeOK, QueueOK

\* Threads that are dropped keep what they had; so do rows that are failed.
LEMMA Dropped ==
  ASSUME NEW t \in WfThreadType, NEW row \in WfRowType, NEW tasks, Sound(t, tasks, row), t # NoThreadYet
  PROVE  /\ [t EXCEPT !.pc = "lost"] \in WfThreadType
         /\ Sound([t EXCEPT !.pc = "lost"], tasks, row)
         /\ Updated(row, "failed") \in WfRowType
         /\ Sound(t, tasks, Updated(row, "failed"))
<1> DEFINE u == [t EXCEPT !.pc = "lost"]
<1>1. /\ u \in WfThreadType /\ u.pc = "lost" /\ u.done = t.done /\ u.seen = t.seen
      /\ u.batch = t.batch /\ u.todo = t.todo /\ u.local = t.local
  BY DEF WfThreadType
<1>2. /\ Updated(row, "failed") \in WfRowType /\ Updated(row, "failed").tasks = row.tasks
      /\ Updated(row, "failed").status = "failed"
  BY DEF WfRowType, Updated, WfSettled
<1> HIDE DEF u
<1>3. row.status # "absent"
  BY DEF Sound
<1>4. Sound(u, tasks, row)
  BY <1>1, <1>3 DEF Sound, WfWorking
<1>5. Sound(t, tasks, Updated(row, "failed"))
  BY <1>2 DEF Sound
<1> QED  BY <1>1, <1>2, <1>4, <1>5 DEF u

LEMMA ProcessStops == ASSUME WfIInv, ShutdownWorkflows PROVE WfIInv'
<1>1. ASSUME NEW r \in WfRun
      PROVE  /\ wfThread'[r] \in WfThreadType
             /\ wfPlan # <<>> => Sound(wfThread'[r], wfTask[r], wfRow[r])
             /\ wfPlan = <<>> => wfThread'[r] = wfThread[r]
  <2>1. wfThread[r] \in WfThreadType /\ wfRow[r] \in WfRowType
    BY DEF WfIInv, WorkflowsTypeOK
  <2>2. wfThread[r].pc # "queued" => wfThread'[r] = wfThread[r]
    BY DEF ShutdownWorkflows
  <2>3. CASE wfThread[r].pc = "queued"
    <3>1. wfThread'[r] = [wfThread[r] EXCEPT !.pc = "lost"] /\ wfThread[r] # NoThreadYet /\ wfPlan # <<>>
      BY <2>3 DEF ShutdownWorkflows, NoThreadYet, WfIInv, PlanOK
    <3>2. Sound(wfThread[r], wfTask[r], wfRow[r])
      BY <3>1 DEF WfIInv
    <3>3. /\ [wfThread[r] EXCEPT !.pc = "lost"] \in WfThreadType
          /\ Sound([wfThread[r] EXCEPT !.pc = "lost"], wfTask[r], wfRow[r])
      BY <2>1, <3>1, <3>2, Dropped
    <3> QED  BY <3>1, <3>3
  <2> QED  BY <2>1, <2>2, <2>3 DEF WfIInv
<1>2. /\ UNCHANGED <<wfPlan, wfRow, wfEvent, wfTask, wfRequest, wfRestarts>>
      /\ wfQueue' = <<>> /\ wfUp' = FALSE /\ DOMAIN wfThread' = WfRun
      /\ wfThread' = [r \in WfRun |-> wfThread'[r]]
  BY DEF ShutdownWorkflows
<1>3. WorkflowsTypeOK'
  <2>1. wfThread' \in [WfRun -> WfThreadType]
    BY <1>1, <1>2
  <2>2. <<>> \in Seq(WfRun) /\ FALSE \in BOOLEAN
    OBVIOUS
  <2> HIDE DEF WfRowType, WfThreadType, WfRequestType, TaskState
  <2> QED  BY <1>2, <2>1, <2>2 DEF WfIInv, WorkflowsTypeOK
<1>4. PlanOK' /\ QueueOK'
  BY <1>1, <1>2 DEF WfIInv, PlanOK, QueueOK
<1> QED  BY <1>1, <1>2, <1>3, <1>4 DEF WfIInv, Sound, Asked, WfNodes

LEMMA ProcessRestarts == ASSUME WfIInv, RestartWorkflows PROVE WfIInv'
<1>1. /\ wfThread \in [WfRun -> WfThreadType] /\ wfRow \in [WfRun -> WfRowType]
      /\ wfTask \in [WfRun -> [WfNode -> TaskState]] /\ wfRequest \in [WfRequest -> WfRequestType]
  BY DEF WfIInv, WorkflowsTypeOK
<1>2. /\ \A r \in WfRun : wfTask'[r] = [n \in WfNode |-> AfterRestart(wfTask[r][n])]
      /\ \A r \in WfRun, n \in WfNode :
           /\ wfTask'[r][n] \in TaskState
           /\ wfTask[r][n] \in Finished => wfTask'[r][n] \in Finished
           /\ wfTask[r][n] = "absent" <=> wfTask'[r][n] = "absent"
  <2>1. \A s \in TaskState : /\ AfterRestart(s) \in TaskState
                             /\ s \in Finished => AfterRestart(s) \in Finished
                             /\ s = "absent" <=> AfterRestart(s) = "absent"
    BY DEF AfterRestart, TaskState, TaskSettled, TaskUnsettled, Finished
  <2>2. \A r \in WfRun : wfTask'[r] = [n \in WfNode |-> AfterRestart(wfTask[r][n])]
    BY DEF RestartWorkflows
  <2>3. \A r \in WfRun, n \in WfNode :
          wfTask[r][n] \in TaskState /\ wfTask'[r][n] = AfterRestart(wfTask[r][n])
    BY <1>1, <2>2
  <2> QED  BY <2>1, <2>2, <2>3
<1>3. ASSUME NEW r \in WfRun
      PROVE  /\ wfThread'[r] \in WfThreadType /\ wfRow'[r] \in WfRowType
             /\ wfPlan # <<>> => Sound(wfThread'[r], wfTask'[r], wfRow'[r])
             /\ wfThread[r] = NoThreadYet => wfThread'[r] = wfThread[r]
             /\ wfRow[r] = NoRun => wfRow'[r] = wfRow[r]
  <2> DEFINE t == wfThread[r]
             row == wfRow[r]
  <2>1. /\ t \in WfThreadType /\ row \in WfRowType
        /\ wfPlan # <<>> => Sound(t, wfTask'[r], row)
        /\ wfPlan = <<>> => t = NoThreadYet /\ row = NoRun
    <3>1. wfPlan # <<>> => WfNodes \subseteq WfNode /\ Sound(t, wfTask[r], row)
      BY NodesAreNodes DEF WfIInv
    <3>2. wfPlan = <<>> => t = NoThreadYet /\ row = NoRun
      BY DEF WfIInv, PlanOK
    <3> QED  BY <1>1, <1>2, <3>1, <3>2, TasksMove
  <2>2. /\ wfThread'[r] = IF t.pc \in {"absent", "done"} THEN t ELSE [t EXCEPT !.pc = "lost"]
        /\ wfRow'[r] = IF Interrupted(row.status) THEN Updated(row, "failed") ELSE row
    BY DEF RestartWorkflows
  <2>3. Interrupted(row.status) => row # NoRun /\ row.status # "completed"
    BY DEF Interrupted, NoRun
  <2> DEFINE u == wfThread'[r]
  <2>4. u \in WfThreadType /\ (wfPlan # <<>> => Sound(u, wfTask'[r], row)) /\ (t = NoThreadYet => u = t)
        /\ (t # NoThreadYet => u # NoThreadYet)
    <3>1. CASE t.pc \in {"absent", "done"}
      BY <2>1, <2>2, <3>1
    <3>2. CASE t.pc \notin {"absent", "done"}
      <4>1. u = [t EXCEPT !.pc = "lost"] /\ t # NoThreadYet /\ u.pc = "lost"
        BY <2>1, <2>2, <3>2 DEF NoThreadYet, WfThreadType
      <4>2. wfPlan # <<>> /\ Sound(t, wfTask'[r], row)
        BY <2>1, <4>1
      <4>3. /\ [t EXCEPT !.pc = "lost"] \in WfThreadType
            /\ Sound([t EXCEPT !.pc = "lost"], wfTask'[r], row)
        BY <2>1, <4>1, <4>2, Dropped
      <4>4. u # NoThreadYet
        BY <4>1 DEF NoThreadYet
      <4> QED  BY <4>1, <4>3, <4>4
    <3> QED  BY <3>1, <3>2
  <2>5. CASE ~Interrupted(row.status)
    BY <2>1, <2>2, <2>4, <2>5
  <2>6. CASE Interrupted(row.status)
    <3>1. /\ wfPlan # <<>> /\ wfRow'[r] = Updated(row, "failed") /\ Updated(row, "failed") \in WfRowType
          /\ Updated(row, "failed").tasks = row.tasks /\ Updated(row, "failed").status = "failed"
      BY <2>1, <2>2, <2>3, <2>6 DEF Updated, WfRowType, WfSettled
    <3>2. Sound(u, wfTask'[r], Updated(row, "failed"))
      BY <2>4, <3>1 DEF Sound
    <3> QED  BY <2>3, <2>4, <2>6, <3>1, <3>2
  <2> QED  BY <2>5, <2>6
<1>4. /\ wfThread' = [r \in WfRun |-> wfThread'[r]] /\ wfRow' = [r \in WfRun |-> wfRow'[r]]
      /\ wfTask' = [r \in WfRun |-> wfTask'[r]]
      /\ wfPlan' = wfPlan /\ wfQueue' = <<>> /\ wfUp' = TRUE /\ wfRestarts' = wfRestarts + 1
      /\ wfRestarts < WfMaxRestarts /\ wfEvent' = [r \in WfRun |-> "absent"]
  BY DEF RestartWorkflows
<1>5. ASSUME NEW q \in WfRequest
      PROVE  wfRequest'[q] \in WfRequestType /\ Asked(wfRequest[q])'
  <2>1. /\ wfRequest[q] \in WfRequestType /\ Asked(wfRequest[q])
        /\ wfRequest'[q] = IF wfRequest[q].pc \in {"unused", "stored", "refused"}
                           THEN wfRequest[q] ELSE [wfRequest[q] EXCEPT !.pc = "lost"]
    BY <1>1 DEF WfIInv, RestartWorkflows
  <2>2. /\ wfRequest'[q] \in WfRequestType
        /\ wfRequest'[q].run = wfRequest[q].run /\ wfRequest'[q].todo = wfRequest[q].todo
        /\ wfRequest'[q].snapshot = wfRequest[q].snapshot
        /\ wfRequest'[q].pc \in {"unused", "stored", "refused", "lost"}
        /\ wfRequest'[q].pc # "unused" => wfRequest[q].pc # "unused"
    BY <2>1 DEF WfRequestType
  <2>3. wfRequest[q].run \in WfRun /\ wfRequest[q].snapshot.tasks \subseteq WfNode
    BY <2>1 DEF WfRequestType, WfRowType
  <2>4. \A n \in wfRequest[q].snapshot.tasks : wfTask[wfRequest[q].run][n] # "absent"
                                                => wfTask'[wfRequest[q].run][n] # "absent"
    BY <1>2, <2>3
  <2> QED  BY <1>4, <2>1, <2>2, <2>4 DEF Asked, WfNodes
<1>6. WorkflowsTypeOK'
  <2>1. wfTask' \in [WfRun -> [WfNode -> TaskState]]
    BY <1>2, <1>4
  <2>2. wfThread' \in [WfRun -> WfThreadType] /\ wfRow' \in [WfRun -> WfRowType]
    BY <1>3, <1>4
  <2>3. wfRequest' \in [WfRequest -> WfRequestType]
    BY <1>5 DEF RestartWorkflows
  <2>4. wfRestarts' \in 0..WfMaxRestarts
    BY <1>4, WorkflowsAssumption DEF WfIInv, WorkflowsTypeOK
  <2> QED  BY <1>4, <2>1, <2>2, <2>3, <2>4 DEF WorkflowsTypeOK
<1>7. PlanOK' /\ QueueOK'
  BY <1>2, <1>3, <1>4 DEF WfIInv, PlanOK, QueueOK
<1> QED  BY <1>3, <1>4, <1>5, <1>6, <1>7 DEF WfIInv, Sound, WfNodes

--------------------------------------------------------------------------
(* The invariant *)

LEMMA WfInitIInv == ASSUME WfInit PROVE WfIInv
<1>1. WorkflowsTypeOK
  BY WorkflowsAssumption
  DEF WfInit, WorkflowsTypeOK, NoRun, NoThreadYet, WfRowType, WfThreadType, WfRequestType, TaskState
<1> QED  BY <1>1 DEF WfInit, WfIInv, PlanOK, QueueOK, Asked

LEMMA WfStepIInv == ASSUME WfIInv, [WfNext \/ WfIdle]_wfVars PROVE WfIInv'
<1>1. CASE \E plan \in WfSent : CreateWorkflow(plan)
  BY <1>1, PlanCreated
<1>2. CASE \E r \in WfRun : InsertRun(r) \/ SubmitRun(r)
  BY <1>2, RunStarts
<1>3. CASE \E r \in WfRun : WfThreadSteps(r)
  BY <1>3, ThreadRuns, ThreadCreates, ThreadScans DEF WfThreadSteps
<1>4. CASE TakeRun
  BY <1>4, RunTaken
<1>5. CASE \E q \in WfRequest : WfRequestSteps(q) \/ \E r \in WfRun : AskCancel(q, r)
  BY <1>5, RequestsRun
<1>6. CASE \E r \in WfRun, n \in WfNode : NodeTaskMoves(r, n)
  BY <1>6, TasksSettle
<1>7. CASE ShutdownWorkflows \/ RestartWorkflows
  BY <1>7, ProcessStops, ProcessRestarts
<1>8. CASE UNCHANGED wfVars
  BY <1>8 DEF wfVars, WfIInv, WorkflowsTypeOK, PlanOK, QueueOK, Asked, Sound, WfNodes
<1> QED  BY <1>1, <1>2, <1>3, <1>4, <1>5, <1>6, <1>7, <1>8 DEF WfNext, WfIdle

\* What threads, rows, tasks and requests know of each other fits together in
\* every reachable state.
THEOREM WorkflowsInvariant == WfSpec => []WfIInv
BY WfInitIInv, WfStepIInv, PTL DEF WfSpec

\* Every variable of the workflow service keeps its type, whatever the clients
\* send and however often the process restarts.
THEOREM WorkflowsTypeCorrect == WfSpec => []WorkflowsTypeOK
<1>1. WfIInv => WorkflowsTypeOK
  BY DEF WfIInv
<1> QED  BY <1>1, WorkflowsInvariant, PTL

\* A node is started only after all it depends on has completed: the batches of
\* _execute respect depends_on, however many nodes, runs and requests there are.
THEOREM StartsInOrder == WfSpec => []NodesRunInOrder
<1>1. WfIInv => NodesRunInOrder
  <2> SUFFICES ASSUME WfIInv, NEW r \in WfRun, NEW n \in WfNode, wfTask[r][n] # "absent",
                      NEW d \in wfPlan.depends[n]
               PROVE  wfTask[r][d] \in {"completed", "cancelled"}
    BY DEF NodesRunInOrder
  <2>1. Sound(wfThread[r], wfTask[r], wfRow[r])
    BY DEF WfIInv, PlanOK
  <2> QED  BY <2>1 DEF Sound, Finished
<1> QED  BY <1>1, WorkflowsInvariant, PTL

\* A run that shows COMPLETED has a task for every node, and all of them did
\* complete: nothing a cancel request stores makes a run look whole that is not.
THEOREM CompletesWhole == WfSpec => []CompletedRunIsWhole
<1>1. WfIInv => CompletedRunIsWhole
  <2> SUFFICES ASSUME WfIInv, NEW r \in WfRun, wfRow[r].status = "completed"
               PROVE  /\ wfRow[r].tasks = WfNodes
                      /\ \A n \in WfNodes : wfTask[r][n] \in {"completed", "cancelled"}
    BY DEF CompletedRunIsWhole
  <2>1. Sound(wfThread[r], wfTask[r], wfRow[r])
    BY DEF WfIInv, PlanOK, NoRun
  <2> QED  BY <2>1 DEF Sound, Finished
<1> QED  BY <1>1, WorkflowsInvariant, PTL

\* The outcome the thread of a run has stored is changed by nothing but a cancel
\* request: not by the recovery at startup, nor by a thread of another run.
THEOREM KeepsOutcome == WfSpec => OutcomeIsKept
<1>1. ASSUME WfIInv, [WfNext \/ WfIdle]_wfVars, NEW r \in WfRun,
             wfRow[r].status \in {"completed", "failed"}, wfThread[r].pc \in {"done", "lost"}
      PROVE  wfRow'[r] = wfRow[r] \/ wfRow'[r].status = "cancelled"
  <2>1. wfRow \in [WfRun -> WfRowType] /\ wfRequest \in [WfRequest -> WfRequestType]
    BY <1>1 DEF WfIInv, WorkflowsTypeOK
  <2>2. CASE \E o \in WfRun : InsertRun(o) \/ SubmitRun(o) \/ WfThreadSteps(o)
    <3>1. ASSUME NEW o \in WfRun, NEW pc \in WfWorking, NEW t, NEW row, ThreadStep(o, pc, t, row)
          PROVE  wfRow'[r] = wfRow[r]
      BY <1>1, <2>1, <3>1 DEF ThreadStep, WfWorking
    <3>2. ASSUME NEW o \in WfRun, WfThreadSteps(o)
          PROVE  \E pc \in WfWorking : \E t, row : ThreadStep(o, pc, t, row)
      BY <3>2
      DEF WfThreadSteps, LoadRun, MarkRunning, LookForNodes, CreateNodeTask, NodeTaskRefused, RecordBatch,
          PollBatch, ScanTask, ScanWith, StoreOutcome, WfWorking
    <3> QED  BY <1>1, <2>1, <2>2, <3>1, <3>2 DEF InsertRun, SubmitRun, NoRun
  <2>3. CASE \E q \in WfRequest : WfRequestSteps(q) \/ \E o \in WfRun : AskCancel(q, o)
    <3>1. PICK q \in WfRequest : WfRequestSteps(q) \/ \E o \in WfRun : AskCancel(q, o)
      BY <2>3
    <3>2. CASE StoreCancelled(q)
      <4>1. wfRow' = [wfRow EXCEPT ![wfRequest[q].run] = Updated(wfRequest[q].snapshot, "cancelled")]
            /\ Updated(wfRequest[q].snapshot, "cancelled").status = "cancelled"
        BY <2>1, <3>2 DEF StoreCancelled, Updated, WfRequestType, WfRowType
      <4> QED  BY <2>1, <4>1
    <3> QED  BY <3>1, <3>2 DEF WfRequestSteps, AskCancel, SetEvent, LookAtTask, ConfirmTask, CancelNodeTask
  <2>4. CASE RestartWorkflows
    BY <1>1, <2>4 DEF RestartWorkflows, Interrupted
  <2> QED
    BY <1>1, <2>2, <2>3, <2>4
    DEF WfNext, WfIdle, wfVars, CreateWorkflow, TakeRun, NodeTaskMoves, ShutdownWorkflows
<1>2. WfIInv /\ [WfNext \/ WfIdle]_wfVars =>
        [\A r \in WfRun :
           wfRow[r].status \in {"completed", "failed"} /\ wfThread[r].pc \in {"done", "lost"}
           => wfRow'[r] = wfRow[r] \/ wfRow'[r].status = "cancelled"]_wfVars
  BY <1>1
<1> QED  BY <1>2, WorkflowsInvariant, PTL DEF WfSpec, OutcomeIsKept

--------------------------------------------------------------------------
(* Who looks after runs and tasks *)

\* The tasks of run r are somebody's: those of the batch that is being created
\* are the thread's, those of earlier batches are in its copy and in its row,
\* and what is left at the end is recorded or has a reason.
Attended(t, tasks, row, event, up) ==
  /\ row.status \in {"queued", "running"} /\ up =>
       t.pc \in {"inserted", "queued"} \union WfWorking \/ event = "set"
  /\ t.pc \in {"absent", "inserted", "queued", "load", "markRunning"} =>
       \A n \in WfNode : tasks[n] = "absent"
  /\ t.pc \in {"create", "record"} =>
       \A n \in WfNode : tasks[n] # "absent" => n \in t.local.tasks \union t.batch
  /\ t.pc \in {"look", "poll", "scan", "finish"} =>
       \A n \in WfNode : tasks[n] # "absent" =>
         n \in t.local.tasks /\ (n \in row.tasks \/ row.status = "cancelled")
  /\ t.pc \in {"done", "lost"} =>
       \A n \in WfNode : tasks[n] \in TaskUnsettled =>
         n \in row.tasks \/ row.status \in {"failed", "cancelled"} \/ event = "set"

WfAInv ==
  /\ WfIInv
  /\ \A r \in WfRun : Attended(wfThread[r], wfTask[r], wfRow[r], wfEvent[r], wfUp)

\* A step that touches one run and leaves it attended.
LEMMA OneRunAttended ==
  ASSUME WfAInv, WfIInv', NEW r \in WfRun, wfUp' = wfUp,
         \A o \in WfRun \ {r} : /\ wfThread'[o] = wfThread[o] /\ wfRow'[o] = wfRow[o]
                                /\ wfTask'[o] = wfTask[o] /\ wfEvent'[o] = wfEvent[o],
         Attended(wfThread'[r], wfTask'[r], wfRow'[r], wfEvent'[r], wfUp)
  PROVE  WfAInv'
BY DEF WfAInv

LEMMA ThreadAttends ==
  ASSUME WfAInv, WfIInv', NEW r \in WfRun, NEW pc, NEW t, NEW row,
         ThreadStep(r, pc, t, row), \A o \in WfRun \ {r} : wfTask'[o] = wfTask[o],
         Attended(t, wfTask'[r], row, wfEvent[r], wfUp)
  PROVE  WfAInv'
<1>1. wfThread \in [WfRun -> WfThreadType] /\ wfRow \in [WfRun -> WfRowType]
  BY DEF WfAInv, WfIInv, WorkflowsTypeOK
<1>2. /\ wfUp' = wfUp /\ wfEvent' = wfEvent /\ wfThread'[r] = t /\ wfRow'[r] = row
      /\ \A o \in WfRun \ {r} : wfThread'[o] = wfThread[o] /\ wfRow'[o] = wfRow[o]
  BY <1>1 DEF ThreadStep
<1> QED  BY <1>2, OneRunAttended

\* A step of the thread of r that creates no task: what it changes in the memory
\* of the thread and in the row keeps the run attended.
LEMMA ThreadStaysAttended ==
  ASSUME WfAInv, WfIInv', NEW r \in WfRun,
         \/ LoadRun(r) \/ MarkRunning(r) \/ LookForNodes(r) \/ NodeTaskRefused(r) \/ RecordBatch(r)
         \/ PollBatch(r) \/ ScanTask(r) \/ StoreOutcome(r)
  PROVE  WfAInv'
<1> DEFINE t == wfThread[r]
           row == wfRow[r]
           tasks == wfTask[r]
           event == wfEvent[r]
<1>1. /\ t \in WfThreadType /\ row \in WfRowType /\ t.local \in WfRowType
      /\ Attended(t, tasks, row, event, wfUp)
  BY DEF WfAInv, WfIInv, WorkflowsTypeOK, WfThreadType
<1>2. wfTask' = wfTask
  BY DEF LoadRun, MarkRunning, LookForNodes, NodeTaskRefused, RecordBatch, PollBatch, ScanTask, ScanWith, StoreOutcome
\* To another phase of the same kind, with the row left alone.
<1>3. ASSUME NEW u \in WfThreadType, u.local = t.local, NEW pc, ThreadStep(r, pc, u, row),
             \/ pc \in {"look", "poll", "scan", "finish"} /\ u.pc \in {"look", "poll", "scan", "finish", "create", "fail"}
             \/ pc \in {"look", "poll"} /\ u.pc = "done" /\ event = "set"
             \/ pc = "create" /\ u.pc = "fail"
      PROVE  WfAInv'
  <2>1. t.pc = pc
    BY <1>3 DEF ThreadStep
  <2>2. Attended(u, tasks, row, event, wfUp)
    BY <1>1, <1>3, <2>1 DEF Attended, WfWorking
  <2> QED  BY <1>2, <1>3, <2>2, ThreadAttends
<1>4. CASE LoadRun(r)
  <2> DEFINE u == [t EXCEPT !.pc = "markRunning", !.local = row]
  <2>1. t.pc = "load" /\ u.pc = "markRunning" /\ ThreadStep(r, "load", u, row)
    BY <1>1, <1>4 DEF LoadRun, ThreadStep, WfThreadType
  <2> HIDE DEF u
  <2>2. Attended(u, tasks, row, event, wfUp)
    BY <1>1, <2>1 DEF Attended, WfWorking
  <2> QED  BY <1>2, <2>1, <2>2, ThreadAttends
<1>5. CASE MarkRunning(r)
  <2> DEFINE running == Updated(t.local, "running")
             u == [t EXCEPT !.pc = "look", !.local = running]
  <2>1. t.pc = "markRunning" /\ u.pc = "look" /\ ThreadStep(r, "markRunning", u, running)
    BY <1>1, <1>5 DEF MarkRunning, ThreadStep, WfThreadType
  <2> HIDE DEF u
  <2>2. Attended(u, tasks, running, event, wfUp)
    BY <1>1, <2>1 DEF Attended, WfWorking
  <2> QED  BY <1>2, <2>1, <2>2, ThreadAttends
<1>6. CASE LookForNodes(r)
  <2> DEFINE next == NextNodes(wfPlan.depends, wfPlan.mode, WfNodes \ t.done, t.done)
             u == [t EXCEPT !.pc = "create", !.batch = next, !.todo = next, !.seen = {}]
             finish == [t EXCEPT !.pc = "finish"]
             done == [t EXCEPT !.pc = "done"]
  <2>1. \/ ThreadStep(r, "look", u, row)
        \/ ThreadStep(r, "look", finish, row)
        \/ ThreadStep(r, "look", done, row) /\ event = "set"
    BY <1>6 DEF LookForNodes
  <2>2. /\ u.local = t.local /\ u.pc = "create" /\ finish.local = t.local /\ finish.pc = "finish"
        /\ done.local = t.local /\ done.pc = "done"
    BY <1>1 DEF WfThreadType
  <2>3. wfThread'[r] \in WfThreadType
    BY DEF WfIInv, WorkflowsTypeOK
  <2>4. ASSUME NEW s, ThreadStep(r, "look", s, row) PROVE s \in WfThreadType
    BY <2>3, <2>4 DEF ThreadStep, WfAInv, WfIInv, WorkflowsTypeOK
  <2> HIDE DEF u, finish, done
  <2> QED  BY <1>3, <2>1, <2>2, <2>4
<1>7. CASE NodeTaskRefused(r)
  <2> DEFINE u == [t EXCEPT !.pc = "fail"]
  <2>1. u \in WfThreadType /\ u.pc = "fail" /\ u.local = t.local /\ ThreadStep(r, "create", u, row)
    BY <1>1, <1>7 DEF NodeTaskRefused, WfThreadType, WfWorking
  <2> HIDE DEF u
  <2> QED  BY <1>3, <2>1
<1>8. CASE RecordBatch(r)
  <2> DEFINE run == [t.local EXCEPT !.tasks = @ \union t.batch]
             u == [t EXCEPT !.pc = "poll", !.local = run]
  <2>1. /\ t.pc = "record" /\ u.pc = "poll" /\ u.local = run /\ ThreadStep(r, "record", u, run)
        /\ run.tasks = t.local.tasks \union t.batch
    BY <1>1, <1>8 DEF RecordBatch, ThreadStep, WfThreadType, WfRowType
  <2> HIDE DEF u, run
  <2>2. Attended(u, tasks, run, event, wfUp)
    BY <1>1, <2>1 DEF Attended, WfWorking
  <2> QED  BY <1>2, <2>1, <2>2, ThreadAttends
<1>9. CASE PollBatch(r)
  <2> DEFINE done == [t EXCEPT !.pc = "done"]
             u == [t EXCEPT !.pc = "scan", !.todo = t.batch]
  <2>1. /\ u \in WfThreadType /\ u.local = t.local /\ u.pc = "scan"
        /\ done \in WfThreadType /\ done.local = t.local /\ done.pc = "done"
    BY <1>1 DEF WfThreadType, WfWorking
  <2>2. ThreadStep(r, "poll", u, row) \/ (ThreadStep(r, "poll", done, row) /\ event = "set")
    BY <1>9 DEF PollBatch
  <2> HIDE DEF u, done
  <2> QED  BY <1>3, <2>1, <2>2
<1>10. CASE ScanTask(r)
  <2>1. \E u : ThreadStep(r, "scan", u, row) /\ u.local = t.local /\ u.pc \in {"fail", "scan", "poll", "look"}
    <3> DEFINE left == t.todo \ {FirstOf(t.todo)}
               seen == IF Shown(tasks[FirstOf(t.todo)]) = "completed" THEN t.seen \union {FirstOf(t.todo)}
                       ELSE t.seen
               through == [t EXCEPT !.todo = left, !.seen = seen]
               failed == [t EXCEPT !.pc = "fail"]
               again == [through EXCEPT !.pc = "poll"]
               ended == [through EXCEPT !.pc = "look", !.done = @ \union t.batch]
    <3>1. /\ t.pc = "scan"
          /\ \/ ThreadStep(r, "scan", through, row) \/ ThreadStep(r, "scan", failed, row)
             \/ ThreadStep(r, "scan", again, row) \/ ThreadStep(r, "scan", ended, row)
      BY <1>10 DEF ScanTask, ScanWith
    <3> HIDE DEF left, seen
    <3>2. /\ through.local = t.local /\ through.pc = t.pc /\ failed.local = t.local /\ failed.pc = "fail"
          /\ again.local = t.local /\ again.pc = "poll" /\ ended.local = t.local /\ ended.pc = "look"
      BY <1>1 DEF WfThreadType
    <3> HIDE DEF through, failed, again, ended
    <3> QED  BY <3>1, <3>2
  <2>2. PICK u : ThreadStep(r, "scan", u, row) /\ u.local = t.local /\ u.pc \in {"fail", "scan", "poll", "look"}
    BY <2>1
  <2>3. u \in WfThreadType
    BY <2>2 DEF ThreadStep, WfAInv, WfIInv, WorkflowsTypeOK
  <2> QED  BY <1>3, <2>2, <2>3
<1>11. CASE StoreOutcome(r)
  <2> DEFINE u == [t EXCEPT !.pc = "done"]
  <2>1. /\ u.pc = "done" /\ Updated(t.local, "completed").tasks = t.local.tasks
        /\ Updated(t.local, "completed").status = "completed" /\ Updated(t.local, "failed").status = "failed"
    BY <1>1 DEF WfThreadType, WfRowType, Updated
  <2>2. \/ t.pc = "finish" /\ ThreadStep(r, "finish", u, Updated(t.local, "completed"))
        \/ ThreadStep(r, "fail", u, Updated(t.local, "failed"))
    BY <1>11 DEF StoreOutcome, ThreadStep
  <2> HIDE DEF u
  <2>3. ASSUME t.pc = "finish" PROVE Attended(u, tasks, Updated(t.local, "completed"), event, wfUp)
    <3>1. \A n \in WfNode : tasks[n] \in TaskUnsettled => n \in t.local.tasks
      BY <1>1, <2>3 DEF Attended, TaskUnsettled
    <3> QED  BY <2>1, <3>1 DEF Attended
  <2>4. Attended(u, tasks, Updated(t.local, "failed"), event, wfUp)
    BY <2>1 DEF Attended
  <2>5. CASE t.pc = "finish" /\ ThreadStep(r, "finish", u, Updated(t.local, "completed"))
    BY <1>2, <2>3, <2>5, ThreadAttends
  <2>6. CASE ThreadStep(r, "fail", u, Updated(t.local, "failed"))
    BY <1>2, <2>4, <2>6, ThreadAttends
  <2> QED  BY <2>2, <2>5, <2>6
<1> QED  BY <1>4, <1>5, <1>6, <1>7, <1>8, <1>9, <1>10, <1>11

\* A new task belongs to the batch of its thread.
LEMMA CreationAttended ==
  ASSUME WfAInv, WfIInv', NEW r \in WfRun, CreateNodeTask(r) PROVE WfAInv'
<1> DEFINE t == wfThread[r]
           n == FirstOf(t.todo)
           left == t.todo \ {n}
           u == [t EXCEPT !.todo = left, !.pc = IF left = {} THEN "record" ELSE "create"]
<1>1. /\ t \in WfThreadType /\ t.pc = "create" /\ t.todo # {} /\ t.todo \in SUBSET Nat /\ t.todo \subseteq t.batch
      /\ Attended(t, wfTask[r], wfRow[r], wfEvent[r], wfUp)
      /\ wfTask \in [WfRun -> [WfNode -> TaskState]]
  <2>1. /\ t \in WfThreadType /\ t.pc = "create" /\ t.todo # {}
        /\ wfTask \in [WfRun -> [WfNode -> TaskState]]
    <3>1. t \in WfThreadType /\ wfTask \in [WfRun -> [WfNode -> TaskState]]
      BY DEF WfAInv, WfIInv, WorkflowsTypeOK
    <3>2. t.pc = "create" /\ t.todo # {}
      BY DEF CreateNodeTask, ThreadStep
    <3> QED  BY <3>1, <3>2
  <2>2. wfPlan # <<>>
    BY <2>1 DEF WfAInv, WfIInv, PlanOK, NoThreadYet
  <2> QED  BY <2>1, <2>2, WorkflowsAssumption DEF WfAInv, WfIInv, Sound, WfThreadType
<1>2. n \in t.batch
  BY <1>1, FirstOfIn
<1> HIDE DEF n
<1>3. /\ ThreadStep(r, "create", u, wfRow[r]) /\ wfTask' = [wfTask EXCEPT ![r][n] = "active"]
      /\ u.local = t.local /\ u.batch = t.batch /\ u.pc \in {"create", "record"}
  BY <1>1 DEF CreateNodeTask, WfThreadType, n
<1> HIDE DEF u
<1>4. \A m \in WfNode : wfTask'[r][m] # "absent" => wfTask[r][m] # "absent" \/ m = n
  BY <1>1, <1>3
<1>5. Attended(u, wfTask'[r], wfRow[r], wfEvent[r], wfUp)
  BY <1>1, <1>2, <1>3, <1>4 DEF Attended, WfWorking
<1> QED  BY <1>1, <1>3, <1>5, ThreadAttends

\* Tasks that move on without being created, and events that are set, leave
\* every run attended.
LEMMA TasksStayAttended ==
  ASSUME NEW t, NEW row, NEW tasks, NEW event, NEW up, Attended(t, tasks, row, event, up),
         NEW moved, NEW later,
         \A n \in WfNode : /\ moved[n] # "absent" => tasks[n] # "absent"
                           /\ moved[n] \in TaskUnsettled => tasks[n] \in TaskUnsettled,
         event = "set" => later = "set"
  PROVE  Attended(t, moved, row, later, up)
BY DEF Attended

LEMMA AskingReads ==
  ASSUME NEW q \in WfRequest, NEW r \in WfRun, AskCancel(q, r)
  PROVE  wfThread' = wfThread /\ wfUp' = wfUp /\ wfTask' = wfTask /\ wfRow' = wfRow /\ wfEvent' = wfEvent
BY DEF AskCancel, RequestStep

\* What a cancel request does: it sets the event, touches tasks that exist, and
\* its copy of the row is stored as cancelled.
LEMMA RequestsAttended ==
  ASSUME WfAInv, WfIInv', NEW q \in WfRequest, WfRequestSteps(q) \/ \E r \in WfRun : AskCancel(q, r)
  PROVE  WfAInv'
<1> DEFINE req == wfRequest[q]
           r == req.run
<1>1. /\ req \in WfRequestType /\ r \in WfRun /\ Asked(req) /\ wfThread' = wfThread /\ wfUp' = wfUp
      /\ wfTask \in [WfRun -> [WfNode -> TaskState]] /\ wfRow \in [WfRun -> WfRowType]
      /\ wfEvent \in [WfRun -> {"absent", "clear", "set"}]
      /\ Attended(wfThread[r], wfTask[r], wfRow[r], wfEvent[r], wfUp)
  <2>1. req \in WfRequestType /\ r \in WfRun /\ Asked(req)
    BY DEF WfAInv, WfIInv, WorkflowsTypeOK, WfRequestType
  <2>2. wfThread' = wfThread /\ wfUp' = wfUp
    <3>1. CASE SetEvent(q)
      BY <3>1 DEF SetEvent, RequestStep
    <3>2. CASE LookAtTask(q)
      BY <3>2 DEF LookAtTask, RequestStep
    <3>3. CASE ConfirmTask(q)
      BY <3>3 DEF ConfirmTask, RequestStep
    <3>4. CASE CancelNodeTask(q)
      BY <3>4 DEF CancelNodeTask, RequestStep
    <3>5. CASE StoreCancelled(q)
      BY <3>5 DEF StoreCancelled, RequestStep
    <3>6. CASE \E o \in WfRun : AskCancel(q, o)
      <4>1. PICK o \in WfRun : AskCancel(q, o)
        BY <3>6
      <4> QED  BY <4>1, AskingReads
    <3> QED  BY <3>1, <3>2, <3>3, <3>4, <3>5, <3>6 DEF WfRequestSteps
  <2> QED  BY <2>1, <2>2 DEF WfAInv, WfIInv, WorkflowsTypeOK
<1> HIDE DEF req, r
<1>2. CASE wfTask' = wfTask /\ wfRow' = wfRow /\ wfEvent' = wfEvent
  BY <1>1, <1>2 DEF WfAInv
<1>3. CASE SetEvent(q)
  <2>1. /\ wfEvent' = [wfEvent EXCEPT ![r] = "set"] /\ wfTask' = wfTask /\ wfRow' = wfRow
    BY <1>3 DEF SetEvent, r, req
  <2>2. Attended(wfThread'[r], wfTask'[r], wfRow'[r], wfEvent'[r], wfUp)
    BY <1>1, <2>1, TasksStayAttended
  <2> QED  BY <1>1, <2>1, <2>2, OneRunAttended
<1>4. CASE CancelNodeTask(q)
  <2> DEFINE n == FirstOf(req.todo)
  <2>1. n \in req.snapshot.tasks /\ req.snapshot.tasks \subseteq WfNode /\ wfTask[r][n] # "absent"
    <3>1. req.pc = "overwrite"
      BY <1>4 DEF CancelNodeTask, RequestStep, req
    <3>2. req.todo \in SUBSET Nat /\ req.todo # {} /\ req.todo \subseteq req.snapshot.tasks
          /\ req.snapshot.tasks \subseteq WfNode /\ \A m \in req.snapshot.tasks : wfTask[r][m] # "absent"
      BY <1>1, <3>1, WorkflowsAssumption DEF Asked, WfRequestType, WfRowType, r
    <3> QED  BY <3>2, FirstOfIn
  <2>2. /\ wfTask' = [wfTask EXCEPT ![r][n] = AfterCancel(wfTask[r][n])] /\ wfRow' = wfRow /\ wfEvent' = wfEvent
    BY <1>4 DEF CancelNodeTask, r, req
  <2> HIDE DEF n
  <2>3. \A m \in WfNode : /\ wfTask'[r][m] # "absent" => wfTask[r][m] # "absent"
                          /\ wfTask'[r][m] \in TaskUnsettled => wfTask[r][m] \in TaskUnsettled
    BY <1>1, <2>1, <2>2 DEF AfterCancel, TaskUnsettled
  <2>4. Attended(wfThread'[r], wfTask'[r], wfRow'[r], wfEvent'[r], wfUp)
    BY <1>1, <2>2, <2>3, TasksStayAttended
  <2> QED  BY <1>1, <2>2, <2>4, OneRunAttended
<1>5. CASE StoreCancelled(q)
  <2>1. /\ wfRow' = [wfRow EXCEPT ![r] = Updated(req.snapshot, "cancelled")]
        /\ wfTask' = wfTask /\ wfEvent' = wfEvent
    BY <1>5 DEF StoreCancelled, r, req
  <2>2. wfRow'[r].status = "cancelled"
    BY <1>1, <2>1 DEF WfRequestType, WfRowType, Updated
  <2>3. Attended(wfThread'[r], wfTask'[r], wfRow'[r], wfEvent'[r], wfUp)
    BY <1>1, <2>1, <2>2 DEF Attended
  <2> QED  BY <1>1, <2>1, <2>3, OneRunAttended
<1>6. CASE LookAtTask(q) \/ ConfirmTask(q) \/ \E o \in WfRun : AskCancel(q, o)
  <2>1. wfTask' = wfTask /\ wfRow' = wfRow /\ wfEvent' = wfEvent
    <3>1. CASE LookAtTask(q)
      BY <3>1 DEF LookAtTask
    <3>2. CASE ConfirmTask(q)
      BY <3>2 DEF ConfirmTask
    <3>3. CASE \E o \in WfRun : AskCancel(q, o)
      <4>1. PICK o \in WfRun : AskCancel(q, o)
        BY <3>3
      <4> QED  BY <4>1, AskingReads
    <3> QED  BY <1>6, <3>1, <3>2, <3>3
  <2> QED  BY <1>2, <2>1
<1> QED  BY <1>3, <1>4, <1>5, <1>6 DEF WfRequestSteps

\* The first steps of a run.
LEMMA StartsAttended ==
  ASSUME WfAInv, WfIInv', NEW r \in WfRun, InsertRun(r) \/ SubmitRun(r) PROVE WfAInv'
<1>1. /\ wfThread \in [WfRun -> WfThreadType] /\ wfRow \in [WfRun -> WfRowType]
      /\ wfEvent \in [WfRun -> {"absent", "clear", "set"}]
      /\ wfThread[r] \in WfThreadType /\ wfRow[r] \in WfRowType
      /\ Attended(wfThread[r], wfTask[r], wfRow[r], wfEvent[r], wfUp)
  BY DEF WfAInv, WfIInv, WorkflowsTypeOK
<1>2. CASE InsertRun(r)
  <2>1. wfThread[r] = NoThreadYet
    BY <1>2 DEF WfAInv, WfIInv, InsertRun, Sound, NoRun
  <2>2. /\ wfTask' = wfTask /\ wfEvent' = wfEvent /\ wfUp' = wfUp /\ wfThread'[r].pc = "inserted"
        /\ wfRow'[r].status = "queued"
        /\ \A o \in WfRun \ {r} : wfThread'[o] = wfThread[o] /\ wfRow'[o] = wfRow[o]
    BY <1>1, <1>2 DEF InsertRun, WfThreadType, WfRowType
  <2>3. Attended(wfThread'[r], wfTask'[r], wfRow'[r], wfEvent'[r], wfUp)
    BY <1>1, <2>1, <2>2 DEF Attended, NoThreadYet
  <2> QED  BY <2>2, <2>3, OneRunAttended
<1>3. CASE SubmitRun(r)
  <2>1. /\ wfTask' = wfTask /\ wfRow' = wfRow /\ wfUp' = wfUp /\ wfThread[r].pc = "inserted"
        /\ wfThread'[r].pc = "queued" /\ wfEvent'[r] = "clear"
        /\ \A o \in WfRun \ {r} : wfThread'[o] = wfThread[o] /\ wfEvent'[o] = wfEvent[o]
    BY <1>1, <1>3 DEF SubmitRun, WfThreadType
  <2>2. Attended(wfThread'[r], wfTask'[r], wfRow'[r], wfEvent'[r], wfUp)
    BY <1>1, <2>1 DEF Attended
  <2> QED  BY <2>1, <2>2, OneRunAttended
<1> QED  BY <1>2, <1>3

LEMMA TakenAttended == ASSUME WfAInv, WfIInv', TakeRun PROVE WfAInv'
<1> DEFINE r == Head(wfQueue)
<1>1. r \in WfRun /\ wfThread[r].pc = "queued"
  BY DEF TakeRun, WfAInv, WfIInv, WorkflowsTypeOK, QueueOK
<1>2. /\ wfThread \in [WfRun -> WfThreadType] /\ Attended(wfThread[r], wfTask[r], wfRow[r], wfEvent[r], wfUp)
      /\ wfThread[r] \in WfThreadType
  BY <1>1 DEF WfAInv, WfIInv, WorkflowsTypeOK
<1>3. /\ wfThread' = [wfThread EXCEPT ![r].pc = "load"]
      /\ UNCHANGED <<wfRow, wfEvent, wfTask, wfUp>>
  BY DEF TakeRun
<1> HIDE DEF r
<1>4. wfThread'[r].pc = "load" /\ \A o \in WfRun \ {r} : wfThread'[o] = wfThread[o]
  BY <1>1, <1>2, <1>3 DEF WfThreadType
<1>5. Attended(wfThread'[r], wfTask'[r], wfRow'[r], wfEvent'[r], wfUp)
  BY <1>1, <1>2, <1>3, <1>4 DEF Attended, WfWorking
<1> QED  BY <1>1, <1>3, <1>4, <1>5, OneRunAttended

LEMMA MovesAttended ==
  ASSUME WfAInv, WfIInv', NEW r \in WfRun, NEW n \in WfNode, NodeTaskMoves(r, n) PROVE WfAInv'
<1>1. PICK s \in TaskState : <<wfTask[r][n], s>> \in WorkerMoves /\ wfTask' = [wfTask EXCEPT ![r][n] = s]
  BY DEF NodeTaskMoves
<1>2. wfTask[r][n] \in TaskUnsettled
  BY <1>1 DEF WorkerMoves, TaskUnsettled
<1>3. wfTask \in [WfRun -> [WfNode -> TaskState]] /\ Attended(wfThread[r], wfTask[r], wfRow[r], wfEvent[r], wfUp)
  BY DEF WfAInv, WfIInv, WorkflowsTypeOK
<1>4. \A m \in WfNode : /\ wfTask'[r][m] # "absent" => wfTask[r][m] # "absent"
                        /\ wfTask'[r][m] \in TaskUnsettled => wfTask[r][m] \in TaskUnsettled
  BY <1>1, <1>2, <1>3 DEF TaskUnsettled
<1>5. Attended(wfThread[r], wfTask'[r], wfRow[r], wfEvent[r], wfUp)
  BY <1>3, <1>4, TasksStayAttended
<1> QED  BY <1>1, <1>3, <1>5, OneRunAttended DEF NodeTaskMoves

\* Shutdown drops runs that have no task yet; a restart leaves no task
\* unsettled and no run that shows queued or running.
LEMMA StopsAttended == ASSUME WfAInv, WfIInv', ShutdownWorkflows \/ RestartWorkflows PROVE WfAInv'
<1>1. /\ wfThread \in [WfRun -> WfThreadType] /\ wfRow \in [WfRun -> WfRowType]
      /\ wfTask \in [WfRun -> [WfNode -> TaskState]]
  BY DEF WfAInv, WfIInv, WorkflowsTypeOK
<1>2. ASSUME ShutdownWorkflows, NEW r \in WfRun
      PROVE  Attended(wfThread'[r], wfTask'[r], wfRow'[r], wfEvent'[r], wfUp')
  <2>1. /\ wfThread[r] \in WfThreadType /\ Attended(wfThread[r], wfTask[r], wfRow[r], wfEvent[r], wfUp)
        /\ wfUp' = FALSE /\ wfTask' = wfTask /\ wfRow' = wfRow /\ wfEvent' = wfEvent
        /\ wfThread'[r] = IF wfThread[r].pc = "queued" THEN [wfThread[r] EXCEPT !.pc = "lost"] ELSE wfThread[r]
    BY <1>1, <1>2 DEF ShutdownWorkflows, WfAInv
  <2>2. CASE wfThread[r].pc = "queued"
    <3>1. wfThread'[r].pc = "lost" /\ \A n \in WfNode : wfTask[r][n] = "absent"
      BY <2>1, <2>2 DEF WfThreadType, Attended
    <3> QED  BY <2>1, <3>1 DEF Attended, TaskUnsettled
  <2>3. CASE wfThread[r].pc # "queued"
    BY <2>1, <2>3 DEF Attended
  <2> QED  BY <2>2, <2>3
<1>3. ASSUME RestartWorkflows, NEW r \in WfRun
      PROVE  Attended(wfThread'[r], wfTask'[r], wfRow'[r], wfEvent'[r], wfUp')
  <2>1. /\ wfThread[r] \in WfThreadType /\ wfRow[r] \in WfRowType
        /\ Attended(wfThread[r], wfTask[r], wfRow[r], wfEvent[r], wfUp)
        /\ wfTask'[r] = [n \in WfNode |-> AfterRestart(wfTask[r][n])]
        /\ wfRow'[r] = IF Interrupted(wfRow[r].status) THEN Updated(wfRow[r], "failed") ELSE wfRow[r]
        /\ wfThread'[r] = IF wfThread[r].pc \in {"absent", "done"} THEN wfThread[r]
                          ELSE [wfThread[r] EXCEPT !.pc = "lost"]
    BY <1>1, <1>3 DEF RestartWorkflows, WfAInv
  <2>2. wfRow'[r].status \notin {"queued", "running"}
    BY <2>1 DEF Interrupted, Updated, WfRowType
  <2>3. wfThread'[r].pc \in {"absent", "done", "lost"} /\ (wfThread'[r].pc = "absent" => wfThread[r].pc = "absent")
    BY <2>1 DEF WfThreadType
  <2>4. ASSUME NEW n \in WfNode
        PROVE  wfTask'[r][n] \notin TaskUnsettled /\ (wfTask[r][n] = "absent" => wfTask'[r][n] = "absent")
    <3>1. wfTask[r][n] \in TaskState /\ wfTask'[r][n] = AfterRestart(wfTask[r][n])
      BY <1>1, <2>1
    <3> QED  BY <3>1 DEF AfterRestart, TaskState, TaskSettled, TaskUnsettled
  <2> QED  BY <2>1, <2>2, <2>3, <2>4 DEF Attended
<1> QED  BY <1>2, <1>3 DEF WfAInv

LEMMA WfStepAttended == ASSUME WfAInv, [WfNext \/ WfIdle]_wfVars PROVE WfAInv'
<1>1. WfIInv'
  BY WfStepIInv DEF WfAInv
<1>2. CASE \E r \in WfRun : InsertRun(r) \/ SubmitRun(r)
  BY <1>1, <1>2, StartsAttended
<1>3. CASE \E r \in WfRun : WfThreadSteps(r)
  BY <1>1, <1>3, ThreadStaysAttended, CreationAttended DEF WfThreadSteps
<1>4. CASE TakeRun
  BY <1>1, <1>4, TakenAttended
<1>5. CASE \E q \in WfRequest : WfRequestSteps(q) \/ \E r \in WfRun : AskCancel(q, r)
  BY <1>1, <1>5, RequestsAttended
<1>6. CASE \E r \in WfRun, n \in WfNode : NodeTaskMoves(r, n)
  BY <1>1, <1>6, MovesAttended
<1>7. CASE ShutdownWorkflows \/ RestartWorkflows
  BY <1>1, <1>7, StopsAttended
<1>8. CASE (\E plan \in WfSent : CreateWorkflow(plan)) \/ UNCHANGED wfVars
  <2>1. UNCHANGED <<wfRow, wfThread, wfEvent, wfTask, wfUp>>
    BY <1>8 DEF CreateWorkflow, wfVars
  <2> QED  BY <1>1, <2>1 DEF WfAInv
<1> QED  BY <1>2, <1>3, <1>4, <1>5, <1>6, <1>7, <1>8 DEF WfNext, WfIdle

\* A run that shows queued or running has a thread that will go on, and a node
\* task runs outside the row of its run only while it is being recorded, after
\* create_task failed for a later node, or after a cancellation.
THEOREM WorkflowsStayAttended == WfSpec => []WorkflowIsAttended
<1>1. WfInit => WfAInv
  <2>1. WfInit => WfIInv
    BY WfInitIInv
  <2> QED  BY <2>1 DEF WfInit, WfAInv, Attended, NoRun, NoThreadYet
<1>2. WfAInv /\ [WfNext \/ WfIdle]_wfVars => WfAInv'
  BY WfStepAttended
<1>3. ASSUME WfAInv PROVE WorkflowIsAttended
  <2>1. ASSUME NEW r \in WfRun PROVE Attended(wfThread[r], wfTask[r], wfRow[r], wfEvent[r], wfUp) /\ wfThread[r] \in WfThreadType
    BY <1>3 DEF WfAInv, WfIInv, WorkflowsTypeOK
  <2>2. WfShownRunIsAlive
    BY <2>1 DEF WfShownRunIsAlive, Attended
  <2>3. WfTaskIsRecorded
    <3>1. SUFFICES ASSUME NEW r \in WfRun, NEW n \in WfNode, wfTask[r][n] = "active", n \notin wfRow[r].tasks,
                          wfThread[r].pc \notin {"create", "record", "fail"}
                   PROVE  wfRow[r].status \in {"failed", "cancelled"} \/ wfEvent[r] = "set"
      BY DEF WfTaskIsRecorded
    <3>2. wfThread[r].pc \in {"absent", "inserted", "queued", "load", "markRunning", "look", "poll", "scan", "finish",
                              "done", "lost"}
      BY <2>1, <3>1 DEF WfThreadType, WfWorking
    <3> QED  BY <2>1, <3>1, <3>2 DEF Attended, TaskUnsettled
  <2> QED  BY <2>2, <2>3 DEF WorkflowIsAttended
<1> QED  BY <1>1, <1>2, <1>3, PTL DEF WfSpec

--------------------------------------------------------------------------
(* _validate *)

\* The nodes that are ready when those of R are gone ...
Freed(depends, R) == {i \in DOMAIN depends \ R : depends[i] \subseteq R}

\* ... and those that are gone after each turn of the loop.
GoneBy(R, depends) ==
  /\ R \in [Nat -> SUBSET DOMAIN depends] /\ R[0] = {}
  /\ \A k \in Nat : R[k + 1] = R[k] \union Freed(depends, R[k])

\* What is left of the graph when the nodes of R are gone.
LeftOf(open, depends, R) ==
  /\ DOMAIN open = DOMAIN depends \ R
  /\ \A i \in DOMAIN depends \ R : open[i] = depends[i] \ R

Without(depends, R) == [i \in DOMAIN depends \ R |-> depends[i] \ R]

LEMMA PeeledOfLeft ==
  ASSUME NEW open, NEW depends, NEW R, LeftOf(open, depends, R)
  PROVE  Peeled(open) = Without(depends, R \union Freed(depends, R))
<1> DEFINE N == Freed(depends, R)
<1>1. Ready(open) = N
  BY DEF Ready, LeftOf, Freed
<1>2. DOMAIN open \ Ready(open) = DOMAIN depends \ (R \union N)
  BY <1>1 DEF LeftOf
<1>3. \A i \in DOMAIN open \ Ready(open) : open[i] \ Ready(open) = depends[i] \ (R \union N)
  BY <1>1 DEF LeftOf
<1> HIDE DEF N
<1>4. Peeled(open) = Without(depends, R \union N)
  BY <1>2, <1>3 DEF Peeled, Without
<1> QED  BY <1>4 DEF N

LEMMA PeelingUnfolds ==
  ASSUME NEW depends
  PROVE  \E R : /\ GoneBy(R, depends)
                /\ Cardinality(DOMAIN depends) \in Nat =>
                     (PeelsAway(depends) <=> R[Cardinality(DOMAIN depends)] = DOMAIN depends)
<1> DEFINE D == DOMAIN depends
           grow(Q) == Q \union Freed(depends, Q)
           step == [k \in Nat |-> [Q \in SUBSET D |-> grow(Q)]]
           Loop(g) == [k \in Nat |-> IF k = 0 THEN depends ELSE Peeled(g[k - 1])]
           left == CHOOSE g : g = Loop(g)
<1>1. PICK R \in [Nat -> SUBSET D] : R[0] = {} /\ \A k \in Nat : R[k + 1] = step[k][R[k]]
  <2>1. step \in [Nat -> [SUBSET D -> SUBSET D]]
    BY DEF Freed
  <2> HIDE DEF step
  <2>2. PICK A, none : A = SUBSET D /\ none = {}
    OBVIOUS
  <2>3. none \in A /\ step \in [Nat -> [A -> A]]
    BY <2>1, <2>2
  <2> HIDE DEF D
  <2>4. \E g \in [Nat -> A] : Follows(g, none, step)
    BY <2>3, RecursionExists
  <2> QED  BY <2>2, <2>4 DEF Follows
<1>2. GoneBy(R, depends)
  BY <1>1 DEF GoneBy
<1>3. \A k \in Nat : R[k + 1] = grow(R[k]) /\ R[k] \in SUBSET D
  BY <1>1
<1> HIDE DEF step
<1> DEFINE G == [k \in Nat |-> IF k = 0 THEN depends ELSE Without(depends, R[k])]
<1>4. \A k \in Nat : LeftOf(G[k], depends, R[k])
  BY <1>1 DEF LeftOf, Without
<1>5. ASSUME NEW f, NEW k \in Nat, LeftOf(f[k], depends, R[k])
      PROVE  Peeled(f[k]) = Without(depends, R[k + 1])
  <2>1. PICK Q, o : Q = R[k] /\ o = f[k]
    OBVIOUS
  <2>2. Peeled(o) = Without(depends, grow(Q))
    BY <1>5, <2>1, PeeledOfLeft
  <2> QED  BY <1>3, <2>1, <2>2
<1>6. G = Loop(G)
  <2>1. ASSUME NEW k \in Nat PROVE G[k] = Loop(G)[k]
    <3>1. CASE k = 0
      BY <3>1
    <3>2. CASE k # 0
      <4>1. PICK p \in Nat : k = p + 1 /\ k - 1 = p
        <5>1. k - 1 \in Nat /\ k = (k - 1) + 1
          BY <3>2
        <5> QED  BY <5>1
      <4>2. Peeled(G[p]) = Without(depends, R[p + 1])
        <5> HIDE DEF G
        <5> QED  BY <1>4, <1>5
      <4>3. G[k] = Without(depends, R[k]) /\ Loop(G)[k] = Peeled(G[p])
        BY <3>2, <4>1
      <4> HIDE DEF G, Loop
      <4> QED  BY <4>1, <4>2, <4>3
    <3> QED  BY <3>1, <3>2
  <2> DEFINE H == Loop(G)
  <2>2. H = [k \in Nat |-> H[k]] /\ G = [k \in Nat |-> G[k]]
    OBVIOUS
  <2> HIDE DEF G, Loop
  <2> QED  BY <2>1, <2>2
<1>7. left = Loop(left)
  <2> HIDE DEF Loop, G
  <2> QED  BY <1>6
<1>8. PICK f : f = left
  OBVIOUS
<1>9. f = Loop(f)
  BY <1>7, <1>8
<1>10. f[0] = depends /\ \A k \in Nat : f[k + 1] = Peeled(f[k])
  <2>1. \A k \in Nat : f[k] = Loop(f)[k]
    BY <1>9
  <2>2. f[0] = depends
    BY <2>1
  <2>3. ASSUME NEW k \in Nat PROVE f[k + 1] = Peeled(f[k])
    <3>1. k + 1 \in Nat /\ k + 1 # 0 /\ (k + 1) - 1 = k
      OBVIOUS
    <3>2. f[k + 1] = Loop(f)[k + 1]
      BY <2>1, <3>1
    <3>3. Loop(f)[k + 1] = Peeled(f[(k + 1) - 1])
      BY <3>1
    <3> QED  BY <3>1, <3>2, <3>3
  <2> QED  BY <2>2, <2>3
<1> DEFINE Known == {k \in Nat : LeftOf(f[k], depends, R[k])}
<1>11. \A k \in Nat : k \in Known
  <2>1. 0 \in Known
    BY <1>1, <1>10 DEF LeftOf
  <2>2. ASSUME NEW k \in Nat, k \in Known PROVE k + 1 \in Known
    <3>1. f[k + 1] = Without(depends, R[k + 1])
      BY <1>5, <1>10, <2>2
    <3> QED  BY <3>1 DEF LeftOf, Without
  <2> HIDE DEF Known
  <2> QED  BY <2>1, <2>2, SetInduction
<1>12. ASSUME Cardinality(D) \in Nat PROVE PeelsAway(depends) <=> R[Cardinality(D)] = D
  <2>1. PeelsAway(depends) <=> DOMAIN f[Cardinality(D)] = {}
    BY <1>8 DEF PeelsAway
  <2>2. DOMAIN f[Cardinality(D)] = D \ R[Cardinality(D)] /\ R[Cardinality(D)] \in SUBSET D
    BY <1>3, <1>11, <1>12 DEF LeftOf
  <2> QED  BY <2>1, <2>2
<1> QED  BY <1>2, <1>12

\* In a graph without a cycle every turn frees a node, and a set of nodes that
\* all wait for one of the set is never entered.
LEMMA PeelingIsExact ==
  ASSUME NEW depends, IsFiniteSet(DOMAIN depends), \A i \in DOMAIN depends : depends[i] \subseteq DOMAIN depends
  PROVE  PeelsAway(depends) <=> WellFounded(depends)
<1> DEFINE D == DOMAIN depends
           n == Cardinality(D)
<1>1. n \in Nat
  BY FS_CardinalityType
<1>2. PICK R : GoneBy(R, depends) /\ (PeelsAway(depends) <=> R[n] = D)
  BY <1>1, PeelingUnfolds
<1>3. /\ R[0] = {}
      /\ \A k \in Nat : R[k] \in SUBSET D /\ R[k + 1] = R[k] \union {i \in D \ R[k] : depends[i] \subseteq R[k]}
  BY <1>2 DEF GoneBy, Freed
<1>4. ASSUME WellFounded(depends) PROVE R[n] = D
  <2> DEFINE Grown == {k \in Nat : R[k] = D \/ Cardinality(R[k]) >= k}
  <2>1. 0 \in Grown
    <3>1. Cardinality({}) = 0
      BY FS_EmptySet
    <3>2. Cardinality(R[0]) >= 0
      BY <1>3, <3>1
    <3> HIDE DEF D
    <3> QED  BY <3>2
  <2>2. ASSUME NEW k \in Nat, k \in Grown PROVE k + 1 \in Grown
    <3>1. CASE R[k] = D
      <4>1. R[k + 1] = D
        BY <1>3, <3>1
      <4> HIDE DEF D
      <4> QED  BY <4>1
    <3>2. CASE R[k] # D
      <4>1. PICK Q : Q = R[k] /\ Q \in SUBSET D /\ Q # D /\ Cardinality(Q) >= k
        BY <1>3, <2>2, <3>2
      <4>2. PICK i \in D \ Q : depends[i] \intersect (D \ Q) = {}
        <5>1. D \ Q \in SUBSET D /\ D \ Q # {}
          BY <4>1
        <5> QED  BY <1>4, <5>1 DEF WellFounded
      <4>3. i \in R[k + 1] /\ Q \union {i} \subseteq R[k + 1]
        <5>1. depends[i] \subseteq Q
          BY <4>2
        <5> QED  BY <1>3, <4>1, <4>2, <5>1
      <4> HIDE DEF D
      <4>4. IsFiniteSet(Q) /\ IsFiniteSet(R[k + 1])
        <5>1. IsFiniteSet(D) /\ R[k + 1] \in SUBSET D
          BY <1>3 DEF D
        <5> QED  BY <4>1, <5>1, FS_Subset
      <4>5. IsFiniteSet(Q \union {i}) /\ Cardinality(Q \union {i}) = Cardinality(Q) + 1
        BY <4>2, <4>4, FS_AddElement
      <4>6. Cardinality(Q \union {i}) <= Cardinality(R[k + 1])
        BY <4>3, <4>4, FS_Subset
      <4>7. Cardinality(Q) \in Nat /\ Cardinality(R[k + 1]) \in Nat
        BY <4>4, FS_CardinalityType
      <4>8. Cardinality(R[k + 1]) >= k + 1
        BY <4>1, <4>5, <4>6, <4>7
      <4> QED  BY <4>8
    <3> QED  BY <3>1, <3>2
  <2> HIDE DEF Grown
  <2>3. n \in Grown
    BY <1>1, <2>1, <2>2, SetInduction
  <2>4. CASE Cardinality(R[n]) >= n
    <3> HIDE DEF D
    <3>1. IsFiniteSet(D) /\ R[n] \in SUBSET D
      BY <1>1, <1>3 DEF D
    <3>2. Cardinality(R[n]) <= Cardinality(D) /\ (Cardinality(R[n]) = Cardinality(D) => R[n] = D)
      BY <3>1, FS_Subset
    <3>3. IsFiniteSet(R[n]) /\ Cardinality(R[n]) \in Nat
      BY <3>1, FS_Subset, FS_CardinalityType
    <3> QED  BY <1>1, <2>4, <3>2, <3>3
  <2> QED  BY <2>3, <2>4 DEF Grown
<1>5. ASSUME R[n] = D PROVE WellFounded(depends)
  <2>1. SUFFICES ASSUME NEW S \in SUBSET D, S # {}, \A i \in S : depends[i] \intersect S # {} PROVE FALSE
    BY DEF WellFounded
  <2> DEFINE Apart == {k \in Nat : R[k] \intersect S = {}}
  <2>2. 0 \in Apart
    BY <1>3
  <2>3. ASSUME NEW k \in Nat, k \in Apart PROVE k + 1 \in Apart
    <3>1. ASSUME NEW i \in S, i \in R[k + 1] PROVE FALSE
      <4>1. depends[i] \subseteq R[k]
        BY <1>3, <2>3, <3>1
      <4> QED  BY <2>1, <2>3, <4>1
    <3> QED  BY <3>1
  <2> HIDE DEF Apart
  <2>4. n \in Apart
    BY <1>1, <2>2, <2>3, SetInduction
  <2> QED  BY <1>5, <2>1, <2>4 DEF Apart
<1> QED  BY <1>2, <1>4, <1>5

\* _validate lets exactly the graphs of 1 to 32 nodes without a cycle pass, for
\* every set of workflows that clients may send.
THEOREM ValidationStaysExact == WfSpec => []ValidationIsExact
<1>1. ASSUME NEW depends, IsFiniteSet(DOMAIN depends)
      PROVE  Accepts(depends) <=> /\ Cardinality(DOMAIN depends) \in 1..MaxNodes
                                  /\ \A i \in DOMAIN depends : depends[i] \subseteq DOMAIN depends
                                  /\ WellFounded(depends)
  <2> DEFINE n == Cardinality(DOMAIN depends)
             Closed == \A i \in DOMAIN depends : depends[i] \subseteq DOMAIN depends
  <2>1. n \in Nat /\ (n = 0 <=> DOMAIN depends = {})
    BY <1>1, FS_CardinalityType, FS_EmptySet
  <2>2. (DOMAIN depends # {} /\ n <= MaxNodes) <=> n \in 1..MaxNodes
    <3>1. PICK e \in BOOLEAN : e = (DOMAIN depends # {})
      OBVIOUS
    <3> HIDE DEF n
    <3>2. n \in Nat /\ (n = 0 <=> ~e)
      BY <2>1, <3>1
    <3>3. (e /\ n <= MaxNodes) <=> n \in 1..MaxNodes
      BY <3>2 DEF MaxNodes
    <3> QED  BY <3>1, <3>3
  <2>3. Closed => (PeelsAway(depends) <=> WellFounded(depends))
    BY <1>1, PeelingIsExact
  <2>4. ASSUME WellFounded(depends), NEW i \in DOMAIN depends PROVE i \notin depends[i]
    <3>1. \E j \in {i} : depends[j] \intersect {i} = {}
      BY <2>4 DEF WellFounded
    <3> QED  BY <3>1
  <2>5. Accepts(depends) <=> /\ DOMAIN depends # {} /\ n <= MaxNodes
                             /\ Closed /\ (\A i \in DOMAIN depends : i \notin depends[i])
                             /\ PeelsAway(depends)
    BY DEF Accepts
  <2> HIDE DEF n, Closed
  <2>6. Accepts(depends) <=> n \in 1..MaxNodes /\ Closed /\ WellFounded(depends)
    BY <2>2, <2>3, <2>4, <2>5
  <2> QED  BY <2>6 DEF n, Closed
<1>2. ValidationIsExact
  BY <1>1, WorkflowsAssumption DEF ValidationIsExact
<1>3. ValidationIsExact'
  BY <1>1, WorkflowsAssumption DEF ValidationIsExact
<1> QED  BY <1>2, <1>3, PTL
=============================================================================
