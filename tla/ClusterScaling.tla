--------------------------- MODULE ClusterScaling ---------------------------
(***************************************************************************)
(* Replicas of one algorithm version over the runtime nodes: the reconcile *)
(* loop of the backend (operations/service.py, main.py), the placement on  *)
(* nodes (scheduling/cluster_gateway.py) and the start of an instance for  *)
(* a task.  InstanceManager models what one node does; here a node has a   *)
(* number of healthy and of other instances of the version.                *)
(*                                                                         *)
(* The tasks, the policy, the version, the nodes and the instances are     *)
(* read in phases, and each may change in between.  Abstracted: one        *)
(* policy; time, to whether the version was in use within idle_seconds;    *)
(* the nodes are asked for their state in one step; a node does what it is *)
(* asked to or does not answer (what it may do half way, InstanceManager   *)
(* shows).  The free GPU memory a node reports is what replicas of any     *)
(* version and other programs leave: it may change at any time, by any     *)
(* amount, so also as a replica takes or gives back some.                  *)
(***************************************************************************)
EXTENDS Integers, FiniteSets

CONSTANTS
  ScNodes,        \* number of nodes, listed in the order of their ids
  ScMemory,       \* memory of the largest GPU of each node; 0 without a GPU
  ScReplicaMemory,\* memory_mb of the version
  ScNeedsGpu,     \* device = "gpu"
  ScPolicy,       \* policies that clients set
  ScWorker,       \* worker threads that start an instance for a task
  ScMaxTasks,     \* bound: unfinished tasks of the version
  ScMaxReplicas,  \* the largest number of replicas a Manager accepts (100)
  ScMaxChanges    \* bound: changes of the environment

ScNode == 1..ScNodes

ASSUME ClusterScalingAssumption ==
  /\ ScNodes \in Nat \ {0}
  /\ ScMemory \in [ScNode -> Nat]
  /\ ScReplicaMemory \in Nat \ {0}
  /\ ScNeedsGpu \in BOOLEAN
  /\ ScPolicy \subseteq [min : Nat, max : Nat, target : Nat \ {0}]
  /\ {ScMaxTasks, ScMaxReplicas, ScMaxChanges} \subseteq Nat

VARIABLES
  scNode,     \* [ScNode -> ScNodeType]
  scPolicy,   \* stored policy, or NoPolicy
  scVersion,  \* "unused" while no task refers to it, "used" or "deleted"
  scTasks,    \* its unfinished tasks
  scRecent,   \* it was in use less than idle_seconds ago
  scLoop,     \* the reconcile loop
  scStart,    \* [ScWorker -> progress of ensure_running]
  scChanges

scVars == <<scNode, scPolicy, scVersion, scTasks, scRecent, scLoop, scStart, scChanges>>

--------------------------------------------------------------------------
(* Placement *)

\* Seeded fault: what is already assigned does not count on nodes with a GPU.
ScoreFlat(free, assigned, memory) == IF free = 0 THEN -assigned ELSE free - memory

\* free_memory_score
Score(free, assigned, memory) == IF free = 0 THEN -assigned ELSE free - assigned * memory

\* The targets of ensure_replicas.  Its loop takes, for one replica after the
\* other, the max of the candidates by (score, current - assigned), the first of
\* equals: the k-th replica of node n has the key of n with k - 1 assigned.  Both
\* parts fall with k, so the loop takes the best of all these keys.
Targets(nodes, free, current, memory, replicas) ==
  LET Key(r) == <<Score(free[r[1]], r[2] - 1, memory), current[r[1]] - (r[2] - 1)>>
      Better(r, s) == \/ Key(r)[1] > Key(s)[1]
                      \/ Key(r)[1] = Key(s)[1] /\ Key(r)[2] > Key(s)[2]
                      \/ Key(r) = Key(s) /\ r[1] < s[1]
      Taken(r) == Cardinality({s \in nodes \X (1..replicas) : Better(s, r)}) < replicas
  IN  [n \in nodes |-> Cardinality({k \in 1..replicas : Taken(<<n, k>>)})]

TotalOf(f, nodes) ==
  LET sum[k \in Nat] == IF k = 0 THEN 0 ELSE sum[k - 1] + (IF k \in nodes THEN f[k] ELSE 0)
  IN  sum[ScNodes]

--------------------------------------------------------------------------
ScNodeType == [enabled : BOOLEAN, reachable : BOOLEAN, free : Nat, healthy : 0..ScMaxReplicas, idle : Nat]

NoPolicy == [min |-> 0, max |-> 0, target |-> 1]

ScLoopType == [pc : {"tasks", "policy", "count", "get", "plan", "apply", "dead"},
               active : 0..ScMaxTasks, policy : ScPolicy \union {NoPolicy}, desired : Nat,
               todo : SUBSET ScNode, targets : [ScNode -> 0..ScMaxReplicas]]

Asleep == [pc |-> "tasks", active |-> 0, policy |-> NoPolicy, desired |-> 0, todo |-> {},
           targets |-> [n \in ScNode |-> 0]]

\* A worker is asked to start the version on node n (n), looks for it, or neither.
NoStart == 0
LookFirst == ScNodes + 1

ClusterScalingTypeOK ==
  /\ scNode \in [ScNode -> ScNodeType]
  /\ scPolicy \in ScPolicy \union {NoPolicy}
  /\ scVersion \in {"unused", "used", "deleted"} /\ scRecent \in BOOLEAN
  /\ scTasks \in 0..ScMaxTasks
  /\ scLoop \in ScLoopType
  /\ scStart \in [ScWorker -> {NoStart, LookFirst} \union ScNode]
  /\ scChanges \in 0..ScMaxChanges

ScInit ==
  /\ scNode = [n \in ScNode |-> [enabled |-> TRUE, reachable |-> TRUE, free |-> ScMemory[n],
                                healthy |-> 0, idle |-> 0]]
  /\ scPolicy = NoPolicy
  /\ scVersion = "unused"
  /\ scTasks = 0
  /\ scRecent = FALSE
  /\ scLoop = Asleep
  /\ scStart = [w \in ScWorker |-> NoStart]
  /\ scChanges = 0

\* Whoever asks for instances reads the version first, and is refused without.
ScExists == scVersion # "deleted"

\* A node that is away, or does not answer in time, is an error for the caller.
NodeAnswers(n) == scNode[n].reachable

\* The nodes that answer, and those that can take the version.
Answering == {n \in ScNode : scNode[n].enabled /\ NodeAnswers(n)}

Fitting == {n \in Answering : ScNeedsGpu => ScMemory[n] > 0}

\* memory_total_mb - memory_used_mb, as reported now.
Free == [n \in ScNode |-> scNode[n].free]

Healthy == [n \in ScNode |-> scNode[n].healthy]

\* All records of the version, the stopped and failed ones included.
Records == [n \in ScNode |-> scNode[n].healthy + scNode[n].idle]

--------------------------------------------------------------------------
(* reconcile *)

LoopStep(pc, next) ==
  /\ scLoop.pc = pc
  /\ scLoop' = next
  /\ UNCHANGED <<scPolicy, scVersion, scTasks, scStart, scChanges>>

Bigger(a, b) == IF a > b THEN a ELSE b
Smaller(a, b) == IF a < b THEN a ELSE b

\* Replicas for the active tasks, within the range of the policy.
Wanted(policy, active) ==
  Bigger(policy.min, Smaller(policy.max, (active + policy.target - 1) \div policy.target))

ReadTasks ==
  /\ LoopStep("tasks", [Asleep EXCEPT !.pc = "policy", !.active = scTasks])
  /\ UNCHANGED <<scNode, scRecent>>

\* Without a policy the pass is over; policies of deleted versions are listed.
ReadPolicy ==
  LET p == scPolicy
      busy == scLoop.active > 0
  IN
  /\ LoopStep("policy",
       IF p = NoPolicy THEN Asleep
       ELSE [scLoop EXCEPT !.pc = IF busy THEN "get" ELSE "count", !.policy = p,
                           !.desired = Wanted(p, scLoop.active)])
  /\ scRecent' = (scRecent \/ (p # NoPolicy /\ busy))
  /\ UNCHANGED scNode

\* Within the idle time the number of instances is held.
CountInstances ==
  LET count == IF ScExists THEN TotalOf(Records, Answering) ELSE 0 IN
  /\ LoopStep("count", [scLoop EXCEPT !.pc = "get",
                                      !.desired = IF scRecent THEN Bigger(@, count) ELSE @])
  /\ UNCHANGED <<scNode, scRecent>>

\* The project of the version: reading it from None ends the loop for good.
GetVersion ==
  /\ LoopStep("get", [scLoop EXCEPT !.pc = IF ScExists THEN "plan" ELSE "dead"])
  /\ UNCHANGED <<scNode, scRecent>>

\* Seeded fault: every node gets all the replicas.
PlanMore ==
  /\ LoopStep("plan",
       IF ScExists /\ Fitting # {} /\ scLoop.desired <= ScMaxReplicas
       THEN [scLoop EXCEPT !.pc = "apply", !.todo = Fitting,
                           !.targets = [n \in ScNode |-> scLoop.desired]]
       ELSE Asleep)
  /\ UNCHANGED <<scNode, scRecent>>

\* Seeded fault: the number of replicas is not checked.
PlanUnchecked ==
  LET targets == Targets(Fitting, Free, Healthy, ScReplicaMemory, scLoop.desired) IN
  /\ LoopStep("plan",
       IF ScExists /\ Fitting # {}
       THEN [scLoop EXCEPT !.pc = "apply", !.todo = Fitting,
                           !.targets = [n \in ScNode |-> IF n \in Fitting THEN targets[n] ELSE 0]]
       ELSE Asleep)
  /\ UNCHANGED <<scNode, scRecent>>

\* ensure_replicas: the version is read again, the nodes are asked, and the
\* replicas are shared out; any refusal ends this pass only.
PlanReplicas ==
  LET targets == Targets(Fitting, Free, Healthy, ScReplicaMemory, scLoop.desired) IN
  /\ LoopStep("plan",
       IF ScExists /\ Fitting # {} /\ scLoop.desired <= ScMaxReplicas
       THEN [scLoop EXCEPT !.pc = "apply", !.todo = Fitting,
                           !.targets = [n \in ScNode |-> IF n \in Fitting THEN targets[n] ELSE 0]]
       ELSE Asleep)
  /\ UNCHANGED <<scNode, scRecent>>

\* The next node starts or removes replicas; a node that does not answer ends
\* the pass, the rest of the nodes are not asked.
ApplyTarget ==
  LET n == CHOOSE n \in scLoop.todo : \A o \in scLoop.todo : n <= o
      left == scLoop.todo \ {n}
      up == NodeAnswers(n)
  IN
  /\ scLoop.pc = "apply"
  /\ LoopStep("apply", IF up /\ left # {} THEN [scLoop EXCEPT !.todo = left] ELSE Asleep)
  /\ scNode' = IF up THEN [scNode EXCEPT ![n].healthy = scLoop.targets[n]] ELSE scNode
  /\ UNCHANGED scRecent

ScLoopSteps ==
  ReadTasks \/ ReadPolicy \/ CountInstances \/ GetVersion \/ PlanReplicas \/ ApplyTarget

\* idle_seconds go by.
IdleTimePasses ==
  /\ scRecent /\ scTasks = 0
  /\ scRecent' = FALSE
  /\ UNCHANGED <<scNode, scPolicy, scVersion, scTasks, scLoop, scStart, scChanges>>

--------------------------------------------------------------------------
(* ensure_running, for a task *)

StartStep(w, pc, next) ==
  /\ scStart[w] = pc
  /\ scStart' = [scStart EXCEPT ![w] = next]
  /\ UNCHANGED <<scPolicy, scVersion, scTasks, scRecent, scLoop, scChanges>>

\* The nodes are asked: a healthy instance is used where it is, otherwise the
\* best node is to start one.
LookForInstance(w) ==
  LET running == {n \in Answering : scNode[n].healthy > 0}
      Worth(n) == scNode[n].free - (scNode[n].healthy + scNode[n].idle) * 1024
      best == {n \in Fitting : \A o \in Fitting : Worth(n) >= Worth(o)}
  IN
  /\ \/ \E n \in running : StartStep(w, LookFirst, n)
     \/ running = {} /\ Fitting = {} /\ StartStep(w, LookFirst, NoStart)
     \/ /\ running = {} /\ Fitting # {}
        /\ StartStep(w, LookFirst, CHOOSE n \in best : \A o \in best : n <= o)
  /\ UNCHANGED scNode

\* The Manager of the node uses an instance it has, or starts one, if it is
\* there at all.
StartOnNode(w, n) ==
  LET node == scNode[n] IN
  /\ StartStep(w, n, NoStart)
  /\ scNode' = IF ~NodeAnswers(n) \/ node.healthy > 0 \/ ScMaxReplicas = 0 THEN scNode
               ELSE [scNode EXCEPT ![n].healthy = 1, ![n].idle = IF @ > 0 THEN @ - 1 ELSE 0]

ScStartSteps(w) == LookForInstance(w) \/ \E n \in ScNode : StartOnNode(w, n)

--------------------------------------------------------------------------
(* What changes around the loop: memory at any time, the rest ScMaxChanges times *)

MemoryChanges(n) ==
  /\ \E free \in 0..ScMemory[n] \ {scNode[n].free} : scNode' = [scNode EXCEPT ![n].free = free]
  /\ UNCHANGED <<scPolicy, scVersion, scTasks, scRecent, scLoop, scStart, scChanges>>

Change ==
  /\ scChanges < ScMaxChanges
  /\ scChanges' = scChanges + 1

\* PUT /operations/autoscaling/{id}; the first policy starts the idle time.
SetPolicy(p) ==
  /\ Change
  /\ ScExists /\ p.max >= Bigger(1, p.min)
  /\ scPolicy' = p
  /\ scRecent' = (scRecent \/ scPolicy = NoPolicy)
  /\ UNCHANGED <<scNode, scVersion, scTasks, scLoop, scStart>>

\* POST /runtime-nodes with enabled set or not; the network.
NodeChanges(n) ==
  /\ Change
  /\ \/ scNode' = [scNode EXCEPT ![n].enabled = ~@]
     \/ scNode' = [scNode EXCEPT ![n].reachable = ~@]
  /\ UNCHANGED <<scPolicy, scVersion, scTasks, scRecent, scLoop, scStart>>

\* The Manager stops or fails a healthy instance and keeps its record.
InstanceStops(n) ==
  /\ Change
  /\ scNode[n].healthy > 0
  /\ scNode' = [scNode EXCEPT ![n].healthy = @ - 1, ![n].idle = @ + 1]
  /\ UNCHANGED <<scPolicy, scVersion, scTasks, scRecent, scLoop, scStart>>

\* A task arrives, and its worker wants an instance; a task ends.
TaskArrives(w) ==
  /\ Change
  /\ scTasks < ScMaxTasks /\ ScExists /\ scStart[w] = NoStart
  /\ scTasks' = scTasks + 1
  /\ scVersion' = "used"
  /\ scStart' = [scStart EXCEPT ![w] = LookFirst]
  /\ UNCHANGED <<scNode, scPolicy, scRecent, scLoop>>

TaskEnds ==
  /\ scTasks > 0
  /\ scTasks' = scTasks - 1
  /\ UNCHANGED <<scNode, scPolicy, scVersion, scRecent, scLoop, scStart, scChanges>>

\* DELETE /algorithm-versions/{id}: only if no task, not even a settled one,
\* refers to it.  Its policy stays.
DeleteScaledVersion ==
  /\ Change
  /\ scVersion = "unused"
  /\ scVersion' = "deleted"
  /\ scNode' = [n \in ScNode |-> IF n \in Answering THEN [scNode[n] EXCEPT !.healthy = 0, !.idle = 0]
                                 ELSE scNode[n]]
  /\ UNCHANGED <<scPolicy, scTasks, scRecent, scLoop, scStart>>

\* An error that reconcile handles as little: the database refuses a statement,
\* or the answer of a node is not what was expected.  The loop is over.
PassDies ==
  /\ Change
  /\ scLoop.pc # "dead"
  /\ scLoop' = [scLoop EXCEPT !.pc = "dead"]
  /\ UNCHANGED <<scNode, scPolicy, scVersion, scTasks, scRecent, scStart>>

\* The backend starts again and with it the loop; idle times are forgotten.
RestartScaling ==
  /\ Change
  /\ scLoop' = Asleep
  /\ scStart' = [w \in ScWorker |-> NoStart]
  /\ scTasks' = 0
  /\ scRecent' \in BOOLEAN
  /\ UNCHANGED <<scNode, scPolicy, scVersion>>

ScNext ==
  \/ ScLoopSteps \/ IdleTimePasses \/ TaskEnds \/ DeleteScaledVersion \/ PassDies \/ RestartScaling
  \/ \E w \in ScWorker : ScStartSteps(w) \/ TaskArrives(w)
  \/ \E p \in ScPolicy : SetPolicy(p)
  \/ \E n \in ScNode : NodeChanges(n) \/ InstanceStops(n) \/ MemoryChanges(n)

\* Nothing is left to do but to wait for a change.
ScIdle ==
  /\ scLoop.pc = "dead" /\ \A w \in ScWorker : scStart[w] = NoStart
  /\ UNCHANGED scVars

ScSpec == ScInit /\ [][ScNext \/ ScIdle]_scVars

--------------------------------------------------------------------------
\* ensure_replicas places exactly the replicas asked for, and no replica would
\* leave more memory free, or fewer replicas on a node without free memory, if it
\* were on another node, whatever the nodes report when a pass comes to plan.
PlacementIsGreedy ==
  scLoop.pc = "plan" /\ Fitting # {} =>
    \A replicas \in 0..ScMaxReplicas :
      LET t == Targets(Fitting, Free, Healthy, ScReplicaMemory, replicas)
          Left(n, k) == IF Free[n] = 0 THEN -k ELSE Free[n] - k * ScReplicaMemory
      IN  /\ TotalOf(t, Fitting) = replicas
          /\ \A n, o \in Fitting : t[n] > 0 => Left(n, t[n] - 1) >= Left(o, t[o])

\* When tasks, policy and nodes change no more, the loop brings the healthy
\* instances on the answering nodes to what the policy and the tasks want: starts
\* by workers, instances a pass has held for the idle time and replicas of an old
\* plan all go.  It does so over and over, because replicas may move between the
\* nodes as the memory that they report changes; once that rests, they stay.  In
\* between a pass may want more than the maximum: it counts stopped instances as
\* running while the idle time lasts.
ScalerConverges ==
  <>[](scPolicy # NoPolicy /\ ScExists /\ Fitting # {} /\ scLoop.pc # "dead") =>
    LET Met == TotalOf(Healthy, Fitting) = Wanted(scPolicy, scTasks) IN
    []<>Met /\ (<>[][FALSE]_Free => <>[]Met)
=============================================================================
