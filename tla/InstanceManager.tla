--------------------------- MODULE InstanceManager ---------------------------
(***************************************************************************)
(* The Algorithm Manager's view of the containers of one algorithm         *)
(* version: InstanceService (application/service.py) over the in-memory    *)
(* repository, the Docker runtime and the two background loops of main.py. *)
(*                                                                         *)
(* Records and containers are two states that drift apart: ensure_running  *)
(* and ensure_replicas hold the lock of the version, while stop, remove,   *)
(* touch, the health monitor and the idle reclaimer take none and write    *)
(* back what they read before their calls to Docker.  A phase below ends   *)
(* wherever the code reads or writes a record or calls Docker.             *)
(*                                                                         *)
(* One version is enough: records, containers and locks of two versions    *)
(* never meet.  Which of several records the repository lists first is     *)
(* left open, and so is which of them was used least recently.  The clock  *)
(* is abstracted to whether last_used_at lies within the idle time.        *)
(***************************************************************************)
EXTENDS Naturals, FiniteSets

CONSTANTS
  Id,           \* container ids; bound: as many as the host has room for
  Thread,       \* threads that serve the HTTP API
  Reclaimer,    \* the thread of reclaim_loop
  NoThread,
  NoId,
  Threshold,    \* settings.health_failure_threshold
  Calls,        \* the calls callers make besides ensure
  MaxCalls,     \* bound: how many of those they make
  MaxReplicas,  \* bound: largest replica count asked for
  MaxRestarts,  \* bound: how often the manager restarts
  MaxMeddling,  \* bound: containers stopped or removed behind its back
  MaxIdleTimes, \* bound: how often the idle time passes
  FaultyDocker, \* TRUE: a call to the Docker daemon may raise
  Unready       \* TRUE: a running container may not answer its health check

ASSUME InstanceManagerAssumption ==
  /\ IsFiniteSet(Id)
  /\ NoId \notin Id
  /\ Reclaimer \notin Thread
  /\ NoThread \notin Thread \union {Reclaimer}
  /\ Threshold \in Nat \ {0}
  /\ Calls \subseteq {"replicas", "stop", "remove", "touch", "reclaim"}
  /\ {MaxCalls, MaxReplicas, MaxRestarts, MaxMeddling, MaxIdleTimes} \subseteq Nat
  /\ {FaultyDocker, Unready} \subseteq BOOLEAN

VARIABLES
  container,  \* [Id -> status]  what Docker knows
  name,       \* [Id -> Nat]     container name: 0 is the plain one, n is "-rn"
  record,     \* [Id -> Record]  InMemoryInstanceRepository._items
  lock,       \* _locks[version]
  call,       \* [Caller -> ...] progress of each call of InstanceService
  failures,   \* _health_failures
  monitor,    \* progress of monitor_health
  spent       \* how much of each bound is used up

vars == <<container, name, record, lock, call, failures, monitor, spent>>
docker == <<container, name>>
health == <<failures, monitor>>

Caller == Thread \union {Reclaimer}

Limit == [call |-> MaxCalls, restart |-> MaxRestarts, meddle |-> MaxMeddling,
          idle |-> MaxIdleTimes]

Spend(what) == spent[what] < Limit[what] /\ spent' = [spent EXCEPT ![what] = @ + 1]

--------------------------------------------------------------------------

\* fresh: last_used_at is less than the idle time ago.
Record == [status : {"absent", "created", "starting", "healthy", "stopped", "failed"},
           fresh  : BOOLEAN]

NoRecord == [status |-> "absent", fresh |-> FALSE]

Known == {i \in Id : record[i].status # "absent"}

Healthy == {i \in Id : record[i].status = "healthy"}

Idle == {i \in Healthy : ~record[i].fresh}

Exists(i) == container[i] # "none"

\* What a call holds: the instance it works on, its copies of the records, the
\* instances left to treat and, for ensure_replicas, those counted so far.
IdleCall == [pc |-> "idle", id |-> NoId, seen |-> [i \in Id |-> NoRecord],
             todo |-> {}, kept |-> {}, target |-> 0]

IdleMonitor == [pc |-> "idle", id |-> NoId, seen |-> [i \in Id |-> NoRecord],
                todo |-> {}]

CallPhase == {"idle", "dead", "lock", "find", "check", "touchSave", "markFailed",
  "forget", "create", "saveCreated", "starting", "start", "await", "saveHealthy",
  "saveFailed", "replicasLock", "replicasRead", "probe", "markReplica",
  "forgetReplica", "saveReplica", "startReplica", "awaitReplica",
  "saveHealthyReplica", "undo", "undoRecord", "remove", "removeDocker",
  "removeRecord", "stop", "stopDocker", "stopSave", "touch"}

CallState == [pc : CallPhase, id : Id \union {NoId}, seen : [Id -> Record],
              todo : SUBSET Id, kept : SUBSET Id, target : Nat]

\* save of the repository: an absent record comes back.
Save(i, rec) == record' = [record EXCEPT ![i] = rec]

Delete(i) == Save(i, NoRecord)

WithStatus(rec, s) == [rec EXCEPT !.status = s]

Seen(th) == call[th].seen[call[th].id]

Init ==
  /\ container = [i \in Id |-> "none"]
  /\ name = [i \in Id |-> 0]
  /\ record = [i \in Id |-> NoRecord]
  /\ lock = NoThread
  /\ call = [th \in Caller |-> IdleCall]
  /\ failures = [i \in Id |-> 0]
  /\ monitor = IdleMonitor
  /\ spent = [what \in DOMAIN Limit |-> 0]

\* The verdicts of is_healthy and probe_health: a missing container raises,
\* one that is not running is unhealthy, a running one answers, or not in time.
Verdicts(i) ==
  IF ~Exists(i) THEN {"raise"}
  ELSE {IF container[i] = "running" THEN "yes" ELSE "no"}
         \union (IF Unready THEN {"no"} ELSE {})
         \union (IF FaultyDocker THEN {"raise"} ELSE {})

\* start, stop and remove of the runtime: what the container becomes, and
\* whether the call raises instead.
DockerOk(i, status) ==
  Exists(i) /\ container' = [container EXCEPT ![i] = status] /\ UNCHANGED name

DockerRaises(i) == (~Exists(i) \/ FaultyDocker) /\ UNCHANGED docker

NameTaken(n) == \E i \in Id : Exists(i) /\ name[i] = n

\* An id for a new container: one that nobody holds any more.
Unused(i) ==
  /\ ~Exists(i) /\ record[i] = NoRecord
  /\ i # monitor.id /\ monitor.seen[i] = NoRecord
  /\ \A th \in Caller : /\ i # call[th].id /\ call[th].seen[i] = NoRecord
                         /\ i \notin call[th].todo \union call[th].kept

\* create: a name that is in use is refused, and so is every container on a
\* host without room for another one, the bound that Id stands for.
DockerCreates(i, n) ==
  /\ ~NameTaken(n) /\ Unused(i)
  /\ container' = [container EXCEPT ![i] = "created"]
  /\ name' = [name EXCEPT ![i] = n]

CreateRaises(n) ==
  /\ NameTaken(n) \/ FaultyDocker \/ ~\E i \in Id : Unused(i)
  /\ UNCHANGED docker

Step(th, pc) == call' = [call EXCEPT ![th].pc = pc]

\* The call reads the record of i.
Reads(th, pc, i) == call' = [call EXCEPT ![th].pc = pc, ![th].id = i,
                                         ![th].seen[i] = record[i]]

\* The with block of the lock ends, if the call was in one.
Unlock(th) == lock' = IF lock = th THEN NoThread ELSE lock

Answer(th) == call' = [call EXCEPT ![th] = IdleCall] /\ Unlock(th)

\* An error reaches the caller; reclaim_loop does not catch it and ends.
Raise(th) ==
  /\ call' = [call EXCEPT ![th] = IF th = Reclaimer THEN [IdleCall EXCEPT !.pc = "dead"]
                                  ELSE IdleCall]
  /\ Unlock(th)

--------------------------------------------------------------------------
(* ensure_running *)

Ensure(th) ==
  /\ th \in Thread /\ call[th].pc = "idle"
  /\ Step(th, "lock")
  /\ UNCHANGED <<docker, record, lock, health, spent>>

\* Seeded fault: the lock of the version is not taken.
EnsureUnlocked(th) ==
  /\ call[th].pc = "lock"
  /\ Step(th, "find")
  /\ UNCHANGED <<docker, record, lock, health, spent>>

EnsureLock(th) ==
  /\ call[th].pc = "lock" /\ lock = NoThread
  /\ lock' = th
  /\ Step(th, "find")
  /\ UNCHANGED <<docker, record, health, spent>>

\* find_by_algorithm prefers a healthy record; without any record a container
\* is created, and one that is not healthy is started again.
EnsureFind(th) ==
  /\ call[th].pc = "find"
  /\ \/ \E i \in Healthy : Reads(th, "check", i)
     \/ Healthy = {} /\ \E i \in Known : Reads(th, "starting", i)
     \/ Known = {} /\ Step(th, "create")
  /\ UNCHANGED <<docker, record, lock, health, spent>>

EnsureCheck(th) ==
  /\ call[th].pc = "check"
  /\ \/ "yes" \in Verdicts(call[th].id) /\ Step(th, "touchSave")
     \/ "no" \in Verdicts(call[th].id) /\ Step(th, "markFailed")
     \/ "raise" \in Verdicts(call[th].id) /\ Step(th, "forget")
  /\ UNCHANGED <<docker, record, lock, health, spent>>

\* The copy is touched, saved and answered; the end of touch as well.
TouchSave(th) ==
  /\ call[th].pc = "touchSave"
  /\ Save(call[th].id, [Seen(th) EXCEPT !.fresh = TRUE])
  /\ Answer(th)
  /\ UNCHANGED <<docker, health, spent>>

EnsureMarkFailed(th) ==
  /\ call[th].pc = "markFailed"
  /\ Save(call[th].id, WithStatus(Seen(th), "failed"))
  /\ Step(th, "starting")
  /\ UNCHANGED <<docker, lock, health, spent>>

EnsureForget(th) ==
  /\ call[th].pc = "forget"
  /\ Delete(call[th].id)
  /\ call' = [call EXCEPT ![th] = [IdleCall EXCEPT !.pc = "create"]]
  /\ UNCHANGED <<docker, lock, health, spent>>

EnsureCreate(th) ==
  /\ call[th].pc = "create"
  /\ \/ CreateRaises(0) /\ Raise(th)
     \/ \E i \in Id : /\ DockerCreates(i, 0)
                      /\ call' = [call EXCEPT ![th].pc = "saveCreated", ![th].id = i]
                      /\ UNCHANGED lock
  /\ UNCHANGED <<record, health, spent>>

\* AlgorithmInstance.created counts as used now.
EnsureSaveCreated(th) ==
  /\ call[th].pc = "saveCreated"
  /\ LET rec == [status |-> "created", fresh |-> TRUE] IN
       /\ Save(call[th].id, rec)
       /\ call' = [call EXCEPT ![th].pc = "starting", ![th].seen[call[th].id] = rec]
  /\ UNCHANGED <<docker, lock, health, spent>>

EnsureSaveStarting(th) ==
  /\ call[th].pc = "starting"
  /\ Save(call[th].id, WithStatus(Seen(th), "starting"))
  /\ Step(th, "start")
  /\ UNCHANGED <<docker, lock, health, spent>>

EnsureStart(th) ==
  /\ call[th].pc = "start"
  /\ \/ DockerOk(call[th].id, "running") /\ Step(th, "await")
     \/ DockerRaises(call[th].id) /\ Step(th, "saveFailed")
  /\ UNCHANGED <<record, lock, health, spent>>

\* Seeded fault: the wait for a healthy container has no deadline.
EnsureAwaitForever(th) ==
  /\ call[th].pc = "await"
  /\ Step(th, IF "yes" \in Verdicts(call[th].id) THEN "saveHealthy" ELSE "await")
  /\ UNCHANGED <<docker, record, lock, health, spent>>

EnsureAwait(th) ==
  /\ call[th].pc = "await"
  /\ \/ "yes" \in Verdicts(call[th].id) /\ Step(th, "saveHealthy")
     \/ Verdicts(call[th].id) \ {"yes"} # {} /\ Step(th, "saveFailed")
  /\ UNCHANGED <<docker, record, lock, health, spent>>

EnsureSaveHealthy(th) ==
  /\ call[th].pc = "saveHealthy"
  /\ Save(call[th].id, WithStatus(Seen(th), "healthy"))
  /\ Answer(th)
  /\ UNCHANGED <<docker, health, spent>>

EnsureSaveFailed(th) ==
  /\ call[th].pc = "saveFailed"
  /\ Save(call[th].id, WithStatus(Seen(th), "failed"))
  /\ Raise(th)
  /\ UNCHANGED <<docker, health, spent>>

EnsureStep(th) ==
  \/ EnsureLock(th) \/ EnsureFind(th) \/ EnsureCheck(th) \/ EnsureMarkFailed(th)
  \/ EnsureForget(th) \/ EnsureCreate(th) \/ EnsureSaveCreated(th)
  \/ EnsureSaveStarting(th) \/ EnsureStart(th) \/ EnsureAwait(th)
  \/ EnsureSaveHealthy(th) \/ EnsureSaveFailed(th)

--------------------------------------------------------------------------
(* ensure_replicas *)

Replicas(th, n) ==
  /\ th \in Thread /\ call[th].pc = "idle"
  /\ "replicas" \in Calls /\ Spend("call")
  /\ call' = [call EXCEPT ![th].pc = "replicasLock", ![th].target = n]
  /\ UNCHANGED <<docker, record, lock, health>>

ReplicasLock(th) ==
  /\ call[th].pc = "replicasLock" /\ lock = NoThread
  /\ lock' = th
  /\ Step(th, "replicasRead")
  /\ UNCHANGED <<docker, record, health, spent>>

ReplicasRead(th) ==
  /\ call[th].pc = "replicasRead"
  /\ call' = [call EXCEPT ![th].pc = "probe", ![th].seen = record, ![th].todo = Healthy]
  /\ UNCHANGED <<docker, record, lock, health, spent>>

\* One turn of the loop that probes the healthy records.
ReplicaProbe(th) ==
  /\ call[th].pc = "probe"
  /\ \E i \in call[th].todo :
       LET probed == [call[th] EXCEPT !.todo = @ \ {i}] IN
       \/ /\ "yes" \in Verdicts(i)
          /\ call' = [call EXCEPT ![th] = [probed EXCEPT !.kept = @ \union {i}]]
       \/ /\ "no" \in Verdicts(i)
          /\ call' = [call EXCEPT ![th] = [probed EXCEPT !.pc = "markReplica", !.id = i]]
       \/ /\ "raise" \in Verdicts(i)
          /\ call' = [call EXCEPT ![th] = [probed EXCEPT !.pc = "forgetReplica", !.id = i]]
  /\ UNCHANGED <<docker, record, lock, health, spent>>

ReplicaMark(th) ==
  /\ \/ call[th].pc = "markReplica" /\ Save(call[th].id, WithStatus(Seen(th), "failed"))
     \/ call[th].pc = "forgetReplica" /\ Delete(call[th].id)
  /\ call' = [call EXCEPT ![th].pc = "probe", ![th].id = NoId]
  /\ UNCHANGED <<docker, lock, health, spent>>

\* The first name that no record of the list, nor a new replica, bears.
FreeName(th) ==
  LET names == {name[i] : i \in {j \in Id : call[th].seen[j] # NoRecord}}
  IN  CHOOSE n \in 1..(Cardinality(Id) + 1) :
        n \notin names /\ \A k \in 1..(n - 1) : k \in names

\* As long as replicas are missing, another one is created.
ReplicaCreate(th) ==
  /\ call[th].pc = "probe" /\ call[th].todo = {}
  /\ Cardinality(call[th].kept) < call[th].target
  /\ \/ CreateRaises(FreeName(th)) /\ Raise(th)
     \/ \E i \in Id :
          /\ DockerCreates(i, FreeName(th))
          /\ call' = [call EXCEPT ![th].pc = "saveReplica", ![th].id = i,
                        ![th].seen[i] = [status |-> "created", fresh |-> TRUE]]
          /\ UNCHANGED lock
  /\ UNCHANGED <<record, health, spent>>

ReplicaSave(th) ==
  /\ call[th].pc = "saveReplica"
  /\ Save(call[th].id, Seen(th))
  /\ Step(th, "startReplica")
  /\ UNCHANGED <<docker, lock, health, spent>>

ReplicaStart(th) ==
  /\ call[th].pc = "startReplica"
  /\ \/ DockerOk(call[th].id, "running") /\ Step(th, "awaitReplica")
     \/ DockerRaises(call[th].id) /\ Step(th, "undo")
  /\ UNCHANGED <<record, lock, health, spent>>

ReplicaAwait(th) ==
  /\ call[th].pc = "awaitReplica"
  /\ \/ "yes" \in Verdicts(call[th].id) /\ Step(th, "saveHealthyReplica")
     \/ Verdicts(call[th].id) \ {"yes"} # {} /\ Step(th, "undo")
  /\ UNCHANGED <<docker, record, lock, health, spent>>

ReplicaSaveHealthy(th) ==
  /\ call[th].pc = "saveHealthyReplica"
  /\ Save(call[th].id, WithStatus(Seen(th), "healthy"))
  /\ call' = [call EXCEPT ![th].pc = "probe", ![th].id = NoId,
                          ![th].kept = @ \union {call[th].id}]
  /\ UNCHANGED <<docker, lock, health, spent>>

\* Seeded fault: a replica that did not start is only forgotten.
ReplicaForgotten(th) ==
  /\ call[th].pc = "undo"
  /\ Step(th, "undoRecord")
  /\ UNCHANGED <<docker, record, lock, health, spent>>

\* A replica that did not start is removed; an error of Docker is ignored.
ReplicaUndo(th) ==
  /\ call[th].pc = "undo"
  /\ DockerOk(call[th].id, "none") \/ DockerRaises(call[th].id)
  /\ Step(th, "undoRecord")
  /\ UNCHANGED <<record, lock, health, spent>>

ReplicaUndoRecord(th) ==
  /\ call[th].pc = "undoRecord"
  /\ Delete(call[th].id)
  /\ Raise(th)
  /\ UNCHANGED <<docker, health, spent>>

\* Enough replicas: those behind the first `target` are removed.
ReplicasShrink(th) ==
  /\ call[th].pc = "probe" /\ call[th].todo = {}
  /\ Cardinality(call[th].kept) >= call[th].target
  /\ \E extra \in SUBSET call[th].kept :
       /\ Cardinality(extra) = Cardinality(call[th].kept) - call[th].target
       /\ call' = [call EXCEPT ![th] = [IdleCall EXCEPT !.pc = "remove", !.todo = extra]]
  /\ UNCHANGED <<docker, record, lock, health, spent>>

ReplicasStep(th) ==
  \/ ReplicasLock(th) \/ ReplicasRead(th) \/ ReplicaProbe(th) \/ ReplicaMark(th)
  \/ ReplicaCreate(th) \/ ReplicaSave(th) \/ ReplicaStart(th) \/ ReplicaAwait(th)
  \/ ReplicaSaveHealthy(th) \/ ReplicaUndo(th) \/ ReplicaUndoRecord(th)
  \/ ReplicasShrink(th)

--------------------------------------------------------------------------
(* stop, remove and touch: one instance of the caller's, or those that the *)
(* idle reclaimer or a scale-down has listed                               *)

CallFor(th, kind, pc, todo) ==
  /\ th \in Thread /\ call[th].pc = "idle"
  /\ kind \in Calls /\ Spend("call")
  /\ call' = [call EXCEPT ![th] = [IdleCall EXCEPT !.pc = pc, !.todo = todo]]
  /\ UNCHANGED <<docker, record, lock, health>>

Stop(th) == \E i \in Known : CallFor(th, "stop", "stop", {i})

Remove(th) == \E i \in Known : CallFor(th, "remove", "remove", {i})

Touch(th) == \E i \in Known : CallFor(th, "touch", "touch", {i})

\* reclaim_idle, called by the loop or by an administrator.
Reclaim(th) == Idle # {} /\ CallFor(th, "reclaim", "stop", Idle)

ReclaimLoop ==
  /\ call[Reclaimer].pc = "idle" /\ Idle # {}
  /\ call' = [call EXCEPT ![Reclaimer] = [IdleCall EXCEPT !.pc = "stop", !.todo = Idle]]
  /\ UNCHANGED <<docker, record, lock, health, spent>>

\* _required: the next instance of the list is read again, and may be gone.
ReadNext(th, from, to) ==
  /\ call[th].pc = from
  /\ \/ call[th].todo = {} /\ Answer(th)
     \/ \E i \in call[th].todo : record[i] = NoRecord /\ Raise(th)
     \/ \E i \in call[th].todo \intersect Known : Reads(th, to, i) /\ UNCHANGED lock
  /\ UNCHANGED <<docker, record, health, spent>>

StopRead(th) == ReadNext(th, "stop", "stopDocker")
RemoveRead(th) == ReadNext(th, "remove", "removeDocker")
TouchRead(th) == ReadNext(th, "touch", "touchSave")

StopDocker(th) ==
  /\ call[th].pc = "stopDocker"
  /\ \/ DockerOk(call[th].id, "exited") /\ Step(th, "stopSave") /\ UNCHANGED lock
     \/ DockerRaises(call[th].id) /\ Raise(th)
  /\ UNCHANGED <<record, health, spent>>

\* The call is through with one instance of its list.
Through(th, pc) ==
  call' = [call EXCEPT ![th] = [IdleCall EXCEPT !.pc = pc,
                                                !.todo = call[th].todo \ {call[th].id}]]

StopSave(th) ==
  /\ call[th].pc = "stopSave"
  /\ Save(call[th].id, WithStatus(Seen(th), "stopped"))
  /\ Through(th, "stop")
  /\ UNCHANGED <<docker, lock, health, spent>>

RemoveDocker(th) ==
  /\ call[th].pc = "removeDocker"
  /\ \/ DockerOk(call[th].id, "none") /\ Step(th, "removeRecord") /\ UNCHANGED lock
     \/ DockerRaises(call[th].id) /\ Raise(th)
  /\ UNCHANGED <<record, health, spent>>

RemoveRecord(th) ==
  /\ call[th].pc = "removeRecord"
  /\ Delete(call[th].id)
  /\ failures' = [failures EXCEPT ![call[th].id] = 0]
  /\ Through(th, "remove")
  /\ UNCHANGED <<docker, lock, monitor, spent>>

InstanceStep(th) ==
  \/ StopRead(th) \/ StopDocker(th) \/ StopSave(th)
  \/ RemoveRead(th) \/ RemoveDocker(th) \/ RemoveRecord(th)
  \/ TouchRead(th) \/ TouchSave(th)

--------------------------------------------------------------------------
(* monitor_health *)

\* One round: the records that are healthy in the list are probed one by one,
\* the failures of the others are forgotten.  A round over nothing is left out.
MonitorList ==
  /\ monitor.pc = "idle"
  /\ \E i \in Id : i \in Healthy \/ failures[i] # 0
  /\ failures' = [i \in Id |-> IF i \in Known \ Healthy THEN 0 ELSE failures[i]]
  /\ monitor' = [pc |-> "scan", id |-> NoId, todo |-> Healthy,
                 seen |-> [i \in Id |-> IF i \in Healthy THEN record[i] ELSE NoRecord]]
  /\ UNCHANGED <<docker, record, lock, call, spent>>

Probed(i) == [monitor EXCEPT !.todo = @ \ {i}, !.seen[i] = NoRecord]

\* Seeded fault: an error of the probe counts as an answer.
MonitorTrusts ==
  /\ monitor.pc = "scan"
  /\ \E i \in monitor.todo :
       /\ Verdicts(i) # {"no"}
       /\ failures' = [failures EXCEPT ![i] = 0]
       /\ monitor' = Probed(i)
  /\ UNCHANGED <<docker, record, lock, call, spent>>

\* It answers, and the count starts anew.
MonitorPasses ==
  /\ monitor.pc = "scan"
  /\ \E i \in monitor.todo :
       /\ "yes" \in Verdicts(i)
       /\ failures' = [failures EXCEPT ![i] = 0]
       /\ monitor' = Probed(i)
  /\ UNCHANGED <<docker, record, lock, call, spent>>

\* No answer, or an error: the failure is counted, up to the threshold.
MonitorCounts ==
  /\ monitor.pc = "scan"
  /\ \E i \in monitor.todo :
       /\ Verdicts(i) \ {"yes"} # {}
       /\ failures' = [failures EXCEPT ![i] = @ + 1]
       /\ monitor' = IF failures[i] + 1 < Threshold THEN Probed(i)
                     ELSE [monitor EXCEPT !.pc = "stop", !.id = i, !.todo = @ \ {i}]
  /\ UNCHANGED <<docker, record, lock, call, spent>>

\* The container is stopped; an error of Docker is ignored.
MonitorStop ==
  /\ monitor.pc = "stop"
  /\ DockerOk(monitor.id, "exited") \/ DockerRaises(monitor.id)
  /\ monitor' = [monitor EXCEPT !.pc = "save"]
  /\ UNCHANGED <<record, lock, call, failures, spent>>

\* Seeded fault: the count survives the instance it was reached for.
MonitorSaveKeepsCount ==
  /\ monitor.pc = "save"
  /\ Save(monitor.id, WithStatus(monitor.seen[monitor.id], "failed"))
  /\ monitor' = [Probed(monitor.id) EXCEPT !.pc = "scan", !.id = NoId]
  /\ UNCHANGED <<docker, lock, call, failures, spent>>

MonitorSave ==
  /\ monitor.pc = "save"
  /\ Save(monitor.id, WithStatus(monitor.seen[monitor.id], "failed"))
  /\ failures' = [failures EXCEPT ![monitor.id] = 0]
  /\ monitor' = [Probed(monitor.id) EXCEPT !.pc = "scan", !.id = NoId]
  /\ UNCHANGED <<docker, lock, call, spent>>

MonitorEnd ==
  /\ monitor.pc = "scan" /\ monitor.todo = {}
  /\ monitor' = IdleMonitor
  /\ UNCHANGED <<docker, record, lock, call, failures, spent>>

MonitorStep ==
  \/ MonitorList \/ MonitorPasses \/ MonitorCounts \/ MonitorStop \/ MonitorSave
  \/ MonitorEnd

--------------------------------------------------------------------------
(* The environment *)

\* Nothing was used for the idle time.  It is long (30 minutes) against a call
\* (a health check waits 60 seconds), so none is under way.
TimePasses ==
  /\ Spend("idle")
  /\ \A th \in Caller : call[th].pc \in {"idle", "dead"}
  /\ monitor.pc = "idle"
  /\ record' = [i \in Id |-> [record[i] EXCEPT !.fresh = FALSE]]
  /\ UNCHANGED <<docker, lock, call, health>>

\* Somebody stops or removes a container without the manager.
Meddle ==
  /\ Spend("meddle")
  /\ \E i \in Id, s \in {"exited", "none"} : Exists(i) /\ DockerOk(i, s)
  /\ UNCHANGED <<record, lock, call, health>>

\* Seeded fault: the manager comes up with an empty repository.
RestartForgets ==
  /\ Spend("restart")
  /\ record' = [i \in Id |-> NoRecord]
  /\ lock' = NoThread
  /\ call' = [th \in Caller |-> IdleCall]
  /\ failures' = [i \in Id |-> 0]
  /\ monitor' = IdleMonitor
  /\ UNCHANGED docker

\* The manager goes down and discovers the containers when it comes up again.
Restart ==
  /\ Spend("restart")
  /\ record' = [i \in Id |->
       CASE container[i] = "none"    -> NoRecord
         [] container[i] = "running" -> [status |-> "healthy", fresh |-> TRUE]
         [] container[i] = "created" -> [status |-> "starting", fresh |-> TRUE]
         [] container[i] = "exited"  -> [status |-> "stopped", fresh |-> TRUE]]
  /\ lock' = NoThread
  /\ call' = [th \in Caller |-> IdleCall]
  /\ failures' = [i \in Id |-> 0]
  /\ monitor' = IdleMonitor
  /\ UNCHANGED docker

CallStep(th) == EnsureStep(th) \/ ReplicasStep(th) \/ InstanceStep(th)

Next ==
  \/ \E th \in Thread : \/ Ensure(th) \/ Stop(th) \/ Remove(th) \/ Touch(th)
                        \/ Reclaim(th)
                        \/ \E n \in 0..MaxReplicas : Replicas(th, n)
  \/ \E th \in Caller : CallStep(th)
  \/ ReclaimLoop
  \/ MonitorStep
  \/ TimePasses \/ Meddle \/ Restart

Spec == Init /\ [][Next]_vars

\* Threads are scheduled and the two loops wake up again and again.  Calls to
\* Docker and to the containers have timeouts.
Fairness ==
  /\ \A th \in Caller : WF_vars(CallStep(th))
  /\ WF_vars(ReclaimLoop)
  /\ WF_vars(MonitorStep)

FairSpec == Spec /\ Fairness

\* Callers ask for the version over and over, and the lock is given to each.
DemandSpec ==
  /\ FairSpec
  /\ \A th \in Thread : WF_vars(Ensure(th)) /\ SF_vars(EnsureLock(th))
--------------------------------------------------------------------------
(* Properties *)

\* Type invariant.
TypeOK ==
  /\ container \in [Id -> {"none", "created", "running", "exited"}]
  /\ name \in [Id -> Nat]
  /\ record \in [Id -> Record]
  /\ lock \in Caller \union {NoThread}
  /\ call \in [Caller -> CallState]
  /\ failures \in [Id -> 0..Threshold]
  /\ monitor \in [pc : {"idle", "scan", "stop", "save"}, id : Id \union {NoId},
                  seen : [Id -> Record], todo : SUBSET Id]
  /\ spent \in [DOMAIN Limit -> Nat]

\* While Docker works, the manager never loses sight of a container: each has
\* a record, or the thread that created it is about to write the record.
\* Otherwise its name would be taken and nobody could remove it.
ContainersAreTracked ==
  ~FaultyDocker =>
    \A i \in Id : Exists(i) =>
      \/ i \in Known
      \/ \E th \in Caller : /\ call[th].pc \in {"saveCreated", "saveReplica"}
                            /\ call[th].id = i

\* The lock keeps creations apart: with a Docker that works and nobody who
\* removes containers beside the locked calls, nor saves the copy of a record
\* that such a call has removed, a thread about to create a container finds its
\* name unused.
NamesNeverClash ==
  ~FaultyDocker /\ MaxMeddling = 0 /\ Calls \intersect {"remove", "touch"} = {} =>
    \A th \in Caller :
      /\ call[th].pc = "create" => ~NameTaken(0)
      /\ call[th].pc = "probe" /\ call[th].todo = {}
           /\ Cardinality(call[th].kept) < call[th].target
         => ~NameTaken(FreeName(th))

\* FR-CTR-002: a healthy container is reused.  ensure_running does not create
\* one while another of the version is healthy and runs.
HealthyIsReused ==
  \A th \in Thread : call[th].pc = "create" =>
    \A i \in Healthy : container[i] # "running"

\* A thread in the locked part of ensure_running or ensure_replicas leaves it.
LockIsReleased == \A th \in Caller : lock = th ~> lock # th

\* The monitor notices a dead instance: a healthy record whose container does
\* not run is corrected, by whomever.
DeadInstanceNoticed ==
  \A i \in Id :
    record[i].status = "healthy" /\ container[i] # "running"
      ~> record[i].status # "healthy" \/ container[i] = "running"

\* FR-CTR-001: whoever asks for a version makes the manager start it when its
\* container is missing.  With a Docker that works and callers that ask again,
\* a healthy instance comes up again and again.
EventuallyServed == []<>(Healthy # {})

\* FR-CTR-003: an instance that stays unused for the idle time is stopped.
IdleInstanceStopped ==
  \A i \in Id : record[i].status = "healthy" /\ ~record[i].fresh
                  ~> record[i].status # "healthy" \/ record[i].fresh
=============================================================================
