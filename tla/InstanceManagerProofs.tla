------------------------- MODULE InstanceManagerProofs -------------------------
(***************************************************************************)
(* Proofs about InstanceManager, for any number of threads, containers,    *)
(* calls, restarts and containers meddled with: the types hold, and while  *)
(* Docker works no container is ever without a record, and creations under *)
(* the lock never meet at a name.                                          *)
(***************************************************************************)
EXTENDS InstanceManager, NatFacts, FiniteSetTheorems

USE InstanceManagerAssumption

(***************************************************************************)
(* The name of the next replica: among Cardinality(Id) + 1 numbers one is  *)
(* the name of no container.                                               *)
(***************************************************************************)

LEMMA FreeNameExists ==
  ASSUME NEW th \in Caller
  PROVE  /\ FreeName(th) \in Nat
         /\ \A i \in Id : call[th].seen[i] # NoRecord => name[i] # FreeName(th)
<1> DEFINE held == {j \in Id : call[th].seen[j] # NoRecord}
           names == {name[i] : i \in held}
           size == Cardinality(Id) + 1
           free == {n \in 1..size : n \notin names}
<1>1. Cardinality(Id) \in Nat
  BY FS_CardinalityType
<1>2. free # {}
  <2> SUFFICES ASSUME free = {} PROVE FALSE
    OBVIOUS
  <2> DEFINE bearer == [n \in 1..size |-> CHOOSE i \in Id : name[i] = n]
  <2>1. ASSUME NEW n \in 1..size PROVE bearer[n] \in Id /\ name[bearer[n]] = n
    <3>1. \E i \in Id : name[i] = n
      OBVIOUS
    <3> QED  BY <3>1
  <2>2. size \in Nat /\ IsFiniteSet(1..size) /\ Cardinality(1..size) = size
    <3>1. size \in Nat
      BY <1>1
    <3> HIDE DEF size
    <3>2. Cardinality(1..size) = IF 1 > size THEN 0 ELSE size - 1 + 1
      BY <3>1, FS_Interval
    <3>3. size > 0
      BY <1>1 DEF size
    <3>4. IsFiniteSet(1..size)
      BY <3>1, FS_Interval
    <3> QED  BY <3>1, <3>2, <3>3, <3>4
  <2>3. bearer \in [1..size -> Id]
    BY <2>1
  <2> HIDE DEF bearer, size
  <2>4. Cardinality(Id) < Cardinality(1..size)
    BY <1>1, <2>2 DEF size
  <2>5. \E x, y \in 1..size : x # y /\ bearer[x] = bearer[y]
    BY <2>2, <2>3, <2>4, FS_PigeonHole
  <2> QED  BY <2>1, <2>5
<1>3. PICK n \in free : \A m \in free : n <= m
  <2>1. free \subseteq Nat
    OBVIOUS
  <2> HIDE DEF free
  <2> QED  BY <1>2, <2>1, LeastExists
<1>4. n \in 1..size /\ n \notin names /\ \A k \in 1..(n - 1) : k \in names
  <2>1. n \in 1..size /\ n \notin names /\ size \in Nat
    BY <1>1, <1>3
  <2>2. ASSUME NEW k \in 1..(n - 1), k \notin names PROVE FALSE
    <3> HIDE DEF size, names
    <3>1. k \in 1..size /\ ~(n <= k)
      BY <2>1
    <3>2. k \in free
      BY <2>2, <3>1
    <3> QED  BY <1>3, <3>1, <3>2
  <2> QED  BY <2>1, <2>2
<1>5. FreeName(th) = CHOOSE m \in 1..size : m \notin names /\ \A k \in 1..(m - 1) : k \in names
  BY DEF FreeName
<1>6. \A i \in Id : call[th].seen[i] # NoRecord => name[i] \in names
  OBVIOUS
<1> HIDE DEF size, names
<1>7. FreeName(th) \in 1..size /\ FreeName(th) \notin names
  BY <1>4, <1>5
<1> QED  BY <1>1, <1>6, <1>7 DEF size

(***************************************************************************)
(* The inductive invariant                                                 *)
(***************************************************************************)

\* The phases in which a call works on one instance.
AtInstance == {"check", "touchSave", "markFailed", "forget", "saveCreated", "starting", "start", "await",
  "saveHealthy", "saveFailed", "markReplica", "forgetReplica", "saveReplica", "startReplica", "awaitReplica",
  "saveHealthyReplica", "undo", "undoRecord", "removeDocker", "removeRecord", "stopDocker", "stopSave"}

\* Those that are about to write the first record of a container, and those
\* that are about to delete a record because its container is gone.
Creating == {"saveCreated", "saveReplica"}
Forgetting == {"forget", "forgetReplica", "undoRecord", "removeRecord"}

\* c is the progress of a call.
CallOK(c) ==
  /\ c.pc \in AtInstance => c.id \in Id
  /\ c.pc \in {"check", "touchSave", "saveReplica"} => c.seen[c.id].status # "absent"
  /\ ~FaultyDocker /\ c.pc \in Forgetting => ~Exists(c.id)

\* The count of failures reaches the threshold only for the instance that the
\* monitor stops.
MonitorOK ==
  /\ monitor.pc \in {"stop", "save"} => monitor.id \in Id
  /\ \A i \in Id : failures[i] = Threshold => monitor.pc \in {"stop", "save"} /\ monitor.id = i

Inv ==
  /\ TypeOK
  /\ \A th \in Caller : CallOK(call[th])
  /\ MonitorOK
  /\ ContainersAreTracked

--------------------------------------------------------------------------
LEMMA IdleTyped ==
  /\ NoRecord \in Record /\ NoRecord.status = "absent"
  /\ IdleCall \in CallState /\ IdleCall.pc = "idle" /\ IdleCall.todo = {}
  /\ [IdleCall EXCEPT !.pc = "dead"] \in CallState /\ [IdleCall EXCEPT !.pc = "dead"].pc = "dead"
  /\ [IdleCall EXCEPT !.pc = "create"] \in CallState /\ [IdleCall EXCEPT !.pc = "create"].pc = "create"
BY DEF NoRecord, Record, IdleCall, CallState, CallPhase

LEMMA ResetOK ==
  ASSUME NEW c \in CallState, c.pc \in {"idle", "dead", "create", "stop", "remove", "touch"}
  PROVE  CallOK(c) /\ CallOK(c)'
BY DEF CallOK, AtInstance, Forgetting

LEMMA InitInv == ASSUME Init PROVE Inv
<1>1. TypeOK
  BY IdleTyped DEF Init, TypeOK, IdleMonitor, Limit
<1>2. \A th \in Caller : CallOK(call[th])
  BY IdleTyped, ResetOK DEF Init
<1>3. MonitorOK
  <2>1. monitor.pc = "idle" /\ \A i \in Id : failures[i] # Threshold
    BY DEF Init, IdleMonitor
  <2> QED  BY <2>1 DEF MonitorOK
<1>4. ContainersAreTracked
  <2>1. \A i \in Id : ~Exists(i)
    BY DEF Init, Exists
  <2> QED  BY <2>1 DEF ContainersAreTracked
<1> QED  BY <1>1, <1>2, <1>3, <1>4 DEF Inv

(***************************************************************************)
(* One call moves to c.  Whoever else holds an instance keeps it: a new    *)
(* container gets an id that nobody holds.                                 *)
(***************************************************************************)

NothingNew == \A i \in Id : Exists(i)' => Exists(i)

LEMMA CallMoves ==
  ASSUME Inv, NEW th \in Caller, NEW c \in CallState, call' = [call EXCEPT ![th] = c],
         container' \in [Id -> {"none", "created", "running", "exited"}], name' \in [Id -> Nat],
         record' \in [Id -> Record], lock' \in Caller \union {NoThread}, spent' \in [DOMAIN Limit -> Nat],
         failures' \in [Id -> 0..Threshold], UNCHANGED monitor, MonitorOK',
         CallOK(c)',
         \A i \in Id : Exists(i)' => Exists(i) \/ Unused(i),
         ~FaultyDocker => \A i \in Id : Exists(i)' =>
           \/ i \in Known'
           \/ c.pc \in Creating /\ c.id = i
           \/ Exists(i) /\ i \notin Known /\ ~(call[th].pc \in Creating /\ call[th].id = i)
  PROVE  Inv'
<1>1. call'[th] = c /\ \A o \in Caller \ {th} : call'[o] = call[o]
  BY DEF Inv, TypeOK
<1>2. TypeOK'
  BY DEF Inv, TypeOK
<1>3. ASSUME NEW o \in Caller PROVE CallOK(call[o])'
  <2>1. CASE o = th
    BY <1>1, <2>1 DEF CallOK, Exists
  <2>2. CASE o # th
    <3>1. CallOK(call[o]) /\ call'[o] = call[o]
      BY <1>1, <2>2 DEF Inv
    <3>2. \A i \in Id : Unused(i) => i # call[o].id
      BY DEF Unused
    <3>3. call[o].pc \in Forgetting => call[o].pc \in AtInstance
      BY DEF Forgetting, AtInstance
    <3>4. ~FaultyDocker /\ call[o].pc \in Forgetting => ~Exists(call[o].id)'
      <4> SUFFICES ASSUME ~FaultyDocker, call[o].pc \in Forgetting, Exists(call[o].id)' PROVE FALSE
        OBVIOUS
      <4>1. call[o].id \in Id /\ ~Exists(call[o].id)
        BY <3>1, <3>3 DEF CallOK
      <4>2. container'[call[o].id] # "none"
        BY <3>1 DEF Exists
      <4>3. Exists(call[o].id) \/ Unused(call[o].id)
        BY <4>1, <4>2 DEF Exists
      <4> QED  BY <3>2, <4>1, <4>3
    <3> QED  BY <3>1, <3>4 DEF CallOK, Exists
  <2> QED  BY <2>1, <2>2
<1>4. ContainersAreTracked'
  <2> SUFFICES ASSUME ~FaultyDocker, NEW i \in Id, Exists(i)', i \notin Known'
               PROVE  \E o \in Caller : call'[o].pc \in Creating /\ call'[o].id = i
    BY DEF ContainersAreTracked, Creating
  <2>1. CASE c.pc \in Creating /\ c.id = i
    BY <1>1, <2>1
  <2>2. CASE Exists(i) /\ i \notin Known /\ ~(call[th].pc \in Creating /\ call[th].id = i)
    <3>1. PICK o \in Caller : call[o].pc \in Creating /\ call[o].id = i
      BY <2>2 DEF Inv, ContainersAreTracked, Creating
    <3> QED  BY <1>1, <2>2, <3>1
  <2> QED  BY <2>1, <2>2
<1> QED  BY <1>2, <1>3, <1>4 DEF Inv

\* A call that changes no record and no container.
LEMMA CallGoesOn ==
  ASSUME Inv, NEW th \in Caller, NEW c \in CallState, call' = [call EXCEPT ![th] = c],
         UNCHANGED <<docker, record, health>>, lock' \in Caller \union {NoThread},
         spent' \in [DOMAIN Limit -> Nat],
         CallOK(c), call[th].pc \notin Creating
  PROVE  Inv'
<1>1. /\ container' = container /\ name' = name /\ failures' = failures /\ monitor' = monitor
      /\ TypeOK
  BY DEF docker, health, Inv
<1>2. MonitorOK' /\ CallOK(c)' /\ Known' = Known /\ \A i \in Id : Exists(i)' <=> Exists(i)
  BY <1>1 DEF Inv, MonitorOK, CallOK, Known, Exists
<1>3. \A i \in Id : Exists(i)' =>
           \/ i \in Known'
           \/ c.pc \in Creating /\ c.id = i
           \/ Exists(i) /\ i \notin Known /\ ~(call[th].pc \in Creating /\ call[th].id = i)
  BY <1>2
<1>4. /\ container' \in [Id -> {"none", "created", "running", "exited"}] /\ name' \in [Id -> Nat]
      /\ record' \in [Id -> Record] /\ failures' \in [Id -> 0..Threshold]
  BY <1>1 DEF TypeOK
<1> QED  BY <1>1, <1>2, <1>3, <1>4, CallMoves

\* A call that saves a record of its instance, and may be done with it.
LEMMA CallSaves ==
  ASSUME Inv, NEW th \in Caller, NEW c \in CallState, call' = [call EXCEPT ![th] = c],
         UNCHANGED <<docker, health, spent>>, lock' \in Caller \union {NoThread},
         NEW rec \in Record, rec.status # "absent", Save(call[th].id, rec), call[th].id \in Id,
         CallOK(c)
  PROVE  Inv'
<1>1. /\ container' = container /\ name' = name /\ failures' = failures /\ monitor' = monitor /\ spent' = spent
      /\ TypeOK
  BY DEF docker, health, Inv
<1>2. MonitorOK' /\ CallOK(c)' /\ \A i \in Id : Exists(i)' <=> Exists(i)
  BY <1>1 DEF Inv, MonitorOK, CallOK, Exists
<1>3. record' \in [Id -> Record] /\ Known \subseteq Known' /\ call[th].id \in Known'
  BY <1>1 DEF Save, TypeOK, Known
<1>4. \A i \in Id : Exists(i)' =>
           \/ i \in Known'
           \/ c.pc \in Creating /\ c.id = i
           \/ Exists(i) /\ i \notin Known /\ ~(call[th].pc \in Creating /\ call[th].id = i)
  BY <1>2, <1>3
<1>5. /\ container' \in [Id -> {"none", "created", "running", "exited"}] /\ name' \in [Id -> Nat]
      /\ failures' \in [Id -> 0..Threshold] /\ spent' \in [DOMAIN Limit -> Nat]
  BY <1>1 DEF TypeOK
<1> QED  BY <1>1, <1>2, <1>3, <1>4, <1>5, CallMoves

\* A call that deletes the record of its instance: the container is gone.
LEMMA CallForgets ==
  ASSUME Inv, NEW th \in Caller, NEW c \in CallState, call' = [call EXCEPT ![th] = c],
         UNCHANGED <<docker, monitor, spent>>, lock' \in Caller \union {NoThread},
         failures' = failures \/ failures' = [failures EXCEPT ![call[th].id] = 0],
         call[th].pc \in Forgetting, Delete(call[th].id), CallOK(c)
  PROVE  Inv'
<1>1. container' = container /\ name' = name /\ monitor' = monitor /\ spent' = spent /\ TypeOK
  BY DEF docker, Inv
<1>2. failures' \in [Id -> 0..Threshold] /\ \A i \in Id : failures'[i] = failures[i] \/ failures'[i] = 0
  BY <1>1 DEF TypeOK
<1>3. MonitorOK' /\ CallOK(c)' /\ \A i \in Id : Exists(i)' <=> Exists(i)
  BY <1>1, <1>2 DEF Inv, MonitorOK, CallOK, Exists
<1>4. /\ record' \in [Id -> Record] /\ Known \ {call[th].id} \subseteq Known'
      /\ call[th].pc \notin Creating
  BY <1>1, IdleTyped DEF Delete, Save, TypeOK, Known, Creating, Forgetting
<1>5. ASSUME ~FaultyDocker, NEW i \in Id, Exists(i)'
      PROVE  \/ i \in Known'
             \/ Exists(i) /\ i \notin Known /\ ~(call[th].pc \in Creating /\ call[th].id = i)
  <2>1. ~Exists(call[th].id)
    BY <1>5 DEF Inv, CallOK
  <2>2. Exists(i) /\ i # call[th].id
    BY <1>3, <1>5, <2>1
  <2> QED  BY <1>4, <2>2
<1>6. /\ container' \in [Id -> {"none", "created", "running", "exited"}] /\ name' \in [Id -> Nat]
      /\ spent' \in [DOMAIN Limit -> Nat]
  BY <1>1 DEF TypeOK
<1> QED  BY <1>1, <1>2, <1>3, <1>4, <1>5, <1>6, CallMoves

\* A call that changes the container of its instance.
LEMMA CallDocker ==
  ASSUME Inv, NEW th \in Caller, NEW c \in CallState, call' = [call EXCEPT ![th] = c],
         UNCHANGED <<record, lock, health, spent>>,
         NEW status \in {"none", "created", "running", "exited"}, DockerOk(call[th].id, status),
         call[th].id \in Id, c.pc \in AtInstance, c.id = call[th].id,
         c.pc \notin {"check", "touchSave", "saveReplica"},
         c.pc \in Forgetting => status = "none", call[th].pc \notin Creating
  PROVE  Inv'
<1>1. /\ record' = record /\ lock' = lock /\ spent' = spent /\ failures' = failures /\ monitor' = monitor
      /\ name' = name /\ Exists(call[th].id) /\ container' = [container EXCEPT ![call[th].id] = status]
      /\ TypeOK
  BY DEF health, DockerOk, Inv
<1>2. container' \in [Id -> {"none", "created", "running", "exited"}]
  BY <1>1 DEF TypeOK
<1>3. MonitorOK' /\ Known' = Known
  BY <1>1 DEF Inv, MonitorOK, Known
<1>4. \A i \in Id : Exists(i)' => Exists(i)
  BY <1>1 DEF TypeOK, Exists
<1>5. CallOK(c)'
  <2>1. status = "none" => ~Exists(c.id)'
    BY <1>1 DEF TypeOK, Exists
  <2> QED  BY <2>1 DEF CallOK, Exists
<1>6. /\ name' \in [Id -> Nat] /\ record' \in [Id -> Record] /\ lock' \in Caller \union {NoThread}
      /\ spent' \in [DOMAIN Limit -> Nat] /\ failures' \in [Id -> 0..Threshold]
  BY <1>1 DEF TypeOK
<1>7. \A i \in Id : Exists(i)' =>
           \/ i \in Known'
           \/ c.pc \in Creating /\ c.id = i
           \/ Exists(i) /\ i \notin Known /\ ~(call[th].pc \in Creating /\ call[th].id = i)
  BY <1>3, <1>4
<1> QED  BY <1>1, <1>2, <1>3, <1>4, <1>5, <1>6, <1>7, CallMoves

\* A call that creates a container.
LEMMA CallCreates ==
  ASSUME Inv, NEW th \in Caller, NEW c \in CallState, call' = [call EXCEPT ![th] = c],
         UNCHANGED <<record, lock, health, spent>>,
         NEW i \in Id, NEW n \in Nat, DockerCreates(i, n),
         c.pc \in Creating, c.id = i, CallOK(c), call[th].pc \notin Creating
  PROVE  Inv'
<1>1. /\ record' = record /\ lock' = lock /\ spent' = spent /\ failures' = failures /\ monitor' = monitor
      /\ Unused(i) /\ container' = [container EXCEPT ![i] = "created"] /\ name' = [name EXCEPT ![i] = n]
      /\ TypeOK
  BY DEF health, DockerCreates, Inv
<1>2. container' \in [Id -> {"none", "created", "running", "exited"}] /\ name' \in [Id -> Nat]
  BY <1>1 DEF TypeOK
<1>3. MonitorOK' /\ Known' = Known
  BY <1>1 DEF Inv, MonitorOK, Known
<1>4. \A j \in Id : Exists(j)' => j = i \/ Exists(j)
  BY <1>1 DEF TypeOK, Exists
<1>5. CallOK(c)'
  BY DEF CallOK, Creating, Forgetting
<1>6. /\ record' \in [Id -> Record] /\ lock' \in Caller \union {NoThread}
      /\ spent' \in [DOMAIN Limit -> Nat] /\ failures' \in [Id -> 0..Threshold]
  BY <1>1 DEF TypeOK
<1>7. \A j \in Id : Exists(j)' =>
           \/ j \in Known'
           \/ c.pc \in Creating /\ c.id = j
           \/ Exists(j) /\ j \notin Known /\ ~(call[th].pc \in Creating /\ call[th].id = j)
  BY <1>3, <1>4
<1>8. \A j \in Id : Exists(j)' => Exists(j) \/ Unused(j)
  BY <1>1, <1>4
<1> QED  BY <1>1, <1>2, <1>3, <1>5, <1>6, <1>7, <1>8, CallMoves

\* What the steps of a call make of its progress.
LEMMA CallTypes ==
  ASSUME Inv, NEW th \in Caller
  PROVE  /\ call[th] \in CallState /\ CallOK(call[th])
         /\ \A pc \in CallPhase : [call[th] EXCEPT !.pc = pc] \in CallState
         /\ \A i \in Id : call[th].seen[i] \in Record /\ record[i] \in Record
         /\ lock \in Caller \union {NoThread} /\ spent \in [DOMAIN Limit -> Nat]
<1>1. call[th] \in CallState /\ CallOK(call[th]) /\ TypeOK
  BY DEF Inv, TypeOK
<1>2. /\ call[th].seen \in [Id -> Record] /\ record \in [Id -> Record]
      /\ lock \in Caller \union {NoThread} /\ spent \in [DOMAIN Limit -> Nat]
  BY <1>1 DEF CallState, TypeOK
<1>3. \A pc \in CallPhase : [call[th] EXCEPT !.pc = pc] \in CallState
  BY <1>1 DEF CallState
<1> QED  BY <1>1, <1>2, <1>3

LEMMA StepIs ==
  ASSUME Inv, NEW th \in Caller, NEW pc \in CallPhase, Step(th, pc)
  PROVE  /\ call' = [call EXCEPT ![th] = [call[th] EXCEPT !.pc = pc]]
         /\ [call[th] EXCEPT !.pc = pc] \in CallState
         /\ [call[th] EXCEPT !.pc = pc].pc = pc
         /\ [call[th] EXCEPT !.pc = pc].id = call[th].id
         /\ [call[th] EXCEPT !.pc = pc].seen = call[th].seen
<1>1. call[th] \in CallState
  BY CallTypes
<1> QED  BY <1>1 DEF Step, CallState

LEMMA AnswerIs ==
  ASSUME Inv, NEW th \in Caller, Answer(th)
  PROVE  call' = [call EXCEPT ![th] = IdleCall] /\ CallOK(IdleCall) /\ lock' \in Caller \union {NoThread}
BY CallTypes, IdleTyped, ResetOK DEF Answer, Unlock

LEMMA RaiseIs ==
  ASSUME Inv, NEW th \in Caller, Raise(th)
  PROVE  \E c \in CallState : /\ call' = [call EXCEPT ![th] = c] /\ CallOK(c)
                              /\ lock' \in Caller \union {NoThread}
<1> DEFINE c == IF th = Reclaimer THEN [IdleCall EXCEPT !.pc = "dead"] ELSE IdleCall
<1>1. c \in CallState /\ c.pc \in {"idle", "dead"}
  BY IdleTyped
<1>2. call' = [call EXCEPT ![th] = c] /\ lock' \in Caller \union {NoThread}
  BY CallTypes DEF Raise, Unlock
<1> HIDE DEF c
<1>3. CallOK(c)
  BY <1>1, ResetOK
<1> QED  BY <1>1, <1>2, <1>3

LEMMA RaisedInv ==
  ASSUME Inv, NEW th \in Caller, Raise(th), UNCHANGED <<docker, record, health, spent>>,
         call[th].pc \notin Creating
  PROVE  Inv'
<1>1. PICK c \in CallState : call' = [call EXCEPT ![th] = c] /\ CallOK(c) /\ lock' \in Caller \union {NoThread}
  BY RaiseIs
<1>2. spent' \in [DOMAIN Limit -> Nat]
  BY CallTypes
<1> QED  BY <1>1, <1>2, CallGoesOn

LEMMA Moves ==
  ASSUME Inv, NEW th \in Caller, NEW pc \in CallPhase, Step(th, pc),
         UNCHANGED <<docker, record, health, spent>>, lock' \in Caller \union {NoThread},
         pc \in AtInstance => call[th].id \in Id,
         pc \in {"check", "touchSave", "saveReplica"} => Seen(th).status # "absent",
         ~FaultyDocker /\ pc \in Forgetting => ~Exists(call[th].id),
         call[th].pc \notin Creating
  PROVE  Inv'
<1> DEFINE c == [call[th] EXCEPT !.pc = pc]
<1>1. c \in CallState /\ call' = [call EXCEPT ![th] = c] /\ c.pc = pc /\ c.id = call[th].id /\ c.seen = call[th].seen
  BY StepIs
<1> HIDE DEF c
<1>2. CallOK(c)
  BY <1>1 DEF CallOK, Seen, Exists
<1>3. spent' \in [DOMAIN Limit -> Nat]
  BY CallTypes
<1> QED  BY <1>1, <1>2, <1>3, CallGoesOn

LEMMA EnsureInv ==
  ASSUME Inv, NEW th \in Caller, Ensure(th) \/ EnsureLock(th) \/ EnsureFind(th) \/ EnsureCheck(th)
  PROVE  Inv'
<1>1. lock \in Caller \union {NoThread} /\ call[th] \in CallState /\ CallOK(call[th]) /\ spent \in [DOMAIN Limit -> Nat]
  BY CallTypes
<1>2. CASE Ensure(th)
  BY <1>1, <1>2, Moves DEF Ensure, CallPhase, AtInstance, Forgetting, Creating
<1>3. CASE EnsureLock(th)
  BY <1>1, <1>3, Moves DEF EnsureLock, CallPhase, AtInstance, Forgetting, Creating
<1>4. CASE EnsureFind(th)
  <2>1. CASE Known = {} /\ Step(th, "create")
    BY <1>1, <1>4, <2>1, Moves DEF EnsureFind, CallPhase, AtInstance, Forgetting, Creating
  <2>2. ASSUME NEW i \in Known, NEW pc \in {"check", "starting"}, Reads(th, pc, i)
        PROVE  Inv'
    <3> DEFINE c == [call[th] EXCEPT !.pc = pc, !.id = i, !.seen[i] = record[i]]
    <3>1. i \in Id /\ record[i] \in Record /\ record[i].status # "absent"
      BY CallTypes DEF Known
    <3>2. c \in CallState /\ c.pc = pc /\ c.id = i /\ c.seen[i] = record[i]
      BY <1>1, <3>1 DEF CallState, CallPhase
    <3>3. call' = [call EXCEPT ![th] = c]
      BY <2>2 DEF Reads
    <3> HIDE DEF c
    <3>4. CallOK(c)
      BY <3>1, <3>2 DEF CallOK, Forgetting
    <3>5. lock' = lock /\ spent' = spent /\ UNCHANGED <<docker, record, health>>
          /\ call[th].pc \notin Creating
      BY <1>4 DEF EnsureFind, Creating
    <3> QED  BY <1>1, <3>2, <3>3, <3>4, <3>5, CallGoesOn
  <2>3. CASE \E i \in Healthy : Reads(th, "check", i)
    <3>1. Healthy \subseteq Known
      BY DEF Healthy, Known
    <3> QED  BY <2>2, <2>3, <3>1
  <2>4. CASE Healthy = {} /\ \E i \in Known : Reads(th, "starting", i)
    BY <2>2, <2>4
  <2> QED  BY <1>4, <2>1, <2>3, <2>4 DEF EnsureFind
<1>5. CASE EnsureCheck(th)
  <2>1. /\ call[th].pc = "check" /\ UNCHANGED <<docker, record, health, spent>> /\ lock' = lock
    BY <1>5 DEF EnsureCheck
  <2>2. call[th].id \in Id /\ Seen(th).status # "absent" /\ call[th].pc \notin Creating
    BY <1>1, <2>1 DEF CallOK, AtInstance, Seen, Creating
  <2>3. CASE Step(th, "touchSave")
    BY <1>1, <2>1, <2>2, <2>3, Moves DEF CallPhase, Forgetting
  <2>4. CASE Step(th, "markFailed")
    BY <1>1, <2>1, <2>2, <2>4, Moves DEF CallPhase, Forgetting
  <2>5. CASE "raise" \in Verdicts(call[th].id) /\ Step(th, "forget")
    <3>1. ~FaultyDocker => ~Exists(call[th].id)
      BY <2>5 DEF Verdicts
    <3> QED  BY <1>1, <2>1, <2>2, <2>5, <3>1, Moves DEF CallPhase
  <2> QED  BY <1>5, <2>3, <2>4, <2>5 DEF EnsureCheck
<1> QED  BY <1>2, <1>3, <1>4, <1>5

LEMMA SavesInv ==
  ASSUME Inv, NEW th \in Caller, NEW pc \in CallPhase, Step(th, pc),
         NEW rec \in Record, rec.status # "absent", Save(call[th].id, rec), call[th].id \in Id,
         pc \notin Forgetting \union {"check", "touchSave", "saveReplica"},
         UNCHANGED <<docker, lock, health, spent>>
  PROVE  Inv'
<1> DEFINE c == [call[th] EXCEPT !.pc = pc]
<1>1. c \in CallState /\ call' = [call EXCEPT ![th] = c] /\ c.pc = pc /\ c.id = call[th].id
  BY StepIs
<1> HIDE DEF c
<1>2. CallOK(c)
  BY <1>1 DEF CallOK
<1>3. lock' \in Caller \union {NoThread}
  BY CallTypes
<1> QED  BY <1>1, <1>2, <1>3, CallSaves

\* The copy of a record with another status is a record.
LEMMA CopyIs ==
  ASSUME Inv, NEW th \in Caller, call[th].id \in Id
  PROVE  /\ Seen(th) \in Record
         /\ \A s \in {"created", "starting", "healthy", "stopped", "failed"} :
              WithStatus(Seen(th), s) \in Record /\ WithStatus(Seen(th), s).status # "absent"
         /\ [Seen(th) EXCEPT !.fresh = TRUE] \in Record
         /\ [Seen(th) EXCEPT !.fresh = TRUE].status = Seen(th).status
<1>1. Seen(th) \in Record
  BY CallTypes DEF Seen
<1> QED  BY <1>1 DEF Record, WithStatus

LEMMA EnsureSavesInv ==
  ASSUME Inv, NEW th \in Caller,
         \/ TouchSave(th) \/ EnsureMarkFailed(th) \/ EnsureSaveCreated(th) \/ EnsureSaveStarting(th)
         \/ EnsureSaveHealthy(th) \/ EnsureSaveFailed(th)
  PROVE  Inv'
<1>1. call[th] \in CallState /\ CallOK(call[th]) /\ lock \in Caller \union {NoThread}
  BY CallTypes
<1>2. call[th].id \in Id
  BY <1>1 DEF TouchSave, EnsureMarkFailed, EnsureSaveCreated, EnsureSaveStarting, EnsureSaveHealthy,
              EnsureSaveFailed, CallOK, AtInstance
<1>3. CASE TouchSave(th)
  <2>1. /\ Save(call[th].id, [Seen(th) EXCEPT !.fresh = TRUE]) /\ Answer(th) /\ call[th].pc = "touchSave"
        /\ UNCHANGED <<docker, health, spent>>
    BY <1>3 DEF TouchSave
  <2>2. Seen(th).status # "absent"
    BY <1>1, <2>1 DEF CallOK, Seen
  <2> QED  BY <1>2, <2>1, <2>2, CopyIs, AnswerIs, IdleTyped, CallSaves
<1>4. CASE EnsureMarkFailed(th)
  <2>1. Step(th, "starting") /\ Save(call[th].id, WithStatus(Seen(th), "failed"))
        /\ UNCHANGED <<docker, lock, health, spent>>
    BY <1>4 DEF EnsureMarkFailed
  <2>2. WithStatus(Seen(th), "failed") \in Record /\ WithStatus(Seen(th), "failed").status # "absent"
    BY <1>2, CopyIs
  <2>3. "starting" \in CallPhase /\ "starting" \notin Forgetting \union {"check", "touchSave", "saveReplica"}
    BY DEF CallPhase, Forgetting
  <2> QED  BY <1>2, <2>1, <2>2, <2>3, SavesInv
<1>5. CASE EnsureSaveCreated(th)
  <2> DEFINE rec == [status |-> "created", fresh |-> TRUE]
             c == [call[th] EXCEPT !.pc = "starting", !.seen[call[th].id] = rec]
  <2>1. rec \in Record /\ rec.status # "absent"
    BY DEF Record
  <2>2. /\ Save(call[th].id, rec) /\ UNCHANGED <<docker, health, spent>> /\ lock' = lock
        /\ call' = [call EXCEPT ![th].pc = "starting", ![th].seen[call[th].id] = rec]
    BY <1>5 DEF EnsureSaveCreated
  <2>3. c \in CallState /\ c.pc = "starting" /\ c.id = call[th].id
    BY <1>1, <1>2, <2>1 DEF CallState, CallPhase
  <2>4. call' = [call EXCEPT ![th] = c]
    BY <2>2
  <2> HIDE DEF c, rec
  <2>5. CallOK(c)
    BY <1>2, <2>3 DEF CallOK, Forgetting
  <2> QED  BY <1>1, <1>2, <2>1, <2>2, <2>3, <2>4, <2>5, CallSaves
<1>6. CASE EnsureSaveStarting(th)
  <2>1. Step(th, "start") /\ Save(call[th].id, WithStatus(Seen(th), "starting"))
        /\ UNCHANGED <<docker, lock, health, spent>>
    BY <1>6 DEF EnsureSaveStarting
  <2>2. WithStatus(Seen(th), "starting") \in Record /\ WithStatus(Seen(th), "starting").status # "absent"
    BY <1>2, CopyIs
  <2>3. "start" \in CallPhase /\ "start" \notin Forgetting \union {"check", "touchSave", "saveReplica"}
    BY DEF CallPhase, Forgetting
  <2> QED  BY <1>2, <2>1, <2>2, <2>3, SavesInv
<1>7. CASE EnsureSaveHealthy(th)
  <2>1. /\ Save(call[th].id, WithStatus(Seen(th), "healthy")) /\ Answer(th)
        /\ UNCHANGED <<docker, health, spent>>
    BY <1>7 DEF EnsureSaveHealthy
  <2> QED  BY <1>2, <2>1, CopyIs, AnswerIs, IdleTyped, CallSaves
<1>8. CASE EnsureSaveFailed(th)
  <2>1. /\ Save(call[th].id, WithStatus(Seen(th), "failed")) /\ Raise(th)
        /\ UNCHANGED <<docker, health, spent>>
    BY <1>8 DEF EnsureSaveFailed
  <2>2. PICK c \in CallState : call' = [call EXCEPT ![th] = c] /\ CallOK(c) /\ lock' \in Caller \union {NoThread}
    BY <2>1, RaiseIs
  <2> QED  BY <1>2, <2>1, <2>2, CopyIs, CallSaves
<1> QED  BY <1>3, <1>4, <1>5, <1>6, <1>7, <1>8

LEMMA EnsureCreateInv ==
  ASSUME Inv, NEW th \in Caller, EnsureCreate(th)
  PROVE  Inv'
<1>1. /\ call[th].pc = "create" /\ call[th].pc \notin Creating /\ call[th] \in CallState
      /\ UNCHANGED <<record, health, spent>>
  BY CallTypes DEF EnsureCreate, Creating
<1>2. CASE CreateRaises(0) /\ Raise(th)
  <2>1. UNCHANGED docker
    BY <1>2 DEF CreateRaises
  <2> QED  BY <1>1, <1>2, <2>1, RaisedInv
<1>3. ASSUME NEW i \in Id, DockerCreates(i, 0), UNCHANGED lock,
             call' = [call EXCEPT ![th].pc = "saveCreated", ![th].id = i]
      PROVE  Inv'
  <2> DEFINE c == [call[th] EXCEPT !.pc = "saveCreated", !.id = i]
  <2>1. c \in CallState /\ c.pc = "saveCreated" /\ c.id = i
    BY <1>1 DEF CallState, CallPhase
  <2>4. call' = [call EXCEPT ![th] = c]
    BY <1>3 DEF Inv, TypeOK
  <2> HIDE DEF c
  <2>2. CallOK(c) /\ c.pc \in Creating
    BY <2>1 DEF CallOK, Forgetting, Creating
  <2>3. UNCHANGED <<record, lock, health, spent>> /\ 0 \in Nat
    BY <1>1, <1>3
  <2> QED  BY <1>1, <1>3, <2>1, <2>2, <2>3, <2>4, CallCreates
<1> QED  BY <1>2, <1>3 DEF EnsureCreate

\* start, stop or remove, then the next phase; or an error of Docker.
LEMMA DockerInv ==
  ASSUME Inv, NEW th \in Caller, NEW pc \in AtInstance,
         NEW status \in {"none", "created", "running", "exited"}, DockerOk(call[th].id, status), Step(th, pc),
         UNCHANGED <<record, lock, health, spent>>, call[th].id \in Id,
         pc \notin {"check", "touchSave", "saveReplica"}, pc \in Forgetting => status = "none",
         call[th].pc \notin Creating
  PROVE  Inv'
<1>1. pc \in CallPhase
  BY DEF AtInstance, CallPhase
<1> DEFINE c == [call[th] EXCEPT !.pc = pc]
<1>2. c \in CallState /\ call' = [call EXCEPT ![th] = c] /\ c.pc = pc /\ c.id = call[th].id
  BY <1>1, StepIs
<1> HIDE DEF c
<1> QED  BY <1>2, CallDocker

LEMMA DockerStepsInv ==
  ASSUME Inv, NEW th \in Caller,
         \/ EnsureStart(th) \/ ReplicaStart(th) \/ ReplicaUndo(th) \/ StopDocker(th) \/ RemoveDocker(th)
  PROVE  Inv'
<1>1. call[th] \in CallState /\ CallOK(call[th]) /\ lock \in Caller \union {NoThread}
  BY CallTypes
<1>2. call[th].pc \in {"start", "startReplica", "undo", "stopDocker", "removeDocker"}
  BY DEF EnsureStart, ReplicaStart, ReplicaUndo, StopDocker, RemoveDocker
<1>3. call[th].id \in Id /\ call[th].pc \notin Creating
  BY <1>1, <1>2 DEF CallOK, AtInstance, Creating
<1>4. CASE EnsureStart(th)
  <2>1. UNCHANGED <<record, lock, health, spent>>
    BY <1>4 DEF EnsureStart
  <2>2. CASE DockerOk(call[th].id, "running") /\ Step(th, "await")
    BY <1>3, <2>1, <2>2, DockerInv DEF AtInstance, Forgetting
  <2>3. CASE DockerRaises(call[th].id) /\ Step(th, "saveFailed")
    BY <1>1, <1>3, <2>1, <2>3, Moves DEF DockerRaises, CallPhase, Forgetting
  <2> QED  BY <1>4, <2>2, <2>3 DEF EnsureStart
<1>5. CASE ReplicaStart(th)
  <2>1. UNCHANGED <<record, lock, health, spent>>
    BY <1>5 DEF ReplicaStart
  <2>2. CASE DockerOk(call[th].id, "running") /\ Step(th, "awaitReplica")
    BY <1>3, <2>1, <2>2, DockerInv DEF AtInstance, Forgetting
  <2>3. CASE DockerRaises(call[th].id) /\ Step(th, "undo")
    BY <1>1, <1>3, <2>1, <2>3, Moves DEF DockerRaises, CallPhase, Forgetting
  <2> QED  BY <1>5, <2>2, <2>3 DEF ReplicaStart
<1>6. CASE ReplicaUndo(th)
  <2>1. UNCHANGED <<record, lock, health, spent>> /\ Step(th, "undoRecord")
    BY <1>6 DEF ReplicaUndo
  <2>2. CASE DockerOk(call[th].id, "none")
    BY <1>3, <2>1, <2>2, DockerInv DEF AtInstance, Forgetting
  <2>3. CASE DockerRaises(call[th].id)
    <3>1. (~FaultyDocker => ~Exists(call[th].id)) /\ UNCHANGED docker
      BY <2>3 DEF DockerRaises
    <3> QED  BY <1>1, <1>3, <2>1, <3>1, Moves DEF CallPhase, Forgetting
  <2> QED  BY <1>6, <2>2, <2>3 DEF ReplicaUndo
<1>7. CASE StopDocker(th)
  <2>1. UNCHANGED <<record, health, spent>>
    BY <1>7 DEF StopDocker
  <2>2. CASE DockerOk(call[th].id, "exited") /\ Step(th, "stopSave") /\ UNCHANGED lock
    BY <1>3, <2>1, <2>2, DockerInv DEF AtInstance, Forgetting
  <2>3. CASE DockerRaises(call[th].id) /\ Raise(th)
    BY <1>3, <2>1, <2>3, RaisedInv DEF DockerRaises
  <2> QED  BY <1>7, <2>2, <2>3 DEF StopDocker
<1>8. CASE RemoveDocker(th)
  <2>1. UNCHANGED <<record, health, spent>>
    BY <1>8 DEF RemoveDocker
  <2>2. CASE DockerOk(call[th].id, "none") /\ Step(th, "removeRecord") /\ UNCHANGED lock
    BY <1>3, <2>1, <2>2, DockerInv DEF AtInstance, Forgetting
  <2>3. CASE DockerRaises(call[th].id) /\ Raise(th)
    BY <1>3, <2>1, <2>3, RaisedInv DEF DockerRaises
  <2> QED  BY <1>8, <2>2, <2>3 DEF RemoveDocker
<1> QED  BY <1>4, <1>5, <1>6, <1>7, <1>8

\* The two waits for a healthy container.
LEMMA AwaitInv ==
  ASSUME Inv, NEW th \in Caller, EnsureAwait(th) \/ ReplicaAwait(th)
  PROVE  Inv'
<1>1. call[th] \in CallState /\ CallOK(call[th]) /\ lock \in Caller \union {NoThread}
  BY CallTypes
<1>2. call[th].pc \in {"await", "awaitReplica"} /\ UNCHANGED <<docker, record, lock, health, spent>>
  BY DEF EnsureAwait, ReplicaAwait
<1>3. call[th].id \in Id /\ call[th].pc \notin Creating
  BY <1>1, <1>2 DEF CallOK, AtInstance, Creating
<1>4. \E pc \in {"saveHealthy", "saveFailed", "saveHealthyReplica", "undo"} : Step(th, pc)
  BY DEF EnsureAwait, ReplicaAwait
<1>5. PICK pc \in {"saveHealthy", "saveFailed", "saveHealthyReplica", "undo"} : Step(th, pc)
  BY <1>4
<1>6. pc \in CallPhase /\ pc \notin {"check", "touchSave", "saveReplica"} /\ pc \notin Forgetting
  BY DEF CallPhase, Forgetting
<1> QED  BY <1>1, <1>2, <1>3, <1>5, <1>6, Moves

LEMMA SpendTyped ==
  ASSUME NEW what \in DOMAIN Limit, Spend(what), spent \in [DOMAIN Limit -> Nat]
  PROVE  spent' \in [DOMAIN Limit -> Nat]
BY DEF Spend

LEMMA LimitTyped == DOMAIN Limit = {"call", "restart", "meddle", "idle"}
BY DEF Limit

LEMMA ReplicasInv ==
  ASSUME Inv, NEW th \in Caller,
         \/ \E n \in 0..MaxReplicas : Replicas(th, n)
         \/ ReplicasLock(th) \/ ReplicasRead(th) \/ ReplicasShrink(th)
  PROVE  Inv'
<1>1. /\ lock \in Caller \union {NoThread} /\ call[th] \in CallState /\ CallOK(call[th])
      /\ spent \in [DOMAIN Limit -> Nat] /\ TypeOK
  BY CallTypes DEF Inv
<1>2. ASSUME NEW n \in 0..MaxReplicas, Replicas(th, n) PROVE Inv'
  <2> DEFINE c == [call[th] EXCEPT !.pc = "replicasLock", !.target = n]
  <2>0. n \in Nat
    <3>1. MaxReplicas \in Nat
      OBVIOUS
    <3> QED  BY <3>1
  <2>1. c \in CallState /\ c.pc = "replicasLock"
    BY <1>1, <2>0 DEF CallState, CallPhase
  <2>2. call' = [call EXCEPT ![th] = c]
    BY <1>1, <1>2 DEF Replicas, TypeOK
  <2> HIDE DEF c
  <2>3. CallOK(c)
    BY <2>1 DEF CallOK, AtInstance, Forgetting
  <2>4. /\ spent' \in [DOMAIN Limit -> Nat] /\ UNCHANGED <<docker, record, health>> /\ lock' = lock
        /\ call[th].pc \notin Creating
    BY <1>1, <1>2, SpendTyped, LimitTyped DEF Replicas, Creating
  <2> QED  BY <1>1, <2>1, <2>2, <2>3, <2>4, CallGoesOn
<1>3. CASE ReplicasLock(th)
  BY <1>1, <1>3, Moves DEF ReplicasLock, CallPhase, AtInstance, Forgetting, Creating
<1>4. CASE ReplicasRead(th)
  <2> DEFINE c == [call[th] EXCEPT !.pc = "probe", !.seen = record, !.todo = Healthy]
  <2>1. c \in CallState /\ c.pc = "probe"
    BY <1>1 DEF CallState, CallPhase, TypeOK, Healthy
  <2>2. call' = [call EXCEPT ![th] = c]
    BY <1>1, <1>4 DEF ReplicasRead, TypeOK
  <2> HIDE DEF c
  <2>3. CallOK(c)
    BY <2>1 DEF CallOK, AtInstance, Forgetting
  <2>4. spent' = spent /\ UNCHANGED <<docker, record, health>> /\ lock' = lock
        /\ call[th].pc \notin Creating
    BY <1>4 DEF ReplicasRead, Creating
  <2> QED  BY <1>1, <2>1, <2>2, <2>3, <2>4, CallGoesOn
<1>5. CASE ReplicasShrink(th)
  <2>1. PICK extra \in SUBSET call[th].kept :
          call' = [call EXCEPT ![th] = [IdleCall EXCEPT !.pc = "remove", !.todo = extra]]
    BY <1>5 DEF ReplicasShrink
  <2> DEFINE c == [IdleCall EXCEPT !.pc = "remove", !.todo = extra]
  <2>2. c \in CallState /\ c.pc = "remove"
    BY <1>1, IdleTyped DEF CallState, CallPhase
  <2>3. call' = [call EXCEPT ![th] = c]
    BY <2>1
  <2> HIDE DEF c
  <2>4. CallOK(c)
    BY <2>2, ResetOK
  <2>5. spent' = spent /\ UNCHANGED <<docker, record, health>> /\ lock' = lock
        /\ call[th].pc \notin Creating
    BY <1>5 DEF ReplicasShrink, Creating
  <2> QED  BY <1>1, <2>2, <2>3, <2>4, <2>5, CallGoesOn
<1> QED  BY <1>2, <1>3, <1>4, <1>5

LEMMA ReplicaProbeInv ==
  ASSUME Inv, NEW th \in Caller, ReplicaProbe(th)
  PROVE  Inv'
<1>1. /\ lock \in Caller \union {NoThread} /\ call[th] \in CallState
      /\ spent \in [DOMAIN Limit -> Nat]
  BY CallTypes
<1>2. /\ call[th].pc = "probe" /\ call[th].pc \notin Creating
      /\ UNCHANGED <<docker, record, health, spent>> /\ lock' = lock /\ spent' = spent
  BY DEF ReplicaProbe, Creating
<1>3. PICK i \in call[th].todo :
       LET probed == [call[th] EXCEPT !.todo = @ \ {i}] IN
       \/ /\ "yes" \in Verdicts(i)
          /\ call' = [call EXCEPT ![th] = [probed EXCEPT !.kept = @ \union {i}]]
       \/ /\ "no" \in Verdicts(i)
          /\ call' = [call EXCEPT ![th] = [probed EXCEPT !.pc = "markReplica", !.id = i]]
       \/ /\ "raise" \in Verdicts(i)
          /\ call' = [call EXCEPT ![th] = [probed EXCEPT !.pc = "forgetReplica", !.id = i]]
  BY DEF ReplicaProbe
<1>4. i \in Id
  BY <1>1 DEF CallState
<1> DEFINE probed == [call[th] EXCEPT !.todo = @ \ {i}]
           yes == [probed EXCEPT !.kept = @ \union {i}]
           no == [probed EXCEPT !.pc = "markReplica", !.id = i]
           raise == [probed EXCEPT !.pc = "forgetReplica", !.id = i]
<1>5. probed \in CallState /\ probed.pc = "probe"
  BY <1>1, <1>2, <1>4 DEF CallState
<1>6. /\ yes \in CallState /\ yes.pc = "probe"
      /\ no \in CallState /\ no.pc = "markReplica" /\ no.id = i
      /\ raise \in CallState /\ raise.pc = "forgetReplica" /\ raise.id = i
  <2> HIDE DEF probed
  <2> QED  BY <1>4, <1>5 DEF CallState, CallPhase
<1>7. \/ call' = [call EXCEPT ![th] = yes]
      \/ call' = [call EXCEPT ![th] = no]
      \/ "raise" \in Verdicts(i) /\ call' = [call EXCEPT ![th] = raise]
  BY <1>3
<1> HIDE DEF probed, yes, no, raise
<1>8. CallOK(yes) /\ CallOK(no)
  BY <1>4, <1>6 DEF CallOK, AtInstance, Forgetting
<1>9. CASE call' = [call EXCEPT ![th] = yes]
  BY <1>1, <1>2, <1>6, <1>8, <1>9, CallGoesOn
<1>10. CASE call' = [call EXCEPT ![th] = no]
  BY <1>1, <1>2, <1>6, <1>8, <1>10, CallGoesOn
<1>11. CASE "raise" \in Verdicts(i) /\ call' = [call EXCEPT ![th] = raise]
  <2>1. ~FaultyDocker => ~Exists(i)
    BY <1>11 DEF Verdicts
  <2>2. CallOK(raise)
    BY <1>4, <1>6, <2>1 DEF CallOK, Exists
  <2> QED  BY <1>1, <1>2, <1>6, <1>11, <2>2, CallGoesOn
<1> QED  BY <1>7, <1>9, <1>10, <1>11

LEMMA ReplicaSavesInv ==
  ASSUME Inv, NEW th \in Caller, ReplicaMark(th) \/ ReplicaSave(th) \/ ReplicaSaveHealthy(th)
  PROVE  Inv'
<1>1. /\ lock \in Caller \union {NoThread} /\ call[th] \in CallState /\ CallOK(call[th]) /\ TypeOK
  BY CallTypes DEF Inv
<1>2. call[th].id \in Id
  BY <1>1 DEF ReplicaMark, ReplicaSave, ReplicaSaveHealthy, CallOK, AtInstance
<1>3. CASE ReplicaMark(th)
  <2> DEFINE c == [call[th] EXCEPT !.pc = "probe", !.id = NoId]
  <2>1. c \in CallState /\ c.pc = "probe"
    BY <1>1 DEF CallState, CallPhase
  <2>2. call' = [call EXCEPT ![th] = c] /\ UNCHANGED <<docker, health, spent>> /\ lock' = lock
    BY <1>1, <1>3 DEF ReplicaMark, TypeOK
  <2> HIDE DEF c
  <2>3. CallOK(c)
    BY <2>1 DEF CallOK, AtInstance, Forgetting
  <2>4. CASE Save(call[th].id, WithStatus(Seen(th), "failed"))
    <3>1. WithStatus(Seen(th), "failed") \in Record /\ WithStatus(Seen(th), "failed").status # "absent"
      BY <1>2, CopyIs
    <3> QED  BY <1>1, <1>2, <2>1, <2>2, <2>3, <2>4, <3>1, CallSaves
  <2>5. CASE call[th].pc = "forgetReplica" /\ Delete(call[th].id)
    <3>1. UNCHANGED <<docker, monitor, spent>> /\ failures' = failures
      BY <2>2 DEF health
    <3> QED  BY <1>1, <2>1, <2>2, <2>3, <2>5, <3>1, CallForgets DEF Forgetting
  <2> QED  BY <1>3, <2>4, <2>5 DEF ReplicaMark
<1>4. CASE ReplicaSave(th)
  <2>1. /\ call[th].pc = "saveReplica" /\ Save(call[th].id, Seen(th)) /\ Step(th, "startReplica")
        /\ UNCHANGED <<docker, lock, health, spent>>
    BY <1>4 DEF ReplicaSave
  <2>2. Seen(th) \in Record /\ Seen(th).status # "absent"
    BY <1>1, <1>2, <2>1, CopyIs DEF CallOK, Seen
  <2>3. "startReplica" \in CallPhase /\ "startReplica" \notin Forgetting \union {"check", "touchSave", "saveReplica"}
    BY DEF CallPhase, Forgetting
  <2> QED  BY <1>2, <2>1, <2>2, <2>3, SavesInv
<1>5. CASE ReplicaSaveHealthy(th)
  <2> DEFINE c == [call[th] EXCEPT !.pc = "probe", !.id = NoId, !.kept = @ \union {call[th].id}]
  <2>1. c \in CallState /\ c.pc = "probe"
    BY <1>1, <1>2 DEF CallState, CallPhase
  <2>2. /\ call' = [call EXCEPT ![th] = c] /\ UNCHANGED <<docker, health, spent>> /\ lock' = lock
        /\ Save(call[th].id, WithStatus(Seen(th), "healthy"))
    BY <1>1, <1>5 DEF ReplicaSaveHealthy, TypeOK
  <2> HIDE DEF c
  <2>3. CallOK(c)
    BY <2>1 DEF CallOK, AtInstance, Forgetting
  <2>4. WithStatus(Seen(th), "healthy") \in Record /\ WithStatus(Seen(th), "healthy").status # "absent"
    BY <1>2, CopyIs
  <2> QED  BY <1>1, <1>2, <2>1, <2>2, <2>3, <2>4, CallSaves
<1> QED  BY <1>3, <1>4, <1>5

LEMMA ReplicaCreateInv ==
  ASSUME Inv, NEW th \in Caller, ReplicaCreate(th)
  PROVE  Inv'
<1>1. /\ call[th].pc = "probe" /\ call[th].pc \notin Creating /\ call[th] \in CallState
      /\ UNCHANGED <<record, health, spent>> /\ TypeOK
  BY CallTypes DEF ReplicaCreate, Creating, Inv
<1>2. CASE CreateRaises(FreeName(th)) /\ Raise(th)
  <2>1. UNCHANGED docker
    BY <1>2 DEF CreateRaises
  <2> QED  BY <1>1, <1>2, <2>1, RaisedInv
<1>3. ASSUME NEW i \in Id, DockerCreates(i, FreeName(th)), UNCHANGED lock,
             call' = [call EXCEPT ![th].pc = "saveReplica", ![th].id = i,
                        ![th].seen[i] = [status |-> "created", fresh |-> TRUE]]
      PROVE  Inv'
  <2> DEFINE rec == [status |-> "created", fresh |-> TRUE]
             c == [call[th] EXCEPT !.pc = "saveReplica", !.id = i, !.seen[i] = rec]
  <2>1. rec \in Record /\ rec.status # "absent"
    BY DEF Record
  <2>2. call' = [call EXCEPT ![th] = c]
    <3>1. call \in [Caller -> CallState]
      BY <1>1 DEF TypeOK
    <3>2. call' = [call EXCEPT ![th].pc = "saveReplica", ![th].id = i, ![th].seen[i] = rec]
      BY <1>3
    <3> HIDE DEF rec
    <3> QED  BY <3>1, <3>2 DEF CallState
  <2> HIDE DEF rec
  <2>3. c \in CallState /\ c.pc = "saveReplica" /\ c.id = i /\ c.seen[i] = rec
    BY <1>1, <2>1 DEF CallState, CallPhase
  <2> HIDE DEF c
  <2>4. CallOK(c) /\ c.pc \in Creating
    BY <2>1, <2>3 DEF CallOK, Forgetting, Creating
  <2>5. UNCHANGED <<record, lock, health, spent>> /\ FreeName(th) \in Nat
    BY <1>1, <1>3, FreeNameExists
  <2> QED  BY <1>1, <1>3, <2>2, <2>3, <2>4, <2>5, CallCreates
<1> QED  BY <1>2, <1>3 DEF ReplicaCreate

\* The records that are deleted, with a container that is gone.
LEMMA ForgetsInv ==
  ASSUME Inv, NEW th \in Caller, EnsureForget(th) \/ ReplicaUndoRecord(th) \/ RemoveRecord(th)
  PROVE  Inv'
<1>1. lock \in Caller \union {NoThread} /\ call[th] \in CallState
  BY CallTypes
<1>2. CASE EnsureForget(th)
  <2>1. /\ UNCHANGED <<docker, monitor, spent>> /\ failures' = failures /\ lock' = lock
        /\ call[th].pc \in Forgetting /\ Delete(call[th].id)
        /\ call' = [call EXCEPT ![th] = [IdleCall EXCEPT !.pc = "create"]]
    BY <1>2 DEF EnsureForget, Forgetting, health
  <2>2. CallOK([IdleCall EXCEPT !.pc = "create"])
    BY IdleTyped, ResetOK
  <2> QED  BY <1>1, <2>1, <2>2, IdleTyped, CallForgets
<1>3. CASE ReplicaUndoRecord(th)
  <2>1. /\ UNCHANGED <<docker, monitor, spent>> /\ failures' = failures
        /\ call[th].pc \in Forgetting /\ Delete(call[th].id) /\ Raise(th)
    BY <1>3 DEF ReplicaUndoRecord, Forgetting, health
  <2>2. PICK c \in CallState : call' = [call EXCEPT ![th] = c] /\ CallOK(c) /\ lock' \in Caller \union {NoThread}
    BY <2>1, RaiseIs
  <2> QED  BY <2>1, <2>2, CallForgets
<1>4. CASE RemoveRecord(th)
  <2> DEFINE c == [IdleCall EXCEPT !.pc = "remove", !.todo = call[th].todo \ {call[th].id}]
  <2>1. c \in CallState /\ c.pc = "remove"
    BY <1>1, IdleTyped DEF CallState, CallPhase
  <2>2. /\ UNCHANGED <<docker, monitor, spent>> /\ failures' = [failures EXCEPT ![call[th].id] = 0] /\ lock' = lock
        /\ call[th].pc \in Forgetting /\ Delete(call[th].id) /\ call' = [call EXCEPT ![th] = c]
    BY <1>4 DEF RemoveRecord, Forgetting, Through
  <2> HIDE DEF c
  <2>3. CallOK(c)
    BY <2>1, ResetOK
  <2> QED  BY <1>1, <2>1, <2>2, <2>3, CallForgets
<1> QED  BY <1>2, <1>3, <1>4

LEMMA CallForInv ==
  ASSUME Inv, NEW th \in Caller,
         NEW pc \in {"stop", "remove", "touch"}, NEW todo \in SUBSET Id,
         call' = [call EXCEPT ![th] = [IdleCall EXCEPT !.pc = pc, !.todo = todo]],
         call[th].pc \notin Creating,
         UNCHANGED <<docker, record, lock, health>>, spent' \in [DOMAIN Limit -> Nat]
  PROVE  Inv'
<1> DEFINE c == [IdleCall EXCEPT !.pc = pc, !.todo = todo]
<1>1. c \in CallState /\ c.pc = pc
  BY IdleTyped DEF CallState, CallPhase
<1>2. call' = [call EXCEPT ![th] = c]
  OBVIOUS
<1> HIDE DEF c
<1>3. CallOK(c)
  BY <1>1, ResetOK
<1>4. lock' \in Caller \union {NoThread}
  BY CallTypes
<1> QED  BY <1>1, <1>2, <1>3, <1>4, CallGoesOn

LEMMA CallsInv ==
  ASSUME Inv,
         \/ \E th \in Thread : Stop(th) \/ Remove(th) \/ Touch(th) \/ Reclaim(th)
         \/ ReclaimLoop
  PROVE  Inv'
<1>1. Thread \subseteq Caller /\ Reclaimer \in Caller /\ Known \subseteq Id /\ Idle \subseteq Id
  BY DEF Caller, Known, Idle, Healthy
<1>2. ASSUME NEW th \in Thread, NEW kind, NEW pc \in {"stop", "remove", "touch"}, NEW todo \in SUBSET Id,
             CallFor(th, kind, pc, todo)
      PROVE  Inv'
  <2>1. spent \in [DOMAIN Limit -> Nat]
    BY DEF Inv, TypeOK
  <2>2. spent' \in [DOMAIN Limit -> Nat]
    BY <1>2, <2>1, SpendTyped, LimitTyped DEF CallFor
  <2>3. /\ call' = [call EXCEPT ![th] = [IdleCall EXCEPT !.pc = pc, !.todo = todo]]
        /\ call[th].pc \notin Creating /\ UNCHANGED <<docker, record, lock, health>>
    BY <1>2 DEF CallFor, Creating
  <2> QED  BY <1>1, <2>2, <2>3, CallForInv
<1>3. ASSUME NEW th \in Thread, Stop(th) PROVE Inv'
  BY <1>1, <1>2, <1>3 DEF Stop
<1>4. ASSUME NEW th \in Thread, Remove(th) PROVE Inv'
  BY <1>1, <1>2, <1>4 DEF Remove
<1>5. ASSUME NEW th \in Thread, Touch(th) PROVE Inv'
  BY <1>1, <1>2, <1>5 DEF Touch
<1>6. ASSUME NEW th \in Thread, Reclaim(th) PROVE Inv'
  BY <1>1, <1>2, <1>6 DEF Reclaim
<1>7. ASSUME ReclaimLoop PROVE Inv'
  <2>1. spent' \in [DOMAIN Limit -> Nat]
    BY <1>7 DEF ReclaimLoop, Inv, TypeOK
  <2>2. /\ call' = [call EXCEPT ![Reclaimer] = [IdleCall EXCEPT !.pc = "stop", !.todo = Idle]]
        /\ call[Reclaimer].pc \notin Creating /\ UNCHANGED <<docker, record, lock, health>>
    BY <1>7 DEF ReclaimLoop, Creating
  <2> QED  BY <1>1, <2>1, <2>2, CallForInv
<1> QED  BY <1>3, <1>4, <1>5, <1>6, <1>7

LEMMA ReadNextInv ==
  ASSUME Inv, NEW th \in Caller,
         NEW from \in {"stop", "remove", "touch"}, NEW to \in {"stopDocker", "removeDocker", "touchSave"},
         ReadNext(th, from, to)
  PROVE  Inv'
<1>1. call[th] \in CallState /\ lock \in Caller \union {NoThread} /\ spent \in [DOMAIN Limit -> Nat]
  BY CallTypes
<1>2. UNCHANGED <<docker, record, health, spent>> /\ spent' = spent /\ call[th].pc \notin Creating
  BY DEF ReadNext, Creating
<1>3. CASE Answer(th)
  BY <1>1, <1>2, <1>3, AnswerIs, IdleTyped, CallGoesOn
<1>4. CASE Raise(th)
  BY <1>2, <1>4, RaisedInv
<1>5. ASSUME NEW i \in Known, Reads(th, to, i), lock' = lock PROVE Inv'
  <2> DEFINE c == [call[th] EXCEPT !.pc = to, !.id = i, !.seen[i] = record[i]]
  <2>1. i \in Id /\ record[i] \in Record /\ record[i].status # "absent"
    BY CallTypes DEF Known
  <2>2. c \in CallState /\ c.pc = to /\ c.id = i /\ c.seen[i] = record[i]
    BY <1>1, <2>1 DEF CallState, CallPhase
  <2>3. call' = [call EXCEPT ![th] = c]
    BY <1>5 DEF Reads
  <2> HIDE DEF c
  <2>4. CallOK(c)
    BY <2>1, <2>2 DEF CallOK, Forgetting
  <2> QED  BY <1>1, <1>2, <1>5, <2>2, <2>3, <2>4, CallGoesOn
<1> QED  BY <1>3, <1>4, <1>5 DEF ReadNext

LEMMA StopSaveInv ==
  ASSUME Inv, NEW th \in Caller, StopSave(th)
  PROVE  Inv'
<1>1. call[th] \in CallState /\ lock \in Caller \union {NoThread} /\ CallOK(call[th])
  BY CallTypes
<1>2. /\ call[th].pc = "stopSave" /\ Save(call[th].id, WithStatus(Seen(th), "stopped")) /\ Through(th, "stop")
      /\ UNCHANGED <<docker, health, spent>> /\ lock' = lock
  BY DEF StopSave
<1>3. call[th].id \in Id
  BY <1>1, <1>2 DEF CallOK, AtInstance
<1>4. WithStatus(Seen(th), "stopped") \in Record /\ WithStatus(Seen(th), "stopped").status # "absent"
  BY <1>3, CopyIs
<1> DEFINE c == [IdleCall EXCEPT !.pc = "stop", !.todo = call[th].todo \ {call[th].id}]
<1>5. c \in CallState /\ c.pc = "stop"
  BY <1>1, IdleTyped DEF CallState, CallPhase
<1>6. call' = [call EXCEPT ![th] = c]
  BY <1>2 DEF Through
<1> HIDE DEF c
<1>7. CallOK(c)
  BY <1>5, ResetOK
<1> QED  BY <1>1, <1>2, <1>3, <1>4, <1>5, <1>6, <1>7, CallSaves

LEMMA CallStepInv ==
  ASSUME Inv, NEW th \in Caller, CallStep(th)
  PROVE  Inv'
<1>1. CASE EnsureStep(th)
  BY <1>1, EnsureInv, EnsureSavesInv, ForgetsInv, EnsureCreateInv, DockerStepsInv, AwaitInv DEF EnsureStep
<1>2. CASE ReplicasStep(th)
  BY <1>2, ReplicasInv, ReplicaProbeInv, ReplicaSavesInv, ReplicaCreateInv, DockerStepsInv, AwaitInv, ForgetsInv
     DEF ReplicasStep
<1>3. CASE InstanceStep(th)
  <2>1. CASE StopRead(th)
    BY <2>1, ReadNextInv DEF StopRead
  <2>2. CASE RemoveRead(th)
    BY <2>2, ReadNextInv DEF RemoveRead
  <2>3. CASE TouchRead(th)
    BY <2>3, ReadNextInv DEF TouchRead
  <2> QED  BY <1>3, <2>1, <2>2, <2>3, StopSaveInv, DockerStepsInv, ForgetsInv, EnsureSavesInv DEF InstanceStep
<1> QED  BY <1>1, <1>2, <1>3 DEF CallStep

(***************************************************************************)
(* The health monitor and the environment leave every call where it is.    *)
(***************************************************************************)

LEMMA OthersMove ==
  ASSUME Inv, TypeOK', MonitorOK', call' = call, Known \subseteq Known',
         \A i \in Id : Exists(i)' => Exists(i)
  PROVE  Inv'
<1>1. ASSUME NEW o \in Caller PROVE CallOK(call[o])'
  <2>1. CallOK(call[o])
    BY DEF Inv
  <2>2. call[o].pc \in Forgetting => call[o].id \in Id
    BY <2>1 DEF CallOK, Forgetting, AtInstance
  <2>3. call[o].pc \in Forgetting /\ ~Exists(call[o].id) => ~Exists(call[o].id)'
    BY <2>2 DEF Exists
  <2> QED  BY <2>1, <2>3 DEF CallOK, Exists
<1>2. ContainersAreTracked'
  BY DEF Inv, ContainersAreTracked
<1> QED  BY <1>1, <1>2 DEF Inv

MonitorState == [pc : {"idle", "scan", "stop", "save"}, id : Id \union {NoId},
                 seen : [Id -> Record], todo : SUBSET Id]

\* A step of the monitor that changes no record and no container.
LEMMA MonitorMoves ==
  ASSUME Inv, UNCHANGED <<docker, record, lock, call, spent>>,
         monitor' \in MonitorState, failures' \in [Id -> 0..Threshold], MonitorOK'
  PROVE  Inv'
<1>1. TypeOK'
  BY DEF Inv, TypeOK, docker, MonitorState
<1>2. call' = call /\ Known' = Known /\ \A i \in Id : Exists(i)' <=> Exists(i)
  BY DEF docker, Known, Exists
<1> QED  BY <1>1, <1>2, OthersMove

LEMMA ProbedIs ==
  ASSUME Inv, NEW i \in Id
  PROVE  Probed(i) \in MonitorState /\ Probed(i).pc = monitor.pc /\ Probed(i).id = monitor.id
<1>1. monitor \in MonitorState
  BY DEF Inv, TypeOK, MonitorState
<1>2. NoRecord \in Record
  BY IdleTyped
<1> QED  BY <1>1, <1>2 DEF Probed, MonitorState

LEMMA MonitorScanInv ==
  ASSUME Inv, MonitorList \/ MonitorPasses \/ MonitorCounts \/ MonitorEnd
  PROVE  Inv'
<1>1. /\ monitor \in MonitorState /\ failures \in [Id -> 0..Threshold] /\ record \in [Id -> Record] /\ MonitorOK
      /\ Threshold \in Nat \ {0}
  BY DEF Inv, TypeOK, MonitorState
<1>2. UNCHANGED <<docker, record, lock, call, spent>> /\ monitor.pc \in {"idle", "scan"}
  BY DEF MonitorList, MonitorPasses, MonitorCounts, MonitorEnd
<1>3. \A i \in Id : failures[i] # Threshold
  BY <1>1, <1>2 DEF MonitorOK
<1>4. CASE MonitorList
  <2>1. failures' \in [Id -> 0..Threshold] /\ \A i \in Id : failures'[i] # Threshold
    BY <1>1, <1>3, <1>4 DEF MonitorList
  <2>2. monitor' \in MonitorState /\ monitor'.pc = "scan"
    <3>1. Healthy \in SUBSET Id /\ NoRecord \in Record
      BY IdleTyped DEF Healthy
    <3> QED  BY <1>1, <1>4, <3>1 DEF MonitorList, MonitorState
  <2> QED  BY <1>2, <2>1, <2>2, MonitorMoves DEF MonitorOK
<1>5. CASE MonitorPasses
  <2>1. PICK i \in monitor.todo : failures' = [failures EXCEPT ![i] = 0] /\ monitor' = Probed(i)
    BY <1>5 DEF MonitorPasses
  <2>2. i \in Id /\ monitor.pc = "scan"
    BY <1>1, <1>5 DEF MonitorPasses, MonitorState
  <2>3. monitor' \in MonitorState /\ monitor'.pc = "scan"
    BY <2>1, <2>2, ProbedIs
  <2>4. failures' \in [Id -> 0..Threshold] /\ \A j \in Id : failures'[j] # Threshold
    BY <1>1, <1>3, <2>1, <2>2
  <2> QED  BY <1>2, <2>3, <2>4, MonitorMoves DEF MonitorOK
<1>6. CASE MonitorCounts
  <2>1. PICK i \in monitor.todo :
          /\ failures' = [failures EXCEPT ![i] = @ + 1]
          /\ monitor' = IF failures[i] + 1 < Threshold THEN Probed(i)
                        ELSE [monitor EXCEPT !.pc = "stop", !.id = i, !.todo = @ \ {i}]
    BY <1>6 DEF MonitorCounts
  <2>2. i \in Id /\ monitor.pc = "scan"
    BY <1>1, <1>6 DEF MonitorCounts, MonitorState
  <2>3. failures[i] \in Nat /\ failures[i] < Threshold
    <3>1. failures[i] \in 0..Threshold /\ failures[i] # Threshold
      BY <1>1, <1>3, <2>2
    <3> QED  BY <1>1, <3>1
  <2>4. failures' \in [Id -> 0..Threshold] /\ \A j \in Id \ {i} : failures'[j] # Threshold
    BY <1>1, <1>3, <2>1, <2>2, <2>3
  <2>5. CASE failures[i] + 1 < Threshold
    <3>1. monitor' \in MonitorState /\ monitor'.pc = "scan"
      BY <2>1, <2>2, <2>5, ProbedIs
    <3>2. failures'[i] # Threshold
      BY <1>1, <2>1, <2>2, <2>3, <2>5
    <3> QED  BY <1>2, <2>4, <3>1, <3>2, MonitorMoves DEF MonitorOK
  <2>6. CASE ~(failures[i] + 1 < Threshold)
    <3>1. monitor' = [monitor EXCEPT !.pc = "stop", !.id = i, !.todo = @ \ {i}]
      BY <2>1, <2>6
    <3>2. monitor' \in MonitorState /\ monitor'.pc = "stop" /\ monitor'.id = i
      BY <1>1, <2>2, <3>1 DEF MonitorState
    <3> QED  BY <1>2, <2>2, <2>4, <3>2, MonitorMoves DEF MonitorOK
  <2> QED  BY <2>5, <2>6
<1>7. CASE MonitorEnd
  <2>1. failures' = failures /\ monitor' \in MonitorState /\ monitor'.pc = "idle"
    BY <1>7, IdleTyped DEF MonitorEnd, IdleMonitor, MonitorState
  <2> QED  BY <1>1, <1>2, <1>3, <2>1, MonitorMoves DEF MonitorOK
<1> QED  BY <1>4, <1>5, <1>6, <1>7

LEMMA MonitorStopInv ==
  ASSUME Inv, MonitorStop \/ MonitorSave
  PROVE  Inv'
<1>1. /\ monitor \in MonitorState /\ failures \in [Id -> 0..Threshold] /\ record \in [Id -> Record] /\ MonitorOK
      /\ Threshold \in Nat \ {0} /\ TypeOK
  BY DEF Inv, TypeOK, MonitorState
<1>2. monitor.pc \in {"stop", "save"} /\ monitor.id \in Id
  BY <1>1 DEF MonitorStop, MonitorSave, MonitorOK
<1>3. CASE MonitorStop
  <2>1. monitor' = [monitor EXCEPT !.pc = "save"] /\ UNCHANGED <<record, lock, call, failures, spent>>
    BY <1>3 DEF MonitorStop
  <2>2. monitor' \in MonitorState /\ monitor'.pc = "save" /\ monitor'.id = monitor.id
    BY <1>1, <2>1 DEF MonitorState
  <2>3. /\ container' \in [Id -> {"none", "created", "running", "exited"}] /\ name' = name
        /\ \A i \in Id : Exists(i)' => Exists(i)
    <3>1. CASE DockerOk(monitor.id, "exited")
      BY <1>1, <1>2, <3>1 DEF DockerOk, TypeOK, Exists
    <3>2. CASE DockerRaises(monitor.id)
      BY <1>1, <3>2 DEF DockerRaises, docker, TypeOK, Exists
    <3> QED  BY <1>3, <3>1, <3>2 DEF MonitorStop
  <2>4. TypeOK'
    BY <1>1, <2>1, <2>2, <2>3 DEF TypeOK, MonitorState
  <2>5. MonitorOK' /\ Known' = Known
    BY <1>1, <1>2, <2>1, <2>2 DEF MonitorOK, Known
  <2> QED  BY <2>1, <2>3, <2>4, <2>5, OthersMove
<1>4. CASE MonitorSave
  <2> DEFINE rec == WithStatus(monitor.seen[monitor.id], "failed")
  <2>1. /\ record' = [record EXCEPT ![monitor.id] = rec] /\ failures' = [failures EXCEPT ![monitor.id] = 0]
        /\ monitor' = [Probed(monitor.id) EXCEPT !.pc = "scan", !.id = NoId]
        /\ UNCHANGED <<docker, lock, call, spent>>
    BY <1>4 DEF MonitorSave, Save
  <2>2. rec \in Record /\ rec.status # "absent"
    BY <1>1, <1>2 DEF MonitorState, Record, WithStatus
  <2>3. monitor' \in MonitorState /\ monitor'.pc = "scan"
    <3> DEFINE probed == Probed(monitor.id)
    <3>1. probed \in MonitorState /\ monitor' = [probed EXCEPT !.pc = "scan", !.id = NoId]
      BY <1>2, <2>1, ProbedIs
    <3> HIDE DEF probed
    <3> QED  BY <3>1 DEF MonitorState
  <2> HIDE DEF rec
  <2>4. failures' \in [Id -> 0..Threshold] /\ \A i \in Id : failures'[i] # Threshold
    BY <1>1, <1>2, <2>1 DEF MonitorOK
  <2>5. record' \in [Id -> Record] /\ Known \subseteq Known'
    BY <1>1, <1>2, <2>1, <2>2 DEF Known
  <2>6. TypeOK' /\ MonitorOK'
    BY <1>1, <2>1, <2>3, <2>4, <2>5 DEF TypeOK, MonitorState, MonitorOK, docker
  <2>7. call' = call /\ \A i \in Id : Exists(i)' => Exists(i)
    BY <2>1 DEF docker, Exists
  <2> QED  BY <2>5, <2>6, <2>7, OthersMove
<1> QED  BY <1>3, <1>4

LEMMA EnvironmentInv ==
  ASSUME Inv, TimePasses \/ Meddle
  PROVE  Inv'
<1>1. TypeOK /\ MonitorOK
  BY DEF Inv
<1>2. spent' \in [DOMAIN Limit -> Nat]
  BY <1>1, SpendTyped, LimitTyped DEF TimePasses, Meddle, TypeOK
<1>3. CASE TimePasses
  <2>1. record' = [i \in Id |-> [record[i] EXCEPT !.fresh = FALSE]] /\ UNCHANGED <<docker, lock, call, health>>
    BY <1>3 DEF TimePasses
  <2>2. record' \in [Id -> Record] /\ \A i \in Id : record'[i].status = record[i].status
    <3>1. \A i \in Id : record[i] \in Record
      BY <1>1 DEF TypeOK
    <3>2. \A i \in Id : /\ [record[i] EXCEPT !.fresh = FALSE] \in Record
                       /\ [record[i] EXCEPT !.fresh = FALSE].status = record[i].status
      BY <3>1 DEF Record
    <3> QED  BY <2>1, <3>2
  <2>3. TypeOK' /\ MonitorOK' /\ Known' = Known /\ \A i \in Id : Exists(i)' => Exists(i)
    BY <1>1, <1>2, <2>1, <2>2 DEF TypeOK, MonitorOK, Known, Exists, docker, health
  <2> QED  BY <2>1, <2>3, OthersMove
<1>4. CASE Meddle
  <2>1. PICK i \in Id, s \in {"exited", "none"} : Exists(i) /\ DockerOk(i, s)
    BY <1>4 DEF Meddle
  <2>2. UNCHANGED <<record, lock, call, health>>
    BY <1>4 DEF Meddle
  <2>3. /\ container' \in [Id -> {"none", "created", "running", "exited"}] /\ name' = name
        /\ \A j \in Id : Exists(j)' => Exists(j)
    BY <1>1, <2>1 DEF DockerOk, TypeOK, Exists
  <2>4. TypeOK' /\ MonitorOK' /\ Known' = Known
    BY <1>1, <1>2, <2>2, <2>3 DEF TypeOK, MonitorOK, Known, health
  <2> QED  BY <2>2, <2>3, <2>4, OthersMove
<1> QED  BY <1>3, <1>4

\* Whatever was lost with the process, discovery gives every container a record.
LEMMA RestartInv == ASSUME Inv, Restart PROVE Inv'
<1>1. TypeOK
  BY DEF Inv
<1>2. spent' \in [DOMAIN Limit -> Nat]
  BY <1>1, SpendTyped, LimitTyped DEF Restart, TypeOK
<1>3. /\ lock' = NoThread /\ call' = [th \in Caller |-> IdleCall] /\ failures' = [i \in Id |-> 0]
      /\ monitor' = IdleMonitor /\ container' = container /\ name' = name
  BY DEF Restart, docker
<1>4. record' \in [Id -> Record] /\ \A i \in Id : container[i] # "none" => record'[i].status # "absent"
  <2> DEFINE found(i) ==
       CASE container[i] = "none"    -> NoRecord
         [] container[i] = "running" -> [status |-> "healthy", fresh |-> TRUE]
         [] container[i] = "created" -> [status |-> "starting", fresh |-> TRUE]
         [] container[i] = "exited"  -> [status |-> "stopped", fresh |-> TRUE]
  <2>1. record' = [i \in Id |-> found(i)]
    BY DEF Restart
  <2>2. ASSUME NEW i \in Id PROVE found(i) \in Record /\ (container[i] # "none" => found(i).status # "absent")
    <3>1. container[i] \in {"none", "created", "running", "exited"}
      BY <1>1 DEF TypeOK
    <3>2. CASE container[i] = "none"
      BY <3>2, IdleTyped
    <3>3. CASE container[i] = "running"
      BY <3>3 DEF Record
    <3>4. CASE container[i] = "created"
      BY <3>4 DEF Record
    <3>5. CASE container[i] = "exited"
      BY <3>5 DEF Record
    <3> QED  BY <3>1, <3>2, <3>3, <3>4, <3>5
  <2> HIDE DEF found
  <2> QED  BY <2>1, <2>2
<1>5. TypeOK'
  <2>1. monitor' \in MonitorState
    BY <1>3, IdleTyped DEF IdleMonitor, MonitorState
  <2> QED  BY <1>1, <1>2, <1>3, <1>4, <2>1, IdleTyped DEF TypeOK, MonitorState
<1>6. \A th \in Caller : CallOK(call[th])'
  BY <1>3, IdleTyped DEF CallOK, AtInstance, Forgetting
<1>7. MonitorOK'
  <2>1. monitor'.pc = "idle" /\ \A i \in Id : failures'[i] # Threshold
    BY <1>3 DEF IdleMonitor
  <2> QED  BY <2>1 DEF MonitorOK
<1>8. ContainersAreTracked'
  BY <1>3, <1>4 DEF ContainersAreTracked, Exists, Known
<1> QED  BY <1>5, <1>6, <1>7, <1>8 DEF Inv

LEMMA StepInv == ASSUME Inv, [Next]_vars PROVE Inv'
<1>1. Thread \subseteq Caller
  BY DEF Caller
<1>2. CASE \E th \in Thread : Ensure(th)
  BY <1>1, <1>2, EnsureInv
<1>3. CASE \E th \in Thread : \E n \in 0..MaxReplicas : Replicas(th, n)
  BY <1>1, <1>3, ReplicasInv
<1>4. CASE UNCHANGED vars
  <2>1. /\ TypeOK' /\ MonitorOK' /\ call' = call /\ Known' = Known
        /\ \A i \in Id : Exists(i)' => Exists(i)
    BY <1>4 DEF Inv, TypeOK, MonitorOK, Known, Exists, vars
  <2> QED  BY <2>1, OthersMove
<1> QED  BY <1>2, <1>3, <1>4, CallsInv, CallStepInv, MonitorScanInv, MonitorStopInv, EnvironmentInv, RestartInv
         DEF Next, MonitorStep

LEMMA AlwaysInv == Spec => []Inv
<1>1. Init => Inv
  BY InitInv
<1>2. Inv /\ [Next]_vars => Inv'
  BY StepInv
<1> QED  BY <1>1, <1>2, PTL DEF Spec

\* Records, containers, calls and the counts of failures keep their types: no
\* count passes the threshold.
THEOREM InstanceManagerTypeCorrect == Spec => []TypeOK
<1>1. Inv => TypeOK
  BY DEF Inv
<1> QED  BY <1>1, AlwaysInv, PTL

\* Whatever the threads, the loops, restarts and people beside the manager do:
\* with a Docker that works, no container is ever lost from sight.
THEOREM ContainersStayTracked == Spec => []ContainersAreTracked
<1>1. Inv => ContainersAreTracked
  BY DEF Inv
<1> QED  BY <1>1, AlwaysInv, PTL

--------------------------------------------------------------------------
HIDE InstanceManagerAssumption

(***************************************************************************)
(* The lock keeps creations apart.  Beyond Inv: only a call that holds the *)
(* lock is in a phase between creating and removing containers, and so     *)
(* what it has seen of them stays true; a record is healthy only as long   *)
(* as its container is there, or the call that removed it deletes it too.  *)
(***************************************************************************)

\* With a Docker that works and nobody who removes containers beside the lock.
Undisturbed == ~FaultyDocker /\ MaxMeddling = 0 /\ Calls \intersect {"remove", "touch"} = {}

\* The phases without the lock.
Unlocked == {"idle", "dead", "lock", "replicasLock", "stop", "stopDocker", "stopSave"}

\* The instance of the call has a container.
OnContainer == {"check", "touchSave", "saveHealthy", "saveReplica", "saveHealthyReplica"}

\* The call has seen every container there is.
Replicating == {"probe", "markReplica", "forgetReplica", "saveReplica", "startReplica", "awaitReplica",
                "saveHealthyReplica"}

\* The container of the call's instance is removed, its record not yet.
Removing == {"removeRecord", "undoRecord"}

\* c is the progress of th.
NamesKept(c, th) ==
  /\ c.pc \notin Unlocked => lock = th
  /\ c.pc \notin {"touch", "forget"}
  /\ c.pc \in OnContainer => Exists(c.id)
  /\ c.pc \in Replicating => \A i \in Id : Exists(i) => c.seen[i].status # "absent"
  /\ c.pc = "create" => \A i \in Id : ~Exists(i)

HealthyIsThere ==
  \A i \in Id : record[i].status = "healthy" =>
    Exists(i) \/ \E th \in Caller : call[th].pc \in Removing /\ call[th].id = i

NamesInv ==
  /\ Inv
  /\ \A th \in Caller : NamesKept(call[th], th)
  /\ HealthyIsThere

--------------------------------------------------------------------------
LEMMA NamesTypes ==
  ASSUME NamesInv, NEW th \in Caller
  PROVE  /\ Inv /\ TypeOK /\ call[th] \in CallState /\ CallOK(call[th]) /\ NamesKept(call[th], th)
         /\ lock \in Caller \union {NoThread} /\ NoThread \notin Caller
         /\ \A pc \in CallPhase : [call[th] EXCEPT !.pc = pc] \in CallState
<1>1. Inv /\ NamesKept(call[th], th)
  BY DEF NamesInv
<1>2. TypeOK
  BY <1>1 DEF Inv
<1>3. NoThread \notin Caller
  BY Zenon, InstanceManagerAssumption DEF Caller
<1> QED  BY <1>1, <1>2, <1>3, CallTypes

\* The lock is kept for those who hold it.
LockStays(th) == \A o \in Caller \ {th} : lock = o => lock' = o

LEMMA UnlockStays ==
  ASSUME NamesInv, NEW th \in Caller, lock' = lock \/ Unlock(th) \/ (lock = NoThread /\ lock' = th)
  PROVE  LockStays(th)
BY NamesTypes DEF LockStays, Unlock

SameContainers == \A i \in Id : Exists(i)' <=> Exists(i)

LEMMA DockerSame == ASSUME UNCHANGED docker PROVE SameContainers /\ container' = container /\ name' = name
BY DEF docker, SameContainers, Exists

\* Call th moves to c.  Only a call with the lock creates or removes
\* containers, and what another knows of them it knows by the lock.
LEMMA NamesMove ==
  ASSUME NamesInv, Inv', NEW th \in Caller, NEW c, call' = [call EXCEPT ![th] = c],
         LockStays(th), lock = th \/ SameContainers, NamesKept(c, th)',
         \A i \in Id : record'[i].status = "healthy" =>
           \/ Exists(i)'
           \/ c.pc \in Removing /\ c.id = i
           \/ SameContainers /\ record[i].status = "healthy" /\ ~(call[th].pc \in Removing /\ call[th].id = i)
  PROVE  NamesInv'
<1>1. call'[th] = c /\ \A o \in Caller \ {th} : call'[o] = call[o]
  BY NamesTypes DEF TypeOK
<1>2. ASSUME NEW o \in Caller PROVE NamesKept(call[o], o)'
  <2>1. CASE o = th
    BY <1>1, <2>1 DEF NamesKept, Exists
  <2>2. CASE o # th /\ call[o].pc \in Unlocked
    <3>1. call'[o].pc \in Unlocked
      BY <1>1, <2>2
    <3> QED  BY <3>1 DEF NamesKept, Unlocked, OnContainer, Replicating
  <2>3. CASE o # th /\ call[o].pc \notin Unlocked
    <3>1. NamesKept(call[o], o) /\ call'[o] = call[o] /\ lock = o /\ lock' = o
      BY <1>1, <2>3, NamesTypes DEF NamesKept, LockStays
    <3>2. SameContainers
      BY <2>3, <3>1
    <3>3. call[o].pc \in OnContainer => call[o].id \in Id
      BY NamesTypes DEF CallOK, AtInstance, OnContainer
    <3> QED  BY <3>1, <3>2, <3>3 DEF NamesKept, SameContainers, Exists
  <2> QED  BY <2>1, <2>2, <2>3
<1>3. HealthyIsThere'
  <2> SUFFICES ASSUME NEW i \in Id, record'[i].status = "healthy", ~Exists(i)'
               PROVE  \E o \in Caller : call'[o].pc \in Removing /\ call'[o].id = i
    BY DEF HealthyIsThere
  <2>1. CASE c.pc \in Removing /\ c.id = i
    BY <1>1, <2>1
  <2>2. CASE SameContainers /\ record[i].status = "healthy" /\ ~(call[th].pc \in Removing /\ call[th].id = i)
    <3>1. ~Exists(i)
      BY <2>2 DEF SameContainers
    <3>2. PICK o \in Caller : call[o].pc \in Removing /\ call[o].id = i
      BY <2>2, <3>1 DEF NamesInv, HealthyIsThere
    <3> QED  BY <1>1, <2>2, <3>2
  <2> QED  BY <2>1, <2>2
<1> QED  BY <1>2, <1>3 DEF NamesInv

\* It touches neither a record nor a container.
LEMMA NamesGoOn ==
  ASSUME NamesInv, Inv', NEW th \in Caller, NEW c, call' = [call EXCEPT ![th] = c],
         LockStays(th), UNCHANGED <<docker, record>>, call[th].pc \notin Removing, NamesKept(c, th)'
  PROVE  NamesInv'
<1>1. SameContainers /\ record' = record
  BY DockerSame
<1> QED  BY <1>1, NamesMove

\* It goes on to the phase pc, with the lock unless pc does without.
LEMMA NamesStep ==
  ASSUME NamesInv, Inv', NEW th \in Caller, NEW pc \in CallPhase, Step(th, pc),
         LockStays(th), UNCHANGED <<docker, record>>, call[th].pc \notin Removing,
         pc \notin Unlocked => lock' = th,
         pc \notin {"touch", "forget"},
         pc \in OnContainer => Exists(call[th].id),
         pc \in Replicating => call[th].pc \in Replicating,
         pc = "create" => \A i \in Id : ~Exists(i)
  PROVE  NamesInv'
<1>1. PICK c : call' = [call EXCEPT ![th] = c] /\ c.pc = pc /\ c.id = call[th].id /\ c.seen = call[th].seen
  <2> DEFINE d == [call[th] EXCEPT !.pc = pc]
  <2>1. call' = [call EXCEPT ![th] = d] /\ d.pc = pc /\ d.id = call[th].id /\ d.seen = call[th].seen
    BY NamesTypes, StepIs
  <2> HIDE DEF d
  <2> QED  BY <2>1
<1>2. container' = container
  BY DockerSame
<1>3. NamesKept(c, th)'
  BY <1>1, <1>2, NamesTypes DEF NamesKept, Exists
<1> QED  BY <1>1, <1>3, NamesGoOn

\* A call that is over knows nothing.
LEMMA NamesOver ==
  ASSUME NEW c, NEW th, c.pc \in Unlocked
  PROVE  NamesKept(c, th)'
BY DEF NamesKept, Unlocked, OnContainer, Replicating

\* The call ends.
EndsWith(th, c) == c.pc \in Unlocked /\ call' = [call EXCEPT ![th] = c] /\ LockStays(th)

LEMMA NamesEnd ==
  ASSUME NamesInv, NEW th \in Caller, Answer(th) \/ Raise(th)
  PROVE  \E c : EndsWith(th, c)
<1>1. LockStays(th)
  BY UnlockStays DEF Answer, Raise
<1>2. CASE Answer(th)
  <2>1. EndsWith(th, IdleCall)
    BY <1>1, <1>2, IdleTyped DEF Answer, EndsWith, Unlocked
  <2> QED  BY <2>1
<1>3. CASE Raise(th)
  <2> DEFINE c == IF th = Reclaimer THEN [IdleCall EXCEPT !.pc = "dead"] ELSE IdleCall
  <2>1. c.pc \in Unlocked
    BY IdleTyped DEF Unlocked
  <2>2. EndsWith(th, c)
    BY <1>1, <1>3, <2>1 DEF Raise, EndsWith
  <2> QED  BY <2>2
<1> QED  BY <1>2, <1>3

LEMMA NamesEndInv ==
  ASSUME NamesInv, Inv', NEW th \in Caller, Answer(th) \/ Raise(th), UNCHANGED <<docker, record>>,
         call[th].pc \notin Removing
  PROVE  NamesInv'
<1>1. PICK c : EndsWith(th, c)
  BY NamesEnd
<1> QED  BY <1>1, NamesOver, NamesGoOn DEF EndsWith

\* The call saves the record of its instance and goes on to c.
LEMMA NamesSave ==
  ASSUME NamesInv, Inv', NEW th \in Caller, NEW c, call' = [call EXCEPT ![th] = c],
         LockStays(th), UNCHANGED docker, NEW rec, Save(call[th].id, rec), call[th].id \in Id,
         rec.status = "healthy" => Exists(call[th].id) /\ call[th].pc \notin Removing, NamesKept(c, th)'
  PROVE  NamesInv'
<1>1. SameContainers
  BY DockerSame
<1>2. ASSUME NEW i \in Id, record'[i].status = "healthy"
      PROVE  Exists(i)' \/ (record[i].status = "healthy" /\ ~(call[th].pc \in Removing /\ call[th].id = i))
  <2>1. CASE i = call[th].id
    <3>1. record'[i] = rec
      BY <2>1, NamesTypes DEF Save, TypeOK
    <3> QED  BY <1>1, <1>2, <2>1, <3>1 DEF SameContainers
  <2>2. CASE i # call[th].id
    BY <1>2, <2>2, NamesTypes DEF Save, TypeOK
  <2> QED  BY <2>1, <2>2
<1> QED  BY <1>1, <1>2, NamesMove

\* Whoever holds the lock, and has not created a container just now nor removed
\* one, knows: every container has a record, and every healthy record has one.
LEMMA LockHolderSees ==
  ASSUME NamesInv, Undisturbed, NEW th \in Caller, call[th].pc \notin Unlocked
  PROVE  /\ lock = th
         /\ call[th].pc \notin Creating => \A i \in Id : Exists(i) => record[i].status # "absent"
         /\ call[th].pc \notin Removing => \A i \in Id : record[i].status = "healthy" => Exists(i)
<1>1. lock = th
  BY NamesTypes DEF NamesKept
<1>2. ASSUME NEW o \in Caller, call[o].pc \in Creating \union Removing PROVE o = th
  <2>1. call[o].pc \notin Unlocked
    BY <1>2 DEF Creating, Removing, Unlocked
  <2> QED  BY <1>1, <2>1, NamesTypes DEF NamesKept
<1>3. ASSUME call[th].pc \notin Creating, NEW i \in Id, Exists(i) PROVE record[i].status # "absent"
  <2>1. ~FaultyDocker
    BY DEF Undisturbed
  <2>2. ContainersAreTracked
    BY NamesTypes DEF Inv
  <2>3. i \in Known \/ \E o \in Caller : call[o].pc \in Creating
    BY <1>3, <2>1, <2>2 DEF ContainersAreTracked, Creating
  <2> QED  BY <1>2, <1>3, <2>3 DEF Known
<1>4. ASSUME call[th].pc \notin Removing, NEW i \in Id, record[i].status = "healthy" PROVE Exists(i)
  BY <1>2, <1>4 DEF NamesInv, HealthyIsThere
<1> QED  BY <1>1, <1>3, <1>4

\* With a Docker that works, what a probe says of a container.
LEMMA VerdictsTell ==
  ASSUME Undisturbed, NEW i
  PROVE  /\ "yes" \in Verdicts(i) \/ "no" \in Verdicts(i) => Exists(i)
         /\ "raise" \in Verdicts(i) => ~Exists(i)
BY DEF Undisturbed, Verdicts

\* A container that is started or stopped is still there.
LEMMA DockerOkSame ==
  ASSUME TypeOK, NEW i \in Id, NEW status \in {"running", "exited"}, DockerOk(i, status)
  PROVE  SameContainers
BY DEF TypeOK, DockerOk, SameContainers, Exists

LEMMA NamesDocker ==
  ASSUME NamesInv, Inv', NEW th \in Caller, NEW pc \in CallPhase, Step(th, pc), UNCHANGED <<lock, record>>,
         NEW status \in {"running", "exited"}, DockerOk(call[th].id, status), call[th].id \in Id,
         call[th].pc \notin Removing, pc \notin Unlocked => lock = th,
         pc \notin {"touch", "forget", "create"} \union OnContainer,
         pc \in Replicating => call[th].pc \in Replicating
  PROVE  NamesInv'
<1>1. PICK c : call' = [call EXCEPT ![th] = c] /\ c.pc = pc /\ c.id = call[th].id /\ c.seen = call[th].seen
  <2> DEFINE d == [call[th] EXCEPT !.pc = pc]
  <2>1. call' = [call EXCEPT ![th] = d] /\ d.pc = pc /\ d.id = call[th].id /\ d.seen = call[th].seen
    BY NamesTypes, StepIs
  <2> HIDE DEF d
  <2> QED  BY <2>1
<1>2. SameContainers /\ LockStays(th) /\ record' = record /\ lock' = lock
  BY DockerOkSame, UnlockStays, NamesTypes
<1>3. NamesKept(c, th)'
  BY <1>1, <1>2, NamesTypes DEF NamesKept, SameContainers, Exists
<1> QED  BY <1>1, <1>2, <1>3, NamesMove

LEMMA EnsureNames ==
  ASSUME NamesInv, Inv', Undisturbed, NEW th \in Caller,
         Ensure(th) \/ EnsureLock(th) \/ EnsureFind(th) \/ EnsureCheck(th)
  PROVE  NamesInv'
<1>1. NamesKept(call[th], th) /\ call[th] \in CallState
  BY NamesTypes
<1>2. CASE Ensure(th)
  <2>1. Step(th, "lock") /\ "lock" \in CallPhase /\ LockStays(th)
    BY <1>2, UnlockStays DEF Ensure, CallPhase
  <2> QED  BY <1>2, <2>1, NamesStep DEF Ensure, Unlocked, OnContainer, Replicating, Removing
<1>3. CASE EnsureLock(th)
  <2>1. Step(th, "find") /\ "find" \in CallPhase /\ LockStays(th) /\ lock' = th
    BY <1>3, UnlockStays DEF EnsureLock, CallPhase
  <2> QED  BY <1>3, <2>1, NamesStep DEF EnsureLock, Unlocked, OnContainer, Replicating, Removing
<1>4. CASE EnsureFind(th)
  <2>1. call[th].pc = "find" /\ LockStays(th) /\ UNCHANGED <<docker, record>> /\ lock' = lock
    BY <1>4, UnlockStays DEF EnsureFind
  <2>2. /\ lock = th /\ call[th].pc \notin Removing
        /\ \A i \in Id : Exists(i) => record[i].status # "absent"
        /\ \A i \in Id : record[i].status = "healthy" => Exists(i)
    BY <2>1, LockHolderSees DEF Unlocked, Creating, Removing
  <2>3. CASE Known = {} /\ Step(th, "create")
    <3>1. \A i \in Id : ~Exists(i)
      BY <2>2, <2>3 DEF Known
    <3> QED  BY <2>1, <2>2, <2>3, <3>1, NamesStep DEF CallPhase, OnContainer, Replicating
  <2>4. ASSUME NEW i \in Id, NEW pc \in {"check", "starting"}, Reads(th, pc, i), pc = "check" => i \in Healthy
        PROVE  NamesInv'
    <3>1. PICK c : call' = [call EXCEPT ![th] = c] /\ c.pc = pc /\ c.id = i
      <4> DEFINE d == [call[th] EXCEPT !.pc = pc, !.id = i, !.seen[i] = record[i]]
      <4>1. call' = [call EXCEPT ![th] = d] /\ d.pc = pc /\ d.id = i
        BY <1>1, <2>4 DEF Reads, CallState
      <4> HIDE DEF d
      <4> QED  BY <4>1
    <3>2. container' = container /\ (pc = "check" => Exists(i))
      BY <2>1, <2>2, <2>4, DockerSame DEF Healthy
    <3>3. NamesKept(c, th)'
      BY <2>1, <2>2, <2>4, <3>1, <3>2 DEF NamesKept, Exists, Replicating, OnContainer
    <3> QED  BY <2>1, <2>2, <3>1, <3>3, NamesGoOn
  <2> QED  BY <1>4, <2>3, <2>4 DEF EnsureFind, Healthy, Known
<1>5. CASE EnsureCheck(th)
  <2>1. call[th].pc = "check" /\ LockStays(th) /\ UNCHANGED <<docker, record>> /\ lock' = lock
    BY <1>5, UnlockStays DEF EnsureCheck
  <2>2. lock = th /\ call[th].pc \notin Removing /\ Exists(call[th].id)
    BY <1>1, <2>1 DEF Unlocked, Removing, NamesKept, OnContainer
  <2>3. ASSUME NEW pc \in {"touchSave", "markFailed"}, Step(th, pc) PROVE NamesInv'
    BY <2>1, <2>2, <2>3, NamesStep DEF CallPhase, Replicating
  <2>4. ~("raise" \in Verdicts(call[th].id))
    BY <2>2, VerdictsTell
  <2> QED  BY <1>5, <2>3, <2>4 DEF EnsureCheck
<1> QED  BY <1>2, <1>3, <1>4, <1>5

LEMMA EnsureSavesNames ==
  ASSUME NamesInv, Inv', Undisturbed, NEW th \in Caller,
         \/ TouchSave(th) \/ EnsureMarkFailed(th) \/ EnsureSaveCreated(th) \/ EnsureSaveStarting(th)
         \/ EnsureSaveHealthy(th) \/ EnsureSaveFailed(th) \/ EnsureForget(th)
  PROVE  NamesInv'
<1>1. NamesKept(call[th], th) /\ call[th] \in CallState /\ CallOK(call[th]) /\ Inv
  BY NamesTypes
<1>2. call[th].pc # "forget"
  BY <1>1 DEF NamesKept
<1>3. call[th].id \in Id /\ call[th].pc \notin Unlocked
  BY <1>1, <1>2 DEF TouchSave, EnsureMarkFailed, EnsureSaveCreated, EnsureSaveStarting, EnsureSaveHealthy,
              EnsureSaveFailed, EnsureForget, CallOK, AtInstance, Unlocked
<1>4. lock = th
  BY <1>3, LockHolderSees
<1>5. ASSUME NEW rec, Save(call[th].id, rec), rec.status = "healthy" => call[th].pc \in OnContainer,
             Answer(th) \/ Raise(th), UNCHANGED docker
      PROVE  NamesInv'
  <2>1. PICK c : EndsWith(th, c)
    BY <1>5, NamesEnd
  <2>2. NamesKept(c, th)'
    BY <2>1, NamesOver DEF EndsWith
  <2>3. rec.status = "healthy" => Exists(call[th].id) /\ call[th].pc \notin Removing
    BY <1>1, <1>5 DEF NamesKept, OnContainer, Removing
  <2> QED  BY <1>3, <1>5, <2>1, <2>2, <2>3, NamesSave DEF EndsWith
<1>6. ASSUME NEW rec, Save(call[th].id, rec), rec.status # "healthy", NEW c, call' = [call EXCEPT ![th] = c],
             c.pc \in {"starting", "start"}, UNCHANGED <<docker, lock>>
      PROVE  NamesInv'
  <2>1. NamesKept(c, th)' /\ LockStays(th)
    BY <1>4, <1>6, UnlockStays DEF NamesKept, OnContainer, Replicating
  <2> QED  BY <1>3, <1>6, <2>1, NamesSave
<1>7. CASE TouchSave(th)
  BY <1>5, <1>7 DEF TouchSave, OnContainer
<1>8. CASE EnsureSaveHealthy(th)
  BY <1>5, <1>8 DEF EnsureSaveHealthy, OnContainer
<1>9. WithStatus(Seen(th), "failed").status # "healthy" /\ WithStatus(Seen(th), "starting").status # "healthy"
  <2>1. Seen(th) \in Record
    BY <1>1, <1>3, CopyIs
  <2> QED  BY <2>1 DEF WithStatus, Record
<1>10. CASE EnsureSaveFailed(th)
  BY <1>5, <1>9, <1>10 DEF EnsureSaveFailed
<1>11. ASSUME NEW pc \in {"starting", "start"}, Step(th, pc)
       PROVE  \E c : call' = [call EXCEPT ![th] = c] /\ c.pc \in {"starting", "start"}
  <2> DEFINE d == [call[th] EXCEPT !.pc = pc]
  <2>1. call' = [call EXCEPT ![th] = d] /\ d.pc = pc
    <3>1. pc \in CallPhase
      BY DEF CallPhase
    <3> QED  BY <1>1, <1>11, <3>1, StepIs
  <2> HIDE DEF d
  <2> QED  BY <2>1
<1>12. CASE EnsureMarkFailed(th)
  BY <1>6, <1>9, <1>11, <1>12 DEF EnsureMarkFailed
<1>13. CASE EnsureSaveStarting(th)
  BY <1>6, <1>9, <1>11, <1>13 DEF EnsureSaveStarting
<1>14. CASE EnsureSaveCreated(th)
  <2> DEFINE rec == [status |-> "created", fresh |-> TRUE]
             d == [call[th] EXCEPT !.pc = "starting", !.seen[call[th].id] = rec]
  <2>1. Save(call[th].id, rec) /\ rec.status # "healthy" /\ UNCHANGED <<docker, lock>>
        /\ call' = [call EXCEPT ![th] = d] /\ d.pc = "starting"
    BY <1>1, <1>14 DEF EnsureSaveCreated, CallState
  <2> HIDE DEF d, rec
  <2>2. \E c : call' = [call EXCEPT ![th] = c] /\ c.pc \in {"starting", "start"}
    BY <2>1
  <2> QED  BY <1>6, <2>1, <2>2
<1> QED  BY <1>2, <1>7, <1>8, <1>10, <1>12, <1>13, <1>14 DEF EnsureForget

\* A container that is created is the only thing that changes.
LEMMA CreatedOnly ==
  ASSUME TypeOK, NEW i \in Id, NEW n, DockerCreates(i, n)
  PROVE  \A j \in Id : Exists(j)' <=> Exists(j) \/ j = i
BY DEF TypeOK, DockerCreates, Exists

LEMMA CreateNames ==
  ASSUME NamesInv, Inv', Undisturbed, NEW th \in Caller, EnsureCreate(th) \/ ReplicaCreate(th)
  PROVE  NamesInv'
<1>1. NamesKept(call[th], th) /\ call[th] \in CallState /\ TypeOK
  BY NamesTypes
<1>2. call[th].pc \in {"create", "probe"} /\ record' = record
  BY DEF EnsureCreate, ReplicaCreate
<1>3. /\ lock = th /\ call[th].pc \notin Removing
      /\ \A i \in Id : record[i].status = "healthy" => Exists(i)
  BY <1>2, LockHolderSees DEF Unlocked, Removing
<1>4. CASE Raise(th) /\ UNCHANGED docker
  BY <1>2, <1>3, <1>4, NamesEndInv
<1>5. ASSUME NEW i \in Id, NEW n, DockerCreates(i, n), UNCHANGED lock, NEW c, call' = [call EXCEPT ![th] = c],
             c.pc \in {"saveCreated", "saveReplica"}, c.id = i,
             c.pc = "saveReplica" => /\ call[th].pc = "probe" /\ c.seen[i].status # "absent"
                                     /\ \A j \in Id \ {i} : c.seen[j] = call[th].seen[j]
      PROVE  NamesInv'
  <2>1. \A j \in Id : Exists(j)' <=> Exists(j) \/ j = i
    BY <1>1, <1>5, CreatedOnly
  <2>2. LockStays(th)
    BY <1>5, UnlockStays
  <2>3. NamesKept(c, th)'
    <3>1. c.pc \in OnContainer => Exists(i)'
      BY <2>1
    <3>2. c.pc \in Replicating => \A j \in Id : Exists(j)' => c.seen[j].status # "absent"
      <4>1. c.pc \in Replicating => c.pc = "saveReplica"
        BY <1>5 DEF Replicating
      <4>2. call[th].pc = "probe" => \A j \in Id : Exists(j) => call[th].seen[j].status # "absent"
        BY <1>1 DEF NamesKept, Replicating
      <4> QED  BY <1>5, <2>1, <4>1, <4>2
    <3> QED  BY <1>3, <1>5, <3>1, <3>2 DEF NamesKept, Exists
  <2> QED  BY <1>2, <1>3, <1>5, <2>1, <2>2, <2>3, NamesMove
<1>6. CASE EnsureCreate(th)
  <2>1. ASSUME NEW i \in Id, DockerCreates(i, 0), UNCHANGED lock,
               call' = [call EXCEPT ![th].pc = "saveCreated", ![th].id = i]
        PROVE  NamesInv'
    <3> DEFINE d == [call[th] EXCEPT !.pc = "saveCreated", !.id = i]
    <3>1. call' = [call EXCEPT ![th] = d] /\ d.pc = "saveCreated" /\ d.id = i
      BY <1>1, <2>1 DEF CallState
    <3> HIDE DEF d
    <3>2. PICK c : call' = [call EXCEPT ![th] = c] /\ c.pc = "saveCreated" /\ c.id = i
      BY <3>1
    <3> QED  BY <1>5, <2>1, <3>2
  <2> QED  BY <1>4, <1>6, <2>1 DEF EnsureCreate, CreateRaises
<1>7. CASE ReplicaCreate(th)
  <2>1. ASSUME NEW i \in Id, DockerCreates(i, FreeName(th)), UNCHANGED lock,
               call' = [call EXCEPT ![th].pc = "saveReplica", ![th].id = i,
                        ![th].seen[i] = [status |-> "created", fresh |-> TRUE]]
        PROVE  NamesInv'
    <3> DEFINE d == [call[th] EXCEPT !.pc = "saveReplica", !.id = i,
                                     !.seen[i] = [status |-> "created", fresh |-> TRUE]]
    <3>1. /\ call' = [call EXCEPT ![th] = d] /\ d.pc = "saveReplica" /\ d.id = i
          /\ d.seen[i].status # "absent" /\ \A j \in Id \ {i} : d.seen[j] = call[th].seen[j]
      BY <1>1, <2>1 DEF CallState
    <3> HIDE DEF d
    <3>2. PICK c : /\ call' = [call EXCEPT ![th] = c] /\ c.pc = "saveReplica" /\ c.id = i
                   /\ c.seen[i].status # "absent" /\ \A j \in Id \ {i} : c.seen[j] = call[th].seen[j]
      BY <3>1
    <3>3. call[th].pc = "probe"
      BY <1>7 DEF ReplicaCreate
    <3> QED  BY <1>5, <2>1, <3>2, <3>3
  <2> QED  BY <1>4, <1>7, <2>1 DEF ReplicaCreate, CreateRaises
<1> QED  BY <1>6, <1>7

LEMMA DockerStepsNames ==
  ASSUME NamesInv, Inv', Undisturbed, NEW th \in Caller,
         \/ EnsureStart(th) \/ EnsureAwait(th) \/ ReplicaStart(th) \/ ReplicaAwait(th) \/ StopDocker(th)
  PROVE  NamesInv'
<1>1. NamesKept(call[th], th) /\ call[th] \in CallState /\ CallOK(call[th])
  BY NamesTypes
<1>2. /\ call[th].pc \in {"start", "await", "startReplica", "awaitReplica", "stopDocker"}
      /\ record' = record
  BY DEF EnsureStart, EnsureAwait, ReplicaStart, ReplicaAwait, StopDocker
<1>3. call[th].id \in Id /\ call[th].pc \notin Removing /\ (call[th].pc # "stopDocker" => lock = th)
  BY <1>1, <1>2, LockHolderSees DEF CallOK, AtInstance, Removing, Unlocked
<1>4. CASE EnsureStart(th) /\ DockerOk(call[th].id, "running") /\ Step(th, "await")
  BY <1>2, <1>3, <1>4, NamesDocker DEF EnsureStart, CallPhase, OnContainer, Replicating
<1>5. CASE ReplicaStart(th) /\ DockerOk(call[th].id, "running") /\ Step(th, "awaitReplica")
  BY <1>2, <1>3, <1>5, NamesDocker DEF ReplicaStart, CallPhase, OnContainer, Replicating
<1>6. CASE StopDocker(th) /\ DockerOk(call[th].id, "exited") /\ Step(th, "stopSave") /\ UNCHANGED lock
  BY <1>2, <1>3, <1>6, NamesDocker DEF StopDocker, CallPhase, OnContainer, Replicating, Unlocked
<1>7. CASE StopDocker(th) /\ DockerRaises(call[th].id) /\ Raise(th)
  BY <1>2, <1>3, <1>7, NamesEndInv DEF DockerRaises
<1>8. ASSUME NEW pc \in {"saveFailed", "undo"}, Step(th, pc), lock' = lock, UNCHANGED docker, call[th].pc # "stopDocker"
      PROVE  NamesInv'
  <2>1. LockStays(th)
    BY <1>8, UnlockStays
  <2> QED  BY <1>2, <1>3, <1>8, <2>1, NamesStep DEF CallPhase, OnContainer, Replicating
<1>9. ASSUME NEW pc \in {"saveHealthy", "saveHealthyReplica"}, Step(th, pc), lock' = lock, UNCHANGED docker,
             "yes" \in Verdicts(call[th].id), call[th].pc # "stopDocker",
             pc = "saveHealthyReplica" => call[th].pc = "awaitReplica"
      PROVE  NamesInv'
  <2>1. LockStays(th) /\ Exists(call[th].id)
    BY <1>9, UnlockStays, VerdictsTell
  <2> QED  BY <1>2, <1>3, <1>9, <2>1, NamesStep DEF CallPhase, Replicating
<1>10. CASE EnsureStart(th) /\ DockerRaises(call[th].id) /\ Step(th, "saveFailed")
  BY <1>8, <1>10 DEF EnsureStart, DockerRaises
<1>11. CASE ReplicaStart(th) /\ DockerRaises(call[th].id) /\ Step(th, "undo")
  BY <1>8, <1>11 DEF ReplicaStart, DockerRaises
<1>12. CASE EnsureAwait(th)
  BY <1>8, <1>9, <1>12 DEF EnsureAwait
<1>13. CASE ReplicaAwait(th)
  BY <1>8, <1>9, <1>13 DEF ReplicaAwait
<1> QED  BY <1>4, <1>5, <1>6, <1>7, <1>10, <1>11, <1>12, <1>13 DEF EnsureStart, ReplicaStart, StopDocker

LEMMA ReplicasNames ==
  ASSUME NamesInv, Inv', Undisturbed, NEW th \in Caller,
         \/ \E n \in 0..MaxReplicas : Replicas(th, n)
         \/ ReplicasLock(th) \/ ReplicasRead(th) \/ ReplicasShrink(th) \/ ReplicaProbe(th)
  PROVE  NamesInv'
<1>1. NamesKept(call[th], th) /\ call[th] \in CallState
  BY NamesTypes
<1>2. /\ call[th].pc \in {"idle", "replicasLock", "replicasRead", "probe"} /\ UNCHANGED <<docker, record>>
      /\ LockStays(th)
  BY UnlockStays DEF Replicas, ReplicasLock, ReplicasRead, ReplicasShrink, ReplicaProbe
<1>3. call[th].pc \notin Removing /\ call[th].pc \notin Creating
  BY <1>2 DEF Removing, Creating
<1>4. CASE ReplicasLock(th)
  <2>1. Step(th, "replicasRead") /\ "replicasRead" \in CallPhase /\ lock' = th
    BY <1>4 DEF ReplicasLock, CallPhase
  <2> QED  BY <1>2, <1>3, <2>1, NamesStep DEF OnContainer, Replicating
<1>5. ASSUME NEW n, Replicas(th, n) PROVE NamesInv'
  <2> DEFINE d == [call[th] EXCEPT !.pc = "replicasLock", !.target = n]
  <2>1. call' = [call EXCEPT ![th] = d] /\ d.pc = "replicasLock"
    BY <1>1, <1>5 DEF Replicas, CallState
  <2> HIDE DEF d
  <2>2. PICK c : call' = [call EXCEPT ![th] = c] /\ c.pc = "replicasLock"
    BY <2>1
  <2>3. NamesKept(c, th)'
    BY <2>2, NamesOver DEF Unlocked
  <2> QED  BY <1>2, <1>3, <2>2, <2>3, NamesGoOn
<1>6. ASSUME lock = th, lock' = lock, NEW c, call' = [call EXCEPT ![th] = c],
             c.pc \in {"remove", "probe", "markReplica", "forgetReplica"},
             c.pc \in Replicating => \A i \in Id : Exists(i) => c.seen[i].status # "absent"
      PROVE  NamesInv'
  <2>1. container' = container
    BY <1>2, DockerSame
  <2>2. NamesKept(c, th)'
    BY <1>6, <2>1 DEF NamesKept, Exists, OnContainer
  <2> QED  BY <1>2, <1>3, <1>6, <2>2, NamesGoOn
<1>7. CASE ReplicasRead(th)
  <2>1. lock = th /\ lock' = lock /\ \A i \in Id : Exists(i) => record[i].status # "absent"
    BY <1>3, <1>7, LockHolderSees DEF ReplicasRead, Unlocked
  <2> DEFINE d == [call[th] EXCEPT !.pc = "probe", !.seen = record, !.todo = Healthy]
  <2>2. call' = [call EXCEPT ![th] = d] /\ d.pc = "probe" /\ d.seen = record
    BY <1>1, <1>7 DEF ReplicasRead, CallState
  <2> HIDE DEF d
  <2>3. PICK c : call' = [call EXCEPT ![th] = c] /\ c.pc = "probe" /\ c.seen = record
    BY <2>2
  <2> QED  BY <1>6, <2>1, <2>3
<1>8. CASE ReplicasShrink(th)
  <2>1. lock = th /\ lock' = lock
    BY <1>8, LockHolderSees DEF ReplicasShrink, Unlocked
  <2>2. PICK extra : call' = [call EXCEPT ![th] = [IdleCall EXCEPT !.pc = "remove", !.todo = extra]]
    BY <1>8 DEF ReplicasShrink
  <2>3. PICK c : call' = [call EXCEPT ![th] = c] /\ c.pc = "remove"
    <3> DEFINE d == [IdleCall EXCEPT !.pc = "remove", !.todo = extra]
    <3>1. d.pc = "remove"
      BY DEF IdleCall
    <3>2. call' = [call EXCEPT ![th] = d]
      BY <2>2
    <3> HIDE DEF d
    <3> QED  BY <3>1, <3>2
  <2> QED  BY <1>6, <2>1, <2>3 DEF Replicating
<1>9. CASE ReplicaProbe(th)
  <2>1. lock = th /\ lock' = lock /\ call[th].pc = "probe"
    BY <1>9, LockHolderSees DEF ReplicaProbe, Unlocked
  <2>2. PICK c : /\ call' = [call EXCEPT ![th] = c] /\ c.pc \in {"probe", "markReplica", "forgetReplica"}
                 /\ c.seen = call[th].seen
    <3>1. PICK i \in call[th].todo :
       LET probed == [call[th] EXCEPT !.todo = @ \ {i}] IN
       \/ /\ "yes" \in Verdicts(i)
          /\ call' = [call EXCEPT ![th] = [probed EXCEPT !.kept = @ \union {i}]]
       \/ /\ "no" \in Verdicts(i)
          /\ call' = [call EXCEPT ![th] = [probed EXCEPT !.pc = "markReplica", !.id = i]]
       \/ /\ "raise" \in Verdicts(i)
          /\ call' = [call EXCEPT ![th] = [probed EXCEPT !.pc = "forgetReplica", !.id = i]]
      BY <1>9 DEF ReplicaProbe
    <3> DEFINE probed == [call[th] EXCEPT !.todo = @ \ {i}]
               yes == [probed EXCEPT !.kept = @ \union {i}]
               no == [probed EXCEPT !.pc = "markReplica", !.id = i]
               raise == [probed EXCEPT !.pc = "forgetReplica", !.id = i]
    <3>2. probed \in CallState /\ probed.pc = "probe" /\ probed.seen = call[th].seen
      BY <1>1, <2>1 DEF CallState
    <3>3. /\ yes.pc = "probe" /\ yes.seen = call[th].seen
          /\ no.pc = "markReplica" /\ no.seen = call[th].seen
          /\ raise.pc = "forgetReplica" /\ raise.seen = call[th].seen
      <4> HIDE DEF probed
      <4> QED  BY <3>2 DEF CallState
    <3>4. call' = [call EXCEPT ![th] = yes] \/ call' = [call EXCEPT ![th] = no] \/ call' = [call EXCEPT ![th] = raise]
      BY <3>1
    <3> HIDE DEF yes, no, raise
    <3> QED  BY <3>3, <3>4
  <2>3. \A i \in Id : Exists(i) => call[th].seen[i].status # "absent"
    BY <1>1, <2>1 DEF NamesKept, Replicating
  <2> QED  BY <1>6, <2>1, <2>2, <2>3
<1> QED  BY <1>4, <1>5, <1>7, <1>8, <1>9

LEMMA ReplicaSavesNames ==
  ASSUME NamesInv, Inv', Undisturbed, NEW th \in Caller,
         ReplicaMark(th) \/ ReplicaSave(th) \/ ReplicaSaveHealthy(th)
  PROVE  NamesInv'
<1>1. NamesKept(call[th], th) /\ call[th] \in CallState /\ CallOK(call[th]) /\ Inv
  BY NamesTypes
<1>2. /\ call[th].pc \in {"markReplica", "forgetReplica", "saveReplica", "saveHealthyReplica"}
      /\ lock' = lock /\ UNCHANGED docker
  BY DEF ReplicaMark, ReplicaSave, ReplicaSaveHealthy
<1>3. /\ call[th].id \in Id /\ call[th].pc \notin Removing /\ lock = th /\ LockStays(th)
      /\ call[th].pc \in {"saveReplica", "saveHealthyReplica"} => Exists(call[th].id)
      /\ \A i \in Id : Exists(i) => call[th].seen[i].status # "absent"
  BY <1>1, <1>2, LockHolderSees, UnlockStays
     DEF CallOK, AtInstance, Removing, Unlocked, NamesKept, OnContainer, Replicating
<1>4. ASSUME NEW rec, Save(call[th].id, rec),
             rec.status = "healthy" => call[th].pc \in {"saveReplica", "saveHealthyReplica"},
             NEW c, call' = [call EXCEPT ![th] = c], c.pc \in {"probe", "startReplica"}, c.seen = call[th].seen
      PROVE  NamesInv'
  <2>1. container' = container
    BY <1>2, DockerSame
  <2>2. NamesKept(c, th)'
    BY <1>2, <1>3, <1>4, <2>1 DEF NamesKept, Exists, OnContainer
  <2> QED  BY <1>2, <1>3, <1>4, <2>2, NamesSave
<1>5. CASE ReplicaMark(th)
  <2> DEFINE d == [call[th] EXCEPT !.pc = "probe", !.id = NoId]
  <2>1. call' = [call EXCEPT ![th] = d] /\ d.pc = "probe" /\ d.seen = call[th].seen
    BY <1>1, <1>5 DEF ReplicaMark, CallState
  <2> HIDE DEF d
  <2>2. PICK c : call' = [call EXCEPT ![th] = c] /\ c.pc = "probe" /\ c.seen = call[th].seen
    BY <2>1
  <2>3. WithStatus(Seen(th), "failed").status # "healthy" /\ NoRecord.status # "healthy"
    <3>1. Seen(th) \in Record
      BY <1>1, <1>3, CopyIs
    <3> QED  BY <3>1, IdleTyped DEF WithStatus, Record
  <2>4. PICK rec : Save(call[th].id, rec) /\ rec.status # "healthy"
    BY <1>5, <2>3 DEF ReplicaMark, Delete
  <2> QED  BY <1>4, <2>2, <2>4
<1>6. CASE ReplicaSave(th)
  <2> DEFINE d == [call[th] EXCEPT !.pc = "startReplica"]
  <2>1. call' = [call EXCEPT ![th] = d] /\ d.pc = "startReplica" /\ d.seen = call[th].seen
    BY <1>1, <1>6 DEF ReplicaSave, Step, CallState
  <2> HIDE DEF d
  <2>2. PICK c : call' = [call EXCEPT ![th] = c] /\ c.pc = "startReplica" /\ c.seen = call[th].seen
    BY <2>1
  <2>3. PICK rec : Save(call[th].id, rec)
    BY <1>6 DEF ReplicaSave
  <2> QED  BY <1>4, <1>6, <2>2, <2>3 DEF ReplicaSave
<1>7. CASE ReplicaSaveHealthy(th)
  <2> DEFINE d == [call[th] EXCEPT !.pc = "probe", !.id = NoId, !.kept = @ \union {call[th].id}]
  <2>1. call' = [call EXCEPT ![th] = d] /\ d.pc = "probe" /\ d.seen = call[th].seen
    BY <1>1, <1>7 DEF ReplicaSaveHealthy, CallState
  <2> HIDE DEF d
  <2>2. PICK c : call' = [call EXCEPT ![th] = c] /\ c.pc = "probe" /\ c.seen = call[th].seen
    BY <2>1
  <2>3. PICK rec : Save(call[th].id, rec)
    BY <1>7 DEF ReplicaSaveHealthy
  <2> QED  BY <1>4, <1>7, <2>2, <2>3 DEF ReplicaSaveHealthy
<1> QED  BY <1>5, <1>6, <1>7

\* The container goes first, then its record.
LEMMA RemoveNames ==
  ASSUME NamesInv, Inv', Undisturbed, NEW th \in Caller,
         ReplicaUndo(th) \/ RemoveDocker(th) \/ ReplicaUndoRecord(th) \/ RemoveRecord(th)
  PROVE  NamesInv'
<1>1. NamesKept(call[th], th) /\ call[th] \in CallState /\ CallOK(call[th]) /\ Inv /\ TypeOK
  BY NamesTypes
<1>2. call[th].pc \in {"undo", "removeDocker", "undoRecord", "removeRecord"}
  BY DEF ReplicaUndo, RemoveDocker, ReplicaUndoRecord, RemoveRecord
<1>3. /\ call[th].id \in Id /\ lock = th
      /\ call[th].pc \notin Removing => \A i \in Id : record[i].status = "healthy" => Exists(i)
  BY <1>1, <1>2, LockHolderSees DEF CallOK, AtInstance, Unlocked
<1>4. ASSUME NEW pc \in Removing, Step(th, pc), UNCHANGED <<lock, record>>,
             DockerOk(call[th].id, "none") \/ UNCHANGED docker, call[th].pc \notin Removing
      PROVE  NamesInv'
  <2>1. \A i \in Id \ {call[th].id} : Exists(i)' <=> Exists(i)
    BY <1>1, <1>3, <1>4 DEF DockerOk, TypeOK, Exists, docker
  <2>2. PICK c : call' = [call EXCEPT ![th] = c] /\ c.pc = pc /\ c.id = call[th].id
    <3> DEFINE d == [call[th] EXCEPT !.pc = pc]
    <3>1. call' = [call EXCEPT ![th] = d] /\ d.pc = pc /\ d.id = call[th].id
      BY <1>1, <1>4 DEF Step, CallState
    <3> HIDE DEF d
    <3> QED  BY <3>1
  <2>3. NamesKept(c, th)' /\ LockStays(th) /\ record' = record
    BY <1>3, <1>4, <2>2, UnlockStays DEF NamesKept, Removing, OnContainer, Replicating
  <2> QED  BY <1>3, <1>4, <2>1, <2>2, <2>3, NamesMove
<1>5. CASE ReplicaUndo(th)
  BY <1>4, <1>5 DEF ReplicaUndo, DockerRaises, Removing
<1>6. CASE RemoveDocker(th)
  <2>1. CASE DockerRaises(call[th].id) /\ Raise(th)
    BY <1>6, <2>1, NamesEndInv DEF RemoveDocker, DockerRaises, Removing
  <2> QED  BY <1>4, <1>6, <2>1 DEF RemoveDocker, Removing
<1>7. CASE ReplicaUndoRecord(th)
  <2>1. PICK c : EndsWith(th, c)
    BY <1>7, NamesEnd DEF ReplicaUndoRecord
  <2>2. Save(call[th].id, NoRecord) /\ UNCHANGED docker
    BY <1>7 DEF ReplicaUndoRecord, Delete
  <2> QED  BY <1>3, <2>1, <2>2, IdleTyped, NamesOver, NamesSave DEF EndsWith
<1>8. CASE RemoveRecord(th)
  <2>1. Save(call[th].id, NoRecord) /\ UNCHANGED docker /\ lock' = lock /\ LockStays(th)
    BY <1>8, UnlockStays DEF RemoveRecord, Delete
  <2>2. PICK c : call' = [call EXCEPT ![th] = c] /\ c.pc = "remove"
    <3> DEFINE d == [IdleCall EXCEPT !.pc = "remove", !.todo = call[th].todo \ {call[th].id}]
    <3>1. call' = [call EXCEPT ![th] = d] /\ d.pc = "remove"
      BY <1>8 DEF RemoveRecord, Through, IdleCall
    <3> HIDE DEF d
    <3> QED  BY <3>1
  <2>3. NamesKept(c, th)'
    BY <1>3, <2>1, <2>2 DEF NamesKept, OnContainer, Replicating
  <2> QED  BY <1>3, <2>1, <2>2, <2>3, IdleTyped, NamesSave
<1> QED  BY <1>5, <1>6, <1>7, <1>8

LEMMA InstanceNames ==
  ASSUME NamesInv, Inv', Undisturbed, NEW th \in Caller,
         StopRead(th) \/ RemoveRead(th) \/ TouchRead(th) \/ StopSave(th)
  PROVE  NamesInv'
<1>1. NamesKept(call[th], th) /\ call[th] \in CallState /\ CallOK(call[th]) /\ Inv
  BY NamesTypes
<1>2. call[th].pc # "touch"
  BY <1>1 DEF NamesKept
<1>3. ASSUME NEW to \in {"stopDocker", "removeDocker"}, NEW from \in {"stop", "remove"}, ReadNext(th, from, to),
             to = "removeDocker" => from = "remove"
      PROVE  NamesInv'
  <2>1. call[th].pc = from /\ UNCHANGED <<docker, record>> /\ call[th].pc \notin Removing
    BY <1>3 DEF ReadNext, Removing
  <2>2. CASE Answer(th) \/ Raise(th)
    BY <2>1, <2>2, NamesEndInv
  <2>3. ASSUME NEW i, Reads(th, to, i), lock' = lock PROVE NamesInv'
    <3>1. PICK c : call' = [call EXCEPT ![th] = c] /\ c.pc = to
      <4> DEFINE d == [call[th] EXCEPT !.pc = to, !.id = i, !.seen[i] = record[i]]
      <4>1. call' = [call EXCEPT ![th] = d] /\ d.pc = to
        BY <1>1, <2>3 DEF Reads, CallState
      <4> HIDE DEF d
      <4> QED  BY <4>1
    <3>2. to = "removeDocker" => lock = th
      BY <1>3, <2>1, LockHolderSees DEF Unlocked
    <3>3. NamesKept(c, th)' /\ LockStays(th)
      BY <1>3, <2>3, <3>1, <3>2, UnlockStays DEF NamesKept, Unlocked, OnContainer, Replicating
    <3> QED  BY <2>1, <3>1, <3>3, NamesGoOn
  <2> QED  BY <1>3, <2>2, <2>3 DEF ReadNext
<1>4. CASE StopRead(th)
  BY <1>3, <1>4 DEF StopRead
<1>5. CASE RemoveRead(th)
  BY <1>3, <1>5 DEF RemoveRead
<1>6. ~TouchRead(th)
  BY <1>2 DEF TouchRead, ReadNext
<1>7. CASE StopSave(th)
  <2>1. /\ call[th].pc = "stopSave" /\ Save(call[th].id, WithStatus(Seen(th), "stopped")) /\ UNCHANGED docker
        /\ LockStays(th)
    BY <1>7, UnlockStays DEF StopSave
  <2>2. call[th].id \in Id
    BY <1>1, <2>1 DEF CallOK, AtInstance
  <2>3. WithStatus(Seen(th), "stopped").status # "healthy"
    <3>1. Seen(th) \in Record
      BY <1>1, <2>2, CopyIs
    <3> QED  BY <3>1 DEF WithStatus, Record
  <2>4. PICK c : call' = [call EXCEPT ![th] = c] /\ c.pc = "stop"
    <3> DEFINE d == [IdleCall EXCEPT !.pc = "stop", !.todo = call[th].todo \ {call[th].id}]
    <3>1. call' = [call EXCEPT ![th] = d] /\ d.pc = "stop"
      BY <1>7 DEF StopSave, Through, IdleCall
    <3> HIDE DEF d
    <3> QED  BY <3>1
  <2>5. NamesKept(c, th)'
    BY <2>4, NamesOver DEF Unlocked
  <2> QED  BY <2>1, <2>2, <2>3, <2>4, <2>5, NamesSave
<1> QED  BY <1>4, <1>5, <1>6, <1>7

\* Whoever calls: removals and touches are not among the calls.
LEMMA CallsNames ==
  ASSUME NamesInv, Inv', Undisturbed,
         ReclaimLoop \/ \E th \in Thread : Stop(th) \/ Remove(th) \/ Touch(th) \/ Reclaim(th)
  PROVE  NamesInv'
<1>1. ASSUME NEW th \in Caller, NEW todo, call' = [call EXCEPT ![th] = [IdleCall EXCEPT !.pc = "stop", !.todo = todo]],
             UNCHANGED <<docker, record, lock>>, call[th].pc = "idle"
      PROVE  NamesInv'
  <2>1. PICK c : call' = [call EXCEPT ![th] = c] /\ c.pc = "stop"
    <3> DEFINE d == [IdleCall EXCEPT !.pc = "stop", !.todo = todo]
    <3>1. call' = [call EXCEPT ![th] = d] /\ d.pc = "stop"
      BY <1>1 DEF IdleCall
    <3> HIDE DEF d
    <3> QED  BY <3>1
  <2>2. NamesKept(c, th)' /\ LockStays(th)
    BY <1>1, <2>1, NamesOver, UnlockStays DEF Unlocked
  <2> QED  BY <1>1, <2>1, <2>2, NamesGoOn DEF Removing
<1>2. Reclaimer \in Caller /\ Thread \subseteq Caller
  BY DEF Caller
<1>3. CASE ReclaimLoop
  BY <1>1, <1>2, <1>3 DEF ReclaimLoop
<1>4. ASSUME NEW th \in Thread, Stop(th) \/ Remove(th) \/ Touch(th) \/ Reclaim(th) PROVE NamesInv'
  <2>1. "remove" \notin Calls /\ "touch" \notin Calls
    BY DEF Undisturbed
  <2>2. ~Remove(th) /\ ~Touch(th)
    BY <2>1 DEF Remove, Touch, CallFor
  <2>3. CASE Stop(th)
    <3>1. PICK i \in Known : CallFor(th, "stop", "stop", {i})
      BY <2>3 DEF Stop
    <3> QED  BY <1>1, <1>2, <3>1 DEF CallFor
  <2>4. CASE Reclaim(th)
    BY <1>1, <1>2, <2>4 DEF Reclaim, CallFor
  <2> QED  BY <1>4, <2>2, <2>3, <2>4
<1> QED  BY <1>3, <1>4

LEMMA CallStepNames ==
  ASSUME NamesInv, Inv', Undisturbed, NEW th \in Caller, CallStep(th)
  PROVE  NamesInv'
BY EnsureNames, EnsureSavesNames, CreateNames, DockerStepsNames, ReplicasNames, ReplicaSavesNames, RemoveNames,
   InstanceNames DEF CallStep, EnsureStep, ReplicasStep, InstanceStep

\* No call moves, and no container comes or goes.
LEMMA OthersNames ==
  ASSUME NamesInv, Inv', UNCHANGED <<call, lock>>, SameContainers,
         \A i \in Id : record'[i].status = "healthy" => record[i].status = "healthy"
  PROVE  NamesInv'
<1>1. ASSUME NEW th \in Caller PROVE NamesKept(call[th], th)'
  <2>1. NamesKept(call[th], th) /\ (call[th].pc \in OnContainer => call[th].id \in Id)
    BY NamesTypes DEF CallOK, AtInstance, OnContainer
  <2> QED  BY <2>1 DEF NamesKept, SameContainers, Exists
<1>2. HealthyIsThere'
  BY DEF NamesInv, HealthyIsThere, SameContainers, Exists
<1> QED  BY <1>1, <1>2 DEF NamesInv

LEMMA MonitorNames ==
  ASSUME NamesInv, Inv', MonitorStep \/ TimePasses
  PROVE  NamesInv'
<1>1. UNCHANGED <<call, lock>>
  BY DEF MonitorStep, MonitorList, MonitorPasses, MonitorCounts, MonitorStop, MonitorSave, MonitorEnd, TimePasses
<1>2. TypeOK /\ MonitorOK
  BY DEF NamesInv, Inv
<1>3. SameContainers
  <2>1. CASE MonitorStop
    <3>1. monitor.id \in Id
      BY <1>2, <2>1 DEF MonitorStop, MonitorOK
    <3> QED  BY <1>2, <2>1, <3>1, DockerOkSame, DockerSame DEF MonitorStop, DockerRaises
  <2>2. CASE ~MonitorStop
    <3>1. UNCHANGED docker
      BY <2>2 DEF MonitorStep, MonitorList, MonitorPasses, MonitorCounts, MonitorSave, MonitorEnd, TimePasses
    <3> QED  BY <3>1, DockerSame
  <2> QED  BY <2>1, <2>2
<1>4. ASSUME NEW i \in Id, record'[i].status = "healthy" PROVE record[i].status = "healthy"
  <2>1. CASE TimePasses
    <3>1. record[i] \in Record /\ record'[i] = [record[i] EXCEPT !.fresh = FALSE]
      BY <1>2, <2>1 DEF TimePasses, TypeOK
    <3> QED  BY <1>4, <3>1 DEF Record
  <2>2. CASE MonitorSave
    <3>1. monitor.id \in Id /\ monitor.seen[monitor.id] \in Record
      BY <1>2, <2>2 DEF MonitorSave, MonitorOK, TypeOK
    <3>2. WithStatus(monitor.seen[monitor.id], "failed").status = "failed"
      BY <3>1 DEF WithStatus, Record
    <3> QED  BY <1>2, <1>4, <2>2, <3>2 DEF MonitorSave, Save, TypeOK
  <2>3. CASE ~MonitorSave /\ ~TimePasses
    <3>1. record' = record
      BY <2>3 DEF MonitorStep, MonitorList, MonitorPasses, MonitorCounts, MonitorStop, MonitorEnd
    <3> QED  BY <1>4, <3>1
  <2> QED  BY <2>1, <2>2, <2>3
<1> QED  BY <1>1, <1>3, <1>4, OthersNames

\* A manager that starts again finds the containers, and no call is under way.
LEMMA RestartNames == ASSUME NamesInv, Inv', Restart PROVE NamesInv'
<1>1. /\ call' = [th \in Caller |-> IdleCall] /\ container' = container
  BY DEF Restart, docker
<1>2. \A th \in Caller : NamesKept(call[th], th)'
  BY <1>1, IdleTyped DEF NamesKept, Unlocked, OnContainer, Replicating
<1>3. ASSUME NEW i \in Id, record'[i].status = "healthy" PROVE Exists(i)'
  <2>1. CASE container[i] = "none"
    <3>1. record'[i] = NoRecord
      BY <2>1 DEF Restart
    <3> QED  BY <1>3, <3>1, IdleTyped
  <2>2. CASE container[i] # "none"
    BY <1>1, <2>2 DEF Exists
  <2> QED  BY <2>1, <2>2
<1>4. HealthyIsThere'
  BY <1>3 DEF HealthyIsThere
<1> QED  BY <1>2, <1>4 DEF NamesInv

LEMMA InitNames == ASSUME Init PROVE NamesInv
<1>1. \A th \in Caller : NamesKept(call[th], th)
  BY IdleTyped DEF Init, NamesKept, Unlocked, OnContainer, Replicating
<1>2. HealthyIsThere
  BY IdleTyped DEF Init, HealthyIsThere
<1> QED  BY <1>1, <1>2, InitInv DEF NamesInv

LEMMA StepNames == ASSUME Undisturbed, NamesInv, [Next]_vars PROVE NamesInv'
<1>1. Inv'
  BY StepInv DEF NamesInv
<1>2. Thread \subseteq Caller
  BY DEF Caller
<1>3. CASE \E th \in Thread : Ensure(th)
  BY <1>1, <1>2, <1>3, EnsureNames
<1>4. CASE \E th \in Thread : \E n \in 0..MaxReplicas : Replicas(th, n)
  BY <1>1, <1>2, <1>4, ReplicasNames
<1>5. CASE UNCHANGED vars
  <2>1. UNCHANGED <<docker, record, lock, call>>
    BY <1>5 DEF vars, docker
  <2> QED  BY <1>1, <2>1, DockerSame, OthersNames
<1>6. ~Meddle
  <2>1. spent["meddle"] \in Nat
    BY LimitTyped DEF NamesInv, Inv, TypeOK
  <2>2. Limit["meddle"] = 0
    BY DEF Limit, Undisturbed
  <2> QED  BY <2>1, <2>2 DEF Meddle, Spend
<1>7. CASE Restart
  BY <1>1, <1>7, RestartNames
<1>8. CASE \E th \in Caller : CallStep(th)
  BY <1>1, <1>8, CallStepNames
<1>9. CASE MonitorStep \/ TimePasses
  BY <1>1, <1>9, MonitorNames
<1>10. CASE ReclaimLoop \/ \E th \in Thread : Stop(th) \/ Remove(th) \/ Touch(th) \/ Reclaim(th)
  BY <1>1, <1>10, CallsNames
<1> QED  BY <1>3, <1>4, <1>5, <1>6, <1>7, <1>8, <1>9, <1>10 DEF Next

\* The lock keeps creations apart, whatever the threads, stops, the loops and
\* restarts do: a thread about to create a container finds its name unused.
THEOREM NamesStayApart == Spec => []NamesNeverClash
<1>1. Undisturbed /\ Init => NamesInv
  BY InitNames
<1>2. Undisturbed /\ NamesInv /\ [Next]_vars => NamesInv'
  BY StepNames
<1>3. NamesInv => NamesNeverClash
  <2> SUFFICES ASSUME NamesInv, Undisturbed, NEW th \in Caller
               PROVE  /\ call[th].pc = "create" => ~NameTaken(0)
                      /\ call[th].pc = "probe" => ~NameTaken(FreeName(th))
    BY DEF NamesNeverClash, Undisturbed
  <2>1. NamesKept(call[th], th)
    BY NamesTypes
  <2>2. CASE call[th].pc = "create"
    BY <2>1, <2>2 DEF NamesKept, NameTaken
  <2>3. CASE call[th].pc = "probe"
    <3>1. \A i \in Id : Exists(i) => call[th].seen[i] # NoRecord
      BY <2>1, <2>3, IdleTyped DEF NamesKept, Replicating
    <3> QED  BY <2>3, <3>1, FreeNameExists DEF NameTaken
  <2> QED  BY <2>2, <2>3
<1>4. CASE Undisturbed
  BY <1>1, <1>2, <1>3, <1>4, PTL DEF Spec
<1>5. CASE ~Undisturbed
  <2>1. NamesNeverClash
    BY <1>5 DEF Undisturbed, NamesNeverClash
  <2> QED  BY <2>1, PTL
<1> QED  BY <1>4, <1>5
=============================================================================
