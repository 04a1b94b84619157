----------------------- MODULE AlgorithmVersionsProofs -----------------------
(***************************************************************************)
(* Proofs about AlgorithmVersions, for every number of versions and of     *)
(* requests, all weights clients may send and any number of restarts.      *)
(*                                                                         *)
(* Requests and the build thread store whole copies.  What makes that safe *)
(* is said of the copies: with which statuses they are written, and that   *)
(* save refuses a row that is gone.                                        *)
(***************************************************************************)
EXTENDS AlgorithmVersions, NatFacts, FiniteSetTheorems

LEMMA VersionsAreNumbers == AlVersion \subseteq Nat /\ 1 \in AlVersion
BY AlgorithmVersionsAssumption DEF AlVersion

LEMMA PlainValues ==
  /\ Uploaded \in AlRowType /\ NoRow \in AlRowType
  /\ Uploaded.status = "uploaded" /\ NoRow.status = "absent"
  /\ SeededRow \in AlRowType /\ SeededRow.status = "available"
  /\ Unused \in AlRequestType /\ AtRest \in AlBuildType
<1>1. Uploaded \in AlRowType /\ NoRow \in AlRowType
  <2>1. Uploaded \in AlRowType
    BY AlgorithmVersionsAssumption DEF Uploaded, AlRowType, AlBuildable, AlUsable
  <2> QED  BY <2>1 DEF NoRow, AlRowType
<1>2. Unused \in AlRequestType
  BY <1>1, VersionsAreNumbers DEF Unused, AlRequestType
<1>3. AtRest \in AlBuildType
  BY <1>1, VersionsAreNumbers, AlgorithmVersionsAssumption DEF AtRest, AlBuildType
<1>4. SeededRow \in AlRowType
  BY <1>1 DEF SeededRow, AlRowType, AlUsable
<1> QED  BY <1>1, <1>2, <1>3, <1>4 DEF Uploaded, NoRow, SeededRow

\* The version a loop takes next.
LEMMA NextIsLeft ==
  ASSUME NEW r \in AlRequestType, r.todo # {}
  PROVE  (CHOOSE v \in r.todo : \A u \in r.todo : v <= u) \in r.todo
BY LeastIsIn, VersionsAreNumbers DEF AlRequestType

\* The last of some versions.
LEMMA LastIsLast ==
  ASSUME NEW S \in SUBSET AlVersion, S # {}
  PROVE  LastIn(S) \in S /\ \A u \in S : u <= LastIn(S)
<1> DEFINE T == {AlVersions - v : v \in S}
<1>1. T \in SUBSET Nat /\ T # {}
  BY AlgorithmVersionsAssumption DEF AlVersion
<1>2. PICK x \in T : \A y \in T : x <= y
  <2> HIDE DEF T
  <2> QED  BY <1>1, LeastExists
<1>3. PICK w \in S : x = AlVersions - w
  BY <1>2
<1>4. ASSUME NEW v \in S PROVE v <= w
  <2>1. x <= AlVersions - v
    BY <1>2
  <2>2. AlVersions \in Nat /\ v \in Nat /\ w \in Nat
    BY AlgorithmVersionsAssumption, VersionsAreNumbers
  <2> QED  BY <1>3, <2>1, <2>2
<1> QED  BY <1>3, <1>4 DEF LastIn

LEMMA LastIsIn ==
  ASSUME NEW S \in SUBSET AlVersion, Cardinality(S) >= 2
  PROVE  LastIn(S) \in S
BY LastIsLast, FS_EmptySet

(***************************************************************************)
(* Types                                                                   *)
(***************************************************************************)

\* A step of a request that goes on as a request.
LEMMA RequestTyped ==
  ASSUME AlgorithmsTypeOK, NEW q \in AlRequest, NEW next \in AlRequestType, NEW pc,
         AlStep(q, pc, next)
  PROVE  /\ alRequest' \in [AlRequest -> AlRequestType]
         /\ alBuild' \in AlBuildType /\ alRestarts' \in 0..AlMaxRestarts
         /\ alSeeded' \in SUBSET AlVersion
BY DEF AlgorithmsTypeOK, AlStep

\* The same for one that only changes its phase.
LEMMA PhaseTyped ==
  ASSUME AlgorithmsTypeOK, NEW q \in AlRequest, NEW from, NEW to,
         to \in {"extract", "inspect", "check", "add", "addJob", "validate", "submit", "list", "read",
                 "write", "inUse", "erase", "look", "use", "record", "done", "refused", "broken", "lost"},
         AlGo(q, from, to)
  PROVE  /\ alRequest' \in [AlRequest -> AlRequestType]
         /\ alBuild' \in AlBuildType /\ alRestarts' \in 0..AlMaxRestarts
         /\ alSeeded' \in SUBSET AlVersion
<1>1. alRequest[q] \in AlRequestType
  BY DEF AlgorithmsTypeOK
<1>2. [alRequest[q] EXCEPT !.pc = to] \in AlRequestType
  BY <1>1 DEF AlRequestType
<1> QED  BY <1>2, RequestTyped DEF AlGo

\* What the first check of a request makes of it.
LEMMA AskTyped ==
  ASSUME AlgorithmsTypeOK, NEW q \in AlRequest, NEW v \in AlVersion, NEW todo \in SUBSET AlVersion,
         NEW op \in {"build", "enable", "disable", "rollback", "delete", "task", "compare"},
         NEW pc \in {"addJob", "write", "list", "inUse", "look"},
         Ask(q, op, v, todo, pc)
  PROVE  AlgorithmsTypeOK'
<1> DEFINE next == [op |-> op, pc |-> pc, version |-> v, asked |-> todo, todo |-> todo,
                    copy |-> [u \in AlVersion |-> IF u = v THEN alRow[v] ELSE NoRow]]
<1>1. next \in AlRequestType
  BY PlainValues DEF AlgorithmsTypeOK, AlRequestType
<1>2. AlStep(q, "unused", next)
  BY DEF Ask
<1> HIDE DEF next
<1> QED  BY <1>1, <1>2, RequestTyped DEF Ask, KeepRows, KeepRest, AlgorithmsTypeOK

LEMMA SavedTyped ==
  ASSUME AlgorithmsTypeOK, NEW v \in AlVersion, NEW row \in AlRowType
  PROVE  Saved(v, row) \in [AlVersion -> AlRowType]
BY DEF Saved, AlgorithmsTypeOK

LEMMA AsksTyped ==
  ASSUME AlgorithmsTypeOK, NEW q \in AlRequest, NEW v \in AlVersion, NEW vs \in SUBSET AlVersion,
         \/ AskBuild(q, v) \/ AskSwitch(q, v) \/ AskRollback(q, v)
         \/ AskDelete(q, v) \/ AskTask(q, v) \/ AskComparison(q, vs)
  PROVE  AlgorithmsTypeOK'
<1>1. CASE AskBuild(q, v)  BY <1>1, AskTyped DEF AskBuild
<1>2. CASE AskSwitch(q, v)  BY <1>2, AskTyped DEF AskSwitch
<1>3. CASE AskRollback(q, v)  BY <1>3, AskTyped DEF AskRollback
<1>4. CASE AskDelete(q, v)  BY <1>4, AskTyped DEF AskDelete
<1>5. CASE AskTask(q, v)  BY <1>5, AskTyped DEF AskTask
<1>6. CASE AskComparison(q, vs)  BY <1>6, AskTyped, LastIsIn DEF AskComparison
<1> QED  BY <1>1, <1>2, <1>3, <1>4, <1>5, <1>6

LEMMA TrafficTyped ==
  ASSUME AlgorithmsTypeOK, NEW q \in AlRequest, NEW w \in AlSplit, AskTraffic(q, w)
  PROVE  AlgorithmsTypeOK'
<1> DEFINE next == [Unused EXCEPT !.op = "traffic", !.pc = "read", !.todo = DOMAIN w,
                      !.copy = [v \in AlVersion |->
                                  IF v \in DOMAIN w THEN [NoRow EXCEPT !.weight = w[v]] ELSE NoRow]]
<1>1. \A v \in DOMAIN w : [NoRow EXCEPT !.weight = w[v]] \in AlRowType
  BY PlainValues, AlgorithmVersionsAssumption DEF AlRowType
<1>2. next \in AlRequestType
  BY <1>1, PlainValues, AlgorithmVersionsAssumption DEF AlRequestType
<1>3. AlStep(q, "unused", next)
  BY DEF AskTraffic
<1> HIDE DEF next
<1> QED  BY <1>2, <1>3, RequestTyped DEF AskTraffic, KeepRows, KeepRest, AlgorithmsTypeOK

\* Steps that change phases, packages, jobs, the queue, tasks and comparisons.
LEMMA RequestPhasesTyped ==
  ASSUME AlgorithmsTypeOK, NEW q \in AlRequest,
         \/ Extracted(q) \/ ExtractionFails(q) \/ Inspect(q) \/ CheckVersion(q)
         \/ AddJob(q) \/ SubmitJob(q) \/ NothingToSave(q)
         \/ CheckUnused(q) \/ RemovalFails(q) \/ LookAtVersion(q) \/ RecordComparison(q)
  PROVE  AlgorithmsTypeOK'
<1> USE DEF KeepRows, KeepRest
<1>1. alRequest[q] \in AlRequestType /\ alRequest[q].version \in AlVersion
  BY DEF AlgorithmsTypeOK, AlRequestType
<1>2. CASE Extracted(q)
  BY <1>1, <1>2, PhaseTyped DEF Extracted, AlgorithmsTypeOK
<1>3. CASE ExtractionFails(q)
  BY <1>1, <1>3, PhaseTyped DEF ExtractionFails, AlgorithmsTypeOK
<1>4. CASE Inspect(q)
  BY <1>4, PhaseTyped DEF Inspect, AlgorithmsTypeOK
<1>5. CASE CheckVersion(q)
  BY <1>5, PhaseTyped DEF CheckVersion, AlgorithmsTypeOK
<1>6. CASE AddJob(q)
  BY <1>6, PhaseTyped DEF AddJob, AlgorithmsTypeOK, AlJobOpen
<1>7. CASE SubmitJob(q)
  BY <1>7, PhaseTyped DEF SubmitJob, AlgorithmsTypeOK
<1>8. CASE NothingToSave(q)
  BY <1>8, PhaseTyped DEF NothingToSave, AlgorithmsTypeOK
<1>9. CASE CheckUnused(q)
  BY <1>9, PhaseTyped DEF CheckUnused, AlgorithmsTypeOK
<1>10. CASE RemovalFails(q)
  BY <1>10, PhaseTyped DEF RemovalFails, AlgorithmsTypeOK
<1>11. CASE LookAtVersion(q)
  BY <1>11, PhaseTyped DEF LookAtVersion, AlgorithmsTypeOK
<1>12. CASE RecordComparison(q)
  BY <1>12, PhaseTyped DEF RecordComparison, AlgorithmsTypeOK
<1> QED  BY <1>2, <1>3, <1>4, <1>5, <1>6, <1>7, <1>8, <1>9, <1>10, <1>11, <1>12

\* Steps that store a row, read one, or add a task.
LEMMA RequestRowsTyped ==
  ASSUME AlgorithmsTypeOK, NEW q \in AlRequest,
         \/ AddVersion(q) \/ SaveValidating(q) \/ ListVersions(q) \/ ReadWeighted(q) \/ SaveNext(q)
         \/ EraseVersion(q) \/ AddTask(q)
  PROVE  AlgorithmsTypeOK'
<1> USE DEF KeepRows, KeepRest
<1> DEFINE r == alRequest[q]
<1>1. r \in AlRequestType /\ r.version \in AlVersion /\ r.copy \in [AlVersion -> AlRowType]
      /\ r.todo \in SUBSET AlVersion
  BY DEF AlgorithmsTypeOK, AlRequestType
<1>2. CASE AddVersion(q)
  BY <1>1, <1>2, PhaseTyped, PlainValues DEF AddVersion, AlgorithmsTypeOK
<1>3. CASE SaveValidating(q)
  <2>1. [r.copy[r.version] EXCEPT !.status = "validating"] \in AlRowType
    BY <1>1 DEF AlRowType
  <2> QED  BY <1>1, <1>3, <2>1, PhaseTyped, SavedTyped DEF SaveValidating, AlgorithmsTypeOK
<1>4. CASE ListVersions(q)
  <2>1. [r EXCEPT !.pc = "write", !.copy = alRow,
                  !.todo = {v \in AlVersion : alRow[v].status \in AlUsable}] \in AlRequestType
    BY <1>1 DEF AlRequestType, AlgorithmsTypeOK
  <2> QED  BY <1>4, <2>1, RequestTyped DEF ListVersions, AlgorithmsTypeOK
<1>5. CASE ReadWeighted(q)
  <2> DEFINE v == CHOOSE v \in r.todo : \A u \in r.todo : v <= u
             read == [r EXCEPT !.copy[v] = [alRow[v] EXCEPT !.weight = r.copy[v].weight], !.todo = @ \ {v}]
             asked == {u \in AlVersion : read.copy[u].status # "absent"}
  <2>1. ASSUME Exists(v), v \in AlVersion PROVE read \in AlRequestType
    <3> HIDE DEF v
    <3>1. [alRow[v] EXCEPT !.weight = r.copy[v].weight] \in AlRowType
      <4>1. alRow[v] \in AlRowType /\ r.copy[v].weight \in 0..AlPercent
        BY <1>1, <2>1 DEF AlRowType, AlRequestType, AlgorithmsTypeOK
      <4> HIDE DEF r
      <4> QED  BY <4>1 DEF AlRowType
    <3>2. [r.copy EXCEPT ![v] = [alRow[v] EXCEPT !.weight = r.copy[v].weight]] \in [AlVersion -> AlRowType]
      BY <1>1, <3>1 DEF AlRequestType
    <3>3. r.todo \ {v} \in SUBSET AlVersion
      BY <1>1 DEF AlRequestType
    <3> QED  BY <1>1, <3>2, <3>3 DEF AlRequestType
  <2>2. [r EXCEPT !.pc = "refused"] \in AlRequestType
    BY <1>1 DEF AlRequestType
  <2>3. ASSUME read \in AlRequestType PROVE [read EXCEPT !.pc = "write", !.todo = asked] \in AlRequestType
    <3> HIDE DEF read
    <3> QED  BY <2>3 DEF AlRequestType
  <2>4. PICK next : /\ AlStep(q, "read", next) /\ UNCHANGED <<alRow, alPackage, alJob, alQueue, alTask, alComparison>>
                    /\ \/ next = [r EXCEPT !.pc = "refused"]
                       \/ Exists(v) /\ next \in {read, [read EXCEPT !.pc = "write", !.todo = asked]}
    <3> HIDE DEF read, v
    <3> QED  BY <1>5 DEF ReadWeighted, read, v
  <2>5. v \in AlVersion
    BY <1>1, <1>5, NextIsLeft DEF ReadWeighted
  <2> QED  BY <2>1, <2>2, <2>3, <2>4, <2>5, RequestTyped DEF AlgorithmsTypeOK
<1>6. CASE SaveNext(q)
  <2> DEFINE v == CHOOSE v \in r.todo : \A u \in r.todo : v <= u
             pc == CASE ~Exists(v) -> "refused" [] r.todo \ {v} = {} -> "done" [] OTHER -> "write"
             row == [r.copy[v] EXCEPT !.status = Desired(r, v)]
  <2>1. v \in AlVersion
    BY <1>1, <1>6, NextIsLeft DEF SaveNext
  <2>2. AlStep(q, "write", [r EXCEPT !.todo = r.todo \ {v}, !.pc = pc])
        /\ alRow' = Saved(v, row) /\ UNCHANGED <<alPackage, alJob, alQueue, alTask, alComparison>>
    BY <1>6 DEF SaveNext
  <2>3. pc \in {"refused", "done", "write"}
    OBVIOUS
  <2>4. row \in AlRowType
    <3> HIDE DEF v
    <3> QED  BY <1>1, <2>1 DEF AlRowType, Desired, AlUsable
  <2> HIDE DEF v, pc, row
  <2>5. [r EXCEPT !.todo = r.todo \ {v}, !.pc = pc] \in AlRequestType
    BY <1>1, <2>3 DEF AlRequestType
  <2> QED  BY <2>1, <2>2, <2>4, <2>5, RequestTyped, SavedTyped DEF AlgorithmsTypeOK
<1>7. CASE EraseVersion(q)
  <2>1. [NoRow EXCEPT !.status = "deleted"] \in AlRowType
    BY PlainValues DEF AlRowType
  <2> QED  BY <1>1, <1>7, <2>1, PhaseTyped DEF EraseVersion, AlgorithmsTypeOK
<1>8. CASE AddTask(q)
  <2> DEFINE v == NextVersion(r)
             pc == IF r.todo \ {v} # {} THEN "look" ELSE IF r.op = "compare" THEN "record" ELSE "done"
  <2>1. v \in AlVersion
    BY <1>1, <1>8, NextIsLeft DEF AddTask, NextVersion
  <2>2. AlStep(q, "use", [r EXCEPT !.todo = r.todo \ {v}, !.pc = pc])
        /\ alTask' = alTask \union {<<q, v>>}
        /\ UNCHANGED <<alRow, alPackage, alJob, alQueue, alComparison>>
    BY <1>8 DEF AddTask
  <2>3. pc \in {"look", "record", "done"}
    OBVIOUS
  <2> HIDE DEF v, pc
  <2>4. [r EXCEPT !.todo = r.todo \ {v}, !.pc = pc] \in AlRequestType
    BY <1>1, <2>3 DEF AlRequestType
  <2> QED  BY <2>1, <2>2, <2>4, RequestTyped DEF AlgorithmsTypeOK
<1> QED  BY <1>2, <1>3, <1>4, <1>5, <1>6, <1>7, <1>8

LEMMA ImportTyped ==
  ASSUME AlgorithmsTypeOK, NEW q \in AlRequest, NEW v \in AlVersion, AskImport(q, v)
  PROVE  AlgorithmsTypeOK'
<1>1. [Unused EXCEPT !.op = "import", !.pc = "extract", !.version = v] \in AlRequestType
  BY PlainValues DEF AlRequestType
<1> QED  BY <1>1, RequestTyped DEF AskImport, KeepRows, AlgorithmsTypeOK

\* The build thread changes its own memory, rows, jobs and the queue.
LEMMA BuildTyped == ASSUME AlgorithmsTypeOK, BuildThread PROVE AlgorithmsTypeOK'
<1> USE DEF KeepBuildState, BuildGo, BuildStep, JobIs
<1>1. /\ alBuild \in AlBuildType /\ alBuild.job \in AlRequest /\ alBuild.version \in AlVersion
      /\ alBuild.copy \in AlRowType
  BY DEF AlgorithmsTypeOK, AlBuildType
<1>2. \A pc \in {"idle", "load", "mark", "build", "test", "publish", "close", "failRow", "failJob"} :
        [alBuild EXCEPT !.pc = pc] \in AlBuildType
  BY <1>1 DEF AlBuildType
<1>3. CASE TakeJob
  <2>1. Head(alQueue) \in AlRequest /\ Tail(alQueue) \in Seq(AlRequest)
    BY <1>3 DEF TakeJob, AlgorithmsTypeOK
  <2>2. alRequest[Head(alQueue)].version \in AlVersion
    BY <2>1 DEF AlgorithmsTypeOK, AlRequestType
  <2>3. [AtRest EXCEPT !.pc = "load", !.job = Head(alQueue),
                       !.version = alRequest[Head(alQueue)].version] \in AlBuildType
    BY <2>1, <2>2, PlainValues DEF AlBuildType
  <2> QED  BY <1>3, <2>1, <2>3 DEF TakeJob, AlgorithmsTypeOK
<1>4. CASE LoadVersion
  <2>1. [alBuild EXCEPT !.pc = "mark", !.copy = alRow[alBuild.version]] \in AlBuildType
    BY <1>1 DEF AlBuildType, AlgorithmsTypeOK
  <2> QED  BY <1>1, <1>4, <2>1, PlainValues DEF LoadVersion, AlgorithmsTypeOK, AlJobOpen
<1>5. CASE MarkBuilding
  <2>1. [alBuild.copy EXCEPT !.status = "building"] \in AlRowType
    BY <1>1 DEF AlRowType
  <2> QED  BY <1>1, <1>2, <1>5, <2>1, SavedTyped DEF MarkBuilding, BuildSave, AlgorithmsTypeOK
<1>6. CASE BuildImage
  BY <1>1, <1>2, <1>6 DEF BuildImage, AlgorithmsTypeOK, AlJobOpen
<1>7. CASE BuildImageFails \/ TestImage
  BY <1>1, <1>2, <1>7 DEF BuildImageFails, TestImage, AlgorithmsTypeOK
<1>8. CASE Publish
  <2>1. [alBuild.copy EXCEPT !.status = "available", !.digest = TRUE] \in AlRowType
    BY <1>1 DEF AlRowType, AlUsable
  <2> QED  BY <1>1, <1>2, <1>8, <2>1, SavedTyped DEF Publish, BuildSave, AlgorithmsTypeOK
<1>9. CASE CloseJob \/ FailJob
  BY <1>1, <1>9, PlainValues DEF CloseJob, FailJob, AlgorithmsTypeOK
<1>10. CASE FailVersion
  <2>1. [alBuild.copy EXCEPT !.status = "failed"] \in AlRowType
    BY <1>1 DEF AlRowType, AlBuildable
  <2> QED  BY <1>1, <1>2, <1>10, <2>1, SavedTyped, PlainValues DEF FailVersion, AlgorithmsTypeOK
<1> QED  BY <1>3, <1>4, <1>5, <1>6, <1>7, <1>8, <1>9, <1>10 DEF BuildThread

LEMMA RestartTyped == ASSUME AlgorithmsTypeOK, RestartAlgorithms PROVE AlgorithmsTypeOK'
<1>1. ASSUME NEW q \in AlRequest PROVE [alRequest[q] EXCEPT !.pc = "lost"] \in AlRequestType
  <2>1. alRequest[q] \in AlRequestType
    BY DEF AlgorithmsTypeOK
  <2> QED  BY <2>1 DEF AlRequestType
<1>2. alRequest' \in [AlRequest -> AlRequestType]
  BY <1>1 DEF RestartAlgorithms, AlgorithmsTypeOK
<1>3. alRestarts' \in 0..AlMaxRestarts
  BY AlgorithmVersionsAssumption DEF RestartAlgorithms, AlgorithmsTypeOK
<1>4. alBuild' \in AlBuildType /\ alQueue' \in Seq(AlRequest)
  BY PlainValues DEF RestartAlgorithms
<1> QED  BY <1>2, <1>3, <1>4 DEF RestartAlgorithms, AlgorithmsTypeOK

LEMMA InitTyped == ASSUME AlInit PROVE AlgorithmsTypeOK
<1>1. [SeededRow EXCEPT !.digest = TRUE] \in AlRowType
  BY PlainValues DEF AlRowType
<1>2. alRow \in [AlVersion -> AlRowType]
  BY <1>1, PlainValues DEF AlInit
<1>3. alSeeded \in SUBSET AlVersion
  BY VersionsAreNumbers DEF AlInit
<1> QED  BY <1>2, <1>3, PlainValues, AlgorithmVersionsAssumption DEF AlInit, AlgorithmsTypeOK

LEMMA StepTyped == ASSUME AlgorithmsTypeOK, [AlNext \/ AlIdle]_alVars PROVE AlgorithmsTypeOK'
<1>1. ASSUME NEW q \in AlRequest, AlRequestSteps(q) PROVE AlgorithmsTypeOK'
  BY <1>1, RequestPhasesTyped, RequestRowsTyped DEF AlRequestSteps
<1>2. ASSUME NEW q \in AlRequest, NEW v \in AlVersion,
             \/ AskBuild(q, v) \/ AskSwitch(q, v) \/ AskRollback(q, v) \/ AskDelete(q, v) \/ AskTask(q, v)
      PROVE  AlgorithmsTypeOK'
  BY <1>2, AsksTyped
<1>3. ASSUME NEW q \in AlRequest, NEW vs \in SUBSET AlVersion, AskComparison(q, vs) PROVE AlgorithmsTypeOK'
  BY <1>3, AsksTyped, VersionsAreNumbers
<1>4. CASE UNCHANGED alVars
  BY <1>4 DEF alVars, AlgorithmsTypeOK
<1> QED
  BY <1>1, <1>2, <1>3, <1>4, ImportTyped, TrafficTyped, BuildTyped, RestartTyped DEF AlNext, AlIdle

\* Type correctness of the algorithm service.
THEOREM AlgorithmsTypeCorrect == AlSpec => []AlgorithmsTypeOK
BY InitTyped, StepTyped, PTL DEF AlSpec

(***************************************************************************)
(* Copies.  A copy is stored with a status, or with its own.  So the       *)
(* statuses of copies matter: which phases a request can be in says which. *)
(***************************************************************************)

\* A row or a copy of version v.
Sealed(v, row) == row.status \in AlUsable => row.digest \/ v \in alSeeded

GoneRow == [NoRow EXCEPT !.status = "deleted"]

PhasesOf(op) ==
  {"done", "refused", "lost"} \union
  CASE op = "none" -> {"unused"}
    [] op = "import" -> {"extract", "inspect", "check", "add", "broken"}
    [] op = "build" -> {"addJob", "validate", "submit"}
    [] op = "rollback" -> {"list", "write"}
    [] op = "traffic" -> {"read", "write"}
    [] op = "delete" -> {"inUse", "erase"}
    [] op = "task" -> {"look", "use"}
    [] op = "compare" -> {"look", "use", "record"}
    [] OTHER -> {"write"}

\* What a request stores is usable and has its digest; a change of the traffic
\* stores what it has read of rows that were there.
Stores(r) ==
  r.pc = "write" => \A v \in r.todo : IF r.op = "traffic" THEN r.copy[v].status # "absent"
                                                          ELSE r.copy[v].status \in AlUsable

RequestOK(r) ==
  /\ r.pc \in PhasesOf(r.op)
  /\ \A v \in AlVersion : Sealed(v, r.copy[v])
  /\ Stores(r)
  /\ r.op = "traffic" => \A v \in AlVersion : r.copy[v].status # "deleted"

RowsOK == \A v \in AlVersion : Sealed(v, alRow[v]) /\ (alRow[v].status = "deleted" => alRow[v] = GoneRow)

RequestsOK == \A q \in AlRequest : RequestOK(alRequest[q])

CopiesOK == AlgorithmsTypeOK /\ RowsOK /\ RequestsOK

LEMMA RequestStaysOK ==
  ASSUME AlgorithmsTypeOK, RequestsOK, NEW q \in AlRequest, NEW pc, NEW next, AlStep(q, pc, next),
         RequestOK(next)
  PROVE  RequestsOK'
<1>1. alRequest' = [alRequest EXCEPT ![q] = next]
  BY DEF AlStep
<1>2. ASSUME NEW p \in AlRequest PROVE RequestOK(alRequest'[p])
  <2>1. alRequest'[p] = IF p = q THEN next ELSE alRequest[p]
    BY <1>1 DEF AlgorithmsTypeOK
  <2> QED  BY <2>1 DEF RequestsOK
<1>3. alSeeded' = alSeeded
  BY DEF AlStep
<1> QED  BY <1>2, <1>3 DEF RequestsOK, RequestOK, Sealed

\* A change of the phase alone.
LEMMA PhaseStaysOK ==
  ASSUME AlgorithmsTypeOK, RequestsOK, NEW q \in AlRequest, NEW from, NEW to, AlGo(q, from, to),
         to \in PhasesOf(alRequest[q].op), to # "write"
  PROVE  RequestsOK'
<1> DEFINE r == alRequest[q]  next == [r EXCEPT !.pc = to]
<1>1. /\ next.pc = to /\ next.op = r.op /\ next.version = r.version /\ next.todo = r.todo
      /\ next.copy = r.copy
  BY DEF AlgorithmsTypeOK, AlRequestType
<1>2. RequestOK(r)
  BY DEF RequestsOK
<1>3. RequestOK(next)
  <2> HIDE DEF next
  <2> QED  BY <1>1, <1>2 DEF RequestOK, Stores
<1> QED  BY <1>3, RequestStaysOK DEF AlGo

\* From a phase to the operation.
LEMMA OperationOf ==
  ASSUME AlgorithmsTypeOK, RequestsOK, NEW q \in AlRequest
  PROVE  LET r == alRequest[q] IN
         /\ r.pc = "unused" => r.op = "none"
         /\ r.pc \in {"extract", "inspect", "check", "add", "broken"} => r.op = "import"
         /\ r.pc \in {"addJob", "validate", "submit"} => r.op = "build"
         /\ r.pc = "list" => r.op = "rollback"
         /\ r.pc = "read" => r.op = "traffic"
         /\ r.pc = "write" => r.op \in {"enable", "disable", "rollback", "traffic"}
         /\ r.pc \in {"inUse", "erase"} => r.op = "delete"
         /\ r.pc \in {"look", "use"} => r.op \in {"task", "compare"}
         /\ r.pc = "record" => r.op = "compare"
<1>1. alRequest[q].op \in {"none", "import", "build", "enable", "disable", "rollback", "delete", "traffic",
                           "task", "compare"}
  BY DEF AlgorithmsTypeOK, AlRequestType
<1>2. alRequest[q].pc \in PhasesOf(alRequest[q].op)
  BY DEF RequestsOK, RequestOK
<1> QED  BY <1>1, <1>2 DEF PhasesOf

LEMMA AskStaysOK ==
  ASSUME CopiesOK, NEW q \in AlRequest, NEW v \in AlVersion, NEW op, NEW todo, NEW pc,
         pc \in PhasesOf(op), op # "traffic",
         pc = "write" => todo = {v} /\ alRow[v].status \in AlUsable,
         Ask(q, op, v, todo, pc)
  PROVE  RequestsOK'
<1> DEFINE next == [op |-> op, pc |-> pc, version |-> v, asked |-> todo, todo |-> todo,
                    copy |-> [u \in AlVersion |-> IF u = v THEN alRow[v] ELSE NoRow]]
<1>1. (\A u \in AlVersion : Sealed(u, NoRow)) /\ Sealed(v, alRow[v])
  BY PlainValues DEF Sealed, AlUsable, CopiesOK, RowsOK
<1>2. next.op = op /\ next.pc = pc /\ next.todo = todo
      /\ \A u \in AlVersion : next.copy[u] = IF u = v THEN alRow[v] ELSE NoRow
  OBVIOUS
<1>3. RequestOK(next)
  <2> HIDE DEF next
  <2> QED  BY <1>1, <1>2 DEF RequestOK, Stores
<1> QED  BY <1>3, RequestStaysOK DEF Ask, CopiesOK

LEMMA AsksStayOK ==
  ASSUME CopiesOK, NEW q \in AlRequest, NEW v \in AlVersion, NEW vs \in SUBSET AlVersion,
         \/ AskBuild(q, v) \/ AskSwitch(q, v) \/ AskRollback(q, v)
         \/ AskDelete(q, v) \/ AskTask(q, v) \/ AskComparison(q, vs)
  PROVE  RequestsOK'
<1>1. CASE AskBuild(q, v)  BY <1>1, AskStaysOK DEF AskBuild, PhasesOf
<1>2. CASE AskSwitch(q, v)  BY <1>2, AskStaysOK DEF AskSwitch, PhasesOf, AlUsable
<1>3. CASE AskRollback(q, v)  BY <1>3, AskStaysOK DEF AskRollback, PhasesOf
<1>4. CASE AskDelete(q, v)  BY <1>4, AskStaysOK DEF AskDelete, PhasesOf
<1>5. CASE AskTask(q, v)  BY <1>5, AskStaysOK DEF AskTask, PhasesOf
<1>6. CASE AskComparison(q, vs)  BY <1>6, AskStaysOK, LastIsIn DEF AskComparison, PhasesOf
<1> QED  BY <1>1, <1>2, <1>3, <1>4, <1>5, <1>6

LEMMA TrafficStaysOK ==
  ASSUME CopiesOK, NEW q \in AlRequest, NEW w \in AlSplit, AskTraffic(q, w)
  PROVE  RequestsOK'
<1> DEFINE next == [Unused EXCEPT !.op = "traffic", !.pc = "read", !.todo = DOMAIN w,
                      !.copy = [v \in AlVersion |->
                                  IF v \in DOMAIN w THEN [NoRow EXCEPT !.weight = w[v]] ELSE NoRow]]
<1>1. ASSUME NEW n PROVE [NoRow EXCEPT !.weight = n].status = "absent"
  BY DEF NoRow, Uploaded
<1>2. next.op = "traffic" /\ next.pc = "read" /\ \A v \in AlVersion : next.copy[v].status = "absent"
  BY <1>1, PlainValues DEF Unused
<1>3. RequestOK(next)
  <2> HIDE DEF next
  <2> QED  BY <1>2 DEF RequestOK, Stores, Sealed, AlUsable, PhasesOf
<1> QED  BY <1>3, RequestStaysOK DEF AskTraffic, CopiesOK

LEMMA ImportStaysOK ==
  ASSUME CopiesOK, NEW q \in AlRequest, NEW v \in AlVersion, AskImport(q, v)
  PROVE  RequestsOK'
<1> DEFINE next == [Unused EXCEPT !.op = "import", !.pc = "extract", !.version = v]
<1>1. next.op = "import" /\ next.pc = "extract" /\ \A u \in AlVersion : next.copy[u].status = "absent"
  BY PlainValues DEF Unused
<1>2. RequestOK(next)
  <2> HIDE DEF next
  <2> QED  BY <1>1 DEF RequestOK, Stores, Sealed, AlUsable, PhasesOf
<1> QED  BY <1>2, RequestStaysOK DEF AskImport, CopiesOK

LEMMA RequestPhasesStayOK ==
  ASSUME CopiesOK, NEW q \in AlRequest,
         \/ Extracted(q) \/ ExtractionFails(q) \/ Inspect(q) \/ CheckVersion(q) \/ AddVersion(q)
         \/ AddJob(q) \/ SaveValidating(q) \/ SubmitJob(q) \/ NothingToSave(q)
         \/ CheckUnused(q) \/ RemovalFails(q) \/ EraseVersion(q) \/ LookAtVersion(q) \/ RecordComparison(q)
  PROVE  RequestsOK'
<1> USE DEF CopiesOK
<1>1. ASSUME NEW from, NEW to, AlGo(q, from, to),
             \/ from \in {"extract", "inspect", "check", "add", "addJob", "validate", "submit", "write",
                          "inUse", "erase", "look", "record"} /\ to \in {"done", "refused"}
             \/ from \in {"extract", "inspect", "check"} /\ to \in {"inspect", "check", "add", "broken"}
             \/ from \in {"addJob", "validate"} /\ to \in {"validate", "submit"}
             \/ from = "inUse" /\ to = "erase"
             \/ from = "look" /\ to = "use"
      PROVE  RequestsOK'
  <2>1. alRequest[q].pc = from
    BY <1>1 DEF AlGo, AlStep
  <2>2. to \in PhasesOf(alRequest[q].op) /\ to # "write"
    BY <1>1, <2>1, OperationOf DEF PhasesOf
  <2> QED  BY <1>1, <2>2, PhaseStaysOK
<1>2. CASE Extracted(q)  BY <1>1, <1>2 DEF Extracted
<1>3. CASE ExtractionFails(q)  BY <1>1, <1>3 DEF ExtractionFails
<1>4. CASE Inspect(q)  BY <1>1, <1>4 DEF Inspect
<1>5. CASE CheckVersion(q)  BY <1>1, <1>5 DEF CheckVersion
<1>6. CASE AddVersion(q)  BY <1>1, <1>6 DEF AddVersion
<1>7. CASE AddJob(q)  BY <1>1, <1>7 DEF AddJob
<1>8. CASE SaveValidating(q)  BY <1>1, <1>8 DEF SaveValidating
<1>9. CASE SubmitJob(q)  BY <1>1, <1>9 DEF SubmitJob
<1>10. CASE NothingToSave(q)  BY <1>1, <1>10 DEF NothingToSave
<1>11. CASE CheckUnused(q)  BY <1>1, <1>11 DEF CheckUnused
<1>12. CASE RemovalFails(q)  BY <1>1, <1>12 DEF RemovalFails
<1>13. CASE EraseVersion(q)  BY <1>1, <1>13 DEF EraseVersion
<1>14. CASE LookAtVersion(q)  BY <1>1, <1>14 DEF LookAtVersion
<1>15. CASE RecordComparison(q)  BY <1>1, <1>15 DEF RecordComparison
<1> QED
  BY <1>2, <1>3, <1>4, <1>5, <1>6, <1>7, <1>8, <1>9, <1>10, <1>11, <1>12, <1>13, <1>14, <1>15

\* The loops: what they have read is sealed, and what is left to store was asked.
LEMMA LoopsStayOK ==
  ASSUME CopiesOK, NEW q \in AlRequest,
         ListVersions(q) \/ ReadWeighted(q) \/ SaveNext(q) \/ AddTask(q)
  PROVE  RequestsOK'
<1> USE DEF CopiesOK
<1> DEFINE r == alRequest[q]
<1>1. /\ r \in AlRequestType /\ r.copy \in [AlVersion -> AlRowType] /\ r.todo \in SUBSET AlVersion
      /\ RequestOK(r)
  BY DEF AlgorithmsTypeOK, AlRequestType, RequestsOK
<1>2. CASE ListVersions(q)
  <2> DEFINE next == [r EXCEPT !.pc = "write", !.copy = alRow,
                               !.todo = {v \in AlVersion : alRow[v].status \in AlUsable}]
  <2>1. /\ next.pc = "write" /\ next.op = r.op /\ next.copy = alRow
        /\ \A v \in next.todo : alRow[v].status \in AlUsable
    BY <1>1 DEF AlRequestType
  <2>2. r.op = "rollback" /\ AlStep(q, "list", next)
    BY <1>2, OperationOf DEF ListVersions, AlStep
  <2>3. RequestOK(next)
    <3> HIDE DEF next
    <3> QED  BY <2>1, <2>2 DEF RequestOK, Stores, PhasesOf, RowsOK
  <2> QED  BY <2>2, <2>3, RequestStaysOK
<1>3. CASE ReadWeighted(q)
  <2> DEFINE v == CHOOSE v \in r.todo : \A u \in r.todo : v <= u
             row == [alRow[v] EXCEPT !.weight = r.copy[v].weight]
             read == [r EXCEPT !.copy[v] = row, !.todo = @ \ {v}]
             asked == {u \in AlVersion : read.copy[u].status # "absent"}
             gone == [r EXCEPT !.pc = "refused"]
             full == [read EXCEPT !.pc = "write", !.todo = asked]
  <2>1. v \in AlVersion
    BY <1>1, <1>3, NextIsLeft DEF ReadWeighted
  <2>2. r.op = "traffic" /\ r.pc = "read"
    BY <1>3, OperationOf DEF ReadWeighted, AlStep
  <2>3. PICK next : /\ AlStep(q, "read", next)
                    /\ \/ next = gone
                       \/ Exists(v) /\ next \in {read, full}
    <3> HIDE DEF row, v
    <3> QED  BY <1>3 DEF ReadWeighted, row, v
  <2>4. gone.op = r.op /\ gone.pc = "refused" /\ gone.copy = r.copy
    BY <1>1 DEF AlRequestType
  <2>5. RequestOK(gone)
    <3> HIDE DEF gone
    <3> QED  BY <1>1, <2>2, <2>4 DEF RequestOK, Stores, PhasesOf
  <2>6. ASSUME Exists(v) PROVE RequestOK(read) /\ RequestOK(full)
    <3>1. alRow[v] \in AlRowType
      BY <2>1 DEF AlgorithmsTypeOK
    <3>2. row.status = alRow[v].status /\ row.digest = alRow[v].digest
      BY <3>1 DEF AlRowType
    <3>3. Sealed(v, row) /\ row.status \notin {"absent", "deleted"}
      <4> HIDE DEF row
      <4> QED  BY <2>1, <2>6, <3>2 DEF Sealed, RowsOK, Exists
    <3>4. read.op = r.op /\ read.pc = r.pc /\ \A u \in AlVersion : read.copy[u] = IF u = v THEN row ELSE r.copy[u]
      <4> HIDE DEF row, v
      <4> QED  BY <1>1, <2>1 DEF AlRequestType
    <3>5. RequestOK(read)
      <4> HIDE DEF read, row, v
      <4> QED  BY <1>1, <2>2, <3>3, <3>4 DEF RequestOK, Stores, PhasesOf
    <3>6. full.op = read.op /\ full.pc = "write" /\ full.copy = read.copy /\ full.todo = asked
      <4> HIDE DEF row, v
      <4> QED  BY <1>1 DEF AlRequestType
    <3>7. RequestOK(full)
      <4> HIDE DEF read, full, row, v
      <4> QED  BY <2>2, <3>4, <3>5, <3>6 DEF RequestOK, Stores, PhasesOf
    <3> QED  BY <3>5, <3>7
  <2> HIDE DEF gone, read, full, row, v
  <2> QED  BY <2>3, <2>5, <2>6, RequestStaysOK
<1>4. CASE SaveNext(q)
  <2> DEFINE v == CHOOSE v \in r.todo : \A u \in r.todo : v <= u
             pc == CASE ~Exists(v) -> "refused" [] r.todo \ {v} = {} -> "done" [] OTHER -> "write"
             next == [r EXCEPT !.todo = r.todo \ {v}, !.pc = pc]
  <2>1. AlStep(q, "write", next) /\ r.pc = "write"
    BY <1>4 DEF SaveNext
  <2>2. pc \in {"refused", "done", "write"}
    OBVIOUS
  <2>3. next.op = r.op /\ next.copy = r.copy /\ next.todo \subseteq r.todo /\ next.pc = pc
    <3> HIDE DEF v, pc
    <3> QED  BY <1>1 DEF AlRequestType
  <2>4. RequestOK(next)
    <3> HIDE DEF v, pc, next
    <3> QED  BY <1>1, <2>1, <2>2, <2>3 DEF RequestOK, Stores, PhasesOf
  <2> QED  BY <2>1, <2>4, RequestStaysOK
<1>5. CASE AddTask(q)
  <2> DEFINE pc == IF r.todo \ {NextVersion(r)} # {} THEN "look" ELSE IF r.op = "compare" THEN "record" ELSE "done"
             next == [r EXCEPT !.todo = r.todo \ {NextVersion(r)}, !.pc = pc]
  <2>1. AlStep(q, "use", next) /\ r.pc = "use"
    BY <1>5 DEF AddTask, AlStep
  <2>2. next.op = r.op /\ next.copy = r.copy /\ next.pc = pc
    <3> HIDE DEF pc
    <3> QED  BY <1>1 DEF AlRequestType
  <2>3. pc \in PhasesOf(r.op) /\ pc # "write"
    BY <2>1, OperationOf DEF PhasesOf
  <2>4. RequestOK(next)
    <3> HIDE DEF next
    <3> QED  BY <1>1, <2>2, <2>3 DEF RequestOK, Stores
  <2> QED  BY <2>1, <2>4, RequestStaysOK
<1> QED  BY <1>2, <1>3, <1>4, <1>5

LEMMA RestartStaysOK == ASSUME CopiesOK, RestartAlgorithms PROVE RequestsOK'
<1>1. ASSUME NEW q \in AlRequest PROVE RequestOK(alRequest'[q])
  <2> DEFINE r == alRequest[q]
  <2>1. r \in AlRequestType /\ RequestOK(r)
    BY DEF CopiesOK, AlgorithmsTypeOK, RequestsOK
  <2>2. [r EXCEPT !.pc = "lost"].op = r.op /\ [r EXCEPT !.pc = "lost"].pc = "lost"
        /\ [r EXCEPT !.pc = "lost"].copy = r.copy
    BY <2>1 DEF AlRequestType
  <2>3. RequestOK([r EXCEPT !.pc = "lost"])
    <3> DEFINE next == [r EXCEPT !.pc = "lost"]
    <3> HIDE DEF next
    <3> QED  BY <2>1, <2>2 DEF RequestOK, Stores, PhasesOf, next
  <2>4. alRequest'[q] = r \/ alRequest'[q] = [r EXCEPT !.pc = "lost"]
    BY DEF RestartAlgorithms
  <2> QED  BY <2>1, <2>3, <2>4
<1>2. alSeeded' = alSeeded
  BY DEF RestartAlgorithms
<1> QED  BY <1>1, <1>2 DEF RequestsOK, RequestOK, Sealed

(***************************************************************************)
(* Rows                                                                    *)
(***************************************************************************)

\* What the seed stores is settled before the first step.
LEMMA SeedKept == ASSUME [AlNext \/ AlIdle]_alVars PROVE alSeeded' = alSeeded
<1>1. ASSUME NEW q \in AlRequest, AlRequestSteps(q) PROVE alSeeded' = alSeeded
  BY <1>1
  DEF AlRequestSteps, Extracted, ExtractionFails, Inspect, CheckVersion, AddVersion, AddJob, SaveValidating,
      SubmitJob, ListVersions, ReadWeighted, SaveNext, NothingToSave, CheckUnused, RemovalFails, EraseVersion,
      LookAtVersion, AddTask, RecordComparison, AlGo, AlStep
<1>2. ASSUME NEW q \in AlRequest, NEW v, NEW vs, NEW w,
             \/ AskImport(q, v) \/ AskBuild(q, v) \/ AskSwitch(q, v) \/ AskRollback(q, v) \/ AskDelete(q, v)
             \/ AskTask(q, v) \/ AskComparison(q, vs) \/ AskTraffic(q, w)
      PROVE  alSeeded' = alSeeded
  BY <1>2 DEF AskImport, AskBuild, AskSwitch, AskRollback, AskDelete, AskTask, AskComparison, AskTraffic, Ask, AlStep
<1>3. ASSUME BuildThread PROVE alSeeded' = alSeeded
  BY <1>3 DEF BuildThread, TakeJob, LoadVersion, MarkBuilding, BuildImage, BuildImageFails, TestImage,
              Publish, CloseJob, FailVersion, FailJob, BuildSave, BuildGo, BuildStep
<1>4. CASE RestartAlgorithms
  BY <1>4 DEF RestartAlgorithms
<1>5. CASE AlIdle \/ UNCHANGED alVars
  BY <1>5 DEF AlIdle, alVars
<1> QED  BY <1>1, <1>2, <1>3, <1>4, <1>5 DEF AlNext

DeletedKept == \A v \in AlVersion : alRow[v].status = "deleted" => alRow'[v] = alRow[v]

\* save refuses a row that is gone.
LEMMA SavedOK ==
  ASSUME AlgorithmsTypeOK, RowsOK, NEW v \in AlVersion, NEW row, Sealed(v, row), row.status # "deleted",
         alRow' = Saved(v, row), UNCHANGED alSeeded
  PROVE  RowsOK' /\ DeletedKept
<1>1. ASSUME NEW u \in AlVersion
      PROVE  alRow'[u] = alRow[u] \/ (u = v /\ Exists(v) /\ alRow'[u] = row)
  BY DEF Saved, AlgorithmsTypeOK
<1>2. ASSUME NEW u \in AlVersion
      PROVE  /\ Sealed(u, alRow'[u])
             /\ alRow'[u].status = "deleted" => alRow'[u] = GoneRow
             /\ alRow[u].status = "deleted" => alRow'[u] = alRow[u]
  BY <1>1, <1>2 DEF RowsOK, Exists
<1> QED  BY <1>2 DEF RowsOK, DeletedKept, Sealed

\* The status a row gets is the one asked for; the rest of it is the copy's.
LEMMA StatusSet ==
  ASSUME NEW row \in AlRowType, NEW status
  PROVE  [row EXCEPT !.status = status].status = status /\ [row EXCEPT !.status = status].digest = row.digest
BY DEF AlRowType

LEMMA RequestStepRows ==
  ASSUME CopiesOK, NEW q \in AlRequest, AlRequestSteps(q)
  PROVE  RowsOK' /\ DeletedKept
<1> USE DEF CopiesOK
<1>0. UNCHANGED alSeeded
  BY SeedKept DEF AlNext
<1> DEFINE r == alRequest[q]
<1>1. /\ r.version \in AlVersion /\ r.copy \in [AlVersion -> AlRowType] /\ r.todo \in SUBSET AlVersion
      /\ r \in AlRequestType /\ RequestOK(r)
  BY DEF AlgorithmsTypeOK, AlRequestType, RequestsOK
<1>2. CASE UNCHANGED alRow
  BY <1>0, <1>2 DEF RowsOK, DeletedKept, Sealed
<1>3. CASE AddVersion(q)
  <2>1. ASSUME NEW u \in AlVersion
        PROVE  alRow'[u] = alRow[u] \/ (alRow[u].status = "absent" /\ alRow'[u] = Uploaded)
    BY <1>1, <1>3 DEF AddVersion, AlgorithmsTypeOK
  <2>2. ASSUME NEW u \in AlVersion
        PROVE  /\ Sealed(u, alRow'[u])
               /\ alRow'[u].status = "deleted" => alRow'[u] = GoneRow
               /\ alRow[u].status = "deleted" => alRow'[u] = alRow[u]
    BY <2>1, <2>2, PlainValues DEF RowsOK, Sealed, AlUsable
  <2> QED  BY <1>0, <2>2 DEF RowsOK, DeletedKept, Sealed
<1>4. CASE SaveValidating(q)
  <2> DEFINE row == [r.copy[r.version] EXCEPT !.status = "validating"]
  <2>1. row.status = "validating" /\ alRow' = Saved(r.version, row)
    BY <1>1, <1>4, StatusSet DEF SaveValidating
  <2> HIDE DEF row
  <2> QED  BY <1>0, <1>1, <2>1, SavedOK DEF Sealed, AlUsable
<1>5. CASE SaveNext(q)
  <2> DEFINE v == CHOOSE v \in r.todo : \A u \in r.todo : v <= u
             row == [r.copy[v] EXCEPT !.status = Desired(r, v)]
  <2>1. v \in r.todo /\ v \in AlVersion /\ r.pc = "write" /\ alRow' = Saved(v, row)
    BY <1>1, <1>5, NextIsLeft DEF SaveNext
  <2> HIDE DEF v
  <2>2. row.status = Desired(r, v) /\ row.digest = r.copy[v].digest
    BY <1>1, <2>1, StatusSet
  <2> HIDE DEF row
  <2>3. CASE r.op = "traffic"
    <3>1. Desired(r, v) = r.copy[v].status
      BY <2>3 DEF Desired
    <3> QED  BY <1>0, <1>1, <2>1, <2>2, <2>3, <3>1, SavedOK DEF RequestOK, Sealed
  <2>4. CASE r.op # "traffic"
    <3>1. Desired(r, v) \in {"available", "disabled"}
      BY <2>4 DEF Desired
    <3>2. r.copy[v].digest \/ v \in alSeeded
      BY <1>1, <2>1, <2>4 DEF RequestOK, Stores, Sealed
    <3>3. Sealed(v, row)
      BY <2>2, <3>2 DEF Sealed
    <3> QED  BY <1>0, <2>1, <2>2, <3>1, <3>3, SavedOK
  <2> QED  BY <2>3, <2>4
<1>6. CASE EraseVersion(q)
  <2>1. ASSUME NEW u \in AlVersion PROVE alRow'[u] = alRow[u] \/ alRow'[u] = GoneRow
    BY <1>6 DEF EraseVersion, AlgorithmsTypeOK, GoneRow
  <2>2. GoneRow.status = "deleted"
    BY PlainValues, StatusSet DEF GoneRow
  <2>3. ASSUME NEW u \in AlVersion
        PROVE  /\ Sealed(u, alRow'[u])
               /\ alRow'[u].status = "deleted" => alRow'[u] = GoneRow
               /\ alRow[u].status = "deleted" => alRow'[u] = alRow[u]
    <3> HIDE DEF GoneRow
    <3> QED  BY <2>1, <2>2, <2>3 DEF RowsOK, Sealed, AlUsable
  <2> QED  BY <1>0, <2>3 DEF RowsOK, DeletedKept, Sealed
<1> QED
  BY <1>2, <1>3, <1>4, <1>5, <1>6
  DEF AlRequestSteps, Extracted, ExtractionFails, Inspect, CheckVersion, AddJob, SubmitJob, ListVersions,
      ReadWeighted, NothingToSave, CheckUnused, RemovalFails, LookAtVersion, AddTask, RecordComparison,
      KeepRows

LEMMA BuildStepRows == ASSUME CopiesOK, BuildThread PROVE RowsOK' /\ DeletedKept
<1> USE DEF CopiesOK
<1>0. UNCHANGED alSeeded
  BY SeedKept DEF AlNext
<1> DEFINE v == alBuild.version
<1>1. v \in AlVersion /\ alBuild.copy \in AlRowType
  BY DEF AlgorithmsTypeOK, AlBuildType
<1>2. CASE UNCHANGED alRow
  BY <1>0, <1>2 DEF RowsOK, DeletedKept, Sealed
<1>3. CASE MarkBuilding
  <2> DEFINE row == [alBuild.copy EXCEPT !.status = "building"]
  <2>1. row.status = "building" /\ alRow' = Saved(v, row)
    BY <1>1, <1>3, StatusSet DEF MarkBuilding, BuildSave
  <2> HIDE DEF row
  <2> QED  BY <1>0, <1>1, <2>1, SavedOK DEF Sealed, AlUsable
<1>4. CASE Publish
  <2> DEFINE row == [alBuild.copy EXCEPT !.status = "available", !.digest = TRUE]
  <2>1. row.status = "available" /\ row.digest /\ alRow' = Saved(v, row)
    BY <1>1, <1>4 DEF Publish, BuildSave, AlRowType
  <2> HIDE DEF row
  <2> QED  BY <1>0, <1>1, <2>1, SavedOK DEF Sealed, AlUsable
<1>5. CASE FailVersion
  <2> DEFINE row == [alBuild.copy EXCEPT !.status = "failed"]
  <2>1. row.status = "failed" /\ alRow' = Saved(v, row)
    BY <1>1, <1>5, StatusSet DEF FailVersion
  <2> HIDE DEF row
  <2> QED  BY <1>0, <1>1, <2>1, SavedOK DEF Sealed, AlUsable
<1> QED
  BY <1>2, <1>3, <1>4, <1>5
  DEF BuildThread, TakeJob, LoadVersion, BuildImage, BuildImageFails, TestImage, CloseJob, FailJob,
      KeepBuildState

LEMMA CopiesStayOK ==
  ASSUME CopiesOK, [AlNext \/ AlIdle]_alVars
  PROVE  CopiesOK' /\ DeletedKept
<1>0. UNCHANGED alSeeded
  BY SeedKept
<1>1. AlgorithmsTypeOK'
  BY StepTyped DEF CopiesOK
<1>2. ASSUME NEW q \in AlRequest, AlRequestSteps(q) PROVE RequestsOK' /\ RowsOK' /\ DeletedKept
  BY <1>2, RequestPhasesStayOK, LoopsStayOK, RequestStepRows DEF AlRequestSteps
<1>3. ASSUME UNCHANGED alRow PROVE RowsOK' /\ DeletedKept
  BY <1>0, <1>3 DEF CopiesOK, RowsOK, DeletedKept, Sealed
<1>4. ASSUME NEW q \in AlRequest, NEW v \in AlVersion,
             \/ AskBuild(q, v) \/ AskSwitch(q, v) \/ AskRollback(q, v) \/ AskDelete(q, v) \/ AskTask(q, v)
      PROVE  RequestsOK' /\ RowsOK' /\ DeletedKept
  <2>1. UNCHANGED alRow
    BY <1>4 DEF AskBuild, AskSwitch, AskRollback, AskDelete, AskTask, Ask, KeepRows
  <2> QED  BY <1>3, <1>4, <2>1, AsksStayOK
<1>5. ASSUME NEW q \in AlRequest, NEW vs \in SUBSET AlVersion, AskComparison(q, vs)
      PROVE  RequestsOK' /\ RowsOK' /\ DeletedKept
  <2>1. UNCHANGED alRow
    BY <1>5 DEF AskComparison, Ask, KeepRows
  <2> QED  BY <1>3, <1>5, <2>1, AsksStayOK, VersionsAreNumbers
<1>6. ASSUME NEW q \in AlRequest, NEW v \in AlVersion, AskImport(q, v)
      PROVE  RequestsOK' /\ RowsOK' /\ DeletedKept
  BY <1>3, <1>6, ImportStaysOK DEF AskImport, KeepRows
<1>7. ASSUME NEW q \in AlRequest, NEW w \in AlSplit, AskTraffic(q, w)
      PROVE  RequestsOK' /\ RowsOK' /\ DeletedKept
  BY <1>3, <1>7, TrafficStaysOK DEF AskTraffic, KeepRows
<1>8. CASE BuildThread
  <2>1. UNCHANGED alRequest
    BY <1>8 DEF BuildThread, TakeJob, LoadVersion, MarkBuilding, BuildImage, BuildImageFails, TestImage,
                Publish, CloseJob, FailVersion, FailJob, BuildSave, BuildGo, BuildStep
  <2>2. RequestsOK'
    BY <1>0, <2>1 DEF CopiesOK, RequestsOK, RequestOK, Sealed
  <2> QED  BY <1>1, <1>8, <2>2, BuildStepRows DEF CopiesOK
<1>9. CASE RestartAlgorithms
  BY <1>1, <1>3, <1>9, RestartStaysOK DEF RestartAlgorithms, CopiesOK
<1>10. CASE UNCHANGED alVars
  <2>1. RequestsOK'
    BY <1>10 DEF alVars, CopiesOK, RequestsOK, RequestOK, Sealed
  <2> QED  BY <1>1, <1>3, <1>10, <2>1 DEF alVars, CopiesOK
<1> QED
  BY <1>1, <1>2, <1>4, <1>5, <1>6, <1>7, <1>8, <1>9, <1>10 DEF AlNext, AlIdle, CopiesOK

LEMMA InitCopiesOK == ASSUME AlInit PROVE CopiesOK
<1>1. AlgorithmsTypeOK
  BY InitTyped
<1>2. RequestsOK
  <2>1. Unused.op = "none" /\ Unused.pc = "unused" /\ \A v \in AlVersion : Unused.copy[v].status = "absent"
    BY PlainValues DEF Unused
  <2>2. RequestOK(Unused)
    <3> HIDE DEF Unused
    <3> QED  BY <2>1 DEF RequestOK, Stores, Sealed, AlUsable, PhasesOf
  <2> QED  BY <2>2 DEF AlInit, RequestsOK
<1>3. ASSUME NEW v \in AlVersion PROVE Sealed(v, alRow[v]) /\ alRow[v].status # "deleted"
  <2>1. alRow[v] \in {NoRow, Uploaded, SeededRow, [SeededRow EXCEPT !.digest = TRUE]}
        /\ (alRow[v] = SeededRow => v \in alSeeded)
    BY DEF AlInit
  <2> QED  BY <2>1, PlainValues DEF SeededRow, Uploaded, Sealed, AlUsable
<1>4. RowsOK
  BY <1>3 DEF RowsOK
<1> QED  BY <1>1, <1>2, <1>4 DEF CopiesOK

\* No version but the seeded one is offered without the digest of a tested image.
THEOREM PublishedAlwaysHasDigest == AlSpec => []PublishedHasDigest
<1>1. CopiesOK => PublishedHasDigest
  BY DEF CopiesOK, RowsOK, Sealed, PublishedHasDigest
<1> QED  BY <1>1, InitCopiesOK, CopiesStayOK, PTL DEF AlSpec

\* No stale copy brings a deleted version back.
THEOREM DeletedStays == AlSpec => DeletedStaysDeleted
<1>1. CopiesOK /\ [AlNext \/ AlIdle]_alVars
      => [\A v \in AlVersion : alRow[v].status = "deleted" => alRow'[v] = alRow[v]]_alVars
  BY CopiesStayOK DEF DeletedKept
<1> QED  BY <1>1, InitCopiesOK, CopiesStayOK, PTL DEF AlSpec, DeletedStaysDeleted

(***************************************************************************)
(* Builds.  A job goes from its request to the queue and to the thread;    *)
(* what is at hand there, and that the row of its version is there or was  *)
(* deleted, says who will settle it.                                       *)
(***************************************************************************)

\* A request keeps what it is about, and a copy of a row stays one.
Goes(r, next) ==
  /\ r.pc # "unused" => next.op = r.op /\ next.version = r.version
  /\ r.pc \in AlOver \ {"unused"} => next = r
  /\ r.op = "traffic" => \A v \in AlVersion : r.copy[v].status # "absent" => next.copy[v].status # "absent"

\* What a step of request q does to the other requests, the jobs and the queue.
RequestFootprint(q) ==
  /\ \A p \in AlRequest : p # q => alRequest'[p] = alRequest[p]
  /\ UNCHANGED <<alSeeded, alBuild, alRestarts>>
  /\ Goes(alRequest[q], alRequest'[q])
  /\ \/ /\ alRequest[q].pc = "addJob" /\ alRequest'[q].pc = "validate"
        /\ alJob' = [alJob EXCEPT ![q] = "queued"] /\ UNCHANGED alQueue
     \/ /\ alRequest[q].pc = "validate" /\ UNCHANGED <<alJob, alQueue>>
        /\ \/ alRequest'[q].pc = "submit"
           \/ alRequest'[q].pc = "refused" /\ ~Exists(alRequest[q].version) /\ UNCHANGED alRow
     \/ /\ alRequest[q].pc = "submit" /\ alRequest'[q].pc = "done"
        /\ UNCHANGED alJob /\ alQueue' = Append(alQueue, q)
     \/ /\ alRequest[q].pc \notin {"addJob", "validate", "submit"} \union AlOver
        /\ alRequest'[q].pc \notin {"validate", "submit"} /\ UNCHANGED <<alJob, alQueue>>

LEMMA StepIsOwn ==
  ASSUME AlgorithmsTypeOK, NEW q \in AlRequest, NEW pc, NEW next, AlStep(q, pc, next)
  PROVE  /\ \A p \in AlRequest : p # q => alRequest'[p] = alRequest[p]
         /\ alRequest'[q] = next /\ alRequest[q].pc = pc
         /\ UNCHANGED <<alSeeded, alBuild, alRestarts>>
BY DEF AlStep, AlgorithmsTypeOK

LEMMA GoIsOwn ==
  ASSUME AlgorithmsTypeOK, NEW q \in AlRequest, NEW from, NEW to, AlGo(q, from, to)
  PROVE  /\ \A p \in AlRequest : p # q => alRequest'[p] = alRequest[p]
         /\ alRequest[q].pc = from /\ alRequest'[q].pc = to
         /\ alRequest'[q].op = alRequest[q].op /\ alRequest'[q].version = alRequest[q].version
         /\ alRequest'[q].copy = alRequest[q].copy /\ alRequest'[q].todo = alRequest[q].todo
         /\ alRequest'[q].asked = alRequest[q].asked
         /\ UNCHANGED <<alSeeded, alBuild, alRestarts>>
<1>1. alRequest[q] \in AlRequestType
  BY DEF AlgorithmsTypeOK
<1>2. alRequest'[q] = [alRequest[q] EXCEPT !.pc = to]
  BY StepIsOwn DEF AlGo
<1> QED  BY <1>1, <1>2, StepIsOwn DEF AlGo, AlRequestType

LEMMA PhaseFootprint ==
  ASSUME CopiesOK, NEW q \in AlRequest,
         \/ Extracted(q) \/ ExtractionFails(q) \/ Inspect(q) \/ CheckVersion(q) \/ AddVersion(q)
         \/ AddJob(q) \/ SaveValidating(q) \/ SubmitJob(q) \/ NothingToSave(q)
         \/ CheckUnused(q) \/ RemovalFails(q) \/ EraseVersion(q) \/ LookAtVersion(q) \/ RecordComparison(q)
  PROVE  RequestFootprint(q)
<1> USE DEF CopiesOK, KeepRows, KeepRest
<1>1. ASSUME NEW from, NEW to, from \notin AlOver, AlGo(q, from, to)
      PROVE  Goes(alRequest[q], alRequest'[q])
  BY <1>1, GoIsOwn DEF Goes
<1>2. ASSUME NEW from \in {"extract", "inspect", "check", "add", "write", "inUse", "erase", "look", "record"},
             NEW to \in {"inspect", "check", "add", "broken", "erase", "use", "done", "refused"},
             AlGo(q, from, to), UNCHANGED <<alJob, alQueue>>
      PROVE  RequestFootprint(q)
  BY <1>1, <1>2, GoIsOwn DEF RequestFootprint, AlOver
<1>3. CASE AddJob(q)
  BY <1>1, <1>3, GoIsOwn DEF AddJob, RequestFootprint, AlOver
<1>4. CASE SaveValidating(q)
  BY <1>1, <1>4, GoIsOwn DEF SaveValidating, Saved, RequestFootprint, AlOver
<1>5. CASE SubmitJob(q)
  BY <1>1, <1>5, GoIsOwn DEF SubmitJob, RequestFootprint, AlOver
<1>6. CASE Extracted(q)  BY <1>2, <1>6 DEF Extracted
<1>7. CASE ExtractionFails(q)  BY <1>2, <1>7 DEF ExtractionFails
<1>8. CASE Inspect(q)  BY <1>2, <1>8 DEF Inspect
<1>9. CASE CheckVersion(q)  BY <1>2, <1>9 DEF CheckVersion
<1>10. CASE AddVersion(q)  BY <1>2, <1>10 DEF AddVersion
<1>11. CASE NothingToSave(q)  BY <1>2, <1>11 DEF NothingToSave
<1>12. CASE CheckUnused(q)  BY <1>2, <1>12 DEF CheckUnused
<1>13. CASE RemovalFails(q)  BY <1>2, <1>13 DEF RemovalFails
<1>14. CASE EraseVersion(q)  BY <1>2, <1>14 DEF EraseVersion
<1>15. CASE LookAtVersion(q)  BY <1>2, <1>15 DEF LookAtVersion
<1>16. CASE RecordComparison(q)  BY <1>2, <1>16 DEF RecordComparison
<1> QED
  BY <1>3, <1>4, <1>5, <1>6, <1>7, <1>8, <1>9, <1>10, <1>11, <1>12, <1>13, <1>14, <1>15, <1>16

LEMMA LoopFootprint ==
  ASSUME CopiesOK, NEW q \in AlRequest,
         ListVersions(q) \/ ReadWeighted(q) \/ SaveNext(q) \/ AddTask(q)
  PROVE  RequestFootprint(q)
<1> USE DEF CopiesOK, KeepRows, KeepRest
<1> DEFINE r == alRequest[q]
<1>1. /\ r \in AlRequestType /\ r.copy \in [AlVersion -> AlRowType] /\ r.todo \in SUBSET AlVersion
  BY DEF AlgorithmsTypeOK, AlRequestType
<1>2. ASSUME NEW pc \in {"list", "read", "write", "use"}, NEW next, AlStep(q, pc, next),
             next.op = r.op, next.version = r.version, next.pc \notin {"validate", "submit"},
             pc # "list" => \A v \in AlVersion : r.copy[v].status # "absent" => next.copy[v].status # "absent",
             UNCHANGED <<alJob, alQueue>>
      PROVE  RequestFootprint(q)
  <2>1. r.pc = "list" => r.op # "traffic"
    BY OperationOf
  <2> QED  BY <1>2, <2>1, StepIsOwn DEF RequestFootprint, Goes, AlOver
<1>3. CASE ListVersions(q)
  <2> DEFINE next == [r EXCEPT !.pc = "write", !.copy = alRow,
                               !.todo = {v \in AlVersion : alRow[v].status \in AlUsable}]
  <2>1. next.op = r.op /\ next.version = r.version /\ next.pc = "write"
    BY <1>1 DEF AlRequestType
  <2>2. AlStep(q, "list", next)
    BY <1>3 DEF ListVersions
  <2> HIDE DEF next
  <2> QED  BY <1>2, <1>3, <2>1, <2>2 DEF ListVersions
<1>4. CASE ReadWeighted(q)
  <2> DEFINE v == CHOOSE v \in r.todo : \A u \in r.todo : v <= u
             row == [alRow[v] EXCEPT !.weight = r.copy[v].weight]
             read == [r EXCEPT !.copy[v] = row, !.todo = @ \ {v}]
             asked == {u \in AlVersion : read.copy[u].status # "absent"}
             gone == [r EXCEPT !.pc = "refused"]
             full == [read EXCEPT !.pc = "write", !.todo = asked]
  <2>1. v \in AlVersion
    BY <1>1, <1>4, NextIsLeft DEF ReadWeighted
  <2>2. PICK next : /\ AlStep(q, "read", next)
                    /\ \/ next = gone
                       \/ Exists(v) /\ next \in {read, full}
    <3> HIDE DEF row, v
    <3> QED  BY <1>4 DEF ReadWeighted, row, v
  <2>3. r.pc = "read"
    BY <2>2, StepIsOwn
  <2>4. gone.op = r.op /\ gone.version = r.version /\ gone.pc = "refused" /\ gone.copy = r.copy
    BY <1>1 DEF AlRequestType
  <2>5. Exists(v) => row.status # "absent"
    <3>1. row.status = alRow[v].status
      BY <2>1 DEF AlgorithmsTypeOK, AlRowType
    <3> HIDE DEF row
    <3> QED  BY <3>1 DEF Exists
  <2>6. /\ read.op = r.op /\ read.version = r.version /\ read.pc = r.pc
        /\ \A u \in AlVersion : read.copy[u] = IF u = v THEN row ELSE r.copy[u]
    <3> HIDE DEF row, v
    <3> QED  BY <1>1, <2>1 DEF AlRequestType
  <2>7. full.op = r.op /\ full.version = r.version /\ full.pc = "write" /\ full.copy = read.copy
    <3> HIDE DEF row, v, asked
    <3> QED  BY <1>1 DEF AlRequestType
  <2> HIDE DEF gone, read, full, row, v
  <2>8. UNCHANGED <<alJob, alQueue>>
    BY <1>4 DEF ReadWeighted
  <2>9. /\ next.op = r.op /\ next.version = r.version /\ next.pc \in {"refused", "read", "write"}
        /\ \A u \in AlVersion : r.copy[u].status # "absent" => next.copy[u].status # "absent"
    BY <2>2, <2>3, <2>4, <2>5, <2>6, <2>7
  <2> QED  BY <1>2, <2>2, <2>8, <2>9
<1>5. CASE SaveNext(q)
  <2> DEFINE v == CHOOSE v \in r.todo : \A u \in r.todo : v <= u
             pc == CASE ~Exists(v) -> "refused" [] r.todo \ {v} = {} -> "done" [] OTHER -> "write"
             next == [r EXCEPT !.todo = r.todo \ {v}, !.pc = pc]
  <2>1. AlStep(q, "write", next)
    BY <1>5 DEF SaveNext
  <2>2. pc \in {"refused", "done", "write"}
    OBVIOUS
  <2>3. next.op = r.op /\ next.version = r.version /\ next.copy = r.copy /\ next.pc = pc
    <3> HIDE DEF v, pc
    <3> QED  BY <1>1 DEF AlRequestType
  <2> HIDE DEF v, pc, next
  <2> QED  BY <1>2, <1>5, <2>1, <2>2, <2>3 DEF SaveNext
<1>6. CASE AddTask(q)
  <2> DEFINE pc == IF r.todo \ {NextVersion(r)} # {} THEN "look" ELSE IF r.op = "compare" THEN "record" ELSE "done"
             next == [r EXCEPT !.todo = r.todo \ {NextVersion(r)}, !.pc = pc]
  <2>1. AlStep(q, "use", next) /\ pc \in {"look", "record", "done"}
    BY <1>6 DEF AddTask
  <2>2. next.op = r.op /\ next.version = r.version /\ next.copy = r.copy /\ next.pc = pc
    <3> HIDE DEF pc
    <3> QED  BY <1>1 DEF AlRequestType
  <2> HIDE DEF pc, next
  <2> QED  BY <1>2, <1>6, <2>1, <2>2 DEF AddTask
<1> QED  BY <1>3, <1>4, <1>5, <1>6

LEMMA StepFootprint ==
  ASSUME CopiesOK, NEW q \in AlRequest, AlRequestSteps(q)
  PROVE  RequestFootprint(q)
BY PhaseFootprint, LoopFootprint DEF AlRequestSteps

InBuild == {"validating", "building"}

\* A row does not become absent, and shows a build only for a request that has
\* asked for one, or that has read it during one.
LEMMA RequestRowStatus ==
  ASSUME CopiesOK, NEW q \in AlRequest, AlRequestSteps(q), NEW u \in AlVersion
  PROVE  LET r == alRequest[q] IN
         /\ alRow[u].status # "absent" => alRow'[u].status # "absent"
         /\ alRow'[u].status \in InBuild =>
              \/ alRow[u].status \in InBuild
              \/ r.op = "build" /\ r.version = u /\ alRequest'[q].pc = "submit"
              \/ r.op = "traffic" /\ r.copy[u].status # "absent"
<1> USE DEF CopiesOK
<1> DEFINE r == alRequest[q]
<1>1. /\ r.version \in AlVersion /\ r.copy \in [AlVersion -> AlRowType] /\ r.todo \in SUBSET AlVersion
      /\ r \in AlRequestType /\ RequestOK(r)
  BY DEF AlgorithmsTypeOK, AlRequestType, RequestsOK
<1>2. CASE UNCHANGED alRow
  BY <1>2
<1>3. CASE AddVersion(q)
  <2>1. alRow'[u] = alRow[u] \/ alRow'[u] = Uploaded
    BY <1>1, <1>3 DEF AddVersion, AlgorithmsTypeOK
  <2> QED  BY <2>1, PlainValues DEF InBuild
<1>4. CASE SaveValidating(q)
  <2> DEFINE row == [r.copy[r.version] EXCEPT !.status = "validating"]
  <2>1. row.status = "validating" /\ alRow' = Saved(r.version, row)
    BY <1>1, <1>4, StatusSet DEF SaveValidating
  <2>2. r.op = "build" /\ (Exists(r.version) => alRequest'[q].pc = "submit")
    BY <1>4, GoIsOwn, OperationOf DEF SaveValidating
  <2>3. alRow'[u] = alRow[u] \/ (u = r.version /\ Exists(u) /\ alRow'[u] = row)
    <3> HIDE DEF row
    <3> QED  BY <2>1 DEF Saved, AlgorithmsTypeOK
  <2> HIDE DEF row
  <2> QED  BY <2>1, <2>2, <2>3
<1>5. CASE SaveNext(q)
  <2> DEFINE v == CHOOSE v \in r.todo : \A w \in r.todo : v <= w
             row == [r.copy[v] EXCEPT !.status = Desired(r, v)]
  <2>1. v \in r.todo /\ v \in AlVersion /\ r.pc = "write" /\ alRow' = Saved(v, row)
    BY <1>1, <1>5, NextIsLeft DEF SaveNext
  <2> HIDE DEF v
  <2>2. row.status = Desired(r, v)
    BY <1>1, <2>1, StatusSet
  <2> HIDE DEF row
  <2>3. alRow'[u] = alRow[u] \/ (u = v /\ alRow'[u] = row)
    BY <2>1 DEF Saved, AlgorithmsTypeOK
  <2>4. CASE r.op = "traffic"
    BY <1>1, <2>1, <2>2, <2>3, <2>4 DEF RequestOK, Stores, Desired
  <2>5. CASE r.op # "traffic"
    <3>1. Desired(r, v) \in {"available", "disabled"}
      BY <2>5 DEF Desired
    <3> QED  BY <2>2, <2>3, <3>1 DEF InBuild
  <2> QED  BY <2>4, <2>5
<1>6. CASE EraseVersion(q)
  <2>1. alRow'[u] = alRow[u] \/ alRow'[u] = GoneRow
    BY <1>6 DEF EraseVersion, AlgorithmsTypeOK, GoneRow
  <2>2. GoneRow.status = "deleted"
    BY PlainValues, StatusSet DEF GoneRow
  <2> HIDE DEF GoneRow
  <2> QED  BY <2>1, <2>2 DEF InBuild
<1> QED
  BY <1>2, <1>3, <1>4, <1>5, <1>6
  DEF AlRequestSteps, Extracted, ExtractionFails, Inspect, CheckVersion, AddJob, SubmitJob, ListVersions,
      ReadWeighted, NothingToSave, CheckUnused, RemovalFails, LookAtVersion, AddTask, RecordComparison,
      KeepRows

Submitted(r) == r.op = "build" /\ r.pc = "done"

JobsOK ==
  \A q \in AlRequest :
    /\ alRequest[q].op = "build" => alRow[alRequest[q].version].status # "absent"
    /\ alJob[q] # "absent" => alRequest[q].op = "build"
    /\ alRequest[q].pc \in {"validate", "submit"} => alJob[q] = "queued"

BuildQueueOK == \A i \in DOMAIN alQueue : Submitted(alRequest[alQueue[i]])

\* Of version v, who accounts for its row when the job of p does not.
Watched(v, p) ==
  \/ \E q \in AlRequest : q # p /\ alRequest[q].op = "build" /\ alRequest[q].version = v /\ alJob[q] \in AlJobOpen
  \/ \E q \in AlRequest : alRequest[q].op = "traffic" /\ alRequest[q].copy[v].status # "absent"
  \/ alRestarts > 0

ThreadOK ==
  /\ alBuild.pc = "idle" => alBuild = AtRest
  /\ alBuild.pc # "idle" => Submitted(alRequest[alBuild.job]) /\ alBuild.version = alRequest[alBuild.job].version
  /\ alBuild.pc \notin {"idle", "load"} => alJob[alBuild.job] \in AlJobOpen
  /\ alBuild.pc \in {"close", "failJob"} /\ alRow[alBuild.version].status \in InBuild =>
       Watched(alBuild.version, alBuild.job)

BuildsOK == CopiesOK /\ JobsOK /\ BuildQueueOK /\ ThreadOK /\ VersionIsAttended /\ JobIsAttended

\* Whoever watches over a version goes on, unless the thread closes a job.
LEMMA StaysWatched ==
  ASSUME NEW v \in AlVersion, NEW p \in AlRequest, Watched(v, p),
         \A q \in AlRequest : /\ alRequest[q].op \in {"build", "traffic"} => Goes(alRequest[q], alRequest'[q])
                              /\ alRequest[q].op \in {"build", "traffic"} => alRequest[q].pc # "unused"
                              /\ q # p /\ alJob[q] \in AlJobOpen => alJob'[q] \in AlJobOpen,
         alRestarts' >= alRestarts, alRestarts \in Nat, alRestarts' \in Nat
  PROVE  Watched(v, p)'
<1>1. CASE \E q \in AlRequest : /\ q # p /\ alRequest[q].op = "build" /\ alRequest[q].version = v
                                /\ alJob[q] \in AlJobOpen
  <2>1. PICK q \in AlRequest : /\ q # p /\ alRequest[q].op = "build" /\ alRequest[q].version = v
                               /\ alJob[q] \in AlJobOpen
    BY <1>1
  <2>2. alRequest'[q].op = "build" /\ alRequest'[q].version = v /\ alJob'[q] \in AlJobOpen
    BY <2>1 DEF Goes
  <2> QED  BY <2>1, <2>2 DEF Watched
<1>2. CASE \E q \in AlRequest : alRequest[q].op = "traffic" /\ alRequest[q].copy[v].status # "absent"
  <2>1. PICK q \in AlRequest : alRequest[q].op = "traffic" /\ alRequest[q].copy[v].status # "absent"
    BY <1>2
  <2>2. alRequest'[q].op = "traffic" /\ alRequest'[q].copy[v].status # "absent"
    BY <2>1 DEF Goes
  <2> QED  BY <2>2 DEF Watched
<1>3. CASE alRestarts > 0
  <2>1. alRestarts' > 0
    BY <1>3
  <2> QED  BY <2>1 DEF Watched
<1> QED  BY <1>1, <1>2, <1>3 DEF Watched

\* What attends to a version is the watch of nobody in particular.
LEMMA AttendedMeans ==
  ASSUME JobsOK
  PROVE  VersionIsAttended <=> \A v \in AlVersion : alRow[v].status \in InBuild =>
           \/ \E q \in AlRequest : alRequest[q].op = "build" /\ alRequest[q].version = v /\ alJob[q] \in AlJobOpen
           \/ \E q \in AlRequest : alRequest[q].op = "traffic" /\ alRequest[q].copy[v].status # "absent"
           \/ alRestarts > 0
<1>1. ASSUME NEW q \in AlRequest, alRequest[q].pc = "submit" PROVE alJob[q] \in AlJobOpen
  BY <1>1 DEF JobsOK, AlJobOpen
<1> QED  BY <1>1 DEF VersionIsAttended, InBuild

\* A request that starts, or does a step, harms no other's job.
LEMMA RequestBuildsOK ==
  ASSUME BuildsOK, NEW q \in AlRequest, AlRequestSteps(q)
  PROVE  JobsOK' /\ BuildQueueOK' /\ ThreadOK' /\ VersionIsAttended' /\ JobIsAttended'
<1> DEFINE r == alRequest[q]
<1>1. RequestFootprint(q) /\ CopiesOK
  BY StepFootprint DEF BuildsOK
<1>2. CopiesOK' /\ DeletedKept
  BY <1>1, CopiesStayOK DEF AlNext
<1>3. /\ \A v \in AlVersion : alRow[v].status # "absent" => alRow'[v].status # "absent"
      /\ \A v \in AlVersion : alRow'[v].status \in InBuild =>
              \/ alRow[v].status \in InBuild
              \/ r.op = "build" /\ r.version = v /\ alRequest'[q].pc = "submit"
              \/ r.op = "traffic" /\ r.copy[v].status # "absent"
  BY <1>1, RequestRowStatus
<1>4. ASSUME NEW p \in AlRequest
      PROVE  /\ alRequest[p].version \in AlVersion
             /\ alRequest[p].op \in {"build", "traffic"} => alRequest[p].pc # "unused"
             /\ alRequest[p].pc = "done" => p # q
             /\ alRequest'[p].op = "build" => alRequest[p].op = "build"
             /\ Goes(alRequest[p], alRequest'[p])
             /\ alJob[p] \in AlJobOpen => alJob'[p] \in AlJobOpen
             /\ p # q => alJob'[p] = alJob[p] /\ alRequest'[p] = alRequest[p]
  <2>1. alRequest[p].version \in AlVersion /\ alJob \in [AlRequest -> {"absent", "completed", "failed"} \union AlJobOpen]
    BY <1>1 DEF CopiesOK, AlgorithmsTypeOK, AlRequestType
  <2>2. alRequest[p].op \in {"build", "traffic"} => alRequest[p].pc # "unused"
    BY <1>1, OperationOf DEF CopiesOK
  <2>3. alJob'[p] = alJob[p] \/ (p = q /\ alJob'[p] = "queued")
    BY <1>1, <2>1 DEF RequestFootprint
  <2>4. r.pc \notin AlOver
    BY <1>1 DEF RequestFootprint, AlOver
  <2>5. p = q => Goes(alRequest[p], alRequest'[p]) /\ alRequest'[p].op = alRequest[p].op
    BY <1>1, <2>4 DEF RequestFootprint, Goes, AlOver
  <2>6. p # q => alRequest'[p] = alRequest[p] /\ alJob'[p] = alJob[p]
    BY <1>1, <2>3 DEF RequestFootprint
  <2>7. Goes(alRequest[p], alRequest[p])
    BY DEF Goes
  <2>8. p # q => Goes(alRequest[p], alRequest'[p])
    BY <2>6, <2>7
  <2> QED  BY <2>1, <2>2, <2>3, <2>4, <2>5, <2>6, <2>8 DEF AlOver, AlJobOpen
<1>5. JobsOK'
  <2>1. ASSUME NEW p \in AlRequest, alRequest'[p].op = "build"
        PROVE  alRow'[alRequest'[p].version].status # "absent"
    BY <1>3, <1>4, <2>1 DEF BuildsOK, JobsOK, Goes
  <2>2. ASSUME NEW p \in AlRequest, alJob'[p] # "absent" PROVE alRequest'[p].op = "build"
    <3>1. CASE alJob[p] # "absent"
      BY <1>4, <3>1 DEF BuildsOK, JobsOK, Goes
    <3>2. CASE p = q /\ r.pc = "addJob"
      BY <1>1, <1>4, <3>2, OperationOf DEF CopiesOK, Goes
    <3> QED  BY <1>1, <1>4, <2>2, <3>1, <3>2 DEF RequestFootprint
  <2>3. ASSUME NEW p \in AlRequest, alRequest'[p].pc \in {"validate", "submit"} PROVE alJob'[p] = "queued"
    <3>1. CASE p # q
      BY <1>4, <2>3, <3>1 DEF BuildsOK, JobsOK
    <3>2. CASE p = q
      BY <1>1, <2>3, <3>2 DEF RequestFootprint, BuildsOK, JobsOK, CopiesOK, AlgorithmsTypeOK
    <3> QED  BY <3>1, <3>2
  <2> QED  BY <2>1, <2>2, <2>3 DEF JobsOK
<1>6. BuildQueueOK'
  <2>1. ASSUME NEW p \in AlRequest, Submitted(alRequest[p]) PROVE Submitted(alRequest'[p])
    BY <1>4, <2>1 DEF Submitted
  <2>2. alQueue \in Seq(AlRequest)
    BY <1>1 DEF CopiesOK, AlgorithmsTypeOK
  <2>3. CASE UNCHANGED alQueue
    BY <2>1, <2>2, <2>3 DEF BuildsOK, BuildQueueOK
  <2>4. CASE alQueue' = Append(alQueue, q) /\ r.pc = "submit" /\ alRequest'[q].pc = "done"
    <3>1. Submitted(alRequest'[q])
      BY <1>1, <1>4, <2>4, OperationOf DEF Submitted, CopiesOK, Goes
    <3>2. ASSUME NEW i \in DOMAIN alQueue' PROVE Submitted(alRequest'[alQueue'[i]])
      BY <2>1, <2>2, <2>4, <3>1 DEF BuildsOK, BuildQueueOK
    <3> QED  BY <3>2 DEF BuildQueueOK
  <2> QED  BY <1>1, <2>3, <2>4 DEF RequestFootprint
<1>7. alRestarts' = alRestarts /\ alRestarts \in Nat /\ alBuild' = alBuild /\ alBuild \in AlBuildType
  BY <1>1, AlgorithmVersionsAssumption DEF RequestFootprint, CopiesOK, AlgorithmsTypeOK
<1>8. ASSUME NEW v \in AlVersion, alRow'[v].status \in InBuild, ~(alRow[v].status \in InBuild)
      PROVE  \/ q \in AlRequest /\ alRequest'[q].op = "build" /\ alRequest'[q].version = v /\ alJob'[q] \in AlJobOpen
             \/ alRequest'[q].op = "traffic" /\ alRequest'[q].copy[v].status # "absent"
  <2>1. CASE r.op = "build" /\ r.version = v /\ alRequest'[q].pc = "submit"
    BY <1>4, <1>5, <2>1 DEF JobsOK, Goes, AlJobOpen
  <2>2. CASE r.op = "traffic" /\ r.copy[v].status # "absent"
    BY <1>4, <2>2 DEF Goes
  <2> QED  BY <1>3, <1>8, <2>1, <2>2
<1>9. ThreadOK'
  <2>1. alBuild.pc # "idle" => /\ alBuild.job \in AlRequest /\ alBuild.version \in AlVersion
                               /\ Submitted(alRequest[alBuild.job]) /\ alBuild.job # q
    BY <1>4, <1>7 DEF BuildsOK, ThreadOK, AlBuildType, Submitted
  <2>2. alBuild.pc # "idle" => Submitted(alRequest'[alBuild.job]) /\ alBuild.version = alRequest'[alBuild.job].version
    BY <1>4, <2>1 DEF BuildsOK, ThreadOK, Submitted
  <2>3. ASSUME alBuild.pc \in {"close", "failJob"}, alRow'[alBuild.version].status \in InBuild
        PROVE  Watched(alBuild.version, alBuild.job)'
    <3>1. CASE alRow[alBuild.version].status \in InBuild
      <4>1. Watched(alBuild.version, alBuild.job)
        BY <2>3, <3>1 DEF BuildsOK, ThreadOK
      <4> DEFINE u == alBuild.version  j == alBuild.job
      <4>2. u \in AlVersion /\ j \in AlRequest /\ Watched(u, j) /\ u' = u /\ j' = j
        BY <1>7, <2>1, <2>3, <4>1
      <4> HIDE DEF u, j
      <4>3. ASSUME NEW v \in AlVersion, NEW p \in AlRequest, Watched(v, p) PROVE Watched(v, p)'
        <5>1. alRestarts' >= alRestarts /\ alRestarts' \in Nat
          BY <1>7
        <5> QED  BY <1>4, <1>7, <4>3, <5>1, StaysWatched
      <4>4. Watched(u, j) /\ alBuild' = alBuild
        BY <1>7, <4>2
      <4> QED  BY <4>2, <4>3, <4>4 DEF u, j, Watched
    <3>2. CASE ~(alRow[alBuild.version].status \in InBuild)
      BY <1>7, <1>8, <2>1, <2>3, <3>2 DEF Watched
    <3> QED  BY <3>1, <3>2
  <2>4. alBuild.pc \notin {"idle", "load"} => alJob'[alBuild.job] \in AlJobOpen
    BY <1>4, <2>1 DEF BuildsOK, ThreadOK
  <2> QED  BY <1>7, <2>2, <2>3, <2>4 DEF BuildsOK, ThreadOK, AtRest
<1>10. VersionIsAttended'
  <2>1. ASSUME NEW v \in AlVersion, alRow'[v].status \in InBuild
        PROVE  \/ \E p \in AlRequest : /\ alRequest'[p].op = "build" /\ alRequest'[p].version = v
                                       /\ alJob'[p] \in AlJobOpen
               \/ \E p \in AlRequest : alRequest'[p].op = "traffic" /\ alRequest'[p].copy[v].status # "absent"
               \/ alRestarts' > 0
    <3>1. CASE ~(alRow[v].status \in InBuild)
      BY <1>8, <2>1, <3>1
    <3>2. CASE alRow[v].status \in InBuild
      <4>1. \/ \E p \in AlRequest : alRequest[p].op = "build" /\ alRequest[p].version = v /\ alJob[p] \in AlJobOpen
            \/ \E p \in AlRequest : alRequest[p].op = "traffic" /\ alRequest[p].copy[v].status # "absent"
            \/ alRestarts > 0
        BY <3>2, AttendedMeans DEF BuildsOK
      <4> QED  BY <1>4, <1>7, <4>1 DEF Goes
    <3> QED  BY <3>1, <3>2
  <2> QED  BY <2>1 DEF VersionIsAttended, InBuild
<1>11. JobIsAttended'
  <2>1. ASSUME NEW p \in AlRequest, alJob'[p] \in AlJobOpen
        PROVE  \/ alRequest'[p].pc \in {"validate", "submit"}
               \/ \E i \in DOMAIN alQueue' : alQueue'[i] = p
               \/ alBuild' # AtRest /\ alBuild'.job = p
               \/ alRow'[alRequest'[p].version].status = "deleted"
               \/ alRestarts' > 0
    <3>1. CASE p = q /\ r.pc = "addJob"
      BY <1>1, <3>1 DEF RequestFootprint
    <3>2. CASE p = q /\ r.pc = "validate"
      <4>1. alRow[r.version].status # "absent" /\ alRequest'[q].version = r.version
        BY <1>1, <1>4, <3>2, OperationOf DEF BuildsOK, JobsOK, CopiesOK, Goes
      <4> QED  BY <1>1, <3>2, <4>1 DEF RequestFootprint, Exists
    <3>3. alQueue \in Seq(AlRequest)
      BY <1>1 DEF CopiesOK, AlgorithmsTypeOK
    <3>4. CASE p = q /\ r.pc = "submit"
      <4>1. alQueue' = Append(alQueue, q)
        BY <1>1, <3>4 DEF RequestFootprint
      <4>2. Len(alQueue) + 1 \in DOMAIN alQueue' /\ alQueue'[Len(alQueue) + 1] = q
        BY <3>3, <4>1
      <4> QED  BY <3>4, <4>2
    <3>5. CASE ~(p = q /\ r.pc \in {"addJob", "validate", "submit"})
      <4>1. alJob[p] \in AlJobOpen /\ (p = q => alRequest[p].pc \notin {"validate", "submit"})
        BY <1>1, <1>4, <2>1, <3>5 DEF RequestFootprint
      <4>2. \/ p # q /\ alRequest[p].pc \in {"validate", "submit"}
            \/ \E i \in DOMAIN alQueue : alQueue[i] = p
            \/ alBuild # AtRest /\ alBuild.job = p
            \/ alRow[alRequest[p].version].status = "deleted"
            \/ alRestarts > 0
        BY <4>1 DEF BuildsOK, JobIsAttended
      <4>3. CASE \E i \in DOMAIN alQueue : alQueue[i] = p
        <5>1. PICK i \in DOMAIN alQueue : alQueue[i] = p
          BY <4>3
        <5>2. i \in DOMAIN alQueue' /\ alQueue'[i] = p
          BY <1>1, <3>3, <5>1 DEF RequestFootprint
        <5> QED  BY <5>2
      <4>4. CASE alRow[alRequest[p].version].status = "deleted"
        <5>1. alRequest[p].op = "build"
          BY <4>1 DEF BuildsOK, JobsOK, AlJobOpen
        <5>2. alRequest'[p].version = alRequest[p].version /\ alRequest[p].version \in AlVersion
          BY <1>4, <5>1 DEF Goes
        <5> QED  BY <1>2, <4>4, <5>2 DEF DeletedKept
      <4> QED  BY <1>4, <1>7, <4>2, <4>3, <4>4 DEF AtRest
    <3> QED  BY <3>1, <3>2, <3>4, <3>5
  <2> QED  BY <2>1 DEF JobIsAttended
<1> QED  BY <1>5, <1>6, <1>9, <1>10, <1>11

\* A request that starts has no job, and what it asks to build is there.
LEMMA StartBuildsOK ==
  ASSUME BuildsOK, NEW q \in AlRequest, NEW next, AlStep(q, "unused", next),
         next.pc \notin {"validate", "submit"},
         next.op = "build" => next.version \in AlVersion /\ alRow[next.version].status # "absent",
         UNCHANGED <<alRow, alJob, alQueue>>
  PROVE  JobsOK' /\ BuildQueueOK' /\ ThreadOK' /\ VersionIsAttended' /\ JobIsAttended'
<1>1. CopiesOK
  BY DEF BuildsOK
<1>2. /\ \A p \in AlRequest : p # q => alRequest'[p] = alRequest[p]
      /\ alRequest'[q] = next /\ alRequest[q].pc = "unused"
      /\ alBuild' = alBuild /\ alRestarts' = alRestarts
  BY <1>1, StepIsOwn DEF CopiesOK
<1>3. alRequest[q].op = "none"
  BY <1>1, <1>2, OperationOf DEF CopiesOK
<1>4. alJob[q] = "absent"
  BY <1>3 DEF BuildsOK, JobsOK
<1>5. alBuild.pc # "idle" => alBuild.job \in AlRequest
  BY <1>1 DEF CopiesOK, AlgorithmsTypeOK, AlBuildType
<1>6. alQueue \in Seq(AlRequest)
  BY <1>1 DEF CopiesOK, AlgorithmsTypeOK
<1>7. JobsOK'
  BY <1>2, <1>4 DEF BuildsOK, JobsOK
<1>8. BuildQueueOK'
  BY <1>2, <1>3, <1>6 DEF BuildsOK, BuildQueueOK, Submitted
<1>9. ThreadOK'
  <2>1. Watched(alBuild.version, alBuild.job) => Watched(alBuild.version, alBuild.job)'
    BY <1>2, <1>3 DEF Watched
  <2>2. alBuild.pc # "idle" => alBuild.job # q
    BY <1>3, <1>5 DEF BuildsOK, ThreadOK, Submitted
  <2> QED  BY <1>2, <1>5, <2>1, <2>2 DEF BuildsOK, ThreadOK, AtRest
<1>10. VersionIsAttended'
  BY <1>2, <1>3 DEF BuildsOK, VersionIsAttended
<1>11. JobIsAttended'
  BY <1>2, <1>4 DEF BuildsOK, JobIsAttended, AlJobOpen, AtRest
<1> QED  BY <1>7, <1>8, <1>9, <1>10, <1>11

LEMMA AskBuildsOK ==
  ASSUME BuildsOK, NEW q \in AlRequest, NEW v \in AlVersion, NEW vs \in SUBSET AlVersion,
         \/ AskImport(q, v) \/ AskBuild(q, v) \/ AskSwitch(q, v) \/ AskRollback(q, v)
         \/ AskDelete(q, v) \/ AskTask(q, v) \/ AskComparison(q, vs)
  PROVE  JobsOK' /\ BuildQueueOK' /\ ThreadOK' /\ VersionIsAttended' /\ JobIsAttended'
<1> USE DEF KeepRows, KeepRest
<1>1. ASSUME NEW u, NEW op, NEW todo, NEW pc \in {"addJob", "write", "list", "inUse", "look"},
             op = "build" => u \in AlVersion /\ alRow[u].status # "absent", Ask(q, op, u, todo, pc)
      PROVE  JobsOK' /\ BuildQueueOK' /\ ThreadOK' /\ VersionIsAttended' /\ JobIsAttended'
  <2> DEFINE next == [op |-> op, pc |-> pc, version |-> u, asked |-> todo, todo |-> todo,
                      copy |-> [x \in AlVersion |-> IF x = u THEN alRow[u] ELSE NoRow]]
  <2>1. AlStep(q, "unused", next) /\ next.op = op /\ next.pc = pc /\ next.version = u
    BY <1>1 DEF Ask
  <2> HIDE DEF next
  <2> QED  BY <1>1, <2>1, StartBuildsOK DEF Ask
<1>2. CASE AskBuild(q, v)  BY <1>1, <1>2 DEF AskBuild, AlBuildable
<1>3. CASE AskSwitch(q, v)  BY <1>1, <1>3 DEF AskSwitch
<1>4. CASE AskRollback(q, v)  BY <1>1, <1>4 DEF AskRollback
<1>5. CASE AskDelete(q, v)  BY <1>1, <1>5 DEF AskDelete
<1>6. CASE AskTask(q, v)  BY <1>1, <1>6 DEF AskTask
<1>7. CASE AskComparison(q, vs)  BY <1>1, <1>7 DEF AskComparison
<1>8. CASE AskImport(q, v)
  <2> DEFINE next == [Unused EXCEPT !.op = "import", !.pc = "extract", !.version = v]
  <2>1. AlStep(q, "unused", next) /\ next.op = "import" /\ next.pc = "extract"
    BY <1>8 DEF AskImport, Unused
  <2> HIDE DEF next
  <2> QED  BY <1>8, <2>1, StartBuildsOK DEF AskImport
<1> QED  BY <1>2, <1>3, <1>4, <1>5, <1>6, <1>7, <1>8

LEMMA TrafficBuildsOK ==
  ASSUME BuildsOK, NEW q \in AlRequest, NEW w \in AlSplit, AskTraffic(q, w)
  PROVE  JobsOK' /\ BuildQueueOK' /\ ThreadOK' /\ VersionIsAttended' /\ JobIsAttended'
<1> USE DEF KeepRows, KeepRest
<1> DEFINE next == [Unused EXCEPT !.op = "traffic", !.pc = "read", !.todo = DOMAIN w,
                      !.copy = [u \in AlVersion |->
                                  IF u \in DOMAIN w THEN [NoRow EXCEPT !.weight = w[u]] ELSE NoRow]]
<1>1. AlStep(q, "unused", next) /\ next.op = "traffic" /\ next.pc = "read"
  BY DEF AskTraffic, Unused
<1> HIDE DEF next
<1> QED  BY <1>1, StartBuildsOK DEF AskTraffic

\* After a restart nobody owes anything to a build.
LEMMA RestartBuildsOK ==
  ASSUME BuildsOK, RestartAlgorithms
  PROVE  JobsOK' /\ BuildQueueOK' /\ ThreadOK' /\ VersionIsAttended' /\ JobIsAttended'
<1>1. CopiesOK
  BY DEF BuildsOK
<1>2. alRestarts \in Nat
  BY <1>1, AlgorithmVersionsAssumption DEF CopiesOK, AlgorithmsTypeOK
<1>3. alRestarts' > 0
  BY <1>2 DEF RestartAlgorithms
<1>4. ASSUME NEW q \in AlRequest
      PROVE  /\ alRequest'[q].op = alRequest[q].op /\ alRequest'[q].version = alRequest[q].version
             /\ alRequest'[q].pc \notin {"validate", "submit"}
  <2>1. alRequest[q] \in AlRequestType
    BY <1>1 DEF CopiesOK, AlgorithmsTypeOK
  <2>2. \/ alRequest'[q] = alRequest[q] /\ alRequest[q].pc \in AlOver
        \/ alRequest'[q] = [alRequest[q] EXCEPT !.pc = "lost"]
    BY DEF RestartAlgorithms
  <2> QED  BY <2>1, <2>2 DEF AlOver, AlRequestType
<1>5. JobsOK'
  BY <1>4 DEF BuildsOK, JobsOK, RestartAlgorithms
<1>6. BuildQueueOK' /\ VersionIsAttended' /\ JobIsAttended'
  BY <1>3 DEF RestartAlgorithms, BuildQueueOK, VersionIsAttended, JobIsAttended
<1>7. ThreadOK'
  <2>1. AtRest.pc = "idle"
    BY DEF AtRest
  <2>2. alBuild'.pc = "idle" /\ alBuild' = AtRest' /\ AtRest' = AtRest
    BY <2>1 DEF RestartAlgorithms, AtRest, NoRow, Uploaded
  <2> HIDE DEF AtRest
  <2> QED  BY <2>2 DEF ThreadOK
<1> QED  BY <1>5, <1>6, <1>7

(***************************************************************************)
(* The build thread                                                        *)
(***************************************************************************)

\* The thread changes the job it has, which is a submitted one.
LEMMA ThreadJobsOK ==
  ASSUME BuildsOK, UNCHANGED alRequest,
         \A v \in AlVersion : alRow[v].status # "absent" => alRow'[v].status # "absent",
         \/ UNCHANGED alJob
         \/ alBuild.pc # "idle" /\ \A q \in AlRequest : q # alBuild.job => alJob'[q] = alJob[q]
  PROVE  JobsOK'
<1>1. ASSUME NEW q \in AlRequest
      PROVE  /\ alRequest[q].op = "build" => alRow'[alRequest[q].version].status # "absent"
             /\ alJob'[q] # "absent" => alRequest[q].op = "build"
             /\ alRequest[q].pc \in {"validate", "submit"} => alJob'[q] = "queued"
  <2>1. alRequest[q].version \in AlVersion
    BY DEF BuildsOK, CopiesOK, AlgorithmsTypeOK, AlRequestType
  <2>2. alJob'[q] = alJob[q] \/ Submitted(alRequest[q])
    BY DEF BuildsOK, ThreadOK
  <2> QED  BY <2>1, <2>2 DEF BuildsOK, JobsOK, Submitted
<1> QED  BY <1>1 DEF JobsOK

\* The phase is all that changes in what the thread has at hand.
LEMMA BuildGoes ==
  ASSUME AlgorithmsTypeOK, NEW from, NEW to, BuildGo(from, to)
  PROVE  /\ alBuild.pc = from /\ alBuild'.pc = to
         /\ alBuild'.job = alBuild.job /\ alBuild'.version = alBuild.version
         /\ alBuild.job \in AlRequest /\ alBuild.version \in AlVersion
         /\ UNCHANGED <<alRequest, alRestarts>>
BY DEF BuildGo, BuildStep, AlgorithmsTypeOK, AlBuildType

\* A step of the thread within a job, that keeps it open.
LEMMA WithinJob ==
  ASSUME BuildsOK, NEW from \in {"load", "mark", "build", "test", "publish", "failRow"},
         NEW to \in {"mark", "build", "test", "publish", "close", "failRow", "failJob"},
         alBuild.pc = from, alBuild'.pc = to,
         alBuild'.job = alBuild.job, alBuild'.version = alBuild.version,
         alJob'[alBuild.job] \in AlJobOpen,
         \A q \in AlRequest : q # alBuild.job => alJob'[q] = alJob[q],
         UNCHANGED <<alRequest, alQueue, alRestarts>>, DeletedKept,
         \A v \in AlVersion : alRow[v].status # "absent" => alRow'[v].status # "absent",
         \A v \in AlVersion : alRow'[v].status \in InBuild =>
           alRow[v].status \in InBuild \/ (v = alBuild.version),
         to \in {"close", "failJob"} => alRow'[alBuild.version].status \notin InBuild
  PROVE  JobsOK' /\ BuildQueueOK' /\ ThreadOK' /\ VersionIsAttended' /\ JobIsAttended'
<1>1. /\ alBuild.job \in AlRequest /\ alBuild.version \in AlVersion
      /\ Submitted(alRequest[alBuild.job]) /\ alBuild.version = alRequest[alBuild.job].version
  BY DEF BuildsOK, CopiesOK, AlgorithmsTypeOK, AlBuildType, ThreadOK
<1>2. JobsOK'
  BY ThreadJobsOK
<1>3. BuildQueueOK'
  BY DEF BuildsOK, BuildQueueOK
<1>4. ThreadOK'
  BY <1>1 DEF ThreadOK
<1>5. VersionIsAttended'
  <2>1. ASSUME NEW v \in AlVersion, alRow'[v].status \in InBuild
        PROVE  \/ \E p \in AlRequest : /\ alRequest'[p].op = "build" /\ alRequest'[p].version = v
                                       /\ alJob'[p] \in AlJobOpen
               \/ \E p \in AlRequest : alRequest'[p].op = "traffic" /\ alRequest'[p].copy[v].status # "absent"
               \/ alRestarts' > 0
    <3>1. CASE v = alBuild.version
      BY <1>1, <3>1 DEF Submitted
    <3>2. CASE v # alBuild.version
      <4>1. \/ \E p \in AlRequest : alRequest[p].op = "build" /\ alRequest[p].version = v /\ alJob[p] \in AlJobOpen
            \/ \E p \in AlRequest : alRequest[p].op = "traffic" /\ alRequest[p].copy[v].status # "absent"
            \/ alRestarts > 0
        BY <2>1, <3>2, AttendedMeans DEF BuildsOK
      <4> QED  BY <1>1, <3>2, <4>1
    <3> QED  BY <3>1, <3>2
  <2> QED  BY <2>1 DEF VersionIsAttended, InBuild
<1>6. JobIsAttended'
  <2>1. ASSUME NEW p \in AlRequest, alJob'[p] \in AlJobOpen
        PROVE  \/ alRequest'[p].pc \in {"validate", "submit"}
               \/ \E i \in DOMAIN alQueue' : alQueue'[i] = p
               \/ alBuild' # AtRest /\ alBuild'.job = p
               \/ alRow'[alRequest'[p].version].status = "deleted"
               \/ alRestarts' > 0
    <3>1. CASE p = alBuild.job
      BY <3>1 DEF AtRest
    <3>2. CASE p # alBuild.job
      <4>1. \/ alRequest[p].pc \in {"validate", "submit"}
            \/ \E i \in DOMAIN alQueue : alQueue[i] = p
            \/ alRow[alRequest[p].version].status = "deleted"
            \/ alRestarts > 0
        BY <2>1, <3>2 DEF BuildsOK, JobIsAttended
      <4>2. alRequest[p].version \in AlVersion
        BY DEF BuildsOK, CopiesOK, AlgorithmsTypeOK, AlRequestType
      <4> QED  BY <4>1, <4>2 DEF DeletedKept
    <3> QED  BY <3>1, <3>2
  <2> QED  BY <2>1 DEF JobIsAttended
<1> QED  BY <1>2, <1>3, <1>4, <1>5, <1>6

\* The thread puts its job down: it is settled, or its version was deleted.
LEMMA JobPutDown ==
  ASSUME BuildsOK, alBuild.pc # "idle", alBuild' = AtRest,
         \A q \in AlRequest : q # alBuild.job => alJob'[q] = alJob[q],
         \/ alJob'[alBuild.job] \notin AlJobOpen
         \/ alJob'[alBuild.job] = alJob[alBuild.job] /\ alRow[alBuild.version].status = "deleted",
         alRow[alBuild.version].status \in InBuild => Watched(alBuild.version, alBuild.job),
         UNCHANGED <<alRow, alRequest, alQueue, alRestarts>>
  PROVE  JobsOK' /\ BuildQueueOK' /\ ThreadOK' /\ VersionIsAttended' /\ JobIsAttended'
<1>1. /\ alBuild.job \in AlRequest /\ alBuild.version \in AlVersion
      /\ Submitted(alRequest[alBuild.job]) /\ alBuild.version = alRequest[alBuild.job].version
  BY DEF BuildsOK, CopiesOK, AlgorithmsTypeOK, AlBuildType, ThreadOK
<1>2. JobsOK'
  BY ThreadJobsOK
<1>3. BuildQueueOK'
  BY DEF BuildsOK, BuildQueueOK
<1>4. ThreadOK'
  <2>1. alBuild'.pc = "idle" /\ alBuild' = AtRest'
    BY DEF AtRest, NoRow, Uploaded
  <2> QED  BY <2>1 DEF ThreadOK
<1>5. VersionIsAttended'
  <2>1. ASSUME NEW v \in AlVersion, alRow[v].status \in InBuild
        PROVE  \/ \E p \in AlRequest : /\ alRequest[p].op = "build" /\ alRequest[p].version = v
                                       /\ alJob'[p] \in AlJobOpen
               \/ \E p \in AlRequest : alRequest[p].op = "traffic" /\ alRequest[p].copy[v].status # "absent"
               \/ alRestarts > 0
    <3>1. CASE v = alBuild.version
      BY <2>1, <3>1 DEF Watched
    <3>2. CASE v # alBuild.version
      <4>1. \/ \E p \in AlRequest : alRequest[p].op = "build" /\ alRequest[p].version = v /\ alJob[p] \in AlJobOpen
            \/ \E p \in AlRequest : alRequest[p].op = "traffic" /\ alRequest[p].copy[v].status # "absent"
            \/ alRestarts > 0
        BY <2>1, <3>2, AttendedMeans DEF BuildsOK
      <4> QED  BY <1>1, <3>2, <4>1
    <3> QED  BY <3>1, <3>2
  <2> QED  BY <2>1 DEF VersionIsAttended, InBuild
<1>6. JobIsAttended'
  BY <1>1 DEF BuildsOK, JobIsAttended
<1> QED  BY <1>2, <1>3, <1>4, <1>5, <1>6

LEMMA TakeBuildsOK ==
  ASSUME BuildsOK, TakeJob
  PROVE  JobsOK' /\ BuildQueueOK' /\ ThreadOK' /\ VersionIsAttended' /\ JobIsAttended'
<1> DEFINE h == Head(alQueue)
<1>1. /\ alQueue \in Seq(AlRequest) /\ alQueue # <<>> /\ alQueue' = Tail(alQueue)
      /\ UNCHANGED <<alRow, alJob, alRequest, alRestarts>>
  BY DEF TakeJob, BuildStep, BuildsOK, CopiesOK, AlgorithmsTypeOK
<1>2. h \in AlRequest /\ 1 \in DOMAIN alQueue /\ h = alQueue[1]
  BY <1>1
<1>3. alBuild'.pc = "load" /\ alBuild'.job = h /\ alBuild'.version = alRequest[h].version
      /\ alBuild.pc = "idle"
  BY DEF TakeJob, BuildStep, AtRest
<1>4. Submitted(alRequest[h])
  BY <1>2 DEF BuildsOK, BuildQueueOK
<1> HIDE DEF h
<1>5. JobsOK'
  BY <1>1, ThreadJobsOK
<1>6. BuildQueueOK'
  BY <1>1 DEF BuildsOK, BuildQueueOK
<1>7. ThreadOK'
  BY <1>1, <1>3, <1>4 DEF ThreadOK
<1>8. VersionIsAttended'
  BY <1>1 DEF BuildsOK, VersionIsAttended
<1>9. JobIsAttended'
  <2>1. alBuild = AtRest /\ alBuild' # AtRest'
    BY <1>3 DEF BuildsOK, ThreadOK, AtRest
  <2>2. ASSUME NEW p \in AlRequest, NEW i \in DOMAIN alQueue, alQueue[i] = p
        PROVE  p = h \/ \E k \in DOMAIN alQueue' : alQueue'[k] = p
    <3>1. CASE i = 1
      BY <1>2, <2>2, <3>1
    <3>2. CASE i # 1
      <4>1. i - 1 \in DOMAIN alQueue' /\ alQueue'[i - 1] = p
        BY <1>1, <2>2, <3>2
      <4> QED  BY <4>1
    <3> QED  BY <3>1, <3>2
  <2>3. ASSUME NEW p \in AlRequest, alJob[p] \in AlJobOpen
        PROVE  \/ alRequest[p].pc \in {"validate", "submit"}
               \/ \E i \in DOMAIN alQueue' : alQueue'[i] = p
               \/ h = p
               \/ alRow[alRequest[p].version].status = "deleted"
               \/ alRestarts > 0
    BY <2>1, <2>2, <2>3 DEF BuildsOK, JobIsAttended
  <2> QED  BY <1>1, <1>3, <2>1, <2>3 DEF JobIsAttended
<1> QED  BY <1>5, <1>6, <1>7, <1>8, <1>9

LEMMA ThreadBuildsOK ==
  ASSUME BuildsOK, BuildThread
  PROVE  JobsOK' /\ BuildQueueOK' /\ ThreadOK' /\ VersionIsAttended' /\ JobIsAttended'
<1> DEFINE v == alBuild.version  j == alBuild.job
<1>1. /\ AlgorithmsTypeOK /\ CopiesOK /\ DeletedKept
      /\ v \in AlVersion /\ j \in AlRequest /\ alBuild.copy \in AlRowType
      /\ alJob \in [AlRequest -> {"absent", "completed", "failed"} \union AlJobOpen]
      /\ alRow \in [AlVersion -> AlRowType]
  BY BuildStepRows DEF BuildsOK, CopiesOK, AlgorithmsTypeOK, AlBuildType
<1>2. alBuild.pc \notin {"idle", "load"} => alJob[j] \in AlJobOpen
  BY DEF BuildsOK, ThreadOK
<1>3. alBuild.pc # "idle" => alRow[v].status # "absent"
  BY <1>1 DEF BuildsOK, ThreadOK, JobsOK, Submitted
<1>4. ASSUME NEW row, alRow' = Saved(v, row), row.status # "absent"
      PROVE  /\ \A u \in AlVersion : alRow[u].status # "absent" => alRow'[u].status # "absent"
             /\ \A u \in AlVersion : alRow'[u].status \in InBuild => alRow[u].status \in InBuild \/ u = v
             /\ alRow'[v].status \in InBuild /\ Exists(v) => row.status \in InBuild
  BY <1>1, <1>4 DEF Saved, InBuild
<1>5. CASE TakeJob
  BY <1>5, TakeBuildsOK
<1>6. CASE LoadVersion
  <2>1. CASE Exists(v) /\ BuildStep("load", [alBuild EXCEPT !.pc = "mark", !.copy = alRow[v]]) /\ JobIs("building")
    <3>1. alBuild.pc = "load" /\ alBuild'.pc = "mark" /\ alBuild'.job = j /\ alBuild'.version = v
      BY <1>1, <2>1 DEF BuildStep, AlgorithmsTypeOK, AlBuildType
    <3>2. alJob'[j] \in AlJobOpen /\ \A q \in AlRequest : q # j => alJob'[q] = alJob[q]
      BY <1>1, <2>1 DEF JobIs, AlJobOpen
    <3> QED  BY <1>1, <1>6, <2>1, <3>1, <3>2, WithinJob DEF LoadVersion, BuildStep
  <2>2. CASE ~Exists(v) /\ BuildStep("load", AtRest) /\ JobIs("failed")
    <3>1. alJob'[j] = "failed" /\ \A q \in AlRequest : q # j => alJob'[q] = alJob[q]
      BY <1>1, <2>2 DEF JobIs
    <3>2. alRow[v].status \notin InBuild
      BY <2>2 DEF Exists, InBuild
    <3>3. alJob'[j] \notin AlJobOpen /\ alBuild.pc # "idle" /\ alBuild' = AtRest
          /\ UNCHANGED <<alRow, alRequest, alQueue, alRestarts>>
      BY <1>6, <2>2, <3>1 DEF LoadVersion, BuildStep, AlJobOpen
    <3> QED  BY <3>1, <3>2, <3>3, JobPutDown
  <2> QED  BY <1>6, <2>1, <2>2 DEF LoadVersion
<1>7. ASSUME NEW from \in {"mark", "publish"}, NEW to \in {"build", "close"}, NEW row,
             BuildSave(from, to, row), row.status # "absent",
             to = "close" => row.status \notin InBuild
      PROVE  JobsOK' /\ BuildQueueOK' /\ ThreadOK' /\ VersionIsAttended' /\ JobIsAttended'
  <2>1. /\ alBuild.pc = from /\ alBuild'.pc = (IF Exists(v) THEN to ELSE "failRow")
        /\ alBuild'.job = j /\ alBuild'.version = v
        /\ UNCHANGED <<alRequest, alRestarts, alJob, alQueue>>
        /\ alRow' = Saved(v, row)
    BY <1>1, <1>7, BuildGoes DEF BuildSave
  <2>2. alJob'[j] \in AlJobOpen
    BY <1>2, <1>7, <2>1
  <2>3. alBuild'.pc = "close" => alRow'[v].status \notin InBuild
    BY <1>4, <1>7, <2>1
  <2> QED  BY <1>1, <1>4, <1>7, <2>1, <2>2, <2>3, WithinJob
<1>8. CASE MarkBuilding
  <2> DEFINE row == [alBuild.copy EXCEPT !.status = "building"]
  <2>1. row.status = "building" /\ BuildSave("mark", "build", row)
    BY <1>1, <1>8, StatusSet DEF MarkBuilding
  <2> HIDE DEF row
  <2> QED  BY <1>7, <2>1
<1>9. CASE Publish
  <2> DEFINE row == [alBuild.copy EXCEPT !.status = "available", !.digest = TRUE]
  <2>1. row.status = "available" /\ BuildSave("publish", "close", row)
    BY <1>1, <1>9 DEF Publish, AlRowType
  <2> HIDE DEF row
  <2> QED  BY <1>7, <2>1 DEF InBuild
<1>10. ASSUME NEW from \in {"build", "test"}, NEW to \in {"test", "publish", "failRow"}, BuildGo(from, to),
              UNCHANGED <<alRow, alQueue>>, UNCHANGED alJob \/ JobIs("testing")
       PROVE  JobsOK' /\ BuildQueueOK' /\ ThreadOK' /\ VersionIsAttended' /\ JobIsAttended'
  <2>1. /\ alBuild.pc = from /\ alBuild'.pc = to /\ alBuild'.job = j /\ alBuild'.version = v
        /\ UNCHANGED <<alRequest, alRestarts>>
    BY <1>1, <1>10, BuildGoes
  <2>2. alJob'[j] \in AlJobOpen /\ \A q \in AlRequest : q # j => alJob'[q] = alJob[q]
    BY <1>1, <1>2, <1>10, <2>1 DEF JobIs, AlJobOpen
  <2> QED  BY <1>1, <1>10, <2>1, <2>2, WithinJob
<1>11. CASE BuildImage
  BY <1>10, <1>11 DEF BuildImage
<1>12. CASE BuildImageFails \/ TestImage
  BY <1>10, <1>12 DEF BuildImageFails, TestImage, KeepBuildState
<1>13. ASSUME NEW pc \in {"close", "failJob"}, BuildStep(pc, AtRest), NEW s \in {"completed", "failed"},
              JobIs(s), UNCHANGED <<alRow, alQueue>>
       PROVE  JobsOK' /\ BuildQueueOK' /\ ThreadOK' /\ VersionIsAttended' /\ JobIsAttended'
  <2>1. alJob'[j] = s /\ \A q \in AlRequest : q # j => alJob'[q] = alJob[q]
    BY <1>1, <1>13 DEF JobIs
  <2>2. alRow[v].status \in InBuild => Watched(v, j)
    BY <1>13 DEF BuildsOK, ThreadOK, BuildStep
  <2>3. alJob'[j] \notin AlJobOpen /\ alBuild.pc # "idle" /\ alBuild' = AtRest
        /\ UNCHANGED <<alRow, alRequest, alQueue, alRestarts>>
    BY <1>13, <2>1 DEF BuildStep, AlJobOpen
  <2> QED  BY <2>1, <2>2, <2>3, JobPutDown
<1>14. CASE CloseJob \/ FailJob
  BY <1>13, <1>14 DEF CloseJob, FailJob
<1>15. CASE FailVersion
  <2> DEFINE row == [alBuild.copy EXCEPT !.status = "failed"]
  <2>1. row.status = "failed" /\ alRow' = Saved(v, row) /\ UNCHANGED <<alJob, alQueue, alRequest, alRestarts>>
        /\ alBuild.pc = "failRow"
    BY <1>1, <1>15, StatusSet DEF FailVersion, BuildStep
  <2> HIDE DEF row
  <2>2. CASE Exists(v)
    <3>1. alBuild'.pc = "failJob" /\ alBuild'.job = j /\ alBuild'.version = v
      BY <1>1, <1>15, <2>2 DEF FailVersion, BuildStep, AlgorithmsTypeOK, AlBuildType
    <3>2. alRow'[v].status \notin InBuild
      BY <1>4, <2>1, <2>2 DEF InBuild
    <3> QED  BY <1>1, <1>2, <1>4, <2>1, <3>1, <3>2, WithinJob
  <2>3. CASE ~Exists(v)
    <3>1. alBuild' = AtRest /\ alRow' = alRow
      BY <1>15, <2>1, <2>3 DEF FailVersion, BuildStep, Saved
    <3>2. alRow[v].status = "deleted"
      BY <1>3, <2>1, <2>3 DEF Exists
    <3> QED  BY <2>1, <3>1, <3>2, JobPutDown DEF InBuild
  <2> QED  BY <2>2, <2>3
<1> QED
  BY <1>5, <1>6, <1>8, <1>9, <1>11, <1>12, <1>14, <1>15 DEF BuildThread

LEMMA BuildsStayOK == ASSUME BuildsOK, [AlNext \/ AlIdle]_alVars PROVE BuildsOK'
<1>1. CopiesOK'
  BY CopiesStayOK DEF BuildsOK
<1>2. ASSUME NEW q \in AlRequest, NEW w \in AlSplit, AskTraffic(q, w) PROVE BuildsOK'
  BY <1>1, <1>2, TrafficBuildsOK DEF BuildsOK
<1>3. ASSUME NEW q \in AlRequest, NEW v \in AlVersion, NEW vs \in SUBSET AlVersion,
             \/ AskImport(q, v) \/ AskBuild(q, v) \/ AskSwitch(q, v) \/ AskRollback(q, v)
             \/ AskDelete(q, v) \/ AskTask(q, v) \/ AskComparison(q, vs)
      PROVE  BuildsOK'
  <2>1. JobsOK' /\ BuildQueueOK' /\ ThreadOK' /\ VersionIsAttended' /\ JobIsAttended'
    BY <1>3, AskBuildsOK
  <2> QED  BY <1>1, <2>1 DEF BuildsOK
<1>4. CASE UNCHANGED alVars
  <2>1. JobsOK' /\ BuildQueueOK' /\ VersionIsAttended' /\ JobIsAttended'
    BY <1>4 DEF alVars, BuildsOK, JobsOK, BuildQueueOK, VersionIsAttended, JobIsAttended, AtRest
  <2>2. ThreadOK'
    BY <1>4 DEF alVars, BuildsOK, ThreadOK, Watched, AtRest
  <2> QED  BY <1>1, <2>1, <2>2 DEF BuildsOK
<1> QED
  BY <1>1, <1>2, <1>3, <1>4, RequestBuildsOK, ThreadBuildsOK, RestartBuildsOK, VersionsAreNumbers
  DEF AlNext, AlIdle, BuildsOK

LEMMA InitBuildsOK == ASSUME AlInit PROVE BuildsOK
<1>1. CopiesOK
  BY InitCopiesOK
<1>2. AtRest.pc = "idle" /\ Unused.op = "none" /\ Unused.pc = "unused"
  BY DEF AtRest, Unused
<1>3. ASSUME NEW v \in AlVersion PROVE alRow[v].status \notin InBuild
  <2>1. alRow[v] \in {NoRow, Uploaded, SeededRow, [SeededRow EXCEPT !.digest = TRUE]}
    BY DEF AlInit
  <2>2. [SeededRow EXCEPT !.digest = TRUE].status = "available"
    BY DEF SeededRow, Uploaded
  <2> QED  BY <2>1, <2>2, PlainValues DEF InBuild
<1> HIDE DEF AtRest, Unused
<1> QED
  BY <1>1, <1>2, <1>3 DEF AlInit, BuildsOK, JobsOK, BuildQueueOK, ThreadOK, VersionIsAttended, JobIsAttended,
                          AlJobOpen, InBuild

\* Nothing about a build is left open with nobody to close it.
THEOREM BuildsAlwaysAttended == AlSpec => []BuildIsAttended
<1>1. BuildsOK => BuildIsAttended
  BY DEF BuildsOK, BuildIsAttended
<1> QED  BY <1>1, InitBuildsOK, BuildsStayOK, PTL DEF AlSpec

(***************************************************************************)
(* Packages and comparisons                                                *)
(***************************************************************************)

Importing(v, pcs) ==
  \E q \in AlRequest : /\ alRequest[q].op = "import" /\ alRequest[q].version = v
                       /\ alRequest[q].pc \in pcs

\* A directory that is not whole, of a version that is registered or about to
\* be, or one that is half empty, is the work of an import.  The seeded version
\* has no directory.
PackagesOK ==
  \A v \in AlVersion \ alSeeded :
    /\ alPackage[v] # "whole"
    /\ Exists(v) \/ alPackage[v] = "partial" \/ Importing(v, {"check", "add"})
    => Importing(v, {"extract", "broken", "lost"})

LEMMA ExistsByImport ==
  ASSUME CopiesOK, NEW q \in AlRequest, AlRequestSteps(q) \/ BuildThread, NEW u \in AlVersion,
         Exists(u)', ~Exists(u)
  PROVE  AddVersion(q) /\ alRequest[q].version = u
<1> DEFINE r == alRequest[q]
<1>1. /\ alRow \in [AlVersion -> AlRowType] /\ r \in AlRequestType /\ r.version \in AlVersion
      /\ alBuild.version \in AlVersion
  BY DEF CopiesOK, AlgorithmsTypeOK, AlRequestType, AlBuildType
<1>2. ~(UNCHANGED alRow)
  BY DEF Exists
<1>3. ASSUME NEW v, NEW row PROVE alRow' # Saved(v, row)
  <2>1. CASE Exists(v) /\ alRow' = [alRow EXCEPT ![v] = row]
    BY <1>1, <2>1 DEF Exists
  <2> QED  BY <1>2, <2>1 DEF Saved
<1>4. ASSUME EraseVersion(q) PROVE FALSE
  <2>1. alRow'[u] = alRow[u] \/ alRow'[u] = GoneRow
    BY <1>1, <1>4 DEF EraseVersion, GoneRow
  <2>2. GoneRow.status = "deleted"
    BY PlainValues, StatusSet DEF GoneRow
  <2> HIDE DEF GoneRow
  <2> QED  BY <2>1, <2>2 DEF Exists
<1>5. ~BuildThread
  BY <1>2, <1>3
  DEF BuildThread, TakeJob, LoadVersion, MarkBuilding, BuildImage, BuildImageFails, TestImage, Publish,
      CloseJob, FailVersion, FailJob, BuildSave, KeepBuildState
<1>6. AddVersion(q)
  BY <1>2, <1>3, <1>4, <1>5
  DEF AlRequestSteps, Extracted, ExtractionFails, Inspect, CheckVersion, AddJob, SaveValidating, SubmitJob,
      ListVersions, ReadWeighted, SaveNext, NothingToSave, CheckUnused, RemovalFails, LookAtVersion, AddTask,
      RecordComparison, KeepRows
<1>7. r.version = u
  BY <1>1, <1>6 DEF AddVersion, Exists
<1> QED  BY <1>6, <1>7

\* Steps that leave packages and imports alone.
LEMMA PackagesKept ==
  ASSUME AlgorithmsTypeOK, PackagesOK, NEW q \in AlRequest, UNCHANGED <<alSeeded, alPackage>>,
         \A p \in AlRequest : p # q => alRequest'[p] = alRequest[p],
         alRequest[q].pc \notin {"extract", "check", "add", "broken", "lost"},
         alRequest'[q].pc \notin {"check", "add"},
         \A v \in AlVersion : Exists(v)' => Exists(v)
  PROVE  PackagesOK'
<1>1. ASSUME NEW v \in AlVersion \ alSeeded, alPackage[v] # "whole",
             Exists(v)' \/ alPackage[v] = "partial" \/ Importing(v, {"check", "add"})'
      PROVE  Importing(v, {"extract", "broken", "lost"})'
  <2>1. Importing(v, {"check", "add"})' => Importing(v, {"check", "add"})
    BY DEF Importing
  <2>2. Importing(v, {"extract", "broken", "lost"})
    BY <1>1, <2>1 DEF PackagesOK
  <2> QED  BY <2>2 DEF Importing
<1> QED  BY <1>1 DEF PackagesOK

LEMMA ImportPackagesOK ==
  ASSUME CopiesOK, PackagesOK, NEW q \in AlRequest,
         Extracted(q) \/ ExtractionFails(q) \/ Inspect(q) \/ CheckVersion(q) \/ AddVersion(q)
  PROVE  PackagesOK'
<1> USE DEF KeepRows, KeepRest
<1>0. PICK w \in AlVersion : w = alRequest[q].version
  BY DEF CopiesOK, AlgorithmsTypeOK, AlRequestType
<1>1. /\ AlgorithmsTypeOK /\ alPackage \in [AlVersion -> {"absent", "partial", "whole"}]
      /\ AlRequestSteps(q) /\ alSeeded' = alSeeded
  BY SeedKept DEF CopiesOK, AlgorithmsTypeOK, AlRequestType, AlRequestSteps, AlNext
<1>2. alRequest[q].pc \in {"extract", "inspect", "check", "add"}
  BY <1>1, GoIsOwn DEF Extracted, ExtractionFails, Inspect, CheckVersion, AddVersion
<1>3. /\ \A p \in AlRequest : p # q => alRequest'[p] = alRequest[p]
      /\ alRequest[q].op = "import" /\ alRequest'[q].op = "import" /\ alRequest'[q].version = w
  BY <1>0, <1>1, <1>2, GoIsOwn, OperationOf DEF CopiesOK, Extracted, ExtractionFails, Inspect, CheckVersion, AddVersion
<1>4. \A v \in AlVersion : v # w =>
        /\ alPackage'[v] = alPackage[v]
        /\ \A pcs \in {{"check", "add"}, {"extract", "broken", "lost"}} :
             Importing(v, pcs)' <=> Importing(v, pcs)
        /\ Exists(v)' => Exists(v)
  <2>1. ASSUME NEW v \in AlVersion, v # w PROVE alPackage'[v] = alPackage[v]
    BY <1>0, <1>1, <2>1 DEF Extracted, ExtractionFails, Inspect, CheckVersion, AddVersion
  <2>2. ASSUME NEW v \in AlVersion, v # w, NEW pcs PROVE Importing(v, pcs)' <=> Importing(v, pcs)
    BY <1>0, <1>3, <2>2 DEF Importing
  <2>3. ASSUME NEW v \in AlVersion, v # w PROVE Exists(v)' => Exists(v)
    BY <1>0, <1>1, <2>3, ExistsByImport
  <2> QED  BY <2>1, <2>2, <2>3
<1>5. ASSUME \/ w \in alSeeded
             \/ alPackage'[w] = "whole"
             \/ Importing(w, {"extract", "broken", "lost"})'
             \/ alPackage'[w] # "partial" /\ ~Importing(w, {"check", "add"})' /\ ~(Exists(w)')
      PROVE  PackagesOK'
  <2>1. ASSUME NEW v \in AlVersion \ alSeeded, v # w, alPackage'[v] # "whole",
               Exists(v)' \/ alPackage'[v] = "partial" \/ Importing(v, {"check", "add"})'
        PROVE  Importing(v, {"extract", "broken", "lost"})'
    BY <1>4, <2>1 DEF PackagesOK
  <2> QED  BY <1>1, <1>5, <2>1 DEF PackagesOK
<1>6. CASE Extracted(q)
  <2>1. alPackage'[w] = "whole"
    BY <1>0, <1>1, <1>6 DEF Extracted
  <2> QED  BY <1>5, <2>1
<1>7. CASE ExtractionFails(q)
  <2>1. alRequest'[q].pc = "broken"
    BY <1>1, <1>7, GoIsOwn DEF ExtractionFails
  <2>2. Importing(w, {"extract", "broken", "lost"})'
    BY <1>3, <2>1 DEF Importing
  <2> QED  BY <1>5, <2>2
<1>8. ASSUME alPackage'[w] = alPackage[w], alRequest[q].pc # "extract",
             alPackage[w] = "whole" \/ alPackage[w] = "partial" \/ Importing(w, {"check", "add"})
               \/ /\ Importing(w, {"check", "add"})' => Importing(w, {"check", "add"})
                  /\ Exists(w)' => Exists(w)
      PROVE  PackagesOK'
  <2>1. Importing(w, {"extract", "broken", "lost"}) => Importing(w, {"extract", "broken", "lost"})'
    BY <1>2, <1>3, <1>8 DEF Importing
  <2>2. CASE alPackage[w] # "whole" /\ Importing(w, {"extract", "broken", "lost"})
    BY <1>5, <2>1, <2>2
  <2>3. CASE alPackage[w] = "whole"
    BY <1>5, <1>8, <2>3
  <2>4. CASE w \notin alSeeded /\ alPackage[w] # "whole" /\ ~Importing(w, {"extract", "broken", "lost"})
    <3>1. ~Exists(w) /\ alPackage[w] # "partial" /\ ~Importing(w, {"check", "add"})
      BY <1>1, <2>4 DEF PackagesOK
    <3>2. alPackage'[w] # "partial" /\ ~Importing(w, {"check", "add"})' /\ ~(Exists(w)')
      BY <1>8, <2>4, <3>1
    <3> QED  BY <1>5, <3>2
  <2> QED  BY <1>5, <2>2, <2>3, <2>4
<1>9. CASE Inspect(q)
  <2>1. alPackage' = alPackage /\ alRequest[q].pc = "inspect" /\ UNCHANGED alRow
    BY <1>1, <1>9, GoIsOwn DEF Inspect
  <2>2. alPackage[w] \in {"whole", "partial"} \/ alRequest'[q].pc = "refused"
    BY <1>0, <1>1, <1>9, GoIsOwn DEF Inspect
  <2>3. alRequest'[q].pc = "refused" =>
          (Importing(w, {"check", "add"})' => Importing(w, {"check", "add"}))
    BY <1>3 DEF Importing
  <2>4. Exists(w)' => Exists(w)
    BY <2>1 DEF Exists
  <2> QED  BY <1>8, <2>1, <2>2, <2>3, <2>4
<1>10. CASE CheckVersion(q) \/ AddVersion(q)
  <2>1. alPackage' = alPackage /\ alRequest[q].pc \in {"check", "add"}
    BY <1>1, <1>10, GoIsOwn DEF CheckVersion, AddVersion
  <2>2. Importing(w, {"check", "add"})
    BY <1>0, <1>3, <2>1 DEF Importing
  <2> QED  BY <1>8, <2>1, <2>2
<1> QED  BY <1>6, <1>7, <1>9, <1>10

LEMMA PackagesStayOK ==
  ASSUME CopiesOK, PackagesOK, [AlNext \/ AlIdle]_alVars
  PROVE  PackagesOK'
<1> USE DEF KeepRows, KeepRest
<1>1. /\ AlgorithmsTypeOK /\ alPackage \in [AlVersion -> {"absent", "partial", "whole"}]
      /\ alSeeded' = alSeeded
  BY SeedKept DEF CopiesOK, AlgorithmsTypeOK
<1>2. ASSUME UNCHANGED <<alPackage, alRow>>, \A q \in AlRequest : /\ alRequest'[q].op = alRequest[q].op
                                                                  /\ alRequest'[q].version = alRequest[q].version
                                                                  /\ \/ alRequest'[q].pc = alRequest[q].pc
                                                                     \/ alRequest'[q].pc = "lost"
      PROVE  PackagesOK'
  <2>1. ASSUME NEW v \in AlVersion, Importing(v, {"check", "add"})' PROVE Importing(v, {"check", "add"})
    BY <1>2, <2>1 DEF Importing
  <2>2. ASSUME NEW v \in AlVersion, Importing(v, {"extract", "broken", "lost"})
        PROVE  Importing(v, {"extract", "broken", "lost"})'
    <3>1. PICK q \in AlRequest : /\ alRequest[q].op = "import" /\ alRequest[q].version = v
                                 /\ alRequest[q].pc \in {"extract", "broken", "lost"}
      BY <2>2 DEF Importing
    <3>2. alRequest'[q].op = "import" /\ alRequest'[q].version = v
          /\ alRequest'[q].pc \in {"extract", "broken", "lost"}
      BY <1>2, <3>1
    <3> QED  BY <3>2 DEF Importing
  <2>3. ASSUME NEW v \in AlVersion PROVE Exists(v)' <=> Exists(v)
    BY <1>2 DEF Exists
  <2> QED  BY <1>1, <1>2, <2>1, <2>2, <2>3 DEF PackagesOK
<1>3. ASSUME NEW q \in AlRequest, AlRequestSteps(q) PROVE PackagesOK'
  <2>1. CASE Extracted(q) \/ ExtractionFails(q) \/ Inspect(q) \/ CheckVersion(q) \/ AddVersion(q)
    BY <2>1, ImportPackagesOK
  <2>2. CASE ~(Extracted(q) \/ ExtractionFails(q) \/ Inspect(q) \/ CheckVersion(q) \/ AddVersion(q))
    <3>1. UNCHANGED alPackage
      BY <1>3, <2>2
      DEF AlRequestSteps, AddJob, SaveValidating, SubmitJob, ListVersions, ReadWeighted, SaveNext,
          NothingToSave, CheckUnused, RemovalFails, EraseVersion, LookAtVersion, AddTask, RecordComparison
    <3>2. alRequest[q].pc \in {"addJob", "validate", "submit", "list", "read", "write", "inUse", "erase",
                               "look", "use", "record"}
      BY <1>3, <2>2
      DEF AlRequestSteps, AddJob, SaveValidating, SubmitJob, ListVersions, ReadWeighted, SaveNext,
          NothingToSave, CheckUnused, RemovalFails, EraseVersion, LookAtVersion, AddTask, RecordComparison,
          AlGo, AlStep
    <3>3. RequestFootprint(q) /\ RequestsOK'
      BY <1>3, StepFootprint, CopiesStayOK DEF AlNext, CopiesOK
    <3>4. alRequest[q].op # "import" /\ alRequest'[q].op = alRequest[q].op
      BY <3>2, <3>3, OperationOf DEF CopiesOK, RequestFootprint, Goes
    <3>5. alRequest'[q].pc \notin {"check", "add"}
      <4>1. AlgorithmsTypeOK'
        BY StepTyped DEF CopiesOK
      <4>2. alRequest'[q].op \in {"none", "import", "build", "enable", "disable", "rollback", "delete",
                                  "traffic", "task", "compare"}
        BY <4>1 DEF AlgorithmsTypeOK, AlRequestType
      <4>3. alRequest'[q].pc \in PhasesOf(alRequest'[q].op)
        BY <3>3 DEF RequestsOK, RequestOK
      <4> QED  BY <3>4, <4>2, <4>3 DEF PhasesOf
    <3>6. ASSUME NEW v \in AlVersion, Exists(v)' PROVE Exists(v)
      BY <1>3, <2>2, <3>6, ExistsByImport
    <3> QED  BY <1>1, <3>1, <3>2, <3>3, <3>5, <3>6, PackagesKept DEF RequestFootprint
  <2> QED  BY <2>1, <2>2
<1>4. ASSUME NEW q \in AlRequest, NEW next, AlStep(q, "unused", next), next.pc \notin {"check", "add"},
             UNCHANGED <<alPackage, alRow>>
      PROVE  PackagesOK'
  BY <1>1, <1>4, StepIsOwn, PackagesKept DEF Exists
<1>5. ASSUME NEW q \in AlRequest, NEW op, NEW u, NEW todo, NEW pc \in {"addJob", "write", "list", "inUse", "look"},
             Ask(q, op, u, todo, pc)
      PROVE  PackagesOK'
  <2> DEFINE next == [op |-> op, pc |-> pc, version |-> u, asked |-> todo, todo |-> todo,
                      copy |-> [x \in AlVersion |-> IF x = u THEN alRow[u] ELSE NoRow]]
  <2>1. AlStep(q, "unused", next) /\ next.pc = pc
    BY <1>5 DEF Ask
  <2> HIDE DEF next
  <2> QED  BY <1>4, <1>5, <2>1 DEF Ask
<1>6. ASSUME NEW q \in AlRequest, NEW v \in AlVersion, NEW vs \in SUBSET AlVersion,
             \/ AskBuild(q, v) \/ AskSwitch(q, v) \/ AskRollback(q, v)
             \/ AskDelete(q, v) \/ AskTask(q, v) \/ AskComparison(q, vs)
      PROVE  PackagesOK'
  BY <1>5, <1>6 DEF AskBuild, AskSwitch, AskRollback, AskDelete, AskTask, AskComparison
<1>7. ASSUME NEW q \in AlRequest, NEW w \in AlSplit, AskTraffic(q, w) PROVE PackagesOK'
  <2> DEFINE next == [Unused EXCEPT !.op = "traffic", !.pc = "read", !.todo = DOMAIN w,
                        !.copy = [u \in AlVersion |->
                                    IF u \in DOMAIN w THEN [NoRow EXCEPT !.weight = w[u]] ELSE NoRow]]
  <2>1. AlStep(q, "unused", next) /\ next.pc = "read" /\ UNCHANGED <<alPackage, alRow>>
    BY <1>7 DEF AskTraffic, Unused
  <2> HIDE DEF next
  <2> QED  BY <1>4, <2>1
<1>8. ASSUME NEW q \in AlRequest, NEW v \in AlVersion, AskImport(q, v) PROVE PackagesOK'
  <2> DEFINE next == [Unused EXCEPT !.op = "import", !.pc = "extract", !.version = v]
  <2>1. AlStep(q, "unused", next) /\ next.op = "import" /\ next.pc = "extract" /\ next.version = v
        /\ UNCHANGED alRow /\ alPackage' = [alPackage EXCEPT ![v] = "partial"]
    BY <1>8 DEF AskImport, Unused
  <2> HIDE DEF next
  <2>2. /\ \A p \in AlRequest : p # q => alRequest'[p] = alRequest[p]
        /\ alRequest'[q] = next /\ alRequest[q].pc = "unused"
    BY <1>1, <2>1, StepIsOwn
  <2>3. Importing(v, {"extract", "broken", "lost"})'
    BY <2>1, <2>2 DEF Importing
  <2>4. ASSUME NEW u \in AlVersion \ alSeeded, u # v, alPackage'[u] # "whole",
               Exists(u)' \/ alPackage'[u] = "partial" \/ Importing(u, {"check", "add"})'
        PROVE  Importing(u, {"extract", "broken", "lost"})'
    <3>1. Importing(u, {"check", "add"})' => Importing(u, {"check", "add"})
      BY <2>1, <2>2 DEF Importing
    <3>2. (Exists(u)' => Exists(u)) /\ alPackage'[u] = alPackage[u]
      BY <1>1, <2>1, <2>4 DEF Exists
    <3>3. Importing(u, {"extract", "broken", "lost"})
      BY <2>4, <3>1, <3>2 DEF PackagesOK
    <3> QED  BY <2>2, <3>3 DEF Importing
  <2> QED  BY <1>1, <2>3, <2>4 DEF PackagesOK
<1>9. CASE BuildThread
  <2>1. PICK q \in AlRequest : TRUE
    BY AlgorithmVersionsAssumption
  <2>2. UNCHANGED <<alPackage, alRequest>>
    BY <1>9 DEF BuildThread, TakeJob, LoadVersion, MarkBuilding, BuildImage, BuildImageFails, TestImage,
                Publish, CloseJob, FailVersion, FailJob, BuildSave, BuildGo, BuildStep
  <2>3. ~AddVersion(q)
    BY <1>1, <2>2, GoIsOwn DEF AddVersion
  <2>4. ASSUME NEW v \in AlVersion, Exists(v)' PROVE Exists(v)
    BY <1>9, <2>3, <2>4, ExistsByImport
  <2>5. ASSUME NEW v \in AlVersion, NEW pcs PROVE Importing(v, pcs)' <=> Importing(v, pcs)
    BY <2>2 DEF Importing
  <2> QED  BY <1>1, <2>2, <2>4, <2>5 DEF PackagesOK
<1>10. CASE RestartAlgorithms
  <2>1. ASSUME NEW q \in AlRequest
        PROVE  /\ alRequest'[q].op = alRequest[q].op /\ alRequest'[q].version = alRequest[q].version
               /\ alRequest'[q].pc = alRequest[q].pc \/ alRequest'[q].pc = "lost"
    <3>1. alRequest[q] \in AlRequestType
      BY <1>1 DEF AlgorithmsTypeOK
    <3>2. alRequest'[q] = alRequest[q] \/ alRequest'[q] = [alRequest[q] EXCEPT !.pc = "lost"]
      BY <1>10 DEF RestartAlgorithms
    <3> QED  BY <3>1, <3>2 DEF AlRequestType
  <2> QED  BY <1>2, <1>10, <2>1 DEF RestartAlgorithms
<1>11. CASE UNCHANGED alVars
  BY <1>2, <1>11 DEF alVars
<1> QED
  BY <1>3, <1>6, <1>7, <1>8, <1>9, <1>10, <1>11, VersionsAreNumbers DEF AlNext, AlIdle

\* The directory of an imported version is whole, unless the same zip is being
\* imported again or such an import has failed.
THEOREM RegisteredPackagesStayWhole == AlSpec => []RegisteredPackageIsWhole
<1>1. AlInit => PackagesOK
  BY DEF AlInit, PackagesOK, Importing, Unused
<1>2. PackagesOK => RegisteredPackageIsWhole
  BY DEF PackagesOK, RegisteredPackageIsWhole, Importing
<1> QED  BY <1>1, <1>2, InitCopiesOK, CopiesStayOK, PackagesStayOK, PTL DEF AlSpec

\* The tasks that request q has created: at any time they and what is left to
\* look at are what the client asked to compare.
TasksOf(q) == {t[2] : t \in {t \in alTask : t[1] = q}}

Compares(q) ==
  LET r == alRequest[q] IN
  /\ r.pc = "unused" => TasksOf(q) = {}
  /\ r.op = "compare" /\ r.pc \in {"look", "use", "record", "done"} =>
       TasksOf(q) \union r.todo = r.asked /\ Cardinality(r.asked) >= 2
  /\ r.op = "compare" /\ r.pc \in {"record", "done"} => r.todo = {}
  /\ r.op = "compare" /\ r.pc = "done" => alComparison[q] = TasksOf(q)

ComparisonsOK == \A q \in AlRequest : Compares(q)

LEMMA ComparesKept ==
  ASSUME NEW q \in AlRequest, Compares(q), TasksOf(q)' = TasksOf(q), alComparison'[q] = alComparison[q],
         \/ alRequest'[q] = alRequest[q]
         \/ alRequest'[q].pc \in {"refused", "lost"}
         \/ alRequest'[q].op # "compare" /\ alRequest'[q].pc # "unused"
         \/ /\ alRequest[q].pc \in {"look", "use", "record"} /\ alRequest'[q].pc \in {"look", "use"}
            /\ alRequest'[q].op = alRequest[q].op /\ alRequest'[q].asked = alRequest[q].asked
            /\ alRequest'[q].todo = alRequest[q].todo
  PROVE  Compares(q)'
BY DEF Compares

LEMMA ComparisonsStayOK ==
  ASSUME CopiesOK, ComparisonsOK, [AlNext \/ AlIdle]_alVars
  PROVE  ComparisonsOK'
<1> USE DEF KeepRows, KeepRest
<1>1. AlgorithmsTypeOK
  BY DEF CopiesOK
<1>2. ASSUME NEW q \in AlRequest, UNCHANGED <<alTask, alComparison>>, Compares(q)',
             \A p \in AlRequest : p # q => alRequest'[p] = alRequest[p]
      PROVE  ComparisonsOK'
  <2>1. ASSUME NEW p \in AlRequest, p # q PROVE Compares(p)'
    BY <1>2, <2>1, ComparesKept DEF ComparisonsOK, TasksOf
  <2> QED  BY <1>2, <2>1 DEF ComparisonsOK
<1>3. ASSUME NEW q \in AlRequest, AlRequestSteps(q) PROVE ComparisonsOK'
  <2>1. RequestFootprint(q) /\ RequestsOK'
    BY <1>3, StepFootprint, CopiesStayOK DEF AlNext, CopiesOK
  <2>2. CASE AddTask(q)
    <3> DEFINE n == NextVersion(alRequest[q])  left == alRequest[q].todo \ {n}
               pc == IF left # {} THEN "look" ELSE IF alRequest[q].op = "compare" THEN "record" ELSE "done"
    <3>1. alRequest[q] \in AlRequestType /\ alRequest[q].todo \in SUBSET AlVersion
      BY <1>1 DEF AlgorithmsTypeOK, AlRequestType
    <3>2. n \in alRequest[q].todo /\ alTask' = alTask \union {<<q, n>>} /\ alRequest[q].pc = "use"
          /\ UNCHANGED alComparison
      BY <1>1, <2>2, <3>1, NextIsLeft DEF AddTask, NextVersion, AlStep
    <3>3. alRequest'[q] = [alRequest[q] EXCEPT !.todo = left, !.pc = pc]
      BY <1>1, <2>2, StepIsOwn DEF AddTask
    <3> HIDE DEF n
    <3>4. alRequest'[q].todo = left /\ alRequest'[q].op = alRequest[q].op
          /\ alRequest'[q].asked = alRequest[q].asked /\ alRequest'[q].pc = pc
      <4> HIDE DEF pc
      <4> QED  BY <3>1, <3>3 DEF AlRequestType
    <3>5. TasksOf(q)' = TasksOf(q) \union {n}
      <4> DEFINE new == <<q, n>>
      <4>1. new[1] = q /\ new[2] = n /\ alTask' = alTask \union {new}
        BY <3>2
      <4> HIDE DEF new
      <4>2. ASSUME NEW v \in TasksOf(q)' PROVE v \in TasksOf(q) \union {n}
        BY <4>1, <4>2 DEF TasksOf
      <4>3. ASSUME NEW v \in TasksOf(q) \union {n} PROVE v \in TasksOf(q)'
        <5>1. CASE v = n
          BY <4>1, <5>1 DEF TasksOf
        <5>2. CASE v \in TasksOf(q)
          BY <4>1, <5>2 DEF TasksOf
        <5> QED  BY <4>3, <5>1, <5>2
      <4> QED  BY <4>2, <4>3
    <3>6. TasksOf(q)' \union left = TasksOf(q) \union alRequest[q].todo
      BY <3>2, <3>5
    <3>7. Compares(q)'
      BY <3>2, <3>4, <3>6 DEF ComparisonsOK, Compares
    <3>8. ASSUME NEW p \in AlRequest, p # q PROVE Compares(p)'
      <4>1. TasksOf(p)' = TasksOf(p)
        BY <3>2, <3>8 DEF TasksOf
      <4> QED  BY <2>1, <3>2, <3>8, <4>1, ComparesKept DEF ComparisonsOK, RequestFootprint
    <3> QED  BY <3>7, <3>8 DEF ComparisonsOK
  <2>3. CASE RecordComparison(q)
    <3>1. /\ alRequest[q].pc = "record" /\ alRequest'[q].pc = "done" /\ alRequest[q].op = "compare"
          /\ alRequest'[q].op = alRequest[q].op /\ alRequest'[q].asked = alRequest[q].asked
          /\ alRequest'[q].todo = alRequest[q].todo
          /\ UNCHANGED alTask /\ alComparison' = [alComparison EXCEPT ![q] = TasksOf(q)]
      BY <1>1, <2>3, GoIsOwn, OperationOf DEF RecordComparison, CopiesOK, TasksOf
    <3>2. alComparison'[q] = TasksOf(q) /\ \A p \in AlRequest : TasksOf(p)' = TasksOf(p)
      BY <1>1, <3>1 DEF AlgorithmsTypeOK, TasksOf
    <3>3. Compares(q)'
      BY <3>1, <3>2 DEF ComparisonsOK, Compares
    <3>4. ASSUME NEW p \in AlRequest, p # q PROVE Compares(p)'
      <4>1. alComparison'[p] = alComparison[p]
        BY <1>1, <3>1, <3>4 DEF AlgorithmsTypeOK
      <4> QED  BY <2>1, <3>2, <3>4, <4>1, ComparesKept DEF ComparisonsOK, RequestFootprint
    <3> QED  BY <3>3, <3>4 DEF ComparisonsOK
  <2>4. CASE LookAtVersion(q)
    <3>1. UNCHANGED <<alTask, alComparison>> /\ alRequest[q].pc = "look"
          /\ alRequest'[q].pc \in {"use", "refused"}
          /\ alRequest'[q].op = alRequest[q].op /\ alRequest'[q].asked = alRequest[q].asked
          /\ alRequest'[q].todo = alRequest[q].todo
      BY <1>1, <2>4, GoIsOwn DEF LookAtVersion
    <3>2. Compares(q)'
      BY <3>1, ComparesKept DEF ComparisonsOK, TasksOf
    <3> QED  BY <1>2, <2>1, <3>1, <3>2 DEF RequestFootprint
  <2>5. CASE ~(AddTask(q) \/ RecordComparison(q) \/ LookAtVersion(q))
    <3>1. UNCHANGED <<alTask, alComparison>>
          /\ alRequest[q].pc \in {"extract", "inspect", "check", "add", "addJob", "validate", "submit", "list",
                                  "read", "write", "inUse", "erase"}
      BY <1>3, <2>5
      DEF AlRequestSteps, Extracted, ExtractionFails, Inspect, CheckVersion, AddVersion, AddJob,
          SaveValidating, SubmitJob, ListVersions, ReadWeighted, SaveNext, NothingToSave, CheckUnused,
          RemovalFails, EraseVersion, AlGo, AlStep
    <3>2. alRequest'[q].op \notin {"compare", "none"}
      BY <2>1, <3>1, OperationOf DEF CopiesOK, RequestFootprint, Goes
    <3>3. alRequest'[q].pc # "unused"
      <4>1. AlgorithmsTypeOK'
        BY StepTyped DEF CopiesOK
      <4>2. alRequest'[q].pc \in PhasesOf(alRequest'[q].op)
            /\ alRequest'[q].op \in {"none", "import", "build", "enable", "disable", "rollback", "delete",
                                     "traffic", "task", "compare"}
        BY <2>1, <4>1 DEF RequestsOK, RequestOK, AlgorithmsTypeOK, AlRequestType
      <4> QED  BY <3>2, <4>2 DEF PhasesOf
    <3>4. Compares(q)'
      BY <3>1, <3>2, <3>3, ComparesKept DEF ComparisonsOK, TasksOf
    <3> QED  BY <1>2, <2>1, <3>1, <3>4 DEF RequestFootprint
  <2> QED  BY <2>2, <2>3, <2>4, <2>5
<1>4. ASSUME NEW q \in AlRequest, NEW next, AlStep(q, "unused", next), next.pc # "unused", next.op # "compare",
             UNCHANGED <<alTask, alComparison>>
      PROVE  ComparisonsOK'
  <2>1. /\ \A p \in AlRequest : p # q => alRequest'[p] = alRequest[p]
        /\ alRequest'[q] = next /\ alRequest[q].pc = "unused"
    BY <1>1, <1>4, StepIsOwn
  <2>2. Compares(q)'
    BY <1>4, <2>1, ComparesKept DEF ComparisonsOK, TasksOf
  <2> QED  BY <1>2, <1>4, <2>1, <2>2
<1>5. ASSUME NEW q \in AlRequest, NEW op, NEW u, NEW todo, NEW pc \in {"addJob", "write", "list", "inUse", "look"},
             op # "compare", Ask(q, op, u, todo, pc)
      PROVE  ComparisonsOK'
  <2> DEFINE next == [op |-> op, pc |-> pc, version |-> u, asked |-> todo, todo |-> todo,
                      copy |-> [x \in AlVersion |-> IF x = u THEN alRow[u] ELSE NoRow]]
  <2>1. AlStep(q, "unused", next) /\ next.pc = pc /\ next.op = op
    BY <1>5 DEF Ask
  <2> HIDE DEF next
  <2> QED  BY <1>4, <1>5, <2>1 DEF Ask
<1>6. ASSUME NEW q \in AlRequest, NEW v \in AlVersion,
             AskBuild(q, v) \/ AskSwitch(q, v) \/ AskRollback(q, v) \/ AskDelete(q, v) \/ AskTask(q, v)
      PROVE  ComparisonsOK'
  BY <1>5, <1>6 DEF AskBuild, AskSwitch, AskRollback, AskDelete, AskTask
<1>7. ASSUME NEW q \in AlRequest, NEW vs \in SUBSET AlVersion, AskComparison(q, vs) PROVE ComparisonsOK'
  <2> DEFINE next == [op |-> "compare", pc |-> "look", version |-> LastIn(vs), asked |-> vs, todo |-> vs,
                      copy |-> [x \in AlVersion |-> IF x = LastIn(vs) THEN alRow[LastIn(vs)] ELSE NoRow]]
  <2>1. AlStep(q, "unused", next) /\ Cardinality(vs) >= 2 /\ UNCHANGED <<alTask, alComparison>>
    BY <1>7 DEF AskComparison, Ask
  <2>2. next.op = "compare" /\ next.pc = "look" /\ next.asked = vs /\ next.todo = vs
    OBVIOUS
  <2> HIDE DEF next
  <2>3. /\ \A p \in AlRequest : p # q => alRequest'[p] = alRequest[p]
        /\ alRequest'[q] = next /\ alRequest[q].pc = "unused"
    BY <1>1, <2>1, StepIsOwn
  <2>4. TasksOf(q)' = {} /\ TasksOf(q)' \union vs = vs
    BY <2>1, <2>3 DEF ComparisonsOK, Compares, TasksOf
  <2>5. Compares(q)'
    BY <2>1, <2>2, <2>3, <2>4 DEF Compares
  <2> QED  BY <1>2, <2>1, <2>3, <2>5
<1>8. ASSUME NEW q \in AlRequest, NEW w \in AlSplit, AskTraffic(q, w) PROVE ComparisonsOK'
  <2> DEFINE next == [Unused EXCEPT !.op = "traffic", !.pc = "read", !.todo = DOMAIN w,
                        !.copy = [u \in AlVersion |->
                                    IF u \in DOMAIN w THEN [NoRow EXCEPT !.weight = w[u]] ELSE NoRow]]
  <2>1. AlStep(q, "unused", next) /\ next.pc = "read" /\ next.op = "traffic" /\ UNCHANGED <<alTask, alComparison>>
    BY <1>8 DEF AskTraffic, Unused
  <2> HIDE DEF next
  <2> QED  BY <1>4, <2>1
<1>9. ASSUME NEW q \in AlRequest, NEW v \in AlVersion, AskImport(q, v) PROVE ComparisonsOK'
  <2> DEFINE next == [Unused EXCEPT !.op = "import", !.pc = "extract", !.version = v]
  <2>1. AlStep(q, "unused", next) /\ next.pc = "extract" /\ next.op = "import" /\ UNCHANGED <<alTask, alComparison>>
    BY <1>9 DEF AskImport, Unused
  <2> HIDE DEF next
  <2> QED  BY <1>4, <2>1
<1>10. ASSUME UNCHANGED <<alTask, alComparison>>,
              \A q \in AlRequest : alRequest'[q] = alRequest[q] \/ alRequest'[q].pc = "lost"
       PROVE  ComparisonsOK'
  BY <1>10, ComparesKept DEF ComparisonsOK, TasksOf
<1>11. CASE BuildThread
  BY <1>10, <1>11 DEF BuildThread, TakeJob, LoadVersion, MarkBuilding, BuildImage, BuildImageFails, TestImage,
                      Publish, CloseJob, FailVersion, FailJob, BuildSave, BuildGo, BuildStep
<1>12. CASE RestartAlgorithms
  <2>1. ASSUME NEW q \in AlRequest PROVE alRequest'[q] = alRequest[q] \/ alRequest'[q].pc = "lost"
    BY <1>1, <1>12 DEF RestartAlgorithms, AlgorithmsTypeOK, AlRequestType
  <2> QED  BY <1>10, <1>12, <2>1 DEF RestartAlgorithms
<1>13. CASE UNCHANGED alVars
  BY <1>10, <1>13 DEF alVars
<1> QED
  BY <1>3, <1>6, <1>7, <1>8, <1>9, <1>11, <1>12, <1>13, VersionsAreNumbers DEF AlNext, AlIdle

\* A stored comparison compares exactly the versions that were asked for.
THEOREM ComparisonsStayWhole == AlSpec => []ComparisonIsWhole
<1>1. AlInit => ComparisonsOK
  <2>1. ASSUME AlInit, NEW q \in AlRequest PROVE Compares(q)
    BY <2>1 DEF AlInit, Compares, TasksOf, Unused
  <2> QED  BY <2>1 DEF ComparisonsOK
<1>2. CopiesOK /\ ComparisonsOK => ComparisonIsWhole
  <2>1. ASSUME CopiesOK, ComparisonsOK, NEW q \in AlRequest, alRequest[q].op = "compare"
        PROVE  /\ alRequest[q].pc = "done" => /\ alComparison[q] = alRequest[q].asked
                                              /\ Cardinality(alComparison[q]) >= 2
               /\ \A v \in AlVersion : <<q, v>> \in alTask /\ v \notin alComparison[q] =>
                    alRequest[q].pc \in {"look", "use", "record", "refused", "lost"}
    <3>1. alRequest[q].pc \in {"look", "use", "record", "done", "refused", "lost"}
      BY <2>1 DEF CopiesOK, RequestsOK, RequestOK, PhasesOf
    <3>2. ASSUME alRequest[q].pc = "done"
          PROVE  /\ alComparison[q] = TasksOf(q) /\ alComparison[q] = alRequest[q].asked
                 /\ Cardinality(alComparison[q]) >= 2
      <4>1. alRequest[q].todo = {} /\ alComparison[q] = TasksOf(q)
        BY <2>1, <3>2 DEF ComparisonsOK, Compares
      <4>2. TasksOf(q) \union alRequest[q].todo = TasksOf(q)
        BY <4>1
      <4> QED  BY <2>1, <3>2, <4>1, <4>2 DEF ComparisonsOK, Compares
    <3>3. ASSUME NEW v \in AlVersion, <<q, v>> \in alTask PROVE v \in TasksOf(q)
      BY <3>3 DEF TasksOf
    <3> QED  BY <3>1, <3>2, <3>3
  <2> QED  BY <2>1 DEF ComparisonIsWhole
<1> QED  BY <1>1, <1>2, InitCopiesOK, CopiesStayOK, ComparisonsStayOK, PTL DEF AlSpec

(***************************************************************************)
(* choose_version: the slots of a candidate are those from the weights of  *)
(* the candidates before it up to its own.                                 *)
(***************************************************************************)

\* Running totals of the weights.
WeightAt(rows, k) == IF k \in Weighted(rows) THEN rows[k].weight ELSE 0

SumBy(sum, rows) ==
  /\ sum \in [Nat -> Nat] /\ sum[0] = 0
  /\ \A n \in Nat : sum[n + 1] = sum[n] + WeightAt(rows, n + 1)

LEMMA UpToUnfolds ==
  ASSUME NEW rows, \A v \in Weighted(rows) : rows[v].weight \in Nat
  PROVE  \E sum : SumBy(sum, rows) /\ \A v \in Nat : UpTo(rows, v) = sum[v]
<1> DEFINE more(n, s) == s + WeightAt(rows, n)
           step == [n \in Nat |-> [s \in Nat |-> more(n + 1, s)]]
           Loop(g) == [k \in Nat |-> IF k = 0 THEN 0
                                     ELSE g[k - 1] + (IF k \in Weighted(rows) THEN rows[k].weight ELSE 0)]
           total == CHOOSE g : g = Loop(g)
<1>1. \A n \in Nat : \A s \in Nat : more(n, s) \in Nat
  BY DEF WeightAt
<1>2. PICK g \in [Nat -> Nat] : g[0] = 0 /\ \A n \in Nat : g[n + 1] = step[n][g[n]]
  <2>1. step \in [Nat -> [Nat -> Nat]]
    <3> HIDE DEF more
    <3> QED  BY <1>1
  <2> HIDE DEF step
  <2>2. PICK A, zero : A = Nat /\ zero = 0
    OBVIOUS
  <2>3. zero \in A /\ step \in [Nat -> [A -> A]]
    BY <2>1, <2>2
  <2>4. \E g \in [Nat -> A] : Follows(g, zero, step)
    BY <2>3, RecursionExists
  <2> QED  BY <2>2, <2>4 DEF Follows
<1>3. \A n \in Nat : g[n + 1] = more(n + 1, g[n])
  BY <1>2
<1>4. g = Loop(g)
  <2>1. ASSUME NEW i \in Nat PROVE g[i] = Loop(g)[i]
    <3>1. CASE i = 0
      BY <1>2, <3>1
    <3>2. CASE i # 0
      <4>1. i - 1 \in Nat /\ (i - 1) + 1 = i
        BY <3>2
      <4>2. g[i] = more(i, g[i - 1])
        BY <1>3, <4>1
      <4> QED  BY <3>2, <4>2 DEF WeightAt
    <3> QED  BY <3>1, <3>2
  <2> QED  BY <1>2, <2>1
<1>5. total = Loop(total)
  <2> HIDE DEF Loop
  <2> QED  BY <1>4
<1>6. PICK k : k = total
  OBVIOUS
<1>7. k = Loop(k)
  BY <1>5, <1>6
<1>8. \A v \in Nat : UpTo(rows, v) = k[v]
  BY <1>6 DEF UpTo
<1>9. k[0] = 0 /\ \A n \in Nat : k[n + 1] = more(n + 1, k[n])
  <2>1. \A i \in Nat : k[i] = Loop(k)[i]
    BY <1>7
  <2>2. k[0] = 0
    BY <2>1
  <2>3. ASSUME NEW n \in Nat PROVE k[n + 1] = more(n + 1, k[n])
    <3>1. n + 1 \in Nat /\ n + 1 # 0 /\ (n + 1) - 1 = n
      OBVIOUS
    <3>2. k[n + 1] = Loop(k)[n + 1]
      BY <2>1, <3>1
    <3>3. Loop(k)[n + 1] = more(n + 1, k[(n + 1) - 1])
      BY <3>1 DEF WeightAt
    <3> QED  BY <3>1, <3>2, <3>3
  <2> QED  BY <2>2, <2>3
<1>10. k \in [Nat -> Nat]
  <2> DEFINE Fine == {n \in Nat : k[n] \in Nat}
  <2>1. 0 \in Fine
    BY <1>9
  <2>2. ASSUME NEW n \in Nat, n \in Fine PROVE n + 1 \in Fine
    <3>1. n + 1 \in Nat /\ k[n] \in Nat
      BY <2>2
    <3> HIDE DEF more
    <3>2. k[n + 1] \in Nat
      BY <1>1, <1>9, <3>1
    <3> QED  BY <3>1, <3>2
  <2>3. \A n \in Nat : n \in Fine
    <3> HIDE DEF Fine
    <3> QED  BY <2>1, <2>2, SetInduction
  <2>4. k = [n \in Nat |-> k[n]]
    BY <1>7
  <2> QED  BY <2>3, <2>4
<1>11. SumBy(k, rows)
  BY <1>9, <1>10 DEF SumBy
<1> QED  BY <1>8, <1>11

\* The totals grow, and only at a candidate.
LEMMA SumGrows ==
  ASSUME NEW rows, DOMAIN rows = AlVersion, \A v \in Weighted(rows) : rows[v].weight \in Nat,
         NEW sum, SumBy(sum, rows)
  PROVE  /\ \A m, n \in Nat : m <= n => sum[m] <= sum[n]
         /\ \A n \in Nat : sum[n] = 0 \/ \E u \in Weighted(rows) : u <= n /\ sum[u] = sum[n]
<1>1. /\ \A n \in Nat : sum[n] \in Nat /\ sum[n + 1] = sum[n] + WeightAt(rows, n + 1)
      /\ sum[0] = 0 /\ Weighted(rows) \subseteq Nat
  BY VersionsAreNumbers DEF SumBy, Weighted
<1>2. \A n \in Nat : WeightAt(rows, n) \in Nat /\ (n \notin Weighted(rows) => WeightAt(rows, n) = 0)
  BY DEF WeightAt
<1>3. ASSUME NEW m \in Nat PROVE \A n \in Nat : m <= n => sum[m] <= sum[n]
  <2> DEFINE Fine == {n \in Nat : m <= n => sum[m] <= sum[n]}
  <2>1. 0 \in Fine
    BY <1>1
  <2>2. ASSUME NEW n \in Nat, n \in Fine PROVE n + 1 \in Fine
    <3>1. PICK x \in Nat, y \in Nat, w \in Nat : x = sum[n] /\ y = sum[n + 1] /\ w = WeightAt(rows, n + 1)
      <4>1. n + 1 \in Nat
        OBVIOUS
      <4>2. sum[n] \in Nat /\ sum[n + 1] \in Nat /\ WeightAt(rows, n + 1) \in Nat
        BY <1>1, <1>2, <4>1
      <4> HIDE DEF Fine
      <4> QED  BY <4>2
    <3>2. y = x + w
      BY <1>1, <3>1
    <3>3. CASE m <= n
      <4>1. sum[m] <= x /\ sum[m] \in Nat
        BY <1>1, <2>2, <3>1, <3>3
      <4>2. sum[m] <= y
        BY <3>2, <4>1
      <4> QED  BY <3>1, <4>2
    <3>4. CASE m = n + 1
      BY <1>1, <3>4
    <3>5. m <= n + 1 => m <= n \/ m = n + 1
      OBVIOUS
    <3>6. m <= n + 1 => sum[m] <= sum[n + 1]
      BY <3>3, <3>4, <3>5, <2>2
    <3> QED  BY <3>6
  <2> HIDE DEF Fine
  <2>3. \A n \in Nat : n \in Fine
    BY <2>1, <2>2, SetInduction
  <2> QED  BY <2>3 DEF Fine
<1>4. \A n \in Nat : sum[n] = 0 \/ \E u \in Weighted(rows) : u <= n /\ sum[u] = sum[n]
  <2> DEFINE Fine == {n \in Nat : sum[n] = 0 \/ \E u \in Weighted(rows) : u <= n /\ sum[u] = sum[n]}
  <2>1. 0 \in Fine
    BY <1>1
  <2>2. ASSUME NEW n \in Nat, n \in Fine PROVE n + 1 \in Fine
    <3>1. CASE n + 1 \in Weighted(rows)
      BY <3>1
    <3>2. CASE n + 1 \notin Weighted(rows)
      <4>1. sum[n + 1] = sum[n]
        BY <1>1, <1>2, <3>2
      <4>2. \A u \in Weighted(rows) : u <= n => u <= n + 1
        BY <1>1
      <4> QED  BY <2>2, <4>1, <4>2
    <3> QED  BY <3>1, <3>2
  <2> HIDE DEF Fine
  <2>3. \A n \in Nat : n \in Fine
    BY <2>1, <2>2, SetInduction
  <2> QED  BY <2>3 DEF Fine
<1> QED  BY <1>3, <1>4

\* The slots of a candidate.
LEMMA RoutedExactly ==
  ASSUME NEW rows, DOMAIN rows = AlVersion, \A u \in Weighted(rows) : rows[u].weight \in Nat,
         NEW sum, SumBy(sum, rows), \A u \in Nat : UpTo(rows, u) = sum[u],
         NEW slot \in Nat, NEW v \in Weighted(rows)
  PROVE  Routed(rows, slot) = v <=> sum[v - 1] <= slot /\ (v = LastIn(Weighted(rows)) \/ slot < sum[v])
<1> DEFINE C == Weighted(rows)
           hit == {u \in C : slot < UpTo(rows, u)}
           last == LastIn(C)
<1>1. /\ \A m, n \in Nat : m <= n => sum[m] <= sum[n]
      /\ \A n \in Nat : sum[n] = 0 \/ \E u \in C : u <= n /\ sum[u] = sum[n]
      /\ \A n \in Nat : sum[n] \in Nat
  <2>1. \A n \in Nat : sum[n] \in Nat
    BY DEF SumBy
  <2> QED  BY <2>1, SumGrows
<1>2. C \in SUBSET AlVersion /\ C \subseteq Nat \ {0} /\ v \in Nat /\ v - 1 \in Nat
  BY AlgorithmVersionsAssumption DEF Weighted, AlVersion
<1>3. last \in C /\ \A u \in C : u <= last
  <2> HIDE DEF C
  <2>1. C \in SUBSET AlVersion /\ C # {}
    BY <1>2 DEF C
  <2> QED  BY <2>1, LastIsLast
<1>4. \A u \in C : u \in hit <=> slot < sum[u]
  BY <1>2
<1>5. Routed(rows, slot) = IF hit = {} THEN last ELSE CHOOSE u \in hit : \A o \in hit : u <= o
  BY DEF Routed
<1> HIDE DEF C, last
<1>6. hit \in SUBSET Nat /\ hit \subseteq C
  BY <1>2
<1> HIDE DEF hit
<1>7. ASSUME sum[v - 1] <= slot, NEW u \in hit PROVE v <= u
  <2>1. u \in Nat /\ slot < sum[u] /\ sum[u] \in Nat /\ sum[v - 1] \in Nat
    BY <1>1, <1>2, <1>4, <1>6
  <2>2. ~(sum[u] <= sum[v - 1])
    BY <1>7, <2>1
  <2>3. ~(u <= v - 1)
    BY <1>1, <1>2, <2>1, <2>2
  <2> QED  BY <1>2, <2>1, <2>3
<1>8. ASSUME sum[v - 1] <= slot, v = last \/ slot < sum[v] PROVE Routed(rows, slot) = v
  <2>1. CASE hit = {}
    <3>1. v \notin hit /\ v \in C
      BY <2>1 DEF C
    <3> QED  BY <1>4, <1>5, <1>8, <2>1, <3>1
  <2>2. CASE hit # {}
    <3>1. v \in hit
      <4>1. CASE slot < sum[v]
        BY <1>4, <4>1 DEF C
      <4>2. CASE v = last
        <5>1. PICK u \in hit : TRUE
          BY <2>2
        <5>2. v <= u /\ u <= v /\ u \in Nat
          BY <1>3, <1>6, <1>7, <1>8, <4>2
        <5> QED  BY <1>2, <5>1, <5>2
      <4> QED  BY <1>8, <4>1, <4>2
    <3>2. \A o \in hit : v <= o
      BY <1>7, <1>8
    <3>3. ASSUME NEW u \in hit, \A o \in hit : u <= o PROVE u = v
      BY <1>2, <1>6, <3>1, <3>2, <3>3
    <3>4. (CHOOSE u \in hit : \A o \in hit : u <= o) = v
      BY <3>1, <3>2, <3>3
    <3> QED  BY <1>5, <2>2, <3>4
  <2> QED  BY <2>1, <2>2
<1>9. ASSUME Routed(rows, slot) = v PROVE sum[v - 1] <= slot /\ (v = last \/ slot < sum[v])
  <2>1. CASE hit = {}
    <3>1. v = last /\ ~(slot < sum[v])
      BY <1>4, <1>5, <1>9, <2>1 DEF C
    <3>2. sum[v - 1] <= sum[v] /\ sum[v] \in Nat /\ sum[v - 1] \in Nat
      BY <1>1, <1>2
    <3> QED  BY <3>1, <3>2
  <2>2. CASE hit # {}
    <3>1. \E u \in hit : \A o \in hit : u <= o
      BY <1>6, <2>2, LeastExists
    <3>2. v \in hit /\ \A o \in hit : v <= o
      BY <1>5, <1>9, <2>2, <3>1
    <3>3. slot < sum[v]
      BY <1>4, <3>2 DEF C
    <3>4. ASSUME slot < sum[v - 1] PROVE FALSE
      <4>1. sum[v - 1] # 0
        BY <1>1, <1>2, <3>4
      <4>2. PICK u \in C : u <= v - 1 /\ sum[u] = sum[v - 1]
        BY <1>1, <1>2, <4>1
      <4>3. u \in hit
        BY <1>4, <3>4, <4>2
      <4>4. v <= u /\ u \in Nat
        BY <1>2, <3>2, <4>3
      <4> QED  BY <1>2, <4>2, <4>4
    <3>5. sum[v - 1] <= slot
      BY <1>1, <1>2, <3>4
    <3> QED  BY <3>3, <3>5
  <2> QED  BY <2>1, <2>2
<1> QED  BY <1>8, <1>9 DEF last, C

\* How many slots that makes.
Slots(percent, from, weight, last) == {s \in 0..(percent - 1) : from <= s /\ (last \/ s < from + weight)}

LEMMA SlotsOf ==
  ASSUME NEW percent \in Nat, NEW from \in Nat, NEW weight \in Nat, NEW last \in BOOLEAN
  PROVE  LET free == IF from < percent THEN percent - from ELSE 0
         IN  Cardinality(Slots(percent, from, weight, last)) = IF last \/ free < weight THEN free ELSE weight
<1> DEFINE slots == Slots(percent, from, weight, last)
           free == IF from < percent THEN percent - from ELSE 0
           up == IF last \/ free < weight THEN percent - 1 ELSE from + weight - 1
<1>1. up \in Int /\ slots = from..up
  <2>1. up \in Int
    OBVIOUS
  <2>2. ASSUME NEW s \in Nat PROVE s \in slots <=> from <= s /\ s <= up
    BY DEF Slots
  <2>3. slots \subseteq Nat
    BY DEF Slots
  <2> HIDE DEF slots, up
  <2>4. from..up \subseteq Nat /\ \A s \in Nat : s \in from..up <=> from <= s /\ s <= up
    BY <2>1
  <2>5. \A s : s \in slots <=> s \in from..up
    BY <2>2, <2>3, <2>4
  <2>6. slots = from..up
    BY <2>5
  <2> QED  BY <2>1, <2>6
<1>2. Cardinality(from..up) = IF from > up THEN 0 ELSE up - from + 1
  <2> HIDE DEF up
  <2> QED  BY <1>1, FS_Interval
<1>3. (IF from > up THEN 0 ELSE up - from + 1) = IF last \/ free < weight THEN free ELSE weight
  OBVIOUS
<1> HIDE DEF slots, free, up
<1> QED  BY <1>1, <1>2, <1>3 DEF slots, free

\* choose_version gives every candidate but the last as many of the slots as its
\* weight says and the ones before it have left, and the last one the rest: for
\* every number of versions, whatever weights were stored.
THEOREM SplitStaysExact == AlSpec => []SplitIsExact
<1>1. ASSUME AlgorithmsTypeOK PROVE SplitIsExact
  <2> DEFINE C == Weighted(alRow)
  <2>1. /\ DOMAIN alRow = AlVersion /\ AlPercent \in Nat
        /\ \A v \in C : v \in AlVersion /\ alRow[v].weight \in Nat
    BY <1>1, AlgorithmVersionsAssumption DEF AlgorithmsTypeOK, AlRowType, Weighted
  <2>2. PICK sum : SumBy(sum, alRow) /\ \A v \in Nat : UpTo(alRow, v) = sum[v]
    BY <2>1, UpToUnfolds
  <2> HIDE DEF C
  <2>3. ASSUME NEW v \in C
        PROVE  LET Share == Cardinality({s \in 0..(AlPercent - 1) : Routed(alRow, s) = v})
                   Before == UpTo(alRow, v) - alRow[v].weight
                   Free == IF Before < AlPercent THEN AlPercent - Before ELSE 0
               IN  Share = IF v = LastIn(C) \/ Free < alRow[v].weight THEN Free ELSE alRow[v].weight
    <3>1. v \in Nat /\ v - 1 \in Nat /\ (v - 1) + 1 = v
      BY <2>1 DEF AlVersion
    <3>2. PICK from \in Nat, weight \in Nat, last \in BOOLEAN :
            from = sum[v - 1] /\ weight = alRow[v].weight /\ last = (v = LastIn(C))
      BY <2>1, <2>2, <3>1 DEF SumBy
    <3>3. sum[v] = from + weight
      <4>1. WeightAt(alRow, v) = weight
        BY <3>2 DEF WeightAt, C
      <4>2. sum[(v - 1) + 1] = sum[v - 1] + WeightAt(alRow, (v - 1) + 1)
        BY <2>2, <3>1 DEF SumBy
      <4> QED  BY <3>1, <3>2, <4>1, <4>2
    <3>4. UpTo(alRow, v) - alRow[v].weight = from
      BY <2>2, <3>1, <3>2, <3>3
    <3>5. {s \in 0..(AlPercent - 1) : Routed(alRow, s) = v}
            = Slots(AlPercent, from, weight, last)
      <4>1. ASSUME NEW s \in 0..(AlPercent - 1)
            PROVE  Routed(alRow, s) = v <=> from <= s /\ (last \/ s < from + weight)
        <5>1. Routed(alRow, s) = v <=> sum[v - 1] <= s /\ (v = LastIn(Weighted(alRow)) \/ s < sum[v])
          BY <2>1, <2>2, RoutedExactly DEF C
        <5> QED  BY <3>2, <3>3, <5>1 DEF C
      <4> QED  BY <4>1 DEF Slots
    <3>6. LET free == IF from < AlPercent THEN AlPercent - from ELSE 0
          IN  Cardinality(Slots(AlPercent, from, weight, last)) = IF last \/ free < weight THEN free ELSE weight
      BY <2>1, SlotsOf
    <3> QED  BY <3>2, <3>4, <3>5, <3>6
  <2> QED  BY <2>3 DEF SplitIsExact, C
<1> QED  BY <1>1, AlgorithmsTypeCorrect, PTL
=============================================================================
