------------------------- MODULE AlgorithmVersions -------------------------
(***************************************************************************)
(* The versions of one algorithm: import of a package, build of its image, *)
(* enabling, rollback, deletion, traffic weights, and the tasks and        *)
(* comparisons that use them (modules/algorithms, operations/service.py,   *)
(* comparisons).  Requests and the build thread read a row, decide, and    *)
(* store their whole copy later; a phase ends wherever one of them reads   *)
(* or writes a row, a job, the tasks or the package directory.             *)
(*                                                                         *)
(* Abstracted: manifests, logs, projects, image names; one key, of which   *)
(* seed_demo_data may store the first version.  The tables are those of    *)
(* PostgreSQL, where a deleted row stays as a tombstone.  A version that   *)
(* was deleted is not imported again, and a new one only when the ones     *)
(* before it are there: versions are listed as they were created.          *)
(* Not a step: a request that is refused on its first read.                *)
(***************************************************************************)
EXTENDS Naturals, Sequences, FiniteSets

CONSTANTS
  AlVersions,     \* number of versions; they are created in the order 1..n
  AlRequest,      \* threads that serve requests, each serves one
  AlPercent,      \* what weights add up to (100 in the code)
  AlSplit,        \* weights that clients send
  AlMaxRestarts   \* bound: how often the process goes down

AlVersion == 1..AlVersions

ASSUME AlgorithmVersionsAssumption ==
  /\ AlVersions \in Nat \ {0}
  /\ AlRequest # {}
  /\ AlPercent \in Nat \ {0}
  /\ AlMaxRestarts \in Nat
  /\ \A w \in AlSplit : DOMAIN w \subseteq AlVersion /\ \A v \in DOMAIN w : w[v] \in 0..AlPercent

VARIABLES
  alSeeded,      \* the versions that seed_demo_data stores at a start; never changes
  alRow,         \* [AlVersion -> AlRowType]  algorithm_versions
  alPackage,     \* [AlVersion -> state of the directory of the extracted zip]
  alJob,         \* [AlRequest -> status of the job the request created]
  alQueue,       \* work queue of the one build thread
  alBuild,       \* the build thread
  alRequest,     \* [AlRequest -> AlRequestType]
  alTask,        \* tasks: pairs <<request, version>>
  alComparison,  \* stored comparisons: [request -> versions compared]
  alRestarts

alVars == <<alSeeded, alRow, alPackage, alJob, alQueue, alBuild, alRequest, alTask, alComparison, alRestarts>>

--------------------------------------------------------------------------
(* Which version choose_version routes to *)

Weighted(rows) == {v \in DOMAIN rows : rows[v].status = "available" /\ rows[v].weight > 0}

\* cumulative after candidate v: the weights of the candidates up to it.
UpTo(rows, v) ==
  LET sum[k \in Nat] == IF k = 0 THEN 0
                        ELSE sum[k - 1] + (IF k \in Weighted(rows) THEN rows[k].weight ELSE 0)
  IN  sum[v]

LastIn(S) == CHOOSE v \in S : \A u \in S : u <= v

\* Seeded fault: slots are compared with <=.
RoutedLate(rows, slot) ==
  LET hit == {v \in Weighted(rows) : slot <= UpTo(rows, v)} IN
  IF hit = {} THEN LastIn(Weighted(rows)) ELSE CHOOSE v \in hit : \A u \in hit : v <= u

\* The candidate whose slots contain the slot; the last one takes what is left.
Routed(rows, slot) ==
  LET hit == {v \in Weighted(rows) : slot < UpTo(rows, v)} IN
  IF hit = {} THEN LastIn(Weighted(rows)) ELSE CHOOSE v \in hit : \A u \in hit : v <= u

--------------------------------------------------------------------------
AlBuildable == {"uploaded", "failed"}
AlUsable == {"available", "disabled"}

AlRowType == [status : {"absent", "deleted", "validating", "building"} \union AlBuildable \union AlUsable,
              weight : 0..AlPercent, digest : BOOLEAN]

\* AlgorithmVersion.uploaded: the weight of a new version is the whole.
Uploaded == [status |-> "uploaded", weight |-> AlPercent, digest |-> FALSE]

NoRow == [Uploaded EXCEPT !.status = "absent"]

\* AlgorithmVersion.available, of the seed: an image that was never built here.
SeededRow == [Uploaded EXCEPT !.status = "available"]

Exists(v) == alRow[v].status \notin {"absent", "deleted"}

Importable(v) == \A u \in 1..(v - 1) : alRow[u].status # "absent"

\* op says what is asked, and of which versions; todo is what is left of a loop,
\* copy the rows read.
AlRequestType ==
  [op : {"none", "import", "build", "enable", "disable", "rollback", "delete", "traffic", "task", "compare"},
   pc : {"unused", "extract", "inspect", "check", "add", "addJob", "validate", "submit", "list", "read",
         "write", "inUse", "erase", "look", "use", "record", "done", "refused", "broken", "lost"},
   version : AlVersion, asked : SUBSET AlVersion, todo : SUBSET AlVersion, copy : [AlVersion -> AlRowType]]

Unused == [op |-> "none", pc |-> "unused", version |-> 1, asked |-> {}, todo |-> {},
           copy |-> [v \in AlVersion |-> NoRow]]

AlOver == {"unused", "done", "refused", "broken", "lost"}

AlBuildType == [pc : {"idle", "load", "mark", "build", "test", "publish", "close", "failRow", "failJob"},
                job : AlRequest, version : AlVersion, copy : AlRowType]

AtRest == [pc |-> "idle", job |-> CHOOSE q \in AlRequest : TRUE, version |-> 1, copy |-> NoRow]

AlJobOpen == {"queued", "building", "testing"}

AlgorithmsTypeOK ==
  /\ alSeeded \in SUBSET AlVersion
  /\ alRow \in [AlVersion -> AlRowType]
  /\ alPackage \in [AlVersion -> {"absent", "partial", "whole"}]
  /\ alJob \in [AlRequest -> {"absent", "completed", "failed"} \union AlJobOpen]
  /\ alQueue \in Seq(AlRequest)
  /\ alBuild \in AlBuildType
  /\ alRequest \in [AlRequest -> AlRequestType]
  /\ alTask \subseteq AlRequest \X AlVersion
  /\ alComparison \in [AlRequest -> SUBSET AlVersion]
  /\ alRestarts \in 0..AlMaxRestarts

\* A platform some time after its installation: the seed has run at its starts.
AlInit ==
  /\ alSeeded \in {{}, {1}}
  /\ alRow \in [AlVersion -> {NoRow, Uploaded, SeededRow, [SeededRow EXCEPT !.digest = TRUE]}]
  /\ \A v \in AlVersion : /\ alRow[v] # NoRow => Importable(v)
                          /\ alRow[v] = SeededRow <=> v \in alSeeded
  /\ alPackage = [v \in AlVersion |-> IF Exists(v) /\ v \notin alSeeded THEN "whole" ELSE "absent"]
  /\ alJob = [q \in AlRequest |-> "absent"]
  /\ alQueue = <<>>
  /\ alBuild = AtRest
  /\ alRequest = [q \in AlRequest |-> Unused]
  /\ alTask = {}
  /\ alComparison = [q \in AlRequest |-> {}]
  /\ alRestarts = 0

--------------------------------------------------------------------------
(* Requests *)

\* Request q is at pc and goes on as next.
AlStep(q, pc, next) ==
  /\ alRequest[q].pc = pc
  /\ alRequest' = [alRequest EXCEPT ![q] = next]
  /\ UNCHANGED <<alSeeded, alBuild, alRestarts>>

AlGo(q, from, to) == AlStep(q, from, [alRequest[q] EXCEPT !.pc = to])

KeepRows == UNCHANGED alRow
KeepRest == UNCHANGED <<alPackage, alJob, alQueue, alTask, alComparison>>

\* A request that passes its first check starts with what that check has read.
Ask(q, op, v, todo, pc) ==
  /\ AlStep(q, "unused", [op |-> op, pc |-> pc, version |-> v, asked |-> todo, todo |-> todo,
                          copy |-> [u \in AlVersion |-> IF u = v THEN alRow[v] ELSE NoRow]])
  /\ KeepRows /\ KeepRest

AskBuild(q, v) == alRow[v].status \in AlBuildable /\ Ask(q, "build", v, {}, "addJob")

AskSwitch(q, v) ==
  \/ alRow[v].status = "disabled" /\ Ask(q, "enable", v, {v}, "write")
  \/ alRow[v].status = "available" /\ Ask(q, "disable", v, {v}, "write")

AskRollback(q, v) == alRow[v].status \in AlUsable /\ Ask(q, "rollback", v, {}, "list")

AskDelete(q, v) == Exists(v) /\ Ask(q, "delete", v, {}, "inUse")

AskTask(q, v) == Ask(q, "task", v, {v}, "look")

\* create of a comparison: at least two versions after the removal of doubles.
AskComparison(q, vs) ==
  Cardinality(vs) >= 2 /\ Ask(q, "compare", LastIn(vs), vs, "look")

\* set_traffic: the weights make the whole; the rows are read one by one.
WeightsTotal(w) ==
  LET sum[k \in Nat] == IF k = 0 THEN 0 ELSE sum[k - 1] + (IF k \in DOMAIN w THEN w[k] ELSE 0)
  IN  sum[AlVersions]

AskTraffic(q, w) ==
  /\ DOMAIN w # {} /\ WeightsTotal(w) = AlPercent
  /\ AlStep(q, "unused", [Unused EXCEPT !.op = "traffic", !.pc = "read", !.todo = DOMAIN w,
                            !.copy = [v \in AlVersion |->
                                        IF v \in DOMAIN w THEN [NoRow EXCEPT !.weight = w[v]] ELSE NoRow]])
  /\ KeepRows /\ KeepRest

--------------------------------------------------------------------------
(* import_package *)

Extracting(v) == \E q \in AlRequest : /\ alRequest[q].op = "import" /\ alRequest[q].pc = "extract"
                                      /\ alRequest[q].version = v

\* The directory of the zip is emptied first, under the lock of its digest; it
\* is the directory of the registered version if the zip was imported before.
AskImport(q, v) ==
  /\ ~Extracting(v) /\ Importable(v)
  /\ AlStep(q, "unused", [Unused EXCEPT !.op = "import", !.pc = "extract", !.version = v])
  /\ alPackage' = [alPackage EXCEPT ![v] = "partial"]
  /\ KeepRows /\ UNCHANGED <<alJob, alQueue, alTask, alComparison>>

\* All members and the SDK are there, and the lock is released.
Extracted(q) ==
  /\ AlGo(q, "extract", "inspect")
  /\ alPackage' = [alPackage EXCEPT ![alRequest[q].version] = "whole"]
  /\ KeepRows /\ UNCHANGED <<alJob, alQueue, alTask, alComparison>>

\* A zip that is bad or hits an error of the disk: its directory is removed, or
\* left as it is when that error was BadZipFile or came from the copy of the SDK.
ExtractionFails(q) ==
  /\ AlGo(q, "extract", "broken")
  /\ \E left \in {"absent", "partial"} : alPackage' = [alPackage EXCEPT ![alRequest[q].version] = left]
  /\ KeepRows /\ UNCHANGED <<alJob, alQueue, alTask, alComparison>>

\* manifest.yaml, service.py and test/sample.jpg are looked for after the lock:
\* another import of the same zip may be under way.
Inspect(q) ==
  /\ \/ alPackage[alRequest[q].version] # "absent" /\ AlGo(q, "inspect", "check")
     \/ alPackage[alRequest[q].version] # "whole" /\ AlGo(q, "inspect", "refused")
  /\ KeepRows /\ KeepRest

\* Seeded fault: an import that is refused removes the files it has unpacked.
CheckVersionCleaning(q) ==
  LET v == alRequest[q].version IN
  /\ AlGo(q, "check", IF Exists(v) THEN "refused" ELSE "add")
  /\ alPackage' = IF Exists(v) THEN [alPackage EXCEPT ![v] = "absent"] ELSE alPackage
  /\ KeepRows /\ UNCHANGED <<alJob, alQueue, alTask, alComparison>>

CheckVersion(q) ==
  /\ AlGo(q, "check", IF Exists(alRequest[q].version) THEN "refused" ELSE "add")
  /\ KeepRows /\ KeepRest

\* add raises when the version was added meanwhile.
AddVersion(q) ==
  LET v == alRequest[q].version  new == alRow[v].status = "absent" IN
  /\ AlGo(q, "add", IF new THEN "done" ELSE "refused")
  /\ alRow' = IF new THEN [alRow EXCEPT ![v] = Uploaded] ELSE alRow
  /\ KeepRest

--------------------------------------------------------------------------
(* save, and the requests that end with one *)

\* save of a repository stores the whole row, and raises for one that is gone:
\* the rows after it.
Saved(v, row) == IF Exists(v) THEN [alRow EXCEPT ![v] = row] ELSE alRow

AddJob(q) ==
  /\ AlGo(q, "addJob", "validate")
  /\ alJob' = [alJob EXCEPT ![q] = "queued"]
  /\ KeepRows /\ UNCHANGED <<alPackage, alQueue, alTask, alComparison>>

SaveValidating(q) ==
  LET v == alRequest[q].version IN
  /\ AlGo(q, "validate", IF Exists(v) THEN "submit" ELSE "refused")
  /\ alRow' = Saved(v, [alRequest[q].copy[v] EXCEPT !.status = "validating"])
  /\ KeepRest

SubmitJob(q) ==
  /\ AlGo(q, "submit", "done")
  /\ alQueue' = Append(alQueue, q)
  /\ KeepRows /\ UNCHANGED <<alPackage, alJob, alTask, alComparison>>

\* rollback: one SELECT of all versions.
ListVersions(q) ==
  /\ AlStep(q, "list", [alRequest[q] EXCEPT !.pc = "write", !.copy = alRow,
                                            !.todo = {v \in AlVersion : alRow[v].status \in AlUsable}])
  /\ KeepRows /\ KeepRest

\* set_traffic: a version that is not there ends it before the first save.
ReadWeighted(q) ==
  LET r == alRequest[q]
      v == CHOOSE v \in r.todo : \A u \in r.todo : v <= u
      read == [r EXCEPT !.copy[v] = [alRow[v] EXCEPT !.weight = r.copy[v].weight], !.todo = @ \ {v}]
      asked == {u \in AlVersion : read.copy[u].status # "absent"}
  IN
  /\ r.todo # {}
  /\ AlStep(q, "read",
       CASE ~Exists(v) -> [r EXCEPT !.pc = "refused"]
         [] Exists(v) /\ read.todo # {} -> read
         [] OTHER -> [read EXCEPT !.pc = "write", !.todo = asked])
  /\ KeepRows /\ KeepRest

\* The status a request stores for version v of its copy.
Desired(r, v) ==
  CASE r.op = "traffic" -> r.copy[v].status
    [] r.op = "enable" \/ (r.op = "rollback" /\ v = r.version) -> "available"
    [] OTHER -> "disabled"

\* The loop over the copies, in the order of creation; a version deleted
\* meanwhile ends it half way.
SaveNext(q) ==
  LET r == alRequest[q]  v == CHOOSE v \in r.todo : \A u \in r.todo : v <= u  left == r.todo \ {v} IN
  /\ r.pc = "write" /\ r.todo # {}
  /\ AlStep(q, "write", [r EXCEPT !.todo = left,
                                  !.pc = CASE ~Exists(v) -> "refused"
                                           [] left = {} -> "done"
                                           [] OTHER -> "write"])
  /\ alRow' = Saved(v, [r.copy[v] EXCEPT !.status = Desired(r, v)])
  /\ KeepRest

\* rollback of a version that was deleted since finds nothing to store.
NothingToSave(q) ==
  /\ alRequest[q].todo = {} /\ AlGo(q, "write", "done")
  /\ KeepRows /\ KeepRest

--------------------------------------------------------------------------
(* delete, create_task and comparisons *)

CheckUnused(q) ==
  LET used == \E t \in alTask : t[2] = alRequest[q].version IN
  /\ AlGo(q, "inUse", IF used THEN "refused" ELSE "erase")
  /\ KeepRows /\ KeepRest

\* The removal of instances and image goes first, and may raise.
RemovalFails(q) == AlGo(q, "erase", "refused") /\ KeepRows /\ KeepRest

EraseVersion(q) ==
  /\ AlGo(q, "erase", "done")
  /\ alRow' = [alRow EXCEPT ![alRequest[q].version] = [NoRow EXCEPT !.status = "deleted"]]
  /\ KeepRest

NextVersion(r) == CHOOSE v \in r.todo : \A u \in r.todo : v <= u

\* create_task reads the version; asset and parameters may be refused as well.
LookAtVersion(q) ==
  LET r == alRequest[q] IN
  /\ r.todo # {}
  /\ \/ alRow[NextVersion(r)].status = "available" /\ AlGo(q, "look", "use")
     \/ AlGo(q, "look", "refused")
  /\ KeepRows /\ KeepRest

\* Seeded fault: the comparison is stored before its last task exists.
AddTaskLate(q) ==
  LET r == alRequest[q]  left == r.todo \ {NextVersion(r)} IN
  /\ r.todo # {}
  /\ AlStep(q, "use", [r EXCEPT !.todo = left, !.pc = IF Cardinality(left) > 1 THEN "look"
                                                      ELSE IF r.op = "compare" THEN "record" ELSE "done"])
  /\ alTask' = alTask \union {<<q, NextVersion(r)>>}
  /\ KeepRows /\ UNCHANGED <<alPackage, alJob, alQueue, alComparison>>

AddTask(q) ==
  LET r == alRequest[q]  left == r.todo \ {NextVersion(r)} IN
  /\ r.todo # {}
  /\ AlStep(q, "use", [r EXCEPT !.todo = left, !.pc = IF left # {} THEN "look"
                                                      ELSE IF r.op = "compare" THEN "record" ELSE "done"])
  /\ alTask' = alTask \union {<<q, NextVersion(r)>>}
  /\ KeepRows /\ UNCHANGED <<alPackage, alJob, alQueue, alComparison>>

RecordComparison(q) ==
  /\ AlGo(q, "record", "done")
  /\ alComparison' = [alComparison EXCEPT ![q] = {t[2] : t \in {t \in alTask : t[1] = q}}]
  /\ KeepRows /\ UNCHANGED <<alPackage, alJob, alQueue, alTask>>

AlRequestSteps(q) ==
  \/ Extracted(q) \/ ExtractionFails(q) \/ Inspect(q) \/ CheckVersion(q) \/ AddVersion(q)
  \/ AddJob(q) \/ SaveValidating(q) \/ SubmitJob(q)
  \/ ListVersions(q) \/ ReadWeighted(q) \/ SaveNext(q) \/ NothingToSave(q)
  \/ CheckUnused(q) \/ RemovalFails(q) \/ EraseVersion(q)
  \/ LookAtVersion(q) \/ AddTask(q) \/ RecordComparison(q)

--------------------------------------------------------------------------
(* LocalBuildQueue: one thread *)

BuildStep(pc, next) ==
  /\ alBuild.pc = pc
  /\ alBuild' = next
  /\ UNCHANGED <<alSeeded, alPackage, alRequest, alTask, alComparison, alRestarts>>

BuildGo(from, to) == BuildStep(from, [alBuild EXCEPT !.pc = to])

JobIs(status) == alJob' = [alJob EXCEPT ![alBuild.job] = status]

KeepBuildState == UNCHANGED <<alRow, alJob, alQueue>>

TakeJob ==
  /\ alQueue # <<>>
  /\ BuildStep("idle", [AtRest EXCEPT !.pc = "load", !.job = Head(alQueue),
                                      !.version = alRequest[Head(alQueue)].version])
  /\ alQueue' = Tail(alQueue)
  /\ UNCHANGED <<alRow, alJob>>

\* The version is read, and the job shows BUILDING, or FAILED without a version.
LoadVersion ==
  LET v == alBuild.version IN
  /\ \/ Exists(v) /\ BuildStep("load", [alBuild EXCEPT !.pc = "mark", !.copy = alRow[v]]) /\ JobIs("building")
     \/ ~Exists(v) /\ BuildStep("load", AtRest) /\ JobIs("failed")
  /\ UNCHANGED <<alRow, alQueue>>

\* The copy is stored with a new status, or save raises.
BuildSave(from, to, row) ==
  /\ BuildGo(from, IF Exists(alBuild.version) THEN to ELSE "failRow")
  /\ alRow' = Saved(alBuild.version, row)
  /\ UNCHANGED <<alJob, alQueue>>

MarkBuilding == BuildSave("mark", "build", [alBuild.copy EXCEPT !.status = "building"])

\* The Manager builds the image from the package directory, then starts and asks
\* a container of it; both calls end, at the latest by their timeouts.
BuildImage ==
  /\ alPackage[alBuild.version] # "absent"
  /\ BuildGo("build", "test") /\ JobIs("testing")
  /\ UNCHANGED <<alRow, alQueue>>

BuildImageFails == BuildGo("build", "failRow") /\ KeepBuildState

TestImage ==
  /\ \/ BuildGo("test", "publish")
     \/ BuildGo("test", "failRow")
  /\ KeepBuildState

\* Seeded fault: the digest is not stored.
PublishBare == BuildSave("publish", "close", [alBuild.copy EXCEPT !.status = "available"])

Publish == BuildSave("publish", "close", [alBuild.copy EXCEPT !.status = "available", !.digest = TRUE])

CloseJob == BuildStep("close", AtRest) /\ JobIs("completed") /\ UNCHANGED <<alRow, alQueue>>

\* Seeded fault: only the job is failed.
FailJobOnly == BuildGo("failRow", "failJob") /\ KeepBuildState
\* _fail: its first save may raise too, and the job stays as it is.
FailVersion ==
  LET v == alBuild.version IN
  /\ BuildStep("failRow", IF Exists(v) THEN [alBuild EXCEPT !.pc = "failJob"] ELSE AtRest)
  /\ alRow' = Saved(v, [alBuild.copy EXCEPT !.status = "failed"])
  /\ UNCHANGED <<alJob, alQueue>>

FailJob == BuildStep("failJob", AtRest) /\ JobIs("failed") /\ UNCHANGED <<alRow, alQueue>>

BuildThread ==
  \/ TakeJob \/ LoadVersion \/ MarkBuilding \/ BuildImage \/ BuildImageFails \/ TestImage \/ Publish \/ CloseJob
  \/ FailVersion \/ FailJob

--------------------------------------------------------------------------
\* seed_demo_data finds no row and adds one with the id of the tombstone.
SeedFails == \E v \in alSeeded : ~Exists(v)

\* The process dies, in any state, and starts again: nothing recovers builds.
\* The seed stores a row it finds with its own status; when it fails, so does the
\* start, and whatever a client asks for from then on is lost.
RestartAlgorithms ==
  /\ alRestarts < AlMaxRestarts
  /\ alRestarts' = alRestarts + 1
  /\ alQueue' = <<>>
  /\ alBuild' = AtRest
  /\ alRequest' = [q \in AlRequest |->
                     IF alRequest[q].pc \in AlOver /\ (SeedFails => alRequest[q].pc # "unused")
                     THEN alRequest[q] ELSE [alRequest[q] EXCEPT !.pc = "lost"]]
  /\ UNCHANGED <<alSeeded, alRow, alPackage, alJob, alTask, alComparison>>

AlNext ==
  \/ \E q \in AlRequest :
       \/ AlRequestSteps(q)
       \/ \E v \in AlVersion : \/ AskImport(q, v) \/ AskBuild(q, v) \/ AskSwitch(q, v)
                               \/ AskRollback(q, v) \/ AskDelete(q, v) \/ AskTask(q, v)
       \/ \E vs \in SUBSET AlVersion : AskComparison(q, vs)
       \/ \E w \in AlSplit : AskTraffic(q, w)
  \/ BuildThread
  \/ RestartAlgorithms

\* Nothing is left to do but to wait for a client.
AlIdle ==
  /\ \A q \in AlRequest : alRequest[q].pc \in AlOver
  /\ alBuild = AtRest /\ alQueue = <<>>
  /\ UNCHANGED alVars

AlSpec == AlInit /\ [][AlNext \/ AlIdle]_alVars

--------------------------------------------------------------------------
\* A version that is offered to clients, or was, has the digest of an image that
\* has passed the protocol test, whatever stale copies are stored; the one
\* exception is the version of the seed, which is never built nor tested.
PublishedHasDigest ==
  \A v \in AlVersion \ alSeeded : alRow[v].status \in AlUsable => alRow[v].digest

\* No stale copy, of a request or of the build thread, brings a deleted version
\* back.
DeletedStaysDeleted ==
  [][\A v \in AlVersion : alRow[v].status = "deleted" => alRow'[v] = alRow[v]]_alVars

\* A version that shows validating or building has a job on its way, unless a
\* traffic change has stored the copy it had read during the build, or the
\* process went down: then it can be neither built nor enabled any more.
VersionIsAttended ==
  \A v \in AlVersion : alRow[v].status \in {"validating", "building"} =>
    \/ \E q \in AlRequest : /\ alRequest[q].op = "build" /\ alRequest[q].version = v
                            /\ alRequest[q].pc = "submit" \/ alJob[q] \in AlJobOpen
    \/ \E q \in AlRequest : alRequest[q].op = "traffic" /\ alRequest[q].copy[v].status # "absent"
    \/ alRestarts > 0

\* The directory of an imported version holds its package, except while the
\* same zip is imported again, or after such an import has failed half way or
\* died: an import that is refused because the version is there harms nothing.
RegisteredPackageIsWhole ==
  \A v \in AlVersion \ alSeeded : Exists(v) /\ alPackage[v] # "whole" =>
    \E q \in AlRequest : /\ alRequest[q].op = "import" /\ alRequest[q].version = v
                         /\ alRequest[q].pc \in {"extract", "broken", "lost"}

\* Every candidate but the last is chosen for as many of the slots as its
\* weight says and the ones before it have left; the last one has the rest.
\* Two new versions (with the whole weight each) are the case where the second
\* gets nothing.
SplitIsExact ==
  LET C == Weighted(alRow)
      Share(v) == Cardinality({s \in 0..(AlPercent - 1) : Routed(alRow, s) = v})
      Before(v) == UpTo(alRow, v) - alRow[v].weight
      Free(v) == IF Before(v) < AlPercent THEN AlPercent - Before(v) ELSE 0
  IN  \A v \in C : Share(v) = IF v = LastIn(C) \/ Free(v) < alRow[v].weight
                              THEN Free(v) ELSE alRow[v].weight

\* A stored comparison compares exactly the versions that were asked for, two or
\* more, and a task that was created for one stays outside of it only when a
\* later version was refused.
ComparisonIsWhole ==
  \A q \in AlRequest : alRequest[q].op = "compare" =>
    /\ alRequest[q].pc = "done" => /\ alComparison[q] = alRequest[q].asked
                                  /\ Cardinality(alComparison[q]) >= 2
    /\ \A v \in AlVersion : <<q, v>> \in alTask /\ v \notin alComparison[q] =>
         alRequest[q].pc \in {"look", "use", "record", "refused", "lost"}

\* No job stays open with nobody to settle it: it is about to be submitted, in
\* the queue, or in the hands of the build thread; the exceptions are the
\* deletion of its version before or during the build, and the end of the
\* process.
JobIsAttended ==
  \A q \in AlRequest : alJob[q] \in AlJobOpen =>
    \/ alRequest[q].pc \in {"validate", "submit"}
    \/ \E i \in DOMAIN alQueue : alQueue[i] = q
    \/ alBuild # AtRest /\ alBuild.job = q
    \/ alRow[alRequest[q].version].status = "deleted"
    \/ alRestarts > 0

\* So nothing about a build is left open with nobody to close it.
BuildIsAttended == VersionIsAttended /\ JobIsAttended
=============================================================================
