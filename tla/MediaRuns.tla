------------------------------ MODULE MediaRuns ------------------------------
(***************************************************************************)
(* Media sources and the inference runs over them: modules/media (runs.py, *)
(* service.py, the handlers in api.py) and the frame extraction of         *)
(* services/media-worker.  A pool thread extracts the frames of a source,  *)
(* creates a task per frame and stores the tasks with the run; the run     *)
(* then advances only when a client asks for it: every such request reads  *)
(* the run and its tasks and may store an outcome.                         *)
(*                                                                         *)
(* Covered: sources and their deletion, start, extraction and its errors,  *)
(* failure of the creation of assets and tasks, concurrent refreshes,      *)
(* process death and recovery.  Abstracted: URIs, pictures, parameters,    *)
(* projects, the order of the executor's queue.                            *)
(***************************************************************************)
EXTENDS Naturals, FiniteSets, TaskPort

CONSTANTS
  MdRun,         \* run identifiers
  MdRefresh,     \* threads that serve requests for a run
  MdVideo,       \* bound: source frames of the longest video
  MdStride,      \* source frames from one extracted frame to the next
  MdMaxFrames,   \* max_frames of the requests
  MdWorkers,     \* max_workers of the executor (2 in the code)
  MdMaxRestarts  \* bound: how often the process goes down

ASSUME MediaRunsAssumption ==
  /\ MdRun # {}
  /\ MdVideo \in Nat
  /\ MdStride \in Nat \ {0}
  /\ MdMaxFrames \in Nat \ {0}
  /\ MdWorkers \in Nat \ {0}
  /\ MdMaxRestarts \in Nat

VARIABLES
  mdStore,    \* "memory" or "postgres"
  mdSource,   \* "absent", "stored" or "deleted"
  mdRow,      \* [MdRun -> MdRowType]      table of runs
  mdThread,   \* [MdRun -> MdThreadType]   _execute of the run
  mdTask,     \* [MdRun -> [frame -> TaskState]]
  mdRefresh,  \* [MdRefresh -> progress of refresh]
  mdRestarts

mdVars == <<mdStore, mdSource, mdRow, mdThread, mdTask, mdRefresh, mdRestarts>>

--------------------------------------------------------------------------
(* Which frames the media worker extracts *)

\* Seeded fault: the product is truncated.
TruncateQuarters(q) == q \div 4

\* round() of q/4: to the nearest integer, the even one of two.
RoundQuarters(q) ==
  CASE q % 4 < 2 -> q \div 4
    [] q % 4 > 2 -> q \div 4 + 1
    [] OTHER -> q \div 4 + ((q \div 4) % 2)

\* frame_stride for a product of rate and interval of q/4.
FrameStride(q) == IF RoundQuarters(q) > 1 THEN RoundQuarters(q) ELSE 1

\* The source frames kept by the loop of extract, which reads one after the
\* other until there is no more or enough are kept.
KeptFrames(total, stride, limit) ==
  LET kept[i \in Nat] ==
        IF i = 0 THEN {}
        ELSE IF Cardinality(kept[i - 1]) < limit /\ (i - 1) % stride = 0
             THEN kept[i - 1] \union {i - 1}
             ELSE kept[i - 1]
  IN  kept[total]

--------------------------------------------------------------------------
MdFrame == 1..MdMaxFrames

MdSettled == {"completed", "failed"}

MdRowType == [status : {"absent", "queued", "extracting", "running"} \union MdSettled,
              frames : SUBSET MdFrame]

NoMediaRun == [status |-> "absent", frames |-> {}]

MdWorking == {"load", "markExtracting", "source", "extract", "frames", "record", "fail"}

\* local: the variable `run`; total: number of extracted frames; made: those
\* that have a task.
MdThreadType == [pc : {"absent", "queued", "done", "lost"} \union MdWorking,
                 local : MdRowType, total : 0..MdMaxFrames, made : 0..MdMaxFrames]

\* seen: the statuses read so far.
MdRefreshType == [pc : {"idle", "read", "store"}, run : MdRun, snapshot : MdRowType,
                  todo : SUBSET MdFrame, seen : SUBSET (TaskSettled \union {"active"})]

NoRefresh == [pc |-> "idle", run |-> CHOOSE r \in MdRun : TRUE, snapshot |-> NoMediaRun,
              todo |-> {}, seen |-> {}]

MediaRunsTypeOK ==
  /\ mdStore \in {"memory", "postgres"}
  /\ mdSource \in {"absent", "stored", "deleted"}
  /\ mdRow \in [MdRun -> MdRowType]
  /\ mdThread \in [MdRun -> MdThreadType]
  /\ mdTask \in [MdRun -> [MdFrame -> TaskState]]
  /\ mdRefresh \in [MdRefresh -> MdRefreshType]
  /\ mdRestarts \in 0..MdMaxRestarts

MdInit ==
  /\ mdStore \in {"memory", "postgres"}
  /\ mdSource = "absent"
  /\ mdRow = [r \in MdRun |-> NoMediaRun]
  /\ mdThread = [r \in MdRun |-> [pc |-> "absent", local |-> NoMediaRun, total |-> 0, made |-> 0]]
  /\ mdTask = [r \in MdRun |-> [f \in MdFrame |-> "absent"]]
  /\ mdRefresh = [q \in MdRefresh |-> NoRefresh]
  /\ mdRestarts = 0

--------------------------------------------------------------------------
(* Sources *)

CreateSource ==
  /\ mdSource = "absent"
  /\ mdSource' = "stored"
  /\ UNCHANGED <<mdStore, mdRow, mdThread, mdTask, mdRefresh, mdRestarts>>

\* A source in memory goes whether or not runs use it; PostgreSQL refuses to
\* delete the row while there are runs of it.
DeleteSource ==
  /\ mdSource = "stored"
  /\ mdStore = "postgres" => \A r \in MdRun : mdRow[r] = NoMediaRun
  /\ mdSource' = "deleted"
  /\ UNCHANGED <<mdStore, mdRow, mdThread, mdTask, mdRefresh, mdRestarts>>

--------------------------------------------------------------------------
(* MediaRunService.create and _execute *)

CreateMediaRun(r) ==
  /\ mdSource = "stored" /\ mdRow[r] = NoMediaRun
  /\ mdRow' = [mdRow EXCEPT ![r].status = "queued"]
  /\ mdThread' = [mdThread EXCEPT ![r].pc = "queued"]
  /\ UNCHANGED <<mdStore, mdSource, mdTask, mdRefresh, mdRestarts>>

TakeMediaRun(r) ==
  /\ mdThread[r].pc = "queued"
  /\ Cardinality({o \in MdRun : mdThread[o].pc \in MdWorking}) < MdWorkers
  /\ mdThread' = [mdThread EXCEPT ![r].pc = "load"]
  /\ UNCHANGED <<mdStore, mdSource, mdRow, mdTask, mdRefresh, mdRestarts>>

\* The thread of r is at pc and goes on as t.
MdStep(r, pc, t) ==
  /\ mdThread[r].pc = pc
  /\ mdThread' = [mdThread EXCEPT ![r] = t]
  /\ UNCHANGED <<mdStore, mdSource, mdRefresh, mdRestarts>>

\* The same, and the copy with a new status is stored.
MdSave(r, pc, next, run) ==
  /\ MdStep(r, pc, [mdThread[r] EXCEPT !.pc = next, !.local = run])
  /\ mdRow' = [mdRow EXCEPT ![r] = run]
  /\ UNCHANGED mdTask

LoadMediaRun(r) ==
  /\ MdStep(r, "load", [mdThread[r] EXCEPT !.pc = "markExtracting", !.local = mdRow[r]])
  /\ UNCHANGED <<mdRow, mdTask>>

MarkExtracting(r) ==
  MdSave(r, "markExtracting", "source", [mdThread[r].local EXCEPT !.status = "extracting"])

\* sources.get raises when the source was deleted meanwhile.
ReadSource(r) ==
  /\ MdStep(r, "source", [mdThread[r] EXCEPT !.pc = IF mdSource = "stored" THEN "extract" ELSE "fail"])
  /\ UNCHANGED <<mdRow, mdTask>>

\* Seeded fault: the limit of frames is not sent with the request.
ExtractAllFrames(r) ==
  /\ \E n \in 0..MdVideo :
       LET frames == Cardinality(KeptFrames(n, MdStride, MdVideo)) IN
       MdStep(r, "extract", [mdThread[r] EXCEPT !.pc = IF frames = 0 THEN "fail" ELSE "frames",
                                                 !.total = frames])
  /\ UNCHANGED <<mdRow, mdTask>>

\* POST /extract of the media worker: it raises, or answers with the frames of
\* a video of any length; no frame is an error.
ExtractFrames(r) ==
  /\ \E n \in 0..MdVideo :
       LET frames == Cardinality(KeptFrames(n, MdStride, MdMaxFrames)) IN
       MdStep(r, "extract", [mdThread[r] EXCEPT !.pc = IF frames = 0 THEN "fail" ELSE "frames",
                                                 !.total = frames])
  /\ UNCHANGED <<mdRow, mdTask>>

\* The next frame becomes an asset and a task.
CreateFrameTask(r) ==
  LET t == mdThread[r]  f == t.made + 1 IN
  /\ t.made < t.total
  /\ MdStep(r, "frames", [t EXCEPT !.made = f, !.pc = IF f = t.total THEN "record" ELSE "frames"])
  /\ mdTask' = [mdTask EXCEPT ![r][f] = "active"]
  /\ UNCHANGED mdRow

\* The file is no image, the version not available any more, ...
FrameTaskRefused(r) ==
  /\ MdStep(r, "frames", [mdThread[r] EXCEPT !.pc = "fail"])
  /\ UNCHANGED <<mdRow, mdTask>>

RecordFrames(r) ==
  MdSave(r, "record", "done",
         [mdThread[r].local EXCEPT !.status = "running", !.frames = 1..mdThread[r].made])

\* The except clause: the copy from before the frames is stored as failed.
FailMediaRun(r) == MdSave(r, "fail", "done", [mdThread[r].local EXCEPT !.status = "failed"])

MdThreadSteps(r) ==
  \/ LoadMediaRun(r) \/ MarkExtracting(r) \/ ReadSource(r) \/ ExtractFrames(r)
  \/ CreateFrameTask(r) \/ FrameTaskRefused(r) \/ RecordFrames(r) \/ FailMediaRun(r)

--------------------------------------------------------------------------
(* refresh *)

RefreshStep(q, pc, next) ==
  /\ mdRefresh[q].pc = pc
  /\ mdRefresh' = [mdRefresh EXCEPT ![q] = next]
  /\ UNCHANGED <<mdStore, mdSource, mdThread, mdTask, mdRestarts>>

\* GET /media/runs/{id}, or one round of GET /media/runs: only a running run
\* is looked at further.
AskMediaRun(q, r) ==
  /\ mdRow[r].status = "running"
  /\ RefreshStep(q, "idle", [NoRefresh EXCEPT !.pc = "read", !.run = r, !.snapshot = mdRow[r],
                                              !.todo = mdRow[r].frames])
  /\ UNCHANGED mdRow

ReadFrameTask(q) ==
  LET w == mdRefresh[q]
      f == CHOOSE f \in w.todo : \A g \in w.todo : f <= g
      left == w.todo \ {f}
  IN
  /\ w.todo # {}
  /\ RefreshStep(q, "read", [w EXCEPT !.todo = left, !.seen = @ \union {Shown(mdTask[w.run][f])},
                                      !.pc = IF left = {} THEN "store" ELSE "read"])
  /\ UNCHANGED mdRow

\* Seeded faults: a cancelled frame fails the run; one completed frame is
\* enough; a failed frame is not noticed.
VerdictStrict(seen) == IF "cancelled" \in seen THEN "failed"
                       ELSE IF "failed" \in seen THEN "failed"
                       ELSE IF seen = {"completed"} THEN "completed" ELSE "running"
VerdictAny(seen) == IF "failed" \in seen THEN "failed"
                    ELSE IF "completed" \in seen THEN "completed" ELSE "running"
VerdictBlind(seen) == IF seen = {"completed"} THEN "completed" ELSE "running"

\* The outcome refresh derives from the statuses it has read.
Verdict(seen) ==
  CASE "failed" \in seen -> "failed"
    [] seen = {"completed"} -> "completed"
    [] OTHER -> "running"

StoreVerdict(q) ==
  LET w == mdRefresh[q] IN
  /\ RefreshStep(q, "store", NoRefresh)
  /\ mdRow' = IF Verdict(w.seen) = "running" THEN mdRow
              ELSE [mdRow EXCEPT ![w.run] = [w.snapshot EXCEPT !.status = Verdict(w.seen)]]

\* A client that asks again and again.
MdRefreshSteps(q) == ReadFrameTask(q) \/ StoreVerdict(q) \/ \E r \in MdRun : AskMediaRun(q, r)

--------------------------------------------------------------------------
FrameTaskMoves(r, f) ==
  /\ \E s \in TaskState :
       /\ \/ <<mdTask[r][f], s>> \in WorkerMoves
          \/ mdTask[r][f] \in TaskUnsettled \union TaskSettled /\ s = AfterCancel(mdTask[r][f])
       /\ mdTask' = [mdTask EXCEPT ![r][f] = s]
  /\ UNCHANGED <<mdStore, mdSource, mdRow, mdThread, mdRefresh, mdRestarts>>

\* Seeded fault: the start forgets the runs that were extracting.
MdInterruptedButExtracting(status) == status \in {"queued", "running"}

MdInterrupted(status) == status \in {"queued", "extracting", "running"}

\* The process dies in any state, or was shut down before, and starts again:
\* recover_incomplete runs after the tasks are recovered.  Without PostgreSQL
\* nothing is there to recover.
RestartMediaRuns ==
  /\ mdStore = "postgres"
  /\ mdRestarts < MdMaxRestarts
  /\ mdRestarts' = mdRestarts + 1
  /\ mdTask' = [r \in MdRun |-> [f \in MdFrame |-> AfterRestart(mdTask[r][f])]]
  /\ mdRow' = [r \in MdRun |-> IF MdInterrupted(mdRow[r].status)
                               THEN [mdRow[r] EXCEPT !.status = "failed"] ELSE mdRow[r]]
  /\ mdThread' = [r \in MdRun |-> IF mdThread[r].pc \in {"absent", "done"} THEN mdThread[r]
                                  ELSE [mdThread[r] EXCEPT !.pc = "lost"]]
  /\ mdRefresh' = [q \in MdRefresh |-> NoRefresh]
  /\ UNCHANGED <<mdStore, mdSource>>

MdNext ==
  \/ CreateSource \/ DeleteSource
  \/ \E r \in MdRun : CreateMediaRun(r) \/ TakeMediaRun(r) \/ MdThreadSteps(r)
  \/ \E q \in MdRefresh : MdRefreshSteps(q)
  \/ \E r \in MdRun, f \in MdFrame : FrameTaskMoves(r, f)
  \/ RestartMediaRuns

\* Nothing is left to do but to wait for a client.
MdIdle ==
  /\ \A r \in MdRun : mdThread[r].pc \in {"absent", "done", "lost"}
  /\ \A q \in MdRefresh : mdRefresh[q].pc = "idle"
  /\ UNCHANGED mdVars

MdSpec == MdInit /\ [][MdNext \/ MdIdle]_mdVars

FrameTaskSettles(r, f) == FrameTaskMoves(r, f) /\ mdTask[r][f] \in TaskUnsettled
                                               /\ mdTask'[r][f] \in TaskSettled

--------------------------------------------------------------------------
\* The worker keeps every stride-th frame, at most the limit, whatever the
\* length of the video, and the stride is the requested interval in frames as
\* near as an integer can be.
SamplingIsExact ==
  (\E r \in MdRun : mdThread[r].pc = "extract") =>
    /\ \A total \in 0..MdVideo, stride \in 1..MdVideo, limit \in 1..MdVideo :
         KeptFrames(total, stride, limit) = {k * stride : k \in 0..(limit - 1)} \intersect 0..(total - 1)
    /\ \A q \in 4..(4 * MdVideo) : 4 * FrameStride(q) \in (q - 2)..(q + 2)

\* Two clients that refresh a run at once, or one with old news, never turn a
\* settled run into anything else: a frame task that has completed is at most
\* cancelled later, which is no failure of the run.
SettledMediaRunIsFinal ==
  [][\A r \in MdRun : mdRow[r].status \in MdSettled => mdRow'[r] = mdRow[r]]_mdVars

\* A completed run lists all frames that were extracted, at least one, and each
\* of their tasks has completed (and may have been cancelled since).
CompletedMediaRunIsWhole ==
  \A r \in MdRun : mdRow[r].status = "completed" =>
    /\ mdThread[r].total > 0 /\ mdRow[r].frames = 1..mdThread[r].total
    /\ \A f \in mdRow[r].frames : mdTask[r][f] \in {"completed", "cancelled"}

\* A frame task runs outside its run only while the run records its frames, or
\* when the run failed before it could.
FrameTaskIsRecorded ==
  \A r \in MdRun : \A f \in MdFrame :
    mdTask[r][f] = "active" /\ f \notin mdRow[r].frames =>
      mdThread[r].pc \in {"frames", "record", "fail"} \/ mdRow[r].status = "failed"

\* A run that shows queued or extracting has a thread, also after a restart.
MdShownRunIsAlive ==
  \A r \in MdRun : mdRow[r].status \in {"queued", "extracting"} =>
    mdThread[r].pc \in {"queued"} \union MdWorking

\* So neither a run nor a frame task is left alone without a reason a client can
\* see.
MediaRunIsAttended == MdShownRunIsAlive /\ FrameTaskIsRecorded

\* At any time, every run that was created settles later for a client that keeps
\* asking, unless a frame task shows cancelled, which neither fails nor completes
\* the run.
MediaRunSettles ==
  \A r \in MdRun :
    []<>(\/ mdRow[r].status \in {"absent"} \union MdSettled
         \/ \E f \in MdFrame : Shown(mdTask[r][f]) = "cancelled")
=============================================================================
