----------------------------- MODULE MCServices -----------------------------
(***************************************************************************)
(* The services around tasks and instances, for TLC.  They share no        *)
(* variable: what one says of another (a task, a version, a source) is in  *)
(* its own module.  Their interleavings would multiply the states and show *)
(* nothing, so a behaviour picks one part of the system, which moves,      *)
(* while the others stay in one initial state.  The parts a run checks are *)
(* a constant: the services of the backend, or the cluster and the         *)
(* clients.                                                                *)
(***************************************************************************)
EXTENDS Workflows, MediaRuns, AlgorithmVersions, ClusterScaling, RequestGate, RateLimiter, Assets,
        TaskReaders, TaskPage, TaskList, BuildPage, TLC

CONSTANTS
  Part,   \* the parts that move: some of "workflows", "media", "algorithms", "scaling", "gate", "limiter",
          \* "assets", "readers", "page", "list", "buildpage"
  r1, r2, q1, q2, u1, u2, t1, t2, p1, p2, i1, i2

VARIABLE part

allVars == <<wfVars, mdVars, alVars, scVars, rgVars, rlVars, asVars, trVars, pgVars, tlVars, bpVars, part>>

\* Workflows clients send, and some graphs that are refused.
MCSent ==
  [depends : {<<{}>>, <<{2}, {}>>, <<{2, 3}, {}, {}>>, <<{2}, {1}>>, <<{1}>>, <<{}, {3}>>,
              <<{2}, {3}, {1}>>, <<{}, {3}, {2}>>}, mode : {"sequential"}]
    \union [depends : {<<{}, {}>>, <<{}, {}, {1, 2}>>}, mode : {"parallel"}]

MCSplits == {(1 :> 1 @@ 2 :> 1), (1 :> 2 @@ 2 :> 0), (1 :> 1)}

MCPolicies == {[min |-> 0, max |-> 1, target |-> 1], [min |-> 1, max |-> 2, target |-> 1]}

MCMemory == <<1, 1>>

MCUpdates == {[enabled |-> FALSE, role |-> "developer"], [enabled |-> TRUE, role |-> "user"]}

Init ==
  /\ WfInit /\ MdInit /\ AlInit /\ ScInit /\ RgInit /\ RlInit /\ AsInit /\ TrInit
  /\ PgInit /\ TlInit /\ BpInit
  /\ part \in Part
  /\ part # "algorithms" => alSeeded = {} /\ \A v \in AlVersion : alRow[v] = NoRow
  /\ part # "media" => mdStore = "memory"
  /\ part # "gate" => rgStore = "memory"
  /\ part # "assets" => asStore = "memory"

Next ==
  \/ /\ part = "workflows" /\ (WfNext \/ WfIdle)
     /\ UNCHANGED <<mdVars, alVars, scVars, rgVars, rlVars, asVars, trVars, pgVars, tlVars, bpVars, part>>
  \/ /\ part = "media" /\ (MdNext \/ MdIdle)
     /\ UNCHANGED <<wfVars, alVars, scVars, rgVars, rlVars, asVars, trVars, pgVars, tlVars, bpVars, part>>
  \/ /\ part = "algorithms" /\ (AlNext \/ AlIdle)
     /\ UNCHANGED <<wfVars, mdVars, scVars, rgVars, rlVars, asVars, trVars, pgVars, tlVars, bpVars, part>>
  \/ /\ part = "scaling" /\ (ScNext \/ ScIdle)
     /\ UNCHANGED <<wfVars, mdVars, alVars, rgVars, rlVars, asVars, trVars, pgVars, tlVars, bpVars, part>>
  \/ /\ part = "gate" /\ (RgNext \/ RgIdle)
     /\ UNCHANGED <<wfVars, mdVars, alVars, scVars, rlVars, asVars, trVars, pgVars, tlVars, bpVars, part>>
  \/ /\ part = "limiter" /\ (RlNext \/ RlIdle)
     /\ UNCHANGED <<wfVars, mdVars, alVars, scVars, rgVars, asVars, trVars, pgVars, tlVars, bpVars, part>>
  \/ /\ part = "assets" /\ (AsNext \/ AsIdle)
     /\ UNCHANGED <<wfVars, mdVars, alVars, scVars, rgVars, rlVars, trVars, pgVars, tlVars, bpVars, part>>
  \/ /\ part = "readers" /\ (TrNext \/ TrIdle)
     /\ UNCHANGED <<wfVars, mdVars, alVars, scVars, rgVars, rlVars, asVars, pgVars, tlVars, bpVars, part>>
  \/ /\ part = "page" /\ (PgNext \/ PgIdle)
     /\ UNCHANGED <<wfVars, mdVars, alVars, scVars, rgVars, rlVars, asVars, trVars, tlVars, bpVars, part>>
  \/ /\ part = "list" /\ (TlNext)
     /\ UNCHANGED <<wfVars, mdVars, alVars, scVars, rgVars, rlVars, asVars, trVars, pgVars, bpVars, part>>
  \/ /\ part = "buildpage" /\ (BpNext \/ BpIdle)
     /\ UNCHANGED <<wfVars, mdVars, alVars, scVars, rgVars, rlVars, asVars, trVars, pgVars, tlVars, part>>

\* Threads of the process run while it is up, tasks settle (TaskQueue), clients
\* that poll go on polling, and time passes.
Fairness ==
  /\ WF_wfVars(part = "workflows" /\ TakeRun)
  /\ \A r \in WfRun : WF_wfVars(part = "workflows" /\ WfThreadRuns(r))
  /\ WF_wfVars(part = "workflows" /\ \E r \in WfRun, n \in WfNode : NodeTaskSettles(r, n))
  /\ \A r \in MdRun : WF_mdVars(part = "media" /\ (TakeMediaRun(r) \/ MdThreadSteps(r)))
  /\ WF_mdVars(part = "media" /\ \E r \in MdRun, f \in MdFrame : FrameTaskSettles(r, f))
  /\ WF_mdVars(part = "media" /\ \E q \in MdRefresh : MdRefreshSteps(q))
  /\ WF_scVars(part = "scaling" /\ ScLoopSteps)
  /\ WF_scVars(part = "scaling" /\ IdleTimePasses)
  /\ WF_scVars(part = "scaling" /\ TaskEnds)
  /\ \A w \in ScWorker : WF_scVars(part = "scaling" /\ ScStartSteps(w))
  /\ \A s \in TrStream : WF_trVars(part = "readers" /\ Turn(s))
  /\ WF_trVars(part = "readers" /\ \E t \in TrTask : ReadTaskSettles(t))
  /\ WF_pgVars(part = "page" /\ PageAsks)
  /\ \A l \in PgLoad : WF_pgVars(part = "page" /\ LoadSteps(l))
  /\ WF_pgVars(part = "page" /\ PageTaskSettles)
  /\ WF_tlVars(part = "list" /\ \E f \in TlFetch : PollList(f))
  /\ \A f \in TlFetch : WF_tlVars(part = "list" /\ FetchSteps(f))
  /\ WF_tlVars(part = "list" /\ \E t \in TlTask : ListTaskSettles(t))
  /\ \A j \in BpJob : WF_bpVars(part = "buildpage" /\ (StartSteps(j) \/ ChainSteps(j)))
  /\ WF_bpVars(part = "buildpage" /\ \E j \in BpJob : BuildSettles(j))

Spec == Init /\ [][Next]_allVars /\ Fairness

\* The type invariants of all the parts.
ServicesTypeOK ==
  /\ WorkflowsTypeOK /\ MediaRunsTypeOK /\ AlgorithmsTypeOK /\ ClusterScalingTypeOK
  /\ RequestGateTypeOK /\ AssetsTypeOK /\ TaskReadersTypeOK
  /\ TaskPageTypeOK /\ TaskListTypeOK /\ BuildPageTypeOK

\* The page of a task and the list of tasks, once they have stopped asking, show
\* what stays, and a page that was left is silent (TaskPage, TaskList).
QuietPagesAreRight == QuietPageIsRight /\ LeftPageIsSilent /\ QuietListIsRight

\* Whoever follows a task or a build gets to its end: the event stream, the page
\* of a task, the list, the page of builds.
ClientsSettle == StreamEnds /\ PageCatchesUp /\ ListSettles /\ BuildPollingEnds
=============================================================================
