------------------------------- MODULE BuildPage -------------------------------
(***************************************************************************)
(* The page of the algorithms in the browser, as far as it follows builds: *)
(* frontend/src/views/AlgorithmsView.  startBuild and the chain of timers  *)
(* of pollBuild run as asynchronous functions: other functions run         *)
(* wherever one of them waits.                                             *)
(*                                                                         *)
(* A call of startBuild is named by the job it asks for; the chain of      *)
(* timers it begins has the same name, and follows the job the page shows  *)
(* when the chain begins, which may be the one of another call.  The       *)
(* server may refuse a build (AlgorithmVersions!AskBuild); which version a *)
(* job builds makes no difference here.                                    *)
(***************************************************************************)
EXTENDS Naturals

CONSTANTS
  BpJob,         \* build jobs, each for one call of startBuild
  BpMaxErrors    \* bound: polls that fail

ASSUME BuildPageAssumption == BpMaxErrors \in Nat

VARIABLES
  bpJob,      \* [BpJob -> status of the job on the server]
  bpStart,    \* [BpJob -> progress of importPackage and startBuild]
  bpChain,    \* [BpJob -> progress of the pollBuild this start has begun]
  bpTimer,    \* buildPollTimer: the chain whose timer was set last, {} for none
  bpPage,     \* the refs of the page
  bpErrors

bpVars == <<bpJob, bpStart, bpChain, bpTimer, bpPage, bpErrors>>

BpStatus == {"absent", "open", "completed", "failed"}

\* job: the id of buildJob, {} for null; shown: its status.
BpPageType ==
  [open : BOOLEAN, job : SUBSET BpJob, shown : BpStatus, notice : {"none", "building", "published"},
   error : BOOLEAN]

BpStartType == [pc : {"idle", "importing", "asked", "answered", "refreshing", "followed", "refused", "threw"},
                imported : BOOLEAN]

\* job: the argument of pollBuild, {} while there is no chain.
BpChainType ==
  [pc : {"none", "armed", "asked", "answered", "refreshing"}, job : SUBSET BpJob, status : BpStatus]

BuildPageTypeOK ==
  /\ bpJob \in [BpJob -> BpStatus]
  /\ bpStart \in [BpJob -> BpStartType]
  /\ bpChain \in [BpJob -> BpChainType]
  /\ bpTimer \subseteq BpJob
  /\ bpPage \in BpPageType
  /\ bpErrors \in 0..BpMaxErrors

NoChain == [pc |-> "none", job |-> {}, status |-> "absent"]

BpInit ==
  /\ bpJob = [j \in BpJob |-> "absent"]
  /\ bpStart = [j \in BpJob |-> [pc |-> "idle", imported |-> FALSE]]
  /\ bpChain = [j \in BpJob |-> NoChain]
  /\ bpTimer = {}
  /\ bpPage = [open |-> TRUE, job |-> {}, shown |-> "absent", notice |-> "none", error |-> FALSE]
  /\ bpErrors = 0

--------------------------------------------------------------------------
(* importPackage, buildAlgorithm and startBuild *)

BpStartStep(j, pc, next) ==
  /\ bpStart[j].pc = pc
  /\ bpStart' = [bpStart EXCEPT ![j].pc = next, ![j].imported = @ \/ next = "importing"]
  /\ UNCHANGED bpErrors

\* clearTimeout with the handle that is kept: a timer that has fired stays.
Cleared == [j \in BpJob |-> IF j \in bpTimer /\ bpChain[j].pc = "armed" THEN NoChain ELSE bpChain[j]]

\* pollBuild: chain c sets a timer for the job, over the handle of another one.
Arm(c, job) ==
  /\ bpChain' = [bpChain EXCEPT ![c] = [pc |-> "armed", job |-> job, status |-> "absent"]]
  /\ bpTimer' = {c}

\* The page forgets the build it followed while it uploads.
ImportPackage(j) ==
  /\ bpPage.open /\ BpStartStep(j, "idle", "importing")
  /\ \A k \in BpJob : bpStart[k].imported => bpStart[k].pc \in {"followed", "refused", "threw"}
  /\ bpPage' = [bpPage EXCEPT !.job = {}, !.shown = "absent", !.notice = "none", !.error = FALSE]
  /\ UNCHANGED <<bpJob, bpChain, bpTimer>>

Imported(j) ==
  /\ BpStartStep(j, "importing", "asked")
  /\ bpPage' = [bpPage EXCEPT !.notice = "building"]
  /\ bpChain' = Cleared
  /\ UNCHANGED <<bpJob, bpTimer>>

BuildAlgorithm(j) ==
  /\ bpPage.open /\ BpStartStep(j, "idle", "asked")
  /\ bpPage' = [bpPage EXCEPT !.notice = "none", !.error = FALSE]
  /\ bpChain' = Cleared
  /\ UNCHANGED <<bpJob, bpTimer>>

ServeBuild(j) ==
  /\ BpStartStep(j, "asked", "answered")
  /\ bpJob' = [bpJob EXCEPT ![j] = "open"]
  /\ UNCHANGED <<bpChain, bpTimer, bpPage>>

\* The catch clauses of importPackage and buildAlgorithm.
TellError(j) ==
  /\ bpPage' = [bpPage EXCEPT !.error = TRUE, !.notice = IF bpStart[j].imported THEN "none" ELSE @]
  /\ UNCHANGED <<bpJob, bpChain, bpTimer>>

\* The import or the build is refused, or its request fails, also the answer of
\* one the server has accepted.
StartRefused(j) ==
  /\ \E pc \in {"importing", "asked", "answered"} : BpStartStep(j, pc, "refused")
  /\ TellError(j)

\* From here on the page shows this job.
ApplyBuild(j) ==
  /\ BpStartStep(j, "answered", "refreshing")
  /\ bpPage' = [bpPage EXCEPT !.job = {j}, !.shown = "open", !.notice = "building"]
  /\ UNCHANGED <<bpJob, bpChain, bpTimer>>

\* refreshSelected is over, also on a page that was left: the id is read from
\* the ref only now, and may be the one another start has put there.
FollowBuild(j) ==
  /\ bpPage.job # {} /\ BpStartStep(j, "refreshing", "followed")
  /\ Arm(j, bpPage.job)
  /\ UNCHANGED <<bpJob, bpPage>>

\* An import has set the ref to null meanwhile: reading its id throws.
FollowNothing(j) ==
  /\ bpPage.job = {} /\ BpStartStep(j, "refreshing", "threw")
  /\ TellError(j)

StartSteps(j) == Imported(j) \/ ServeBuild(j) \/ ApplyBuild(j) \/ FollowBuild(j) \/ FollowNothing(j)

--------------------------------------------------------------------------
(* pollBuild *)

ChainStep(c, pc, next) ==
  /\ bpChain[c].pc = pc
  /\ bpChain' = [bpChain EXCEPT ![c] = next]
  /\ UNCHANGED <<bpJob, bpStart, bpTimer, bpErrors>>

TimerFires(c) == ChainStep(c, "armed", [bpChain[c] EXCEPT !.pc = "asked"]) /\ UNCHANGED bpPage

ServeJob(c) ==
  /\ \E j \in bpChain[c].job : ChainStep(c, "asked", [bpChain[c] EXCEPT !.pc = "answered", !.status = bpJob[j]])
  /\ UNCHANGED bpPage

\* The answer counts only if the page still shows this job.
ApplyJob(c) ==
  \/ /\ bpPage.job # bpChain[c].job
     /\ ChainStep(c, "answered", NoChain)
     /\ UNCHANGED bpPage
  \/ /\ bpPage.job = bpChain[c].job
     /\ ChainStep(c, "answered", [bpChain[c] EXCEPT !.pc = "refreshing"])
     /\ bpPage' = [bpPage EXCEPT !.shown = bpChain[c].status, !.error = FALSE]

\* Seeded fault: a failed build is polled on.
GoOnAfterFailure(c) ==
  LET status == bpChain[c].status IN
  /\ bpChain[c].pc = "refreshing"
  /\ \/ status # "completed" /\ Arm(c, bpChain[c].job) /\ UNCHANGED bpPage
     \/ /\ status = "completed" /\ bpChain' = [bpChain EXCEPT ![c] = NoChain] /\ UNCHANGED bpTimer
        /\ bpPage' = [bpPage EXCEPT !.notice = "published"]
  /\ UNCHANGED <<bpJob, bpStart, bpErrors>>

\* refreshSelected is over; whether the page still shows this job is not asked
\* again.
GoOn(c) ==
  LET status == bpChain[c].status  ended == bpChain' = [bpChain EXCEPT ![c] = NoChain] /\ UNCHANGED bpTimer IN
  /\ bpChain[c].pc = "refreshing"
  /\ \/ status = "open" /\ Arm(c, bpChain[c].job) /\ UNCHANGED bpPage
     \/ status = "completed" /\ ended /\ bpPage' = [bpPage EXCEPT !.notice = "published"]
     \/ status = "failed" /\ ended /\ bpPage' = [bpPage EXCEPT !.notice = "none", !.error = TRUE]
  /\ UNCHANGED <<bpJob, bpStart, bpErrors>>

PollError(c) ==
  /\ bpChain[c].pc \in {"asked", "answered"} /\ bpErrors < BpMaxErrors
  /\ bpErrors' = bpErrors + 1
  /\ bpPage' = [bpPage EXCEPT !.error = TRUE]
  /\ UNCHANGED <<bpJob, bpStart>>

\* Seeded fault: a failed poll is the last one, and the page is not told.
PollFailsForGood(c) ==
  /\ bpChain[c].pc \in {"asked", "answered"} /\ bpErrors < BpMaxErrors
  /\ bpErrors' = bpErrors + 1
  /\ bpChain' = [bpChain EXCEPT ![c] = NoChain]
  /\ UNCHANGED <<bpJob, bpStart, bpTimer, bpPage>>

\* A poll that fails is repeated, without a look at the job the page shows.
PollFails(c) == PollError(c) /\ Arm(c, bpChain[c].job)

ChainSteps(c) == TimerFires(c) \/ ServeJob(c) \/ ApplyJob(c) \/ GoOn(c)

--------------------------------------------------------------------------
BuildEnds(j, outcome) ==
  /\ bpJob[j] = "open"
  /\ bpJob' = [bpJob EXCEPT ![j] = outcome]
  /\ UNCHANGED <<bpStart, bpChain, bpTimer, bpPage, bpErrors>>

\* onBeforeUnmount
LeaveBuildPage ==
  /\ bpPage.open
  /\ bpPage' = [bpPage EXCEPT !.open = FALSE]
  /\ bpChain' = Cleared
  /\ UNCHANGED <<bpJob, bpStart, bpTimer, bpErrors>>

BpNext ==
  \/ \E j \in BpJob :
       \/ ImportPackage(j) \/ BuildAlgorithm(j) \/ StartSteps(j) \/ StartRefused(j)
       \/ ChainSteps(j) \/ PollFails(j)
       \/ \E outcome \in {"completed", "failed"} : BuildEnds(j, outcome)
  \/ LeaveBuildPage

BpStarting == {j \in BpJob : bpStart[j].pc \in {"importing", "asked", "answered", "refreshing"}}

BpQuiet == BpStarting = {} /\ \A j \in BpJob : bpChain[j] = NoChain

BpIdle == BpQuiet /\ UNCHANGED bpVars

BpSpec == BpInit /\ [][BpNext \/ BpIdle]_bpVars

\* Timers fire, answers come, and a build ends (AlgorithmVersions).
BuildSettles(j) == \E outcome \in {"completed", "failed"} : BuildEnds(j, outcome)

--------------------------------------------------------------------------
\* The build an open page shows as under way is followed by a timer or a
\* request, by a chain of whichever start; or a request for a build is under way,
\* which clears the timer; or the page shows an error, as it does when that
\* request is refused and nobody sets the timer again.  Two chains of one job,
\* and an older answer applied after a newer one, do not change that.
ShownBuildIsFollowed ==
  \A j \in bpPage.job : bpPage.open /\ bpPage.shown = "open" =>
    \/ bpPage.error
    \/ \E c \in BpJob : bpChain[c].pc # "none" /\ bpChain[c].job = {j}
    \/ \E k \in BpJob : bpStart[k].pc \in {"asked", "answered", "refreshing"}

\* An open page on which nothing is under way does not say that it is building.
QuietPageIsNotBuilding ==
  bpPage.open /\ BpQuiet => bpPage.notice # "building"

\* So an open page neither forgets the build it shows nor shows one that is over.
BuildPageIsRight == ShownBuildIsFollowed /\ QuietPageIsNotBuilding

\* No page polls for ever: every chain of timers ends with its build, also that
\* of a page that was left while a request was under way.
BuildPollingEnds == []<>(\A j \in BpJob : bpChain[j] = NoChain)
=============================================================================
