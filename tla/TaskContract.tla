---------------------------- MODULE TaskContract ----------------------------
(***************************************************************************)
(* What the task component promises the people who create inference tasks, *)
(* whatever threads, requests and restarts do inside it.                   *)
(*                                                                         *)
(* A task appears once, stays pending, and is decided at most once by the  *)
(* platform.  The only later change is that a cancellation which was       *)
(* already on its way when the task was decided overtakes the decision;    *)
(* a decided task never becomes pending again and never turns into a       *)
(* completed or a failed one.                                              *)
(***************************************************************************)
CONSTANT Task

VARIABLE outcome

Decided == {"completed", "failed", "cancelled"}

Outcome == {"absent", "pending"} \union Decided

Init == outcome = [t \in Task |-> "absent"]

\* The moves one task can make.
Move(t) ==
  \/ outcome[t] = "absent"  /\ outcome'[t] = "pending"
  \/ outcome[t] = "pending" /\ outcome'[t] \in Decided
  \/ outcome[t] \in Decided /\ outcome'[t] = "cancelled"

\* Several tasks may move in one step: the death of the platform process
\* decides every task whose worker had not reported yet.
Next ==
  /\ outcome' \in [Task -> Outcome]
  /\ \A t \in Task : outcome'[t] = outcome[t] \/ Move(t)

Spec == Init /\ [][Next]_outcome
=============================================================================
