---------------------------- MODULE WorkflowPlan ----------------------------
(***************************************************************************)
(* Which workflows the platform accepts, and which nodes are ready: the    *)
(* pure part of modules/workflows/service.py.  The list of nodes is the    *)
(* sequence 1..n, depends[i] the set of nodes node i names in depends_on,  *)
(* which may hold anything the client sent.                                *)
(***************************************************************************)
EXTENDS Naturals, FiniteSets

MaxNodes == 32

\* One turn of the loop of _validate: the nodes without open dependencies go,
\* and every other node is rid of them.  `open` maps the pending nodes to what
\* they still wait for.
Ready(open) == {i \in DOMAIN open : open[i] = {}}

\* Seeded fault: the nodes go, but stay in the dependencies of the others.
PeeledOnly(open) == [i \in DOMAIN open \ Ready(open) |-> open[i]]

Peeled(open) == [i \in DOMAIN open \ Ready(open) |-> open[i] \ Ready(open)]

\* The loop ends with nothing pending, or with a turn that found no node ready.
PeelsAway(depends) ==
  LET left[k \in Nat] == IF k = 0 THEN depends ELSE Peeled(left[k - 1])
  IN  DOMAIN left[Cardinality(DOMAIN depends)] = {}

\* InMemoryWorkflowService._validate; the ids are unique by the choice of 1..n.
Accepts(depends) ==
  /\ DOMAIN depends # {}
  /\ Cardinality(DOMAIN depends) <= MaxNodes
  /\ \A i \in DOMAIN depends : depends[i] \subseteq DOMAIN depends /\ i \notin depends[i]
  /\ PeelsAway(depends)

FirstOf(S) == CHOOSE i \in S : \A j \in S : i <= j

\* Seeded fault: one completed dependency is enough.
NextNodesAny(depends, mode, pending, completed) ==
  LET ready == {i \in pending : depends[i] = {} \/ depends[i] \intersect completed # {}}
  IN  IF mode = "sequential" /\ ready # {} THEN {FirstOf(ready)} ELSE ready

\* The nodes _execute starts next: all whose dependencies are completed, in
\* sequential mode only the first of the list.
NextNodes(depends, mode, pending, completed) ==
  LET ready == {i \in pending : depends[i] \subseteq completed}
  IN  IF mode = "sequential" /\ ready # {} THEN {FirstOf(ready)} ELSE ready
=============================================================================
