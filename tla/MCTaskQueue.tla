----------------------------- MODULE MCTaskQueue -----------------------------
(***************************************************************************)
(* Instance of TaskQueue for TLC.  Tasks are interchangeable, and so are   *)
(* the threads that serve cancel requests; the run that checks liveness    *)
(* does not use the symmetry.                                              *)
(***************************************************************************)
EXTENDS TaskQueue, TLC

Symmetry == Permutations(Task) \union Permutations(Request)
=============================================================================
