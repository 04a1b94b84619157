-------------------------- MODULE MCInstanceManager --------------------------
(***************************************************************************)
(* Instance of InstanceManager for TLC.  Container ids are interchangeable *)
(* and so are the threads of the API; the liveness runs do not use it.     *)
(***************************************************************************)
EXTENDS InstanceManager, TLC

Symmetry == Permutations(Id) \union Permutations(Thread)
=============================================================================
