---------------------------- MODULE MCHandleTable ----------------------------
(***************************************************************************)
(* Instances of HandleTable for TLC.  Addresses are interchangeable, and   *)
(* so are the threads that own no hazard slot at the start: a symmetry     *)
(* that is sound for the safety runs.                                      *)
(***************************************************************************)
EXTENDS HandleTableRefinement, TLC

Symmetry == Permutations(Threads \ Registered) \cup Permutations(Ptrs)
=============================================================================
