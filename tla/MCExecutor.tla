----------------------------- MODULE MCExecutor -----------------------------
(***************************************************************************)
(* Executor for TLC.                                                       *)
(***************************************************************************)
EXTENDS ExecutorRefinement
=============================================================================
