------------------------------- MODULE MCTimer -------------------------------
(***************************************************************************)
(* Timer for TLC: a Sleep and a Timeout in two tasks, which take them over *)
(* from each other.                                                        *)
(***************************************************************************)
EXTENDS Timer
=============================================================================
