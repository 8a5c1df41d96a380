----------------------------- MODULE MCCallback -----------------------------
(***************************************************************************)
(* Callback for TLC: two isolates; one that has not registered is any      *)
(* other thread.                                                           *)
(***************************************************************************)
EXTENDS Callback
=============================================================================
