------------------------------ MODULE MCStream ------------------------------
(***************************************************************************)
(* Stream for TLC: one consumer, two producers or handles of a stream.     *)
(***************************************************************************)
EXTENDS Stream
=============================================================================
