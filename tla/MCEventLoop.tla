----------------------------- MODULE MCEventLoop -----------------------------
(***************************************************************************)
(* EventLoop for TLC: an isolate i1, unregistered threads r1 and r2.       *)
(***************************************************************************)
EXTENDS EventLoopRefinement
=============================================================================
