----------------------------- MODULE MCBoundary -----------------------------
(***************************************************************************)
(* Boundary for TLC: three classes, two of which were given the same tag.  *)
(* Threads are interchangeable: no property tells them apart.              *)
(***************************************************************************)
EXTENDS Boundary, TLC

CONSTANTS ca, cb, cc, g1, g2

TagsGiven == (ca :> g1) @@ (cb :> g1) @@ (cc :> g2)
Symmetry == Permutations(Threads)
=============================================================================
