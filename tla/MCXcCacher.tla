----------------------------- MODULE MCXcCacher -----------------------------
(***************************************************************************)
(* Instances of XcCacher for TLC.                                          *)
(***************************************************************************)
EXTENDS XcCacher, TLC

Symmetry == Permutations(Procs) \cup Permutations(Files) \cup Permutations(Sources)
=============================================================================
