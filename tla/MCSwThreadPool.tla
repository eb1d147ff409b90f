--------------------------- MODULE MCSwThreadPool ---------------------------
(***************************************************************************)
(* Instances of SwThreadPool for TLC.                                      *)
(***************************************************************************)
EXTENDS SwThreadPool, TLC

Symmetry == Permutations(Workers) \cup Permutations(Dispatchers)
=============================================================================
