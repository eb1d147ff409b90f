----------------------------- MODULE MCApcCache -----------------------------
(***************************************************************************)
(* Instances of ApcCache for TLC.                                          *)
(***************************************************************************)
EXTENDS ApcCache, TLC

CONSTANTS k1, k2

\* Both keys collide.
OneBucket == {0}
Colliding == [k \in Keys |-> 0]

\* Processes and addresses are interchangeable.
Symmetry == Permutations(Procs) \cup Permutations(Entries)
=============================================================================
