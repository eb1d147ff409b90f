------------------------------ MODULE MCApcSma ------------------------------
(***************************************************************************)
(* Instances of ApcSma for TLC.                                            *)
(***************************************************************************)
EXTENDS ApcSma, TLC

\* One process, every layout of one segment: payloads of one to three words,
\* with and without room kept for a fragment.
LayoutRequests == {<<1, 0>>, <<2, 0>>, <<3, 1>>}

\* Two processes and two small segments: requests that fit and that do not.
SharedRequests == {<<1, 0>>, <<3, 2>>}

Symmetry == Permutations(Procs)
=============================================================================
