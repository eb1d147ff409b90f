------------------------------ MODULE MCSwTable ------------------------------
(***************************************************************************)
(* Instances of SwTable for TLC.                                           *)
(***************************************************************************)
EXTENDS SwTable, TLC

CONSTANT b1

\* Keys of one length in one bucket: more than there are rows.
SameLength == {<<"a", "a">>, <<"a", "b">>, <<"b", "a">>, <<"b", "b">>}

\* Two of these begin alike.
Prefixes == {<<"a">>, <<"a", "b">>, <<"b">>}

OneBucket(keys) == [k \in keys |-> b1]

HashSame     == OneBucket(SameLength)
HashPrefixes == OneBucket(Prefixes)

Symmetry == Permutations(Procs)
=============================================================================
