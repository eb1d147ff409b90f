---------------------------- MODULE MCSwChannel ----------------------------
(***************************************************************************)
(* Instances of SwChannel for TLC.                                         *)
(***************************************************************************)
EXTENDS SwChannel, TLC

CONSTANTS small, mid, large

\* One element of each length, from nothing but the length field to maxlen.
Lengths == small :> 0 @@ mid :> 1 @@ large :> 2
=============================================================================
