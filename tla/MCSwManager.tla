---------------------------- MODULE MCSwManager ----------------------------
(***************************************************************************)
(* Instances of SwManager for TLC: the bounds are in the configurations.   *)
(***************************************************************************)
EXTENDS SwManager, TLC
=============================================================================
