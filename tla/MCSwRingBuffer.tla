--------------------------- MODULE MCSwRingBuffer ---------------------------
(***************************************************************************)
(* Instances of SwRingBuffer for TLC.                                      *)
(***************************************************************************)
EXTENDS SwRingBuffer
=============================================================================
