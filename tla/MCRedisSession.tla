--------------------------- MODULE MCRedisSession ---------------------------
(***************************************************************************)
(* Instances of RedisSession for TLC.                                      *)
(***************************************************************************)
EXTENDS RedisSession
=============================================================================
