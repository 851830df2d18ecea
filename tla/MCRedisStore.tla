---------------------------- MODULE MCRedisStore ----------------------------
(* Two callers of one connection and two clients: one may replace another. *)
EXTENDS RedisStore
CONSTANTS p1, p2, c1, c2
=============================================================================
