------------------------------- MODULE MCRedisLock -------------------------------
(* Finite values for RedisLock.                                             *)
EXTENDS RedisLock, TLC

CONSTANTS c1, c2, c3, p1, p2

\* Two clients in one process, a third in another.
MCProcessOf == (c1 :> p1) @@ (c2 :> p1) @@ (c3 :> p2)
================================================================================
