---------------------------- MODULE MCRedisStream ----------------------------
(* RedisStream for TLC: the processes are model values. *)
EXTENDS RedisStream, TLC

Symmetric == Permutations(Procs)
==============================================================================
