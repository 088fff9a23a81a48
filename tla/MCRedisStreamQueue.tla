------------------------- MODULE MCRedisStreamQueue -------------------------
(* RedisStreamQueue with few poppers, entries and faults. *)
EXTENDS RedisStreamQueue, TLC

Symmetry == Permutations(Poppers)
=============================================================================
