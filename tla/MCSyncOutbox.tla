---------------------------- MODULE MCSyncOutbox ----------------------------
(* SyncOutbox for TLC. Memories are interchangeable.                       *)
EXTENDS SyncOutbox, TLC

Symmetry == Permutations(Memories)

====
