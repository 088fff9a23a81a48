-------------------------- MODULE MCExecutionSlots --------------------------
(* ExecutionSlots on small sets of sessions. *)
EXTENDS ExecutionSlots, TLC

Symmetry == Permutations(Sessions)
=============================================================================
