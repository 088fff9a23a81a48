--------------------------- MODULE MCSandboxPool ---------------------------
(* SandboxPool with few sandboxes, sessions and tasks. *)
EXTENDS SandboxPool

Symmetry == Permutations(Boxes) \cup Permutations(Sessions) \cup Permutations(Tasks)
=============================================================================
