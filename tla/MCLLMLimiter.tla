---------------------------- MODULE MCLLMLimiter ----------------------------
(* LLMLimiter with few calls. *)
EXTENDS LLMLimiter

Symmetry == Permutations(Calls)
=============================================================================
