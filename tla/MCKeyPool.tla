----------------------------- MODULE MCKeyPool -----------------------------
(* KeyPool for TLC. Which call does what is interchangeable.               *)
EXTENDS KeyPool, TLC

Symmetry == Permutations(Requests)

====
