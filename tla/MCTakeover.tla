----------------------------- MODULE MCTakeover -----------------------------
(* Takeover for TLC. Chats and requests are interchangeable.               *)
EXTENDS Takeover, TLC

Symmetry == Permutations(Chats) \cup Permutations(Requests)

====
