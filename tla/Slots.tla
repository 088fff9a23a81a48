------------------------------- MODULE Slots -------------------------------
(***************************************************************************)
(* What an admission controller promises, whatever its policy: a bounded   *)
(* number of clients hold a slot, a slot is taken by a client that has     *)
(* none and given back by its holder only.                                 *)
(***************************************************************************)
EXTENDS Naturals, FiniteSets

CONSTANTS Clients,   \* those who ask for a slot
          Capacity   \* how many of them may hold one at a time

VARIABLE holders

Init == holders = {}

Take(c) ==
  /\ c \notin holders
  /\ Cardinality(holders) < Capacity
  /\ holders' = holders \cup {c}

GiveBack(c) ==
  /\ c \in holders
  /\ holders' = holders \ {c}

Next == \E c \in Clients : Take(c) \/ GiveBack(c)

Spec == Init /\ [][Next]_holders
=============================================================================
