------------------------------ MODULE Channel ------------------------------
(***************************************************************************)
(* What a task's input queue promises: entries are numbered in the order   *)
(* they are sent, they leave from the front only, and one that is received *)
(* is received once. Entries may be lost from the front.                   *)
(***************************************************************************)
EXTENDS Naturals

VARIABLES sent,      \* number of entries sent so far
          pending,   \* entries that can still be received
          received   \* entries that have been received

channel == <<sent, pending, received>>

Init ==
  /\ sent = 0
  /\ pending = {}
  /\ received = {}

After(entries, k) == {i \in entries : i > k}

Send ==
  /\ sent' = sent + 1
  /\ \E k \in 0..sent : pending' = After(pending \cup {sent + 1}, k)
  /\ UNCHANGED received

Receive ==
  \E i \in pending \ received :
    /\ \A j \in pending : i <= j
    /\ pending' = pending \ {i}
    /\ received' = received \cup {i}
    /\ UNCHANGED sent

Lose ==
  /\ \E k \in 0..sent : pending' = After(pending, k)
  /\ UNCHANGED <<sent, received>>

Next == Send \/ Receive \/ Lose

Spec == Init /\ [][Next]_channel
=============================================================================
