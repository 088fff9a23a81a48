-------------------------- MODULE MCSessionRuntime --------------------------
EXTENDS SessionRuntime, TLC

Symmetry == Permutations(Chats)

(* Bound: a stop, a warm-up and more than one disturbance meet one chat; a *)
(* session with two chats has one disturbance; an automatic stop has one   *)
(* other disturbance beside it, or the warm-up.                            *)
Narrow ==
  /\ Cardinality({c \in Chats : chat[c].pc # "idle"}) > 1 =>
       NeverStopped /\ warm.pc = "none" /\ faults <= 1
  /\ \A s \in Stops : stop[s].auto => faults <= 2

MCNext ==
  \/ Next /\ Narrow'
  \/ Quiet /\ UNCHANGED vars

MCSpec == Init /\ [][MCNext]_vars

=============================================================================
