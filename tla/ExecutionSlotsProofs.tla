------------------------ MODULE ExecutionSlotsProofs ------------------------
(***************************************************************************)
(* Theorems about ExecutionSlots for every set of sessions, every number   *)
(* of slots and every burst limit.                                         *)
(***************************************************************************)
EXTENDS ExecutionSlots, FiniteSetTheorems, TLAPS

(***************************************************************************)
(* The inductive invariant. The bound on bypassed is not inductive: it is  *)
(* kept because each interactive grant counted in bypassed is also counted *)
(* in consecutive, which NextClass compares with Burst.                    *)
(***************************************************************************)
BypassCounted ==
  bypassed = 0 \/ (lastClass = Interactive /\ bypassed <= consecutive)

Classified ==
  \A s \in Sessions : pc[s] # "idle" => class[s] \in Classes

IInv ==
  /\ TypeOK
  /\ SlotAccounting
  /\ NoBlockedReservation
  /\ Classified
  /\ BypassCounted
  /\ HeavyBypassBounded

-----------------------------------------------------------------------------
(* Cardinality of a set after one element joins or leaves it. *)
LEMMA Tally ==
  ASSUME NEW S, IsFiniteSet(S), NEW e
  PROVE  /\ Cardinality(S) \in Nat
         /\ Cardinality(S \cup {e}) =
              IF e \in S THEN Cardinality(S) ELSE Cardinality(S) + 1
         /\ e \in S => Cardinality(S) > 0
         /\ Cardinality(S \ {e}) =
              IF e \in S THEN Cardinality(S) - 1 ELSE Cardinality(S)
  <1>1. Cardinality(S) \in Nat
    BY FS_CardinalityType
  <1>2. Cardinality(S \cup {e}) =
          IF e \in S THEN Cardinality(S) ELSE Cardinality(S) + 1
    BY FS_AddElement
  <1>3. Cardinality(S \ {e}) =
          IF e \in S THEN Cardinality(S) - 1 ELSE Cardinality(S)
    BY FS_RemoveElement
  <1>4. e \in S => Cardinality(S) > 0
    BY <1>1, FS_EmptySet
  <1>5. QED
    BY <1>1, <1>2, <1>3, <1>4

(* The two kinds of sets the counters count are finite. *)
LEMMA CountedFinite ==
  /\ IsFiniteSet(Executing)
  /\ \A c \in Classes : IsFiniteSet(Waiters(c))
  <1>1. Executing \subseteq Sessions
    BY DEF Executing
  <1>2. \A c \in Classes : Waiters(c) \subseteq Sessions
    BY DEF Waiters
  <1>3. QED
    BY <1>1, <1>2, FS_Subset, SessionsFinite

(* How one stream's move changes the sets that are counted. *)
LEMMA StageMoves ==
  ASSUME TypeOK, NEW s \in Sessions, NEW stage,
         pc' = [pc EXCEPT ![s] = stage],
         \A t \in Sessions \ {s} : class'[t] = class[t]
  PROVE  /\ Executing' = IF stage = "executing" THEN Executing \cup {s}
                         ELSE Executing \ {s}
         /\ \A c \in Classes :
              Waiters(c)' = IF stage \in Waiting /\ class'[s] = c
                            THEN Waiters(c) \cup {s} ELSE Waiters(c) \ {s}
  BY DEF TypeOK, Executing, Waiters

(* The invariant holds at the start: no session streams, nothing is counted *)
(* and the semaphore is full.                                               *)
THEOREM InitEstablishes == Init => IInv
  <1> SUFFICES ASSUME Init PROVE IInv
    OBVIOUS
  <1>1. TypeOK
    BY SlotsPositive, BurstPositive
    DEF Init, TypeOK, Stages, Classes, Interactive, Heavy
  <1>2. Executing = {} /\ \A c \in Classes : Waiters(c) = {}
    BY DEF Init, Executing, Waiters, Waiting
  <1>3. SlotAccounting
    BY <1>2, FS_EmptySet, SlotsPositive DEF Init, SlotAccounting
  <1>4. QED
    BY <1>1, <1>3, BurstPositive
    DEF IInv, Init, NoBlockedReservation, Classified, BypassCounted,
        HeavyBypassBounded

-----------------------------------------------------------------------------
(***************************************************************************)
(* A granted slot, on the first look (w counts the newcomer, which waited  *)
(* nowhere) or on a later poll (w is the count it is in already).          *)
(***************************************************************************)
LEMMA GrantPreserves ==
  ASSUME IInv, NEW s \in Sessions, NEW c \in Classes, NEW w,
         Grant(s, c, w),
         class' = [class EXCEPT ![s] = c],
         running' \in [Sessions -> BOOLEAN],
         \/ /\ pc[s] \in {"idle", "notified"}
            /\ w = [waiting EXCEPT ![c] = @ + 1]
         \/ /\ pc[s] \in Waiting /\ class[s] = c
            /\ w = waiting
  PROVE  IInv'
  <1> USE DEF IInv
  <1>1. semaphore > 0 /\ slotsInUse < MaxSlots
    BY SlotsPositive DEF Grant, Admits, SlotAccounting, TypeOK
  <1>2. /\ pc' = [pc EXCEPT ![s] = "executing"]
        /\ semaphore' = semaphore - 1
        /\ slotsInUse' = slotsInUse + 1
    BY <1>1 DEF Grant
  <1>3. /\ Executing' = Executing \cup {s}
        /\ \A d \in Classes : Waiters(d)' = Waiters(d) \ {s}
    BY <1>2, StageMoves DEF TypeOK, Waiting
  <1>4. s \notin Executing
    BY DEF Executing, Waiting
  <1>5. Cardinality(Executing') = slotsInUse'
    BY <1>2, <1>3, <1>4, Tally, CountedFinite DEF SlotAccounting
  <1>6. \A d \in Classes : waiting'[d] = Cardinality(Waiters(d)')
    <2> SUFFICES ASSUME NEW d \in Classes
                 PROVE  waiting'[d] = Cardinality(Waiters(d)')
      OBVIOUS
    <2>1. s \in Waiters(d) <=> pc[s] \in Waiting /\ class[s] = d
      BY DEF Waiters
    <2>2. /\ waiting[d] = Cardinality(Waiters(d))
          /\ waiting[d] \in Nat
          /\ Cardinality(Waiters(d) \ {s}) =
               IF s \in Waiters(d) THEN Cardinality(Waiters(d)) - 1
               ELSE Cardinality(Waiters(d))
      BY Tally, CountedFinite DEF SlotAccounting, TypeOK
    <2>3. waiting' = [w EXCEPT ![c] = @ - 1]
      BY DEF Grant
    <2>4. CASE pc[s] \in {"idle", "notified"} /\ w = [waiting EXCEPT ![c] = @ + 1]
      BY <1>3, <2>1, <2>2, <2>3, <2>4 DEF TypeOK, Waiting
    <2>5. CASE pc[s] \in Waiting /\ class[s] = c /\ w = waiting
      BY <1>3, <2>1, <2>2, <2>3, <2>5 DEF TypeOK
    <2>6. QED
      BY <2>4, <2>5
  <1>7. /\ BypassCounted' /\ HeavyBypassBounded'
        /\ bypassed' \in 0..(Burst + 1) /\ consecutive' \in 0..(Burst + 1)
        /\ lastClass' \in Classes \cup {None}
    <2>1. NextClass(w) = c /\ RecordGrant(c) /\ RecordBypass(c)
      BY DEF Grant, Admits
    <2>2. CASE c = Interactive /\ Waiters(Heavy) # {}
      <3>1. w[Heavy] > 0
        <4>1. PICK h \in Sessions : h \in Waiters(Heavy)
          BY <2>2 DEF Waiters
        <4>2. Heavy \in Classes /\ IsFiniteSet(Waiters(Heavy))
          BY CountedFinite DEF Classes
        <4>3. Cardinality(Waiters(Heavy)) > 0
          BY <4>1, <4>2, Tally
        <4>4. waiting[Heavy] > 0
          BY <4>2, <4>3 DEF SlotAccounting
        <4>5. QED
          BY <4>4, <2>2 DEF Interactive, Heavy, TypeOK, Classes
      <3>2. ~(lastClass = Interactive /\ consecutive >= Burst)
        BY <2>1, <2>2, <3>1, NoneIsNoClass
        DEF NextClass, Interactive, Heavy, Classes
      <3>3. QED
        BY <2>1, <2>2, <3>2, BurstPositive
        DEF RecordGrant, RecordBypass, BypassCounted, HeavyBypassBounded, TypeOK
    <2>3. CASE ~(c = Interactive /\ Waiters(Heavy) # {})
      BY <2>1, <2>3, BurstPositive
      DEF RecordGrant, RecordBypass, BypassCounted, HeavyBypassBounded, TypeOK
    <2>4. QED
      BY <2>2, <2>3
  <1>8. waiting' \in [Classes -> Nat]
    <2>1. waiting' \in [Classes -> Int]
      BY DEF Grant, TypeOK
    <2>2. \A d \in Classes : Cardinality(Waiters(d)') \in Nat
      BY <1>3, CountedFinite, FS_CardinalityType, FS_RemoveElement
    <2>3. QED
      BY <2>1, <2>2, <1>6
  <1>9. TypeOK'
    BY <1>1, <1>2, <1>7, <1>8 DEF TypeOK, Stages
  <1>10. SlotAccounting'
    BY <1>1, <1>2, <1>5, <1>6, SlotsPositive DEF SlotAccounting, TypeOK
  <1>11. NoBlockedReservation' /\ Classified'
    BY <1>2 DEF NoBlockedReservation, Classified, TypeOK
  <1>12. QED
    BY <1>7, <1>9, <1>10, <1>11

(* A stream that asks and is not admitted joins the waiters of its class. *)
LEMMA QueuePreserves ==
  ASSUME IInv, NEW s \in Sessions, NEW c \in Classes, NEW stage \in Waiting,
         pc[s] \in {"idle", "notified"},
         pc' = [pc EXCEPT ![s] = stage],
         class' = [class EXCEPT ![s] = c],
         running' \in [Sessions -> BOOLEAN],
         waiting' = [waiting EXCEPT ![c] = @ + 1],
         UNCHANGED <<slotsInUse, semaphore, lastClass, consecutive, bypassed>>
  PROVE  IInv'
  <1> USE DEF IInv
  <1>1. stage \in Stages \ {"executing", "reserved", "idle"}
    BY DEF Waiting, Stages
  <1>2. /\ Executing' = Executing \ {s}
        /\ \A d \in Classes :
             Waiters(d)' = IF d = c THEN Waiters(d) \cup {s} ELSE Waiters(d) \ {s}
    BY <1>1, StageMoves DEF TypeOK
  <1>3. /\ s \notin Executing
        /\ \A d \in Classes : s \notin Waiters(d)
    BY DEF Executing, Waiters, Waiting
  <1>4. /\ Executing' = Executing
        /\ Waiters(c)' = Waiters(c) \cup {s}
        /\ \A d \in Classes \ {c} : Waiters(d)' = Waiters(d)
    BY <1>2, <1>3
  <1>5. Cardinality(Waiters(c) \cup {s}) = Cardinality(Waiters(c)) + 1
    BY <1>3, Tally, CountedFinite
  <1>6. \A d \in Classes : waiting'[d] = Cardinality(Waiters(d)')
    BY <1>4, <1>5 DEF SlotAccounting, TypeOK
  <1>7. SlotAccounting'
    BY <1>4, <1>6 DEF SlotAccounting
  <1>8. TypeOK'
    <2>1. waiting' \in [Classes -> Nat]
      BY DEF TypeOK
    <2>2. class' \in [Sessions -> Classes \cup {None}]
      BY DEF TypeOK
    <2>3. pc' \in [Sessions -> Stages]
      BY <1>1 DEF TypeOK
    <2>4. QED
      BY <2>1, <2>2, <2>3 DEF TypeOK
  <1>9. NoBlockedReservation' /\ Classified'
    BY <1>1 DEF NoBlockedReservation, Classified, TypeOK
  <1>10. BypassCounted' /\ HeavyBypassBounded'
    BY DEF BypassCounted, HeavyBypassBounded
  <1>11. QED
    BY <1>7, <1>8, <1>9, <1>10

(* One call of _acquire_execution_slot from a stream that waits nowhere. *)
LEMMA AcquirePreserves ==
  ASSUME IInv, NEW s \in Sessions, NEW c \in Classes, NEW stage \in Waiting,
         pc[s] \in {"idle", "notified"},
         Acquire(s, c, stage),
         class' = [class EXCEPT ![s] = c],
         running' \in [Sessions -> BOOLEAN]
  PROVE  IInv'
  <1> DEFINE registered == [waiting EXCEPT ![c] = @ + 1]
  <1>1. CASE Grant(s, c, registered)
    BY <1>1, GrantPreserves
  <1>2. CASE ~Admits(c, registered) /\ ~Grant(s, c, registered)
    BY <1>2, QueuePreserves DEF Acquire
  <1>3. QED
    BY <1>1, <1>2 DEF Acquire

(* A stream that leaves the waiters without a slot. *)
LEMMA LeavePreserves ==
  ASSUME IInv, NEW s \in Sessions, NEW stage \in {"idle", "notified"},
         pc[s] \in Waiting,
         pc' = [pc EXCEPT ![s] = stage],
         waiting' = Decrement(class[s]),
         KeepBypass(s),
         UNCHANGED <<class, running, slotsInUse, semaphore, lastClass, consecutive>>
  PROVE  IInv'
  <1> USE DEF IInv
  <1> DEFINE c == class[s]
  <1>1. c \in Classes
    BY DEF Classified, Waiting
  <1>2. stage \in Stages \ {"executing", "reserved"} /\ stage \notin Waiting
    BY DEF Waiting, Stages
  <1>3. /\ Executing' = Executing \ {s}
        /\ \A d \in Classes : Waiters(d)' = Waiters(d) \ {s}
    BY <1>2, StageMoves DEF TypeOK
  <1>4. /\ s \notin Executing
        /\ s \in Waiters(c)
        /\ \A d \in Classes \ {c} : s \notin Waiters(d)
    BY DEF Executing, Waiters, Waiting
  <1>5. /\ Cardinality(Waiters(c) \ {s}) = Cardinality(Waiters(c)) - 1
        /\ Cardinality(Waiters(c)) > 0
    BY <1>1, <1>4, Tally, CountedFinite
  <1>6. /\ Executing' = Executing
        /\ Waiters(c)' = Waiters(c) \ {s}
        /\ \A d \in Classes \ {c} : Waiters(d)' = Waiters(d)
    BY <1>1, <1>3, <1>4
  <1>7. waiting' = [waiting EXCEPT ![c] = waiting[c] - 1]
    <2>1. waiting[c] > 0 /\ waiting[c] # 0
      BY <1>1, <1>5, CountedFinite, FS_CardinalityType DEF SlotAccounting
    <2>2. QED
      BY <1>1, <2>1 DEF Decrement, TypeOK
  <1>8. \A d \in Classes : waiting'[d] = Cardinality(Waiters(d)')
    BY <1>1, <1>5, <1>6, <1>7 DEF SlotAccounting, TypeOK
  <1>9. SlotAccounting'
    BY <1>6, <1>8 DEF SlotAccounting
  <1>10. waiting' \in [Classes -> Nat]
    BY <1>1, <1>5, <1>7 DEF SlotAccounting, TypeOK
  <1>11. TypeOK'
    BY <1>2, <1>10, BurstPositive DEF TypeOK, KeepBypass
  <1>12. NoBlockedReservation' /\ Classified'
    BY <1>2, <1>1 DEF NoBlockedReservation, Classified, TypeOK
  <1>13. BypassCounted' /\ HeavyBypassBounded'
    BY BurstPositive DEF BypassCounted, HeavyBypassBounded, KeepBypass, TypeOK
  <1>14. QED
    BY <1>9, <1>11, <1>12, <1>13

(* No step breaks the invariant, be it a grant, a time-out, a cancellation  *)
(* or a release.                                                            *)
THEOREM StepPreserves == IInv /\ [Next]_vars => IInv'
  <1> SUFFICES ASSUME IInv, [Next]_vars PROVE IInv'
    OBVIOUS
  <1> USE DEF IInv
  <1>1. ASSUME NEW s \in Sessions, Chat(s) PROVE IInv'
    <2>1. pc[s] = "idle" /\ "polling" \in Waiting
      BY <1>1 DEF Chat, Waiting
    <2>2. PICK c \in IF class[s] = None THEN Classes ELSE {class[s]} :
            class' = [class EXCEPT ![s] = c] /\ Acquire(s, c, "polling")
      BY <1>1 DEF Chat
    <2>3. c \in Classes
      BY <2>2 DEF TypeOK
    <2>4. running' \in [Sessions -> BOOLEAN]
      BY <1>1 DEF Chat, TypeOK
    <2>5. QED
      BY <2>1, <2>2, <2>3, <2>4, AcquirePreserves
  <1>2. ASSUME NEW s \in Sessions, Poll(s) PROVE IInv'
    <2>1. class[s] \in Classes /\ class' = [class EXCEPT ![s] = class[s]]
      BY <1>2 DEF Poll, Classified, Waiting, TypeOK
    <2>2. QED
      BY <1>2, <2>1, GrantPreserves DEF Poll, TypeOK
  <1>3. ASSUME NEW s \in Sessions, TimeOut(s) PROVE IInv'
    BY <1>3, LeavePreserves DEF TimeOut, Waiting
  <1>4. ASSUME NEW s \in Sessions, Retry(s) PROVE IInv'
    <2>1. /\ class[s] \in Classes
          /\ class' = [class EXCEPT ![s] = class[s]]
          /\ "requeued" \in Waiting
      BY <1>4 DEF Retry, Classified, Waiting, TypeOK
    <2>2. QED
      BY <1>4, <2>1, AcquirePreserves DEF Retry, TypeOK
  <1>5. ASSUME NEW s \in Sessions, Cancel(s) PROVE IInv'
    <2>1. CASE pc[s] \in Waiting
      BY <1>5, <2>1, LeavePreserves DEF Cancel, Waiting
    <2>2. CASE pc[s] = "notified"
      <3>1. pc' = [pc EXCEPT ![s] = "idle"] /\ UNCHANGED <<class, counters, bypassed, running>>
        BY <1>5, <2>2 DEF Cancel, Waiting, counters
      <3>2. Executing' = Executing /\ \A c \in Classes : Waiters(c)' = Waiters(c)
        BY <2>2, <3>1 DEF Executing, Waiters, Waiting, TypeOK
      <3>3. SlotAccounting'
        BY <3>1, <3>2 DEF SlotAccounting, counters
      <3>4. QED
        BY <3>1, <3>3 DEF TypeOK, Stages, counters, NoBlockedReservation,
           Classified, BypassCounted, HeavyBypassBounded
    <2>3. QED
      BY <1>5, <2>1, <2>2 DEF Cancel
  <1>6. ASSUME NEW s \in Sessions, Release(s) PROVE IInv'
    <2>1. s \in Executing
      BY <1>6 DEF Release, Executing
    <2>2. /\ Executing' = Executing \ {s}
          /\ \A c \in Classes : Waiters(c)' = Waiters(c)
      BY <1>6 DEF Release, Executing, Waiters, Waiting, TypeOK
    <2>3. /\ Cardinality(Executing \ {s}) = Cardinality(Executing) - 1
          /\ Cardinality(Executing) > 0
      BY <2>1, Tally, CountedFinite
    <2>4. slotsInUse' = slotsInUse - 1 /\ slotsInUse > 0
      BY <1>6, <2>3 DEF Release, SlotAccounting
    <2>5. SlotAccounting'
      BY <1>6, <2>2, <2>3, <2>4, SlotsPositive
      DEF Release, SlotAccounting, TypeOK
    <2>6. TypeOK'
      BY <1>6, <2>4 DEF Release, TypeOK, Stages
    <2>7. QED
      BY <1>6, <2>5, <2>6 DEF Release, TypeOK, NoBlockedReservation,
         Classified, BypassCounted, HeavyBypassBounded
  <1>7. ASSUME NEW s \in Sessions, Finish(s) PROVE IInv'
    BY <1>7 DEF Finish, counters, TypeOK, SlotAccounting, Executing, Waiters,
       NoBlockedReservation, Classified, BypassCounted, HeavyBypassBounded
  <1>8. CASE UNCHANGED vars
    BY <1>8 DEF vars, counters, TypeOK, SlotAccounting, Executing, Waiters,
       NoBlockedReservation, Classified, BypassCounted, HeavyBypassBounded
  <1>9. QED
    BY <1>1, <1>2, <1>3, <1>4, <1>5, <1>6, <1>7, <1>8 DEF Next

(* So it holds in every state that is reached.                              *)
THEOREM Invariance == Spec => []IInv
  BY InitEstablishes, StepPreserves, PTL DEF Spec

-----------------------------------------------------------------------------
(* The variables of ExecutionSlots keep their types. *)
THEOREM TypeCorrect == Spec => []TypeOK
  <1>1. IInv => TypeOK
    BY DEF IInv
  <1>2. QED
    BY <1>1, Invariance, PTL

(***************************************************************************)
(* The counters of the admission controller count what they say, for any   *)
(* number of sessions and slots.                                           *)
(***************************************************************************)
THEOREM AccountingCorrect == Spec => []SlotAccounting
  <1>1. IInv => SlotAccounting
    BY DEF IInv
  <1>2. QED
    BY <1>1, Invariance, PTL

(* A granted stream never blocks on the semaphore. *)
THEOREM ReservationNeverBlocks == Spec => []NoBlockedReservation
  <1>1. IInv => NoBlockedReservation
    BY DEF IInv
  <1>2. QED
    BY <1>1, Invariance, PTL

(* Waiting heavy work is bypassed at most Burst times in a row. *)
THEOREM HeavyNotStarvedByBurst == Spec => []HeavyBypassBounded
  <1>1. IInv => HeavyBypassBounded
    BY DEF IInv
  <1>2. QED
    BY <1>1, Invariance, PTL

-----------------------------------------------------------------------------
(***************************************************************************)
(* Seen from the streams with a slot, every step of the admission          *)
(* controller takes a free slot, gives a held one back, or is invisible.   *)
(***************************************************************************)
LEMMA StepMaps ==
  ASSUME IInv, [Next]_vars
  PROVE  Admission!Next \/ Executing' = Executing
  <1> USE DEF IInv
  <1>1. ASSUME NEW s \in Sessions, NEW c, NEW w, pc[s] # "executing",
               Grant(s, c, w)
        PROVE  Admission!Next
    <2>1. pc' = [pc EXCEPT ![s] = "executing"]
      <3>1. semaphore > 0
        BY <1>1, SlotsPositive DEF Grant, Admits, SlotAccounting, TypeOK
      <3>2. QED
        BY <1>1, <3>1 DEF Grant
    <2>2. Executing' = Executing \cup {s}
      BY <2>1 DEF Executing, TypeOK
    <2>3. Admission!Cardinality(Executing) < MaxSlots
      <3>1. Cardinality(Executing) < MaxSlots
        BY <1>1 DEF Grant, Admits, SlotAccounting
      <3>2. Admission!Cardinality(Executing) = Cardinality(Executing)
        BY Zenon DEF Cardinality, Admission!Cardinality
      <3>3. QED
        BY <3>1, <3>2
    <2>4. s \notin Executing
      BY <1>1 DEF Executing
    <2>5. Admission!Take(s)
      BY <2>2, <2>3, <2>4 DEF Admission!Take
    <2>6. QED
      BY <2>5 DEF Admission!Next
  <1>2. ASSUME NEW s \in Sessions, pc[s] # "executing", NEW stage,
               stage # "executing", pc' = [pc EXCEPT ![s] = stage]
        PROVE  Executing' = Executing
    BY <1>2 DEF Executing, TypeOK
  <1>3. ASSUME NEW s \in Sessions, NEW c, NEW stage, stage # "executing",
               pc[s] # "executing", Acquire(s, c, stage)
        PROVE  Admission!Next \/ Executing' = Executing
    BY <1>1, <1>2, <1>3 DEF Acquire
  <1>4. ASSUME NEW s \in Sessions, Chat(s)
        PROVE  Admission!Next \/ Executing' = Executing
    BY <1>3, <1>4 DEF Chat
  <1>5. ASSUME NEW s \in Sessions, Retry(s)
        PROVE  Admission!Next \/ Executing' = Executing
    BY <1>3, <1>5 DEF Retry
  <1>6. ASSUME NEW s \in Sessions, Poll(s)
        PROVE  Admission!Next \/ Executing' = Executing
    BY <1>1, <1>6 DEF Poll, Waiting
  <1>7. ASSUME NEW s \in Sessions, TimeOut(s) \/ Cancel(s)
        PROVE  Executing' = Executing
    BY <1>2, <1>7 DEF TimeOut, Cancel, Waiting
  <1>8. ASSUME NEW s \in Sessions, Release(s)
        PROVE  Admission!Next
    <2>1. s \in Executing /\ Executing' = Executing \ {s}
      BY <1>8 DEF Release, Executing, TypeOK
    <2>2. QED
      BY <2>1 DEF Admission!Next, Admission!GiveBack
  <1>9. ASSUME NEW s \in Sessions, Finish(s)
        PROVE  Executing' = Executing
    BY <1>9 DEF Finish, Executing
  <1>10. CASE UNCHANGED vars
    BY <1>10 DEF vars, Executing
  <1>11. QED
    BY <1>4, <1>5, <1>6, <1>7, <1>8, <1>9, <1>10 DEF Next

(***************************************************************************)
(* The two-class admission with its timeouts and cancellations implements  *)
(* an admission controller of MaxSlots slots.                              *)
(***************************************************************************)
THEOREM Implements == Spec => ImplementsSlots
  <1>1. Init => Admission!Init
    BY DEF Init, Admission!Init, Executing
  <1>2. IInv /\ [Next]_vars => [Admission!Next]_Executing
    BY StepMaps
  <1>3. QED
    BY <1>1, <1>2, Invariance, PTL DEF Spec, ImplementsSlots, Admission!Spec

=============================================================================
