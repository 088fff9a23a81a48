-------------------------- MODULE LLMLimiterProofs --------------------------
(***************************************************************************)
(* Theorems about LLMLimiter for every set of calls, every number of slots *)
(* and every number of attempts.                                           *)
(***************************************************************************)
EXTENDS LLMLimiter, FiniteSetTheorems, SequenceTheorems, TLAPS

(***************************************************************************)
(* The inductive invariant: where a call stands tells how many slots it    *)
(* holds, and the queue holds every waiting call once, the woken ones      *)
(* among them. Without it a call could be granted a slot it has no attempt *)
(* for, or leave the queue twice.                                          *)
(***************************************************************************)
Ladder ==
  \A c \in Calls :
    /\ slots[c] <= attempts[c]
    /\ pc[c] = "idle" => slots[c] = 0 /\ attempts[c] = 0
    /\ pc[c] = "waiting" => slots[c] < attempts[c]
    /\ pc[c] \in {"calling", "failing", "cancelled"} => slots[c] > 0
    /\ pc[c] = "cancelled" => cancels > 0

QueueOfWaiting ==
  /\ \A i \in DOMAIN waiters : pc[waiters[i]] = "waiting"
  /\ \A i, j \in DOMAIN waiters : waiters[i] = waiters[j] => i = j
  /\ \A c \in granted : pc[c] = "waiting"

Finite == IsFiniteSet(granted) /\ IsFiniteSet(Held)

IInv ==
  /\ TypeOK
  /\ SlotsExact
  /\ NoLostWakeup
  /\ QueueNotOvercounted
  /\ Ladder
  /\ QueueOfWaiting
  /\ Finite

-----------------------------------------------------------------------------
(* Cardinality of a set after one element joins or leaves it. *)
LEMMA Tally ==
  ASSUME NEW S, IsFiniteSet(S), NEW e
  PROVE  /\ Cardinality(S) \in Nat
         /\ IsFiniteSet(S \cup {e}) /\ IsFiniteSet(S \ {e})
         /\ Cardinality(S \cup {e}) =
              IF e \in S THEN Cardinality(S) ELSE Cardinality(S) + 1
         /\ e \in S => Cardinality(S) > 0
         /\ Cardinality(S \ {e}) =
              IF e \in S THEN Cardinality(S) - 1 ELSE Cardinality(S)
  <1>1. Cardinality(S) \in Nat
    BY FS_CardinalityType
  <1>2. /\ IsFiniteSet(S \cup {e})
        /\ Cardinality(S \cup {e}) =
             IF e \in S THEN Cardinality(S) ELSE Cardinality(S) + 1
    BY FS_AddElement
  <1>3. /\ IsFiniteSet(S \ {e})
        /\ Cardinality(S \ {e}) =
             IF e \in S THEN Cardinality(S) - 1 ELSE Cardinality(S)
    BY FS_RemoveElement
  <1>4. e \in S => Cardinality(S) > 0
    BY <1>1, FS_EmptySet
  <1>5. QED
    BY <1>1, <1>2, <1>3, <1>4

(* A slot given back goes to the first sleeper, or stays free when nobody  *)
(* sleeps: it is neither lost nor doubled.                                 *)
LEMMA WakeKeepsSlots ==
  ASSUME NEW v \in Nat, NEW ws \in Seq(Calls), NEW g \in SUBSET Calls,
         IsFiniteSet(g), Wake(v, ws, g)
  PROVE  /\ value' \in Nat /\ value' <= v
         /\ granted' \subseteq Calls /\ IsFiniteSet(granted')
         /\ value' + Cardinality(granted') = v + Cardinality(g)
         /\ \A c \in granted' : c \in g \/ \E i \in DOMAIN ws : ws[i] = c
         /\ value' > 0 /\ (\E i \in DOMAIN ws : ws[i] \notin granted')
              => granted' # {}
  <1>1. CASE v > 0 /\ \E i \in DOMAIN ws : ws[i] \notin g
    <2>1. PICK i \in DOMAIN ws : /\ ws[i] \notin g
                                 /\ value' = v - 1
                                 /\ granted' = g \cup {ws[i]}
      BY <1>1 DEF Wake
    <2>2. ws[i] \in Calls
      BY ElementOfSeq
    <2>3. /\ Cardinality(g) \in Nat
          /\ IsFiniteSet(g \cup {ws[i]})
          /\ Cardinality(g \cup {ws[i]}) = Cardinality(g) + 1
      BY <2>1, Tally
    <2>4. QED
      BY <1>1, <2>1, <2>2, <2>3
  <1>2. CASE ~(v > 0 /\ \E i \in DOMAIN ws : ws[i] \notin g)
    BY <1>2 DEF Wake
  <1>3. QED
    BY <1>1, <1>2

(* One future leaves the queue, and only that of its call. *)
LEMMA Dequeued ==
  ASSUME waiters \in Seq(Calls), QueueOfWaiting, NEW c \in Calls, Dequeue(c)
  PROVE  /\ waiters' \in Seq(Calls)
         /\ Len(waiters) \in Nat /\ Len(waiters) > 0
         /\ Len(waiters') = Len(waiters) - 1
         /\ \A k \in DOMAIN waiters' :
              \E j \in DOMAIN waiters : waiters'[k] = waiters[j] /\ waiters[j] # c
         /\ \A k, l \in DOMAIN waiters' : waiters'[k] = waiters'[l] => k = l
  <1> DEFINE n == Len(waiters)
  <1>1. PICK i \in DOMAIN waiters : /\ waiters[i] = c
                                    /\ waiters' = RemoveAt(waiters, i)
    BY DEF Dequeue
  <1>2. n \in Nat /\ DOMAIN waiters = 1..n /\ i \in 1..n
    BY LenProperties
  <1> DEFINE s == SubSeq(waiters, 1, i - 1)
             t == SubSeq(waiters, i + 1, n)
  <1>3. \A k \in 1..n : waiters[k] \in Calls
    BY <1>2, ElementOfSeq
  <1>4. /\ s \in Seq(Calls) /\ Len(s) = i - 1
        /\ \A k \in 1..(i - 1) : s[k] = waiters[k]
    <2>1. \A k \in 1..(i - 1) : waiters[k] \in Calls
      BY <1>2, <1>3
    <2>2. 1 \in Int /\ i - 1 \in Int
      BY <1>2
    <2>3. /\ s \in Seq(Calls) /\ Len(s) = IF 1 <= i - 1 THEN i - 1 - 1 + 1 ELSE 0
          /\ \A k \in 1..(i - 1 - 1 + 1) : s[k] = waiters[1 + k - 1]
      BY <2>1, <2>2, SubSeqProperties
    <2>4. QED
      BY <1>2, <2>3
  <1>5. /\ t \in Seq(Calls) /\ Len(t) = n - i
        /\ \A k \in 1..(n - i) : t[k] = waiters[k + i]
    <2>1. \A k \in (i + 1)..n : waiters[k] \in Calls
      BY <1>2, <1>3
    <2>2. i + 1 \in Int /\ n \in Int
      BY <1>2
    <2>3. /\ t \in Seq(Calls) /\ Len(t) = IF i + 1 <= n THEN n - (i + 1) + 1 ELSE 0
          /\ \A k \in 1..(n - (i + 1) + 1) : t[k] = waiters[i + 1 + k - 1]
      BY <2>1, <2>2, SubSeqProperties
    <2>4. QED
      BY <1>2, <2>3
  <1>6. /\ waiters' \in Seq(Calls) /\ Len(waiters') = n - 1
        /\ DOMAIN waiters' = 1..(n - 1)
        /\ \A k \in 1..(n - 1) :
             waiters'[k] = IF k < i THEN waiters[k] ELSE waiters[k + 1]
    <2>1. waiters' = s \o t
      BY <1>1 DEF RemoveAt
    <2> HIDE DEF s, t
    <2>2. /\ s \o t \in Seq(Calls) /\ Len(s \o t) = Len(s) + Len(t)
          /\ \A k \in 1..(Len(s) + Len(t)) :
               (s \o t)[k] = IF k <= Len(s) THEN s[k] ELSE t[k - Len(s)]
      BY <1>4, <1>5, ConcatProperties
    <2>3. waiters' \in Seq(Calls) /\ Len(waiters') = n - 1
      BY <1>2, <1>4, <1>5, <2>1, <2>2
    <2>4. DOMAIN waiters' = 1..(n - 1)
      BY <2>3, LenProperties
    <2>5. ASSUME NEW k \in 1..(n - 1)
          PROVE  waiters'[k] = IF k < i THEN waiters[k] ELSE waiters[k + 1]
      <3>1. waiters'[k] = IF k <= i - 1 THEN s[k] ELSE t[k - (i - 1)]
        BY <1>2, <1>4, <1>5, <2>1, <2>2
      <3>2. CASE k < i
        BY <1>2, <1>4, <3>1, <3>2
      <3>3. CASE k >= i
        <4>1. k - (i - 1) \in 1..(n - i) /\ k - (i - 1) + i = k + 1
          BY <1>2, <3>3
        <4>2. QED
          BY <1>2, <1>5, <3>1, <3>3, <4>1
      <3>4. QED
        BY <1>2, <3>2, <3>3
    <2>6. QED
      BY <2>3, <2>4, <2>5
  <1>7. ASSUME NEW k \in DOMAIN waiters'
        PROVE  \E j \in DOMAIN waiters : waiters'[k] = waiters[j] /\ waiters[j] # c
    <2> DEFINE j == IF k < i THEN k ELSE k + 1
    <2>1. j \in 1..n /\ j # i /\ waiters'[k] = waiters[j]
      BY <1>2, <1>6
    <2>2. waiters[j] # c
      BY <1>1, <1>2, <2>1 DEF QueueOfWaiting
    <2>3. QED
      BY <1>2, <2>1, <2>2
  <1>8. ASSUME NEW k \in DOMAIN waiters', NEW l \in DOMAIN waiters',
               waiters'[k] = waiters'[l]
        PROVE  k = l
    <2> DEFINE j(m) == IF m < i THEN m ELSE m + 1
    <2>1. j(k) \in 1..n /\ j(l) \in 1..n /\ waiters[j(k)] = waiters[j(l)]
      BY <1>2, <1>6, <1>8
    <2>2. j(k) = j(l)
      BY <1>2, <2>1 DEF QueueOfWaiting
    <2>3. QED
      BY <1>2, <1>6, <2>2
  <1>9. QED
    BY <1>2, <1>6, <1>7, <1>8

(* The slots held after a call takes one more, or gives one back. *)
LEMMA SlotTaken ==
  ASSUME TypeOK, IsFiniteSet(Held), NEW c \in Calls, slots[c] < MaxAttempts,
         slots' = [slots EXCEPT ![c] = @ + 1]
  PROVE  /\ Held' = Held \cup {<<c, slots[c] + 1>>}
         /\ <<c, slots[c] + 1>> \in (Calls \X Levels) \ Held
         /\ IsFiniteSet(Held') /\ Cardinality(Held) \in Nat
         /\ Cardinality(Held') = Cardinality(Held) + 1
  <1>1. slots \in [Calls -> 0..MaxAttempts] /\ MaxAttempts \in Nat
    BY LimitsAssumption DEF TypeOK
  <1>2. /\ slots[c] + 1 \in Levels
        /\ \A d \in Calls : slots'[d] = IF d = c THEN slots[c] + 1 ELSE slots[d]
    BY <1>1 DEF Levels
  <1>3. \A d \in Calls, k \in Levels :
          k <= slots'[d] <=> k <= slots[d] \/ (d = c /\ k = slots[c] + 1)
    BY <1>1, <1>2 DEF Levels
  <1>4. Held' = Held \cup {<<c, slots[c] + 1>>}
    BY <1>2, <1>3 DEF Held
  <1>5. <<c, slots[c] + 1>> \notin Held
    BY <1>1 DEF Held
  <1>6. QED
    BY <1>2, <1>4, <1>5, Tally

LEMMA SlotGiven ==
  ASSUME TypeOK, IsFiniteSet(Held), NEW c \in Calls, slots[c] > 0,
         slots' = [slots EXCEPT ![c] = @ - 1]
  PROVE  /\ Held' = Held \ {<<c, slots[c]>>}
         /\ <<c, slots[c]>> \in Held
         /\ IsFiniteSet(Held') /\ Cardinality(Held) \in Nat
         /\ Cardinality(Held') = Cardinality(Held) - 1
         /\ Cardinality(Held) > 0
  <1>1. slots \in [Calls -> 0..MaxAttempts] /\ MaxAttempts \in Nat
    BY LimitsAssumption DEF TypeOK
  <1>2. /\ slots[c] \in Levels
        /\ \A d \in Calls : slots'[d] = IF d = c THEN slots[c] - 1 ELSE slots[d]
    BY <1>1 DEF Levels
  <1>3. \A d \in Calls, k \in Levels :
          k <= slots'[d] <=> k <= slots[d] /\ ~(d = c /\ k = slots[c])
    BY <1>1, <1>2 DEF Levels
  <1>4. Held' = Held \ {<<c, slots[c]>>}
    BY <1>2, <1>3 DEF Held
  <1>5. <<c, slots[c]>> \in Held
    BY <1>1, <1>2 DEF Held
  <1>6. QED
    BY <1>4, <1>5, Tally

(* At first every slot is free and nobody waits. *)
LEMMA InitEstablishes == Init => IInv
  <1> SUFFICES ASSUME Init PROVE IInv
    OBVIOUS
  <1>1. Held = {} /\ granted = {} /\ waiters = <<>> /\ Len(waiters) = 0
    BY LimitsAssumption DEF Init, Held, Levels
  <1>2. Cardinality(Held) = 0 /\ Cardinality(granted) = 0 /\ Finite
    BY <1>1, FS_EmptySet DEF Finite
  <1>3. TypeOK
    BY LimitsAssumption DEF Init, TypeOK
  <1>4. SlotsExact
    BY <1>2, LimitsAssumption DEF Init, SlotsExact
  <1>5. NoLostWakeup /\ QueueNotOvercounted
    BY <1>1 DEF Init, NoLostWakeup, QueueNotOvercounted
  <1>6. Ladder /\ QueueOfWaiting
    BY <1>1 DEF Init, Ladder, QueueOfWaiting
  <1>7. QED
    BY <1>2, <1>3, <1>4, <1>5, <1>6 DEF IInv

(***************************************************************************)
(* Asking for a slot, the first one or one more.                           *)
(***************************************************************************)
LEMMA AcquirePreserves ==
  ASSUME IInv, NEW c \in Calls, pc[c] \in {"idle", "calling"},
         attempts[c] < MaxAttempts, Acquire(c)
  PROVE  IInv'
  <1> USE LimitsAssumption
  <1>1. /\ value \in Nat /\ active \in Nat /\ queued \in Int /\ cancels \in Nat
        /\ slots \in [Calls -> 0..MaxAttempts]
        /\ attempts \in [Calls -> 0..MaxAttempts]
        /\ waiters \in Seq(Calls) /\ Len(waiters) \in Nat
        /\ DOMAIN waiters = 1..Len(waiters)
    BY LenProperties DEF IInv, TypeOK
  <1>2. slots[c] < MaxAttempts /\ slots[c] <= attempts[c]
    BY <1>1 DEF IInv, Ladder
  <1>3. /\ attempts' = [attempts EXCEPT ![c] = @ + 1]
        /\ attempts' \in [Calls -> 0..MaxAttempts]
        /\ cancels' = cancels
    BY <1>1 DEF Acquire
  <1>4. c \notin granted /\ \A i \in DOMAIN waiters : waiters[i] # c
    BY DEF IInv, QueueOfWaiting
  <1>5. /\ Cardinality(granted) \in Nat /\ Cardinality(Held) \in Nat
    BY Tally DEF IInv, Finite
  <1>6. CASE value > 0 /\ waiters = <<>>
    <2>1. /\ value' = value - 1 /\ active' = active + 1
          /\ slots' = [slots EXCEPT ![c] = @ + 1]
          /\ pc' = [pc EXCEPT ![c] = "calling"]
          /\ waiters' = waiters /\ granted' = granted /\ queued' = queued
      BY <1>6 DEF Acquire
    <2>2. /\ IsFiniteSet(Held') /\ Cardinality(Held') = Cardinality(Held) + 1
      BY <1>2, <2>1, SlotTaken DEF IInv, Finite
    <2>3. SlotsExact'
      BY <1>1, <1>5, <2>1, <2>2 DEF IInv, SlotsExact
    <2>4. TypeOK'
      <3>1. slots' \in [Calls -> 0..MaxAttempts]
        BY <1>1, <1>2, <2>1
      <3>2. value' \in 0..MaxConcurrent /\ active' \in Nat
        BY <1>1, <1>6, <2>1 DEF IInv, TypeOK
      <3>3. pc' \in [Calls -> {"idle", "waiting", "calling", "failing", "cancelled"}]
        BY <2>1 DEF IInv, TypeOK
      <3>4. QED
        BY <1>3, <2>1, <3>1, <3>2, <3>3 DEF IInv, TypeOK
    <2>5. NoLostWakeup' /\ QueueNotOvercounted'
      BY <1>3, <1>6, <2>1 DEF IInv, NoLostWakeup, QueueNotOvercounted
    <2>6. Ladder'
      BY <1>1, <1>2, <1>3, <2>1 DEF IInv, Ladder, TypeOK
    <2>7. QueueOfWaiting' /\ Finite'
      BY <1>4, <2>1, <2>2 DEF IInv, QueueOfWaiting, Finite, TypeOK
    <2>8. QED
      BY <2>3, <2>4, <2>5, <2>6, <2>7 DEF IInv
  <1>7. CASE ~(value > 0 /\ waiters = <<>>)
    <2>1. /\ waiters' = Append(waiters, c) /\ queued' = queued + 1
          /\ pc' = [pc EXCEPT ![c] = "waiting"]
          /\ value' = value /\ granted' = granted
          /\ active' = active /\ slots' = slots
      BY <1>7 DEF Acquire
    <2>2. /\ waiters' \in Seq(Calls) /\ Len(waiters') = Len(waiters) + 1
          /\ DOMAIN waiters' = 1..(Len(waiters) + 1)
          /\ \A i \in 1..Len(waiters) : waiters'[i] = waiters[i]
          /\ waiters'[Len(waiters) + 1] = c
      BY <1>1, <2>1, AppendProperties, LenProperties
    <2>3. Held' = Held
      BY <2>1 DEF Held
    <2>4. SlotsExact' /\ Finite'
      BY <2>1, <2>3 DEF IInv, SlotsExact, Finite
    <2>5. TypeOK'
      BY <1>1, <1>3, <2>1, <2>2 DEF IInv, TypeOK
    <2>6. NoLostWakeup'
      <3>1. SUFFICES ASSUME value > 0, granted = {} PROVE FALSE
        BY <2>1 DEF NoLostWakeup
      <3>2. waiters # <<>> /\ Len(waiters) > 0
        BY <1>1, <1>7, <3>1, EmptySeq
      <3>3. 1 \in DOMAIN waiters /\ waiters[1] \notin granted
        BY <1>1, <3>1, <3>2
      <3>4. QED
        BY <3>1, <3>3 DEF IInv, NoLostWakeup
    <2>7. QueueNotOvercounted'
      <3>1. queued + 1 <= Len(waiters) + 1
        <4>1. queued <= Len(waiters) /\ queued \in Int /\ Len(waiters) \in Nat
          BY <1>1 DEF IInv, QueueNotOvercounted
        <4>2. QED
          BY <4>1
      <3>2. cancels = 0 => queued + 1 = Len(waiters) + 1
        BY DEF IInv, QueueNotOvercounted
      <3>3. QED
        BY <1>3, <2>1, <2>2, <3>1, <3>2 DEF QueueNotOvercounted
    <2>8. Ladder'
      BY <1>1, <1>2, <1>3, <2>1 DEF IInv, Ladder, TypeOK
    <2>9. QueueOfWaiting'
      BY <1>1, <1>4, <2>1, <2>2 DEF IInv, QueueOfWaiting, TypeOK
    <2>10. QED
      BY <2>4, <2>5, <2>6, <2>7, <2>8, <2>9 DEF IInv
  <1>8. QED
    BY <1>6, <1>7

(***************************************************************************)
(* A woken call leaves the queue with its slot.                            *)
(***************************************************************************)
LEMMA ProceedPreserves ==
  ASSUME IInv, NEW c \in Calls, Proceed(c)
  PROVE  IInv'
  <1> USE LimitsAssumption
  <1>1. /\ value \in Nat /\ active \in Nat /\ queued \in Int /\ cancels \in Nat
        /\ slots \in [Calls -> 0..MaxAttempts]
        /\ attempts \in [Calls -> 0..MaxAttempts]
        /\ waiters \in Seq(Calls) /\ granted \subseteq Calls
        /\ pc \in [Calls -> {"idle", "waiting", "calling", "failing", "cancelled"}]
    BY DEF IInv, TypeOK
  <1>2. /\ c \in granted /\ Dequeue(c)
        /\ Wake(value, waiters', granted \ {c})
        /\ queued' = queued - 1 /\ active' = active + 1
        /\ slots' = [slots EXCEPT ![c] = @ + 1]
        /\ pc' = [pc EXCEPT ![c] = "calling"]
        /\ attempts' = attempts /\ cancels' = cancels
    BY DEF Proceed
  <1>3. slots[c] < attempts[c] /\ slots[c] < MaxAttempts /\ slots[c] \in Nat
    BY <1>1, <1>2 DEF IInv, QueueOfWaiting, Ladder
  <1>4. /\ IsFiniteSet(Held') /\ Cardinality(Held') = Cardinality(Held) + 1
        /\ Cardinality(Held) \in Nat
    BY <1>2, <1>3, SlotTaken DEF IInv, Finite
  <1>5. /\ waiters' \in Seq(Calls) /\ Len(waiters) \in Nat
        /\ Len(waiters') = Len(waiters) - 1
        /\ \A k \in DOMAIN waiters' :
             waiters'[k] # c /\ pc[waiters'[k]] = "waiting"
        /\ \A k, l \in DOMAIN waiters' : waiters'[k] = waiters'[l] => k = l
    BY <1>1, <1>2, Dequeued DEF IInv, QueueOfWaiting
  <1>6. /\ IsFiniteSet(granted \ {c}) /\ granted \ {c} \in SUBSET Calls
        /\ Cardinality(granted) \in Nat /\ Cardinality(granted) > 0
        /\ Cardinality(granted \ {c}) = Cardinality(granted) - 1
    BY <1>1, <1>2, Tally DEF IInv, Finite
  <1>7. /\ value' \in Nat /\ value' <= value
        /\ granted' \subseteq Calls /\ IsFiniteSet(granted')
        /\ value' + Cardinality(granted') = value + Cardinality(granted \ {c})
        /\ \A d \in granted' :
             d \in granted \ {c} \/ \E i \in DOMAIN waiters' : waiters'[i] = d
        /\ value' > 0 /\ (\E i \in DOMAIN waiters' : waiters'[i] \notin granted')
             => granted' # {}
    BY <1>1, <1>2, <1>5, <1>6, WakeKeepsSlots
  <1>8. /\ active + 1 = Cardinality(Held')
        /\ value' + Cardinality(granted') + Cardinality(Held') = MaxConcurrent
    BY <1>1, <1>4, <1>6, <1>7 DEF IInv, SlotsExact
  <1>9. SlotsExact' /\ Finite'
    BY <1>2, <1>4, <1>7, <1>8 DEF SlotsExact, Finite
  <1>10. value' \in 0..MaxConcurrent
    BY <1>1, <1>7 DEF IInv, TypeOK
  <1>11. slots' \in [Calls -> 0..MaxAttempts]
    BY <1>1, <1>2, <1>3
  <1>12. TypeOK'
    BY <1>1, <1>2, <1>5, <1>7, <1>10, <1>11 DEF IInv, TypeOK
  <1>13. NoLostWakeup'
    BY <1>7 DEF NoLostWakeup
  <1>14. QueueNotOvercounted'
    <2>1. queued <= Len(waiters) /\ (cancels = 0 => queued = Len(waiters))
      BY DEF IInv, QueueNotOvercounted
    <2>2. queued' <= Len(waiters') /\ (cancels' = 0 => queued' = Len(waiters'))
      BY <1>1, <1>2, <1>5, <2>1
    <2>3. QED
      BY <2>2 DEF QueueNotOvercounted
  <1>15. Ladder'
    BY <1>1, <1>2, <1>3 DEF IInv, Ladder
  <1>16. QueueOfWaiting'
    <2>1. \A d \in granted' : d # c /\ pc[d] = "waiting"
      BY <1>5, <1>7 DEF IInv, QueueOfWaiting
    <2>2. \A k \in DOMAIN waiters' : waiters'[k] \in Calls
      BY <1>5, ElementOfSeq
    <2>3. QED
      BY <1>1, <1>2, <1>5, <1>7, <2>1, <2>2 DEF QueueOfWaiting
  <1>17. QED
    BY <1>9, <1>12, <1>13, <1>14, <1>15, <1>16 DEF IInv

(***************************************************************************)
(* A call leaves the queue without a slot, timed out or cancelled; one it  *)
(* was granted meanwhile goes on to the next.                              *)
(***************************************************************************)
LEMMA QuitPreserves ==
  ASSUME IInv, NEW c \in Calls, pc[c] = "waiting", Quit(c),
         NEW how \in {"failing", "cancelled"}, Settle(c, how, slots[c]),
         active' = active, slots' = slots,
         \/ how = "failing" /\ queued' = queued - 1 /\ cancels' = cancels
         \/ /\ how = "cancelled" /\ queued' = Uncount
            /\ cancels' = cancels + 1 /\ cancels < MaxCancels
  PROVE  IInv'
  <1> USE LimitsAssumption
  <1>1. /\ value \in Nat /\ active \in Nat /\ queued \in Int /\ cancels \in Nat
        /\ slots \in [Calls -> 0..MaxAttempts]
        /\ attempts \in [Calls -> 0..MaxAttempts]
        /\ waiters \in Seq(Calls) /\ granted \subseteq Calls
        /\ pc \in [Calls -> {"idle", "waiting", "calling", "failing", "cancelled"}]
    BY DEF IInv, TypeOK
  <1>2. Held' = Held
    BY DEF Held
  <1>3. Cardinality(Held) \in Nat /\ Cardinality(granted) \in Nat
    BY Tally DEF IInv, Finite
  <1>4. /\ waiters' \in Seq(Calls) /\ Len(waiters) \in Nat /\ Len(waiters) > 0
        /\ Len(waiters') = Len(waiters) - 1
        /\ \A k \in DOMAIN waiters' :
             waiters'[k] # c /\ pc[waiters'[k]] = "waiting"
        /\ \A k, l \in DOMAIN waiters' : waiters'[k] = waiters'[l] => k = l
        /\ \A k \in DOMAIN waiters' : \E j \in DOMAIN waiters : waiters'[k] = waiters[j]
    BY <1>1, Dequeued DEF IInv, QueueOfWaiting, Quit
  <1>5. /\ value' \in Nat
        /\ granted' \subseteq Calls /\ IsFiniteSet(granted')
        /\ Cardinality(granted') \in Nat
        /\ value' + Cardinality(granted') = value + Cardinality(granted)
        /\ \A d \in granted' : d # c /\ pc[d] = "waiting"
        /\ value' > 0 /\ (\E i \in DOMAIN waiters' : waiters'[i] \notin granted')
             => granted' # {}
    <2>1. CASE c \in granted
      <3>1. /\ IsFiniteSet(granted \ {c}) /\ granted \ {c} \in SUBSET Calls
            /\ Cardinality(granted \ {c}) = Cardinality(granted) - 1
        BY <1>1, <2>1, Tally DEF IInv, Finite
      <3>2. value + 1 \in Nat /\ Wake(value + 1, waiters', granted \ {c})
        BY <1>1, <2>1 DEF Quit
      <3>3. /\ value' \in Nat
            /\ granted' \subseteq Calls /\ IsFiniteSet(granted')
            /\ value' + Cardinality(granted') = value + 1 + Cardinality(granted \ {c})
            /\ \A d \in granted' :
                 d \in granted \ {c} \/ \E i \in DOMAIN waiters' : waiters'[i] = d
            /\ value' > 0 /\ (\E i \in DOMAIN waiters' : waiters'[i] \notin granted')
                 => granted' # {}
        BY <1>4, <3>1, <3>2, WakeKeepsSlots
      <3>4. Cardinality(granted') \in Nat
        BY <3>3, Tally
      <3>5. value' + Cardinality(granted') = value + Cardinality(granted)
        BY <1>1, <1>3, <3>1, <3>3
      <3>6. QED
        BY <1>4, <3>3, <3>4, <3>5 DEF IInv, QueueOfWaiting
    <2>2. CASE c \notin granted
      <3>1. value' = value /\ granted' = granted
        BY <2>2 DEF Quit
      <3>2. \A d \in granted' : d # c /\ pc[d] = "waiting"
        BY <2>2, <3>1 DEF IInv, QueueOfWaiting
      <3>3. value' > 0 /\ (\E i \in DOMAIN waiters' : waiters'[i] \notin granted')
              => granted' # {}
        BY <1>4, <3>1 DEF IInv, NoLostWakeup
      <3>4. QED
        BY <1>1, <1>3, <3>1, <3>2, <3>3 DEF IInv, Finite
    <2>3. QED
      BY <2>1, <2>2
  <1>6. value' + Cardinality(granted') + Cardinality(Held) = MaxConcurrent
    BY <1>1, <1>3, <1>5 DEF IInv, SlotsExact
  <1>7. SlotsExact' /\ Finite'
    BY <1>2, <1>5, <1>6 DEF IInv, SlotsExact, Finite
  <1>8. value' \in 0..MaxConcurrent
    BY <1>3, <1>5, <1>6
  <1>9. /\ attempts' \in [Calls -> 0..MaxAttempts]
        /\ pc' \in [Calls -> {"idle", "waiting", "calling", "failing", "cancelled"}]
    BY <1>1 DEF Settle
  <1>10. queued' \in Int /\ cancels' \in 0..MaxCancels
    BY <1>1 DEF IInv, TypeOK, Uncount
  <1>11. TypeOK'
    BY <1>1, <1>4, <1>5, <1>8, <1>9, <1>10 DEF IInv, TypeOK
  <1>12. NoLostWakeup'
    BY <1>5 DEF NoLostWakeup
  <1>13. QueueNotOvercounted'
    <2>1. queued <= Len(waiters) /\ (cancels = 0 => queued = Len(waiters))
      BY DEF IInv, QueueNotOvercounted
    <2>2. queued' <= Len(waiters') /\ (cancels' = 0 => queued' = Len(waiters'))
      <3>1. CASE queued' = queued - 1 /\ cancels' = cancels
        BY <1>1, <1>4, <2>1, <3>1
      <3>2. CASE queued' = Uncount /\ cancels' = cancels + 1
        <4>1. Uncount <= Len(waiters) - 1
          BY <1>1, <1>4, <2>1 DEF Uncount
        <4>2. QED
          BY <1>1, <1>4, <3>2, <4>1
      <3>3. QED
        BY <3>1, <3>2
    <2>3. QED
      BY <2>2 DEF QueueNotOvercounted
  <1>14. Ladder'
    BY <1>1 DEF IInv, Ladder, Settle
  <1>15. QueueOfWaiting'
    <2>1. \A k \in DOMAIN waiters' : waiters'[k] \in Calls
      BY <1>4, ElementOfSeq
    <2>2. \A d \in Calls \ {c} : pc'[d] = pc[d]
      BY <1>1 DEF Settle
    <2>3. QED
      BY <1>4, <1>5, <2>1, <2>2 DEF QueueOfWaiting
  <1>16. QED
    BY <1>7, <1>11, <1>12, <1>13, <1>14, <1>15 DEF IInv

(***************************************************************************)
(* A call gives one slot back.                                             *)
(***************************************************************************)
LEMMA LeavePreserves ==
  ASSUME IInv, NEW c \in Calls, Leave(c)
  PROVE  IInv'
  <1> USE LimitsAssumption
  <1>1. /\ value \in Nat /\ active \in Nat /\ queued \in Int /\ cancels \in Nat
        /\ slots \in [Calls -> 0..MaxAttempts]
        /\ attempts \in [Calls -> 0..MaxAttempts]
        /\ waiters \in Seq(Calls) /\ granted \in SUBSET Calls
        /\ pc \in [Calls -> {"idle", "waiting", "calling", "failing", "cancelled"}]
    BY DEF IInv, TypeOK
  <1>2. /\ pc[c] \in {"calling", "failing", "cancelled"}
        /\ active' = active - 1
        /\ Wake(value + 1, waiters, granted)
        /\ queued' = IF pc[c] = "cancelled" THEN Uncount ELSE queued
        /\ slots' = [slots EXCEPT ![c] = @ - 1]
        /\ Settle(c, pc[c], slots[c] - 1)
        /\ waiters' = waiters /\ cancels' = cancels
    BY DEF Leave
  <1>3. slots[c] > 0 /\ slots[c] - 1 \in 0..MaxAttempts /\ slots[c] <= attempts[c]
    BY <1>1, <1>2 DEF IInv, Ladder
  <1>4. /\ IsFiniteSet(Held') /\ Cardinality(Held') = Cardinality(Held) - 1
        /\ Cardinality(Held) \in Nat /\ Cardinality(Held) > 0
    BY <1>2, <1>3, SlotGiven DEF IInv, Finite
  <1>5. value + 1 \in Nat /\ Cardinality(granted) \in Nat /\ IsFiniteSet(granted)
    <2>1. IsFiniteSet(granted)
      BY DEF IInv, Finite
    <2>2. Cardinality(granted) \in Nat
      BY <2>1, FS_CardinalityType
    <2>3. QED
      BY <1>1, <2>1, <2>2
  <1>6. /\ value' \in Nat
        /\ granted' \subseteq Calls /\ IsFiniteSet(granted')
        /\ value' + Cardinality(granted') = value + 1 + Cardinality(granted)
        /\ \A d \in granted' : d \in granted \/ \E i \in DOMAIN waiters : waiters[i] = d
        /\ value' > 0 /\ (\E i \in DOMAIN waiters : waiters[i] \notin granted')
             => granted' # {}
    <2>1. /\ value + 1 \in Nat /\ waiters \in Seq(Calls) /\ granted \in SUBSET Calls
          /\ IsFiniteSet(granted) /\ Wake(value + 1, waiters, granted)
      BY <1>1, <1>2, <1>5
    <2>2. QED
      BY <2>1, WakeKeepsSlots
  <1>7. Cardinality(granted') \in Nat
    BY <1>6, Tally
  <1>8. /\ active' = Cardinality(Held')
        /\ value' + Cardinality(granted') + Cardinality(Held') = MaxConcurrent
    BY <1>1, <1>2, <1>4, <1>5, <1>6 DEF IInv, SlotsExact
  <1>9. SlotsExact' /\ Finite'
    BY <1>4, <1>6, <1>8 DEF SlotsExact, Finite
  <1>10. value' \in 0..MaxConcurrent /\ active' \in Nat
    BY <1>4, <1>6, <1>7, <1>8
  <1>11. /\ slots' \in [Calls -> 0..MaxAttempts]
         /\ attempts' \in [Calls -> 0..MaxAttempts]
         /\ pc' \in [Calls -> {"idle", "waiting", "calling", "failing", "cancelled"}]
    BY <1>1, <1>2, <1>3 DEF Settle
  <1>12. queued' \in Int /\ queued' <= queued
         /\ (pc[c] # "cancelled" => queued' = queued)
    BY <1>1, <1>2 DEF Uncount
  <1>13. TypeOK'
    BY <1>1, <1>2, <1>6, <1>10, <1>11, <1>12 DEF IInv, TypeOK
  <1>14. NoLostWakeup'
    BY <1>2, <1>6 DEF NoLostWakeup
  <1>15. QueueNotOvercounted'
    <2>1. queued <= Len(waiters) /\ (cancels = 0 => queued = Len(waiters))
      BY DEF IInv, QueueNotOvercounted
    <2>2. Len(waiters) \in Nat
      BY <1>1, LenProperties
    <2>3. cancels = 0 => pc[c] # "cancelled"
      BY <1>1 DEF IInv, Ladder
    <2>4. queued' <= Len(waiters) /\ (cancels = 0 => queued' = Len(waiters))
      BY <1>1, <1>12, <2>1, <2>2, <2>3
    <2>5. QED
      BY <1>2, <2>4 DEF QueueNotOvercounted
  <1>16. Ladder'
    BY <1>1, <1>2, <1>3 DEF IInv, Ladder, Settle
  <1>17. QueueOfWaiting'
    <2>1. \A k \in DOMAIN waiters : waiters[k] \in Calls \ {c}
      BY <1>1, <1>2, ElementOfSeq DEF IInv, QueueOfWaiting
    <2>2. \A d \in granted' : d # c /\ pc[d] = "waiting"
      BY <1>2, <1>6 DEF IInv, QueueOfWaiting
    <2>3. \A d \in Calls \ {c} : pc'[d] = pc[d]
      BY <1>1, <1>2 DEF Settle
    <2>4. QED
      BY <1>2, <1>6, <2>1, <2>2, <2>3 DEF IInv, QueueOfWaiting
  <1>18. QED
    BY <1>9, <1>13, <1>14, <1>15, <1>16, <1>17 DEF IInv

LEMMA CancelCallingPreserves ==
  ASSUME IInv, NEW c \in Calls, CancelCalling(c)
  PROVE  IInv'
  <1>1. /\ pc[c] = "calling" /\ pc' = [pc EXCEPT ![c] = "cancelled"]
        /\ cancels < MaxCancels /\ cancels' = cancels + 1 /\ cancels \in Nat
        /\ value' = value /\ waiters' = waiters /\ granted' = granted
        /\ active' = active /\ queued' = queued
        /\ slots' = slots /\ attempts' = attempts
    BY DEF CancelCalling, semVars, IInv, TypeOK
  <1>2. Held' = Held
    BY <1>1 DEF Held
  <1>3. SlotsExact' /\ Finite' /\ NoLostWakeup'
    BY <1>1, <1>2 DEF IInv, SlotsExact, Finite, NoLostWakeup
  <1>4. TypeOK'
    BY <1>1, LimitsAssumption DEF IInv, TypeOK
  <1>5. QueueNotOvercounted'
    BY <1>1 DEF IInv, QueueNotOvercounted
  <1>6. Ladder' /\ QueueOfWaiting'
    BY <1>1 DEF IInv, TypeOK, Ladder, QueueOfWaiting
  <1>7. QED
    BY <1>3, <1>4, <1>5, <1>6 DEF IInv

(***************************************************************************)
(* Every step preserves the invariant, by its action.                      *)
(***************************************************************************)
LEMMA StepPreserves == IInv /\ [Next]_vars => IInv'
  <1> SUFFICES ASSUME IInv, [Next]_vars PROVE IInv'
    OBVIOUS
  <1>1. CASE UNCHANGED vars
    <2>1. /\ value' = value /\ waiters' = waiters /\ granted' = granted
          /\ active' = active /\ queued' = queued /\ pc' = pc
          /\ slots' = slots /\ attempts' = attempts /\ cancels' = cancels
      BY <1>1 DEF vars, semVars
    <2>2. Held' = Held
      BY <2>1 DEF Held
    <2>3. QED
      BY <2>1, <2>2 DEF IInv, TypeOK, SlotsExact, NoLostWakeup,
        QueueNotOvercounted, Ladder, QueueOfWaiting, Finite
  <1>2. ASSUME NEW c \in Calls, Ask(c) PROVE IInv'
    <2>1. pc[c] = "idle" /\ attempts[c] = 0 /\ Acquire(c)
      BY <1>2 DEF Ask, IInv, Ladder
    <2>2. QED
      BY <2>1, AcquirePreserves, LimitsAssumption
  <1>3. ASSUME NEW c \in Calls, AskAgain(c) PROVE IInv'
    BY <1>3, AcquirePreserves DEF AskAgain
  <1>4. ASSUME NEW c \in Calls, Proceed(c) PROVE IInv'
    BY <1>4, ProceedPreserves
  <1>5. ASSUME NEW c \in Calls, TimedOut(c) PROVE IInv'
    <2>1. /\ pc[c] = "waiting" /\ Quit(c) /\ Settle(c, "failing", slots[c])
          /\ active' = active /\ slots' = slots
          /\ queued' = queued - 1 /\ cancels' = cancels
      BY <1>5 DEF TimedOut
    <2>2. QED
      BY <2>1, QuitPreserves
  <1>6. ASSUME NEW c \in Calls, CancelWaiting(c) PROVE IInv'
    <2>1. /\ pc[c] = "waiting" /\ Quit(c) /\ Settle(c, "cancelled", slots[c])
          /\ active' = active /\ slots' = slots
          /\ queued' = Uncount /\ cancels' = cancels + 1 /\ cancels < MaxCancels
      BY <1>6 DEF CancelWaiting
    <2>2. QED
      BY <2>1, QuitPreserves
  <1>7. ASSUME NEW c \in Calls, CancelCalling(c) PROVE IInv'
    BY <1>7, CancelCallingPreserves
  <1>8. ASSUME NEW c \in Calls, Leave(c) PROVE IInv'
    BY <1>8, LeavePreserves
  <1>9. QED
    BY <1>1, <1>2, <1>3, <1>4, <1>5, <1>6, <1>7, <1>8 DEF Next

(* The inductive invariant holds in every reachable state. *)
THEOREM Invariance == Spec => []IInv
  BY InitEstablishes, StepPreserves, PTL DEF Spec

(* Every variable keeps its type: the semaphore's value never leaves       *)
(* 0..MaxConcurrent and active_requests is never negative.                 *)
THEOREM TypeCorrect == Spec => []TypeOK
  <1>1. IInv => TypeOK
    BY DEF IInv
  <1>2. QED
    BY <1>1, Invariance, PTL

(* acquire(): no mixture of timeouts, cancellations and nested calls loses *)
(* a slot or makes one up.                                                 *)
THEOREM SlotsNeverLost == Spec => []SlotsExact
  <1>1. IInv => SlotsExact
    BY DEF IInv
  <1>2. QED
    BY <1>1, Invariance, PTL

(* Semaphore._wake_up_next as acquire() uses it: no wakeup is lost.        *)
THEOREM WakeupsNeverLost == Spec => []NoLostWakeup
  <1>1. IInv => NoLostWakeup
    BY DEF IInv
  <1>2. QED
    BY <1>1, Invariance, PTL

(* queued_count is at most the number of waiting calls, and equal to it    *)
(* until the first cancellation.                                           *)
THEOREM QueueCountBounded == Spec => []QueueNotOvercounted
  <1>1. IInv => QueueNotOvercounted
    BY DEF IInv
  <1>2. QED
    BY <1>1, Invariance, PTL

-----------------------------------------------------------------------------
(***************************************************************************)
(* Refinement. A slot is taken only when it was free or promised, so fewer *)
(* than MaxConcurrent are held; every other step takes one away or none.   *)
(***************************************************************************)
LEMMA TakeMaps ==
  ASSUME IInv, NEW c \in Calls, slots[c] < MaxAttempts,
         slots' = [slots EXCEPT ![c] = @ + 1],
         value > 0 \/ c \in granted
  PROVE  AbstractSlots!Next
  <1> DEFINE h == <<c, slots[c] + 1>>
  <1>1. /\ h \in Calls \X Levels /\ h \notin Held /\ Held' = Held \cup {h}
        /\ Cardinality(Held) \in Nat
    BY SlotTaken DEF IInv, Finite
  <1>2. Cardinality(granted) \in Nat /\ (c \in granted => Cardinality(granted) > 0)
    BY Tally DEF IInv, Finite
  <1>3. Cardinality(Held) < MaxConcurrent
    BY <1>1, <1>2, LimitsAssumption DEF IInv, SlotsExact, TypeOK
  <1>4. AbstractSlots!Take(h)
    <2>1. AbstractSlots!Cardinality(Held) = Cardinality(Held)
      BY Zenon DEF Cardinality, AbstractSlots!Cardinality
    <2>2. AbstractSlots!Cardinality(Held) < MaxConcurrent
      BY <1>3, <2>1
    <2>3. QED
      BY <1>1, <2>2 DEF AbstractSlots!Take
  <1>5. QED
    BY <1>1, <1>4 DEF AbstractSlots!Next

LEMMA StepMaps == IInv /\ [Next]_vars => [AbstractSlots!Next]_Held
  <1> SUFFICES ASSUME IInv, [Next]_vars PROVE AbstractSlots!Next \/ Held' = Held
    OBVIOUS
  <1>1. slots' = slots => Held' = Held
    BY DEF Held
  <1>2. CASE UNCHANGED vars
    BY <1>1, <1>2 DEF vars
  <1>3. ASSUME NEW c \in Calls, Acquire(c), attempts[c] < MaxAttempts
        PROVE  AbstractSlots!Next \/ Held' = Held
    <2>1. slots[c] < MaxAttempts
      BY <1>3, LimitsAssumption DEF IInv, TypeOK, Ladder
    <2>2. CASE value > 0 /\ waiters = <<>>
      BY <1>3, <2>1, <2>2, TakeMaps DEF Acquire
    <2>3. CASE ~(value > 0 /\ waiters = <<>>)
      BY <1>1, <1>3, <2>3 DEF Acquire
    <2>4. QED
      BY <2>2, <2>3
  <1>4. ASSUME NEW c \in Calls, Ask(c) PROVE AbstractSlots!Next \/ Held' = Held
    <2>1. attempts[c] = 0 /\ Acquire(c)
      BY <1>4 DEF Ask, IInv, Ladder
    <2>2. QED
      BY <1>3, <2>1, LimitsAssumption
  <1>5. ASSUME NEW c \in Calls, AskAgain(c) PROVE AbstractSlots!Next \/ Held' = Held
    BY <1>3, <1>5 DEF AskAgain
  <1>6. ASSUME NEW c \in Calls, Proceed(c) PROVE AbstractSlots!Next \/ Held' = Held
    <2>1. /\ c \in granted /\ slots' = [slots EXCEPT ![c] = @ + 1]
          /\ slots[c] < MaxAttempts
      BY <1>6, LimitsAssumption
      DEF Proceed, IInv, TypeOK, Ladder, QueueOfWaiting
    <2>2. QED
      BY <2>1, TakeMaps
  <1>7. ASSUME NEW c \in Calls, TimedOut(c) \/ CancelWaiting(c) \/ CancelCalling(c)
        PROVE  Held' = Held
    BY <1>1, <1>7 DEF TimedOut, CancelWaiting, CancelCalling
  <1>8. ASSUME NEW c \in Calls, Leave(c) PROVE AbstractSlots!Next
    <2> DEFINE h == <<c, slots[c]>>
    <2>1. slots[c] > 0 /\ slots' = [slots EXCEPT ![c] = @ - 1]
      BY <1>8 DEF Leave, IInv, Ladder
    <2>2. h \in Held /\ Held' = Held \ {h}
      BY <2>1, SlotGiven DEF IInv, Finite
    <2>3. h \in Calls \X Levels /\ AbstractSlots!GiveBack(h)
      BY <2>2 DEF Held, AbstractSlots!GiveBack
    <2>4. QED
      BY <2>3 DEF AbstractSlots!Next
  <1>9. QED
    BY <1>2, <1>4, <1>5, <1>6, <1>7, <1>8 DEF Next

(***************************************************************************)
(* The limiter implements an admission controller of MaxConcurrent slots   *)
(* whose clients are the levels of the calls: the slots taken by retries   *)
(* count against the limit like the others.                                *)
(***************************************************************************)
THEOREM Implements == Spec => ImplementsSlots
  <1>1. Init => AbstractSlots!Init
    BY LimitsAssumption DEF Init, AbstractSlots!Init, Held, Levels
  <1>2. IInv /\ [Next]_vars => [AbstractSlots!Next]_Held
    BY StepMaps
  <1>3. QED
    BY <1>1, <1>2, Invariance, PTL DEF Spec, ImplementsSlots, AbstractSlots!Spec

=============================================================================
