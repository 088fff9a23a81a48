----------------------- MODULE RedisStreamQueueProofs -----------------------
(***************************************************************************)
(* Theorems about RedisStreamQueue for any number of poppers, entries,     *)
(* faults and stalls. What is promised of entries does not rely on the     *)
(* lock; what the lock itself is worth is a matter apart.                  *)
(***************************************************************************)
EXTENDS RedisStreamQueue, TLAPS

(***************************************************************************)
(* The inductive invariant. What makes two readers of one entry harmless   *)
(* is that an entry in the stream was never confirmed or dropped, and that *)
(* ids only grow: what a popper read as the first entry stays at or before *)
(* the front.                                                              *)
(***************************************************************************)
StreamFresh ==
  \A i \in Ids :
    /\ i \in stream => i <= sent /\ confirmed[i] = 0 /\ i \notin dropped
    /\ i > sent => confirmed[i] = 0 /\ i \notin dropped

FirstIsOldest ==
  \A p \in Poppers :
    /\ pc[p] = "deleting" => first[p] # None
    /\ pc[p] \in {"checking", "deleting"} /\ first[p] # None =>
         first[p] <= sent /\ \A j \in stream : first[p] <= j

IInv == TypeOK /\ AtMostOnce /\ NothingVanishes /\ StreamFresh /\ FirstIsOldest

LEMMA NoneIsNoId == None \notin Ids
  BY NoneAssumption DEF Ids

(* The invariant holds at the start: the stream is empty, the lock is free, *)
(* nobody pops.                                                             *)
THEOREM InitEstablishes == Init => IInv
  BY BoundsAssumption, NoneIsNoId
  DEF Init, IInv, TypeOK, AtMostOnce, NothingVanishes, StreamFresh,
      FirstIsOldest, Stages, Ids

(* A step that leaves the server's entries and their history alone keeps   *)
(* the parts of the invariant about them.                                  *)
LEMMA EntriesUntouched ==
  ASSUME IInv, UNCHANGED <<stream, sent, confirmed, dropped>>
  PROVE  AtMostOnce' /\ NothingVanishes' /\ StreamFresh'
  BY DEF IInv, AtMostOnce, NothingVanishes, StreamFresh

(* What a popper read stays the oldest when entries leave or join behind.  *)
LEMMA FirstStaysOldest ==
  ASSUME IInv, UNCHANGED <<pc, first>>,
         sent' \in Nat, sent' >= sent,
         stream' \subseteq Ids,
         \A j \in stream' : j \in stream \/ j > sent
  PROVE  FirstIsOldest'
  <1>1. sent \in Nat /\ Ids \subseteq Nat
    BY BoundsAssumption DEF IInv, TypeOK, Ids
  <1>2. SUFFICES ASSUME NEW p \in Poppers,
                        pc[p] \in {"checking", "deleting"}, first[p] # None
                 PROVE  first[p] <= sent' /\ \A j \in stream' : first[p] <= j
    BY DEF IInv, FirstIsOldest
  <1>3. first[p] \in Nat /\ first[p] <= sent
    BY <1>1, <1>2 DEF IInv, TypeOK, FirstIsOldest
  <1>4. \A j \in stream : first[p] <= j
    BY <1>2 DEF IInv, FirstIsOldest
  <1>5. QED
    BY <1>1, <1>3, <1>4

(* XDEL by a popper that goes on to release, whatever becomes of the reply *)
LEMMA DeletionPreserves ==
  ASSUME IInv, NEW p \in Poppers, pc[p] = "deleting",
         pc' = [pc EXCEPT ![p] = "releasing"],
         stream' = stream \ {first[p]},
         UNCHANGED <<sent, lock, first, lockLost, stalls>>,
         faults' \in 0..MaxFaults,
         \/ /\ UNCHANGED dropped
            /\ confirmed' = IF first[p] \in stream
                            THEN [confirmed EXCEPT ![first[p]] = @ + 1]
                            ELSE confirmed
         \/ /\ UNCHANGED confirmed
            /\ dropped' = dropped \cup ({first[p]} \cap stream)
  PROVE  IInv'
  <1> USE DEF IInv
  <1>1. first[p] \in Ids
    BY DEF FirstIsOldest, TypeOK
  <1>2. TypeOK'
    BY <1>1 DEF TypeOK, Stages
  <1> DEFINE here == first[p] \in stream
  <1>3. \A i \in Ids :
          /\ i # first[p] \/ ~here =>
               confirmed'[i] = confirmed[i] /\ (i \in dropped' <=> i \in dropped)
          /\ i = first[p] /\ here =>
               \/ confirmed'[i] = 1 /\ (i \in dropped' <=> i \in dropped)
               \/ confirmed'[i] = 0 /\ i \in dropped'
    BY <1>1 DEF StreamFresh, TypeOK
  <1>4. AtMostOnce'
    BY <1>3 DEF AtMostOnce
  <1>5. StreamFresh'
    <2>1. SUFFICES ASSUME NEW i \in Ids
                   PROVE  /\ i \in stream' => i <= sent /\ confirmed'[i] = 0 /\ i \notin dropped'
                          /\ i > sent => confirmed'[i] = 0 /\ i \notin dropped'
      BY DEF StreamFresh
    <2>2. CASE i # first[p] \/ ~here
      BY <1>3, <2>2 DEF StreamFresh
    <2>3. CASE i = first[p] /\ here
      <3>1. i \notin stream' /\ i <= sent /\ i \in Nat /\ sent \in Nat
        BY <2>3, BoundsAssumption DEF StreamFresh, TypeOK, Ids
      <3>2. QED
        BY <3>1
    <2>4. QED
      BY <2>2, <2>3
  <1>6. NothingVanishes'
    <2>1. 1..sent \subseteq Ids
      BY BoundsAssumption DEF TypeOK, Ids
    <2>2. QED
      BY <1>1, <1>3, <2>1 DEF NothingVanishes, TypeOK
  <1>7. FirstIsOldest'
    BY DEF FirstIsOldest, TypeOK
  <1>8. QED
    BY <1>2, <1>4, <1>6, <1>7, <1>5

(* No step breaks the invariant, be it a command, a lost reply, a crash,    *)
(* trimming or the expiry of the lock.                                      *)
THEOREM StepPreserves == IInv /\ [Next]_vars => IInv'
  <1> SUFFICES ASSUME IInv, [Next]_vars PROVE IInv'
    OBVIOUS
  <1> USE DEF IInv
  <1>1. CASE Put
    <2>1. PICK k \in 0..sent : stream' = After(stream \cup {sent + 1}, k)
      BY <1>1 DEF Put
    <2>2. stream' \subseteq stream \cup {sent + 1} /\ sent' \in Ids
      BY <1>1, <2>1, BoundsAssumption DEF Put, After, TypeOK, Ids
    <2>3. /\ sent' = sent + 1
          /\ dropped' = dropped \cup (stream \ stream')
          /\ UNCHANGED <<lock, pc, first, lockLost, faults, stalls, confirmed>>
      BY <1>1 DEF Put, popper
    <2>4. TypeOK'
      BY <2>2, <2>3, BoundsAssumption DEF TypeOK, Ids
    <2>5. AtMostOnce'
      BY <2>3 DEF AtMostOnce
    <2>6. NothingVanishes'
      <3>1. sent + 1 \in stream'
        BY <2>1 DEF After, TypeOK
      <3>2. QED
        BY <2>3, <3>1, BoundsAssumption DEF NothingVanishes, TypeOK, Ids
    <2>7. StreamFresh'
      BY <2>2, <2>3 DEF StreamFresh, TypeOK, Ids
    <2>8. FirstIsOldest'
      <3>1. \A j \in stream' : j \in stream \/ j > sent
        BY <2>2 DEF TypeOK
      <3>2. sent' \in Nat /\ sent' >= sent /\ stream' \subseteq Ids
        BY <2>3, <2>4, BoundsAssumption DEF TypeOK, Ids
      <3>3. QED
        BY <2>3, <3>1, <3>2, FirstStaysOldest
    <2>9. QED
      BY <2>4, <2>5, <2>6, <2>7, <2>8
  <1>2. CASE DeleteStream
    <2>1. /\ stream' = {} /\ dropped' = dropped \cup stream
          /\ UNCHANGED <<sent, lock, pc, first, lockLost, stalls, confirmed>>
          /\ faults' \in 0..MaxFaults
      BY <1>2, BoundsAssumption DEF DeleteStream, popper, Fault, TypeOK
    <2>2. FirstIsOldest'
      BY <2>1, FirstStaysOldest, BoundsAssumption DEF TypeOK, Ids
    <2>3. TypeOK' /\ AtMostOnce' /\ NothingVanishes'
      BY <2>1 DEF TypeOK, AtMostOnce, NothingVanishes
    <2>4. StreamFresh'
      BY <2>1, BoundsAssumption DEF StreamFresh, TypeOK, Ids
    <2>5. QED
      BY <2>2, <2>3, <2>4
  <1>3. CASE Expire
    <2>1. stalls' \in 0..MaxStalls
      BY <1>3, BoundsAssumption DEF Expire, TypeOK
    <2>2. QED
      BY <1>3, <2>1, EntriesUntouched DEF Expire, popper, TypeOK, FirstIsOldest
  <1>4. ASSUME NEW p \in Poppers, Start(p) \/ GiveUp(p) \/ Crash(p)
        PROVE  IInv'
    <2>1. /\ UNCHANGED <<stream, sent, lock, first, lockLost, stalls, confirmed, dropped>>
          /\ \/ pc' = [pc EXCEPT ![p] = "locking"]
             \/ pc' = [pc EXCEPT ![p] = "idle"]
          /\ faults' \in 0..MaxFaults
      BY <1>4, BoundsAssumption
      DEF Start, GiveUp, Crash, server, history, Fault, TypeOK
    <2>2. QED
      BY <2>1, EntriesUntouched DEF TypeOK, Stages, FirstIsOldest
  <1>5. ASSUME NEW p \in Poppers, Lock(p) PROVE IInv'
    BY <1>5, EntriesUntouched
    DEF Lock, history, TypeOK, Stages, Holding, FirstIsOldest
  <1>6. ASSUME NEW p \in Poppers, LockUnanswered(p) PROVE IInv'
    BY <1>6, EntriesUntouched, BoundsAssumption
    DEF LockUnanswered, history, popper, Fault, TypeOK, FirstIsOldest
  <1>7. ASSUME NEW p \in Poppers, Read(p) PROVE IInv'
    <2>1. /\ UNCHANGED <<stream, sent, lock, lockLost, faults, stalls, confirmed, dropped>>
          /\ pc' = [pc EXCEPT ![p] = "checking"]
      BY <1>7 DEF Read, server, history
    <2>2. CASE stream = {} /\ first' = [first EXCEPT ![p] = None]
      BY <2>1, <2>2, EntriesUntouched
      DEF TypeOK, Stages, Holding, FirstIsOldest
    <2>3. ASSUME NEW i \in stream, \A j \in stream : i <= j,
                 first' = [first EXCEPT ![p] = i]
          PROVE  IInv'
      <3>1. i \in Ids /\ i <= sent
        BY <2>3 DEF TypeOK, StreamFresh
      <3>2. TypeOK'
        BY <2>1, <2>3, <3>1 DEF TypeOK, Stages, Holding
      <3>3. FirstIsOldest'
        BY <2>1, <2>3, <3>1 DEF FirstIsOldest, TypeOK
      <3>4. QED
        BY <2>1, <3>2, <3>3, EntriesUntouched
    <2>4. QED
      BY <1>7, <2>2, <2>3 DEF Read
  <1>8. ASSUME NEW p \in Poppers, Check(p) PROVE IInv'
    <2>1. TypeOK' /\ FirstIsOldest'
      BY <1>8 DEF Check, server, history, TypeOK, Stages, Holding, FirstIsOldest
    <2>2. QED
      BY <1>8, <2>1, EntriesUntouched DEF Check, server, history
  <1>9. ASSUME NEW p \in Poppers, Delete(p) PROVE IInv'
    BY <1>9, DeletionPreserves DEF Delete, TypeOK
  <1>10. ASSUME NEW p \in Poppers, DeleteUnanswered(p) PROVE IInv'
    <2>1. faults' \in 0..MaxFaults
      BY <1>10, BoundsAssumption DEF DeleteUnanswered, Fault, TypeOK
    <2>2. QED
      BY <1>10, <2>1, DeletionPreserves DEF DeleteUnanswered
  <1>11. ASSUME NEW p \in Poppers, RenewalFails(p) PROVE IInv'
    BY <1>11, EntriesUntouched, BoundsAssumption
    DEF RenewalFails, server, history, Fault, TypeOK, FirstIsOldest
  <1>12. ASSUME NEW p \in Poppers, Release(p) \/ Cancel(p) PROVE IInv'
    <2>1. /\ UNCHANGED <<stream, sent, first, lockLost, stalls, confirmed, dropped>>
          /\ \/ pc' = [pc EXCEPT ![p] = "releasing"]
             \/ pc' = [pc EXCEPT ![p] = "idle"]
          /\ lock' \in Poppers \cup {None}
          /\ faults' \in 0..MaxFaults
      BY <1>12, BoundsAssumption
      DEF Release, Cancel, server, history, Fault, TypeOK
    <2>2. QED
      BY <2>1, EntriesUntouched DEF TypeOK, Stages, FirstIsOldest
  <1>13. CASE UNCHANGED vars
    BY <1>13, EntriesUntouched
    DEF vars, server, popper, history, TypeOK, FirstIsOldest
  <1>14. QED
    BY <1>1, <1>2, <1>3, <1>4, <1>5, <1>6, <1>7, <1>8, <1>9, <1>10, <1>11,
       <1>12, <1>13
    DEF Next, Pop

(* So it holds in every state that is reached.                              *)
THEOREM Invariance == Spec => []IInv
  BY InitEstablishes, StepPreserves, PTL DEF Spec

-----------------------------------------------------------------------------
(* The variables keep their types. *)
THEOREM TypeCorrect == Spec => []TypeOK
  <1>1. IInv => TypeOK
    BY DEF IInv
  <1>2. QED
    BY <1>1, Invariance, PTL

(* An entry is handed out at most once, with any stalls and faults. *)
THEOREM DeliveredAtMostOnce == Spec => []AtMostOnce
  <1>1. IInv => AtMostOnce
    BY DEF IInv
  <1>2. QED
    BY <1>1, Invariance, PTL

(* An entry is never lost but to a fault or to trimming. *)
THEOREM LossesAreFaults == Spec => []NothingVanishes
  <1>1. IInv => NothingVanishes
    BY DEF IInv
  <1>2. QED
    BY <1>1, Invariance, PTL

-----------------------------------------------------------------------------
(***************************************************************************)
(* What the lock is worth. While no renewal was late, who is between SET   *)
(* and the release has the key: nobody else can take it, and it does not   *)
(* expire.                                                                 *)
(***************************************************************************)
HoldersHaveTheKey ==
  stalls = 0 => \A p \in Poppers : pc[p] \in Holding => lock = p

(* Nobody loses the key between SET and release while renewals are in time. *)
THEOREM KeyStays == IInv /\ HoldersHaveTheKey /\ [Next]_vars => HoldersHaveTheKey'
  <1> SUFFICES ASSUME IInv, HoldersHaveTheKey, [Next]_vars,
                      stalls' = 0, NEW q \in Poppers, pc'[q] \in Holding
               PROVE  lock' = q
    BY DEF HoldersHaveTheKey
  <1>0. TypeOK
    BY DEF IInv
  <1>1. ASSUME UNCHANGED <<lock, pc, stalls>> PROVE lock' = q
    BY <1>1 DEF HoldersHaveTheKey
  <1>2. CASE Expire
    BY <1>0, <1>2, BoundsAssumption DEF Expire, popper, HoldersHaveTheKey, TypeOK
  <1>3. ASSUME NEW p \in Poppers, Lock(p) PROVE lock' = q
    BY <1>0, <1>3, NoneAssumption DEF Lock, history, HoldersHaveTheKey, TypeOK
  <1>4. ASSUME NEW p \in Poppers, LockUnanswered(p) PROVE lock' = q
    BY <1>0, <1>4, NoneAssumption
    DEF LockUnanswered, popper, history, HoldersHaveTheKey, TypeOK
  <1>5. ASSUME NEW p \in Poppers, Release(p) PROVE lock' = q
    BY <1>0, <1>5 DEF Release, history, Holding, HoldersHaveTheKey, TypeOK
  <1>6. ASSUME NEW p \in Poppers,
               \/ Start(p) \/ GiveUp(p) \/ Read(p) \/ Check(p) \/ Delete(p)
               \/ DeleteUnanswered(p) \/ Cancel(p) \/ Crash(p)
        PROVE  lock' = q
    <2>1. UNCHANGED <<lock, stalls>> /\ (pc[q] \in Holding \/ pc'[q] \notin Holding)
      BY <1>0, <1>6
      DEF Start, GiveUp, Read, Check, Delete, DeleteUnanswered, Cancel, Crash,
          server, history, Holding, TypeOK
    <2>2. QED
      BY <2>1 DEF HoldersHaveTheKey
  <1>7. QED
    BY <1>1, <1>2, <1>3, <1>4, <1>5, <1>6
    DEF Next, Pop, Put, DeleteStream, RenewalFails, vars, server, popper, history

(* One popper at a time is between XRANGE and XDEL, as long as renewals    *)
(* were in time.                                                           *)
THEOREM OneAtATime == Spec => []OneConsumer
  <1>1. Init => HoldersHaveTheKey
    BY DEF Init, HoldersHaveTheKey, Holding
  <1>2. HoldersHaveTheKey => OneConsumer
    BY DEF HoldersHaveTheKey, OneConsumer
  <1>3. QED
    BY <1>1, <1>2, Invariance, KeyStays, PTL DEF Spec

(* Nobody but its owner, or time, takes a popper's token from the lock     *)
(* key: a late release never frees another's lock.                         *)
THEOREM NobodyElseUnlocks == Spec => LockIsOwners
  <1>1. ASSUME IInv, [Next]_vars
        PROVE  [\A p \in Poppers :
                  lock = p /\ lock' # p =>
                    \/ pc[p] = "releasing" /\ pc'[p] = "idle"
                    \/ Expire]_vars
    <2> SUFFICES ASSUME Next, ~Expire, NEW p \in Poppers, lock = p, lock' # p
                 PROVE  pc[p] = "releasing" /\ pc'[p] = "idle"
      BY <1>1
    <2>1. PICK q \in Poppers : Release(q)
      BY NoneAssumption
      DEF Next, Pop, Put, DeleteStream, Start, Lock, LockUnanswered, GiveUp,
          Read, Check, Delete, DeleteUnanswered, RenewalFails, Cancel, Crash,
          server, popper, history
    <2>2. q = p
      BY <2>1 DEF Release
    <2>3. QED
      BY <1>1, <2>1, <2>2 DEF Release, IInv, TypeOK
  <1>2. QED
    BY <1>1, Invariance, PTL DEF Spec, LockIsOwners

-----------------------------------------------------------------------------
Received == {i \in Ids : confirmed[i] > 0}

(* Nothing of the channel moves while the entries stay as they are. *)
LEMMA StepMaps ==
  ASSUME IInv, [Next]_vars
  PROVE  [Queue!Next]_(Queue!channel)
  <1> USE DEF IInv
  <1>1. sent \in Nat /\ Ids \subseteq Nat /\ stream \subseteq Ids
    BY BoundsAssumption DEF TypeOK, Ids
  <1>2. ASSUME UNCHANGED <<stream, sent, confirmed>>
        PROVE  UNCHANGED Queue!channel
    BY <1>2 DEF Queue!channel
  <1>3. CASE Put
    <2>1. Queue!Send
      BY <1>3 DEF Put, Queue!Send, Queue!After, After
    <2>2. QED
      BY <2>1 DEF Queue!Next
  <1>4. CASE DeleteStream
    <2>1. stream' = {} /\ UNCHANGED <<sent, confirmed>>
      BY <1>4 DEF DeleteStream
    <2>2. stream' = Queue!After(stream, sent)
      <3>1. \A j \in stream : j <= sent /\ j \in Nat
        BY <1>1 DEF StreamFresh
      <3>2. \A j \in stream : ~(j > sent)
        BY <1>1, <3>1
      <3>3. QED
        BY <2>1, <3>2 DEF Queue!After
    <2>3. Queue!Lose
      BY <1>1, <2>1, <2>2 DEF Queue!Lose
    <2>4. QED
      BY <2>3 DEF Queue!Next
  <1>5. ASSUME NEW p \in Poppers, Delete(p)
        PROVE  [Queue!Next]_(Queue!channel)
    <2>1. /\ first[p] \in Ids /\ UNCHANGED sent
          /\ \A j \in stream : first[p] <= j
          /\ stream' = stream \ {first[p]}
      BY <1>5 DEF Delete, FirstIsOldest, TypeOK
    <2>2. CASE first[p] \in stream
      <3>1. confirmed[first[p]] = 0
        BY <2>1, <2>2 DEF StreamFresh
      <3>2. confirmed' = [confirmed EXCEPT ![first[p]] = confirmed[first[p]] + 1]
        BY <1>5, <2>2 DEF Delete
      <3>3. Received' = Received \cup {first[p]} /\ first[p] \notin Received
        BY <2>1, <3>1, <3>2 DEF Received, TypeOK
      <3>4. Queue!Receive
        BY <2>1, <2>2, <3>3 DEF Queue!Receive, Received
      <3>5. QED
        BY <3>4 DEF Queue!Next
    <2>3. CASE first[p] \notin stream
      BY <1>2, <1>5, <2>1, <2>3 DEF Delete
    <2>4. QED
      BY <2>2, <2>3
  <1>6. ASSUME NEW p \in Poppers, DeleteUnanswered(p)
        PROVE  [Queue!Next]_(Queue!channel)
    <2>1. /\ stream' = stream \ {first[p]}
          /\ UNCHANGED <<sent, confirmed>>
      BY <1>6 DEF DeleteUnanswered
    <2>2. /\ first[p] \in Ids /\ first[p] <= sent
          /\ \A j \in stream : first[p] <= j
      BY <1>6 DEF DeleteUnanswered, FirstIsOldest, TypeOK
    <2>3. first[p] \in Nat /\ \A j \in stream : j \in Nat
      BY <1>1, <2>2
    <2>4. first[p] \in 0..sent
      BY <1>1, <2>2, <2>3
    <2>5. stream' = Queue!After(stream, first[p])
      <3>1. \A j \in stream : j > first[p] <=> j # first[p]
        BY <2>2, <2>3
      <3>2. QED
        BY <2>1, <3>1 DEF Queue!After
    <2>6. Queue!Lose
      BY <2>1, <2>5, <2>4 DEF Queue!Lose
    <2>7. QED
      BY <2>6 DEF Queue!Next
  <1>7. ASSUME NEW p \in Poppers,
               \/ Start(p) \/ Lock(p) \/ LockUnanswered(p) \/ GiveUp(p)
               \/ Read(p) \/ Check(p) \/ RenewalFails(p) \/ Release(p)
               \/ Cancel(p) \/ Crash(p)
        PROVE  UNCHANGED <<stream, sent, confirmed>>
    BY <1>7 DEF Start, Lock, LockUnanswered, GiveUp, Read, Check,
                RenewalFails, Release, Cancel, Crash, server, history
  <1>8. CASE Expire
    BY <1>2, <1>8 DEF Expire
  <1>9. CASE UNCHANGED vars
    BY <1>2, <1>9 DEF vars, server, history
  <1>10. QED
    BY <1>2, <1>3, <1>4, <1>5, <1>6, <1>7, <1>8, <1>9 DEF Next, Pop

(***************************************************************************)
(* pop() under an expiring lock, with faults, implements a channel that    *)
(* hands out its entries in order and once.                                *)
(***************************************************************************)
THEOREM Implements == Spec => ImplementsChannel
  <1>1. Init => Queue!Init
    BY DEF Init, Queue!Init
  <1>2. IInv /\ [Next]_vars => [Queue!Next]_(Queue!channel)
    BY StepMaps
  <1>3. QED
    BY <1>1, <1>2, Invariance, PTL DEF Spec, ImplementsChannel, Queue!Spec
=============================================================================
