---------------------------- MODULE KeyPoolProofs ----------------------------
(***************************************************************************)
(* Theorems about KeyPool for any number of keys, calls and faults.        *)
(***************************************************************************)
EXTENDS KeyPool, WellFoundedInduction, TLAPS

Calls == [pc : {"idle", "exists", "ttl", "sent", "cooling", "banning", "asleep",
                "none"},
          key : Keys, tries : 0..(2 * NumKeys), attempt : 0..NumKeys,
          again : BOOLEAN, seen : SUBSET Keys]

Breakers == [state : {"closed", "open", "half"}, elapsed : BOOLEAN,
             inFlight : BOOLEAN, count : 0..Threshold,
             prober : SUBSET Requests, untold : BOOLEAN]

Memories == [Keys -> [cool : BOOLEAN, invalid : BOOLEAN]]

Unfit(m, k) == m[k].invalid \/ m[k].cool

(* The pools of which HonestlyExhausted speaks.                            *)
Covered == rotation = "failover" \/ NumKeys <= 2

(***************************************************************************)
(* What a call q that looks at a key has seen. A fail-over call has seen   *)
(* the keys before its own; with two keys in rotation it has seen the      *)
(* other one, or this is its first position. A call that gave up, or       *)
(* sleeps because no key was usable, has seen them all.                    *)
(***************************************************************************)
Looked(q) ==
  /\ q.tries <= Limit
  /\ q.pc \in {"exists", "ttl"} =>
       /\ rotation = "failover" =>
            q.tries >= 1 /\ q.key = q.tries /\ 1..(q.tries - 1) \subseteq q.seen
       /\ (rotation = "round_robin" /\ NumKeys <= 2) =>
            q.seen \cup {q.key} = Keys \/ q.tries = 1
  /\ q.pc \in {"idle", "asleep", "none"} /\ Covered => q.seen = Keys
  /\ q.pc \in {"exists", "ttl", "asleep", "sent", "banning"} => q.attempt < NumKeys
  /\ q.pc = "none" /\ ~q.again => q.attempt < NumKeys

Storm(b) == b.state # "closed" => b.count = Threshold

IInv ==
  /\ TypeOK /\ StormRemembered
  /\ \A r \in Requests : Looked(req[r])

-----------------------------------------------------------------------------
(* A set of numbers that is not empty has a least element.                 *)
LEMMA LeastExists ==
  ASSUME NEW S \in SUBSET Nat, S # {}
  PROVE  \E n \in S : \A o \in S : n <= o
  <1>1. PICK n \in S : \A o \in S : ~(<<o, n>> \in OpToRel(<, Nat))
    BY WFMin, NatLessThanWellFounded
  <1>2. \A o \in S : ~(o < n)
    BY <1>1 DEF OpToRel
  <1>3. QED
    BY <1>2

(* The index comes round.                                                  *)
LEMMA Residue ==
  ASSUME NEW a \in Nat
  PROVE  a % NumKeys \in 0..(NumKeys - 1)
  BY PoolAssumption

(* Two positions in a row name both keys of a pool of two.                 *)
LEMMA BothKeys ==
  ASSUME NumKeys = 2, NEW a \in Nat
  PROVE  Keys = {(a % NumKeys) + 1, ((a + 1) % NumKeys) + 1}
  BY DEF Keys

(***************************************************************************)
(* Walk, from a call that has seen what a fail-over or a round-robin call  *)
(* has seen before its next position.                                      *)
(***************************************************************************)
Ready(q, m) ==
  /\ q.tries <= Limit
  /\ rotation = "failover" => 1..q.tries \subseteq q.seen
  /\ (rotation = "round_robin" /\ NumKeys <= 2) =>
       \/ q.seen = Keys \/ q.tries = 0
       \/ q.tries = 1 /\ \E k \in q.seen : Unfit(m, k)
  /\ q.attempt < NumKeys

LEMMA KeyAtIsKey ==
  ASSUME TypeOK, NEW q \in Calls, NEW i \in 0..(NumKeys - 1),
         NEW n \in Nat, n < Limit - q.tries
  PROVE  KeyAt(q, i, n) \in Keys
  <1>1. CASE rotation = "failover"
    BY <1>1, PoolAssumption DEF KeyAt, Keys, Limit, Calls
  <1>2. CASE rotation # "failover"
    <2>1. (i + n) % NumKeys \in 0..(NumKeys - 1)
      BY Residue, PoolAssumption
    <2>2. QED
      BY <1>2, <2>1, PoolAssumption DEF KeyAt, Keys
  <1>3. QED
    BY <1>1, <1>2

LEMMA WalkLooks ==
  ASSUME TypeOK, NEW q \in Calls, NEW b, NEW i \in 0..(NumKeys - 1),
         NEW m \in Memories, Ready(q, m)
  PROVE  LET w == Walk(q, b, i, m) IN
           /\ w.b = b /\ w.m = m /\ w.i \in 0..(NumKeys - 1)
           /\ w.q \in Calls /\ w.q.pc \in {"exists", "none"} /\ Looked(w.q)
           /\ w.q.again = q.again
  <1> DEFINE left   == Limit - q.tries
             fits   == {n \in 0..(left - 1) : LET k == KeyAt(q, i, n) IN
                                                 ~m[k].invalid /\ ~m[k].cool}
             passed == IF fits = {} THEN left
                         ELSE CHOOSE n \in fits : \A o \in fits : n <= o
             taken  == IF fits = {} THEN left ELSE passed + 1
             w      == Walk(q, b, i, m)
             over   == {KeyAt(q, i, n) : n \in 0..(passed - 1)}
  <1>1. Limit \in Nat /\ Limit <= 2 * NumKeys /\ left \in Nat
        /\ q.tries \in Nat /\ NumKeys \in Nat \ {0}
    BY PoolAssumption DEF Limit, Ready, Calls
  <1>2. /\ fits # {} => passed \in fits /\ \A o \in fits : passed <= o
        /\ passed \in 0..left /\ (fits # {} => passed < left)
        /\ taken \in 0..left
    <2>1. CASE fits = {}
      BY <1>1, <2>1
    <2>2. CASE fits # {}
      <3>1. \E n \in fits : \A o \in fits : n <= o
        <4>1. fits \subseteq Nat
          BY <1>1
        <4> HIDE DEF fits
        <4>2. QED
          BY <2>2, <4>1, LeastExists
      <3>2. passed \in fits /\ \A o \in fits : passed <= o
        BY <2>2, <3>1
      <3>3. fits \subseteq 0..(left - 1)
        OBVIOUS
      <3> HIDE DEF fits, passed
      <3>4. QED
        BY <1>1, <2>2, <3>2, <3>3
    <2>3. QED
      BY <2>1, <2>2
  <1>3. /\ w.b = b /\ w.m = m /\ w.i = Advance(i, taken)
        /\ w.q = [q EXCEPT !.tries = @ + taken,
                !.pc   = IF fits = {} THEN "none" ELSE "exists",
                !.key  = IF fits = {} THEN @ ELSE KeyAt(q, i, passed),
                !.seen = @ \cup over]
    BY DEF Walk
  <1>4. \A n \in 0..left : n < left => KeyAt(q, i, n) \in Keys
    BY <1>1, KeyAtIsKey
  <1>5. w.i \in 0..(NumKeys - 1)
    BY <1>1, <1>2, <1>3, Residue DEF Advance
  <1>6. /\ w.q.tries = q.tries + taken
        /\ w.q.pc = (IF fits = {} THEN "none" ELSE "exists")
        /\ w.q.key = (IF fits = {} THEN q.key ELSE KeyAt(q, i, passed))
        /\ w.q.seen = q.seen \cup over
        /\ w.q.again = q.again /\ w.q.attempt = q.attempt
    BY <1>3 DEF Calls
  <1>6a. fits = {} => passed = left
    OBVIOUS
  <1>6b. fits # {} => passed \in 0..(left - 1) /\ ~Unfit(m, KeyAt(q, i, passed))
    BY <1>1, <1>2 DEF Unfit
  <1> HIDE DEF fits, passed, w, left
  <1>7. w.q \in Calls
    <2>1. over \subseteq Keys
      BY <1>1, <1>2, <1>4
    <2>2. q.tries + taken \in 0..(2 * NumKeys)
      BY <1>1, <1>2 DEF Ready, left
    <2>3. fits # {} => KeyAt(q, i, passed) \in Keys
      BY <1>1, <1>2, <1>4
    <2> HIDE DEF over, taken
    <2>4. QED
      BY <1>3, <2>1, <2>2, <2>3 DEF Calls
  <1>8. ASSUME rotation = "failover"
        PROVE  IF fits = {} THEN w.q.seen = Keys
               ELSE w.q.key = w.q.tries /\ 1..(w.q.tries - 1) \subseteq w.q.seen
    <2>1. Limit = NumKeys /\ \A n \in 0..left : KeyAt(q, i, n) = q.tries + n + 1
      BY <1>8 DEF Limit, KeyAt
    <2>2. 1..(q.tries + passed) \subseteq w.q.seen
      <3>1. SUFFICES ASSUME NEW k \in 1..(q.tries + passed), k > q.tries
                     PROVE  k \in over
        BY <1>1, <1>2, <1>6, <1>8 DEF Ready
      <3>2. k - q.tries - 1 \in 0..(passed - 1) /\ k - q.tries - 1 \in 0..left
        BY <1>1, <1>2, <3>1
      <3>3. KeyAt(q, i, k - q.tries - 1) = k
        BY <1>1, <2>1, <3>1, <3>2
      <3>4. QED
        BY <3>2, <3>3
    <2>3. CASE fits = {}
      <3>1. q.tries + passed = NumKeys
        BY <1>1, <1>6a, <2>1, <2>3 DEF left
      <3>2. QED
        BY <1>7, <2>2, <2>3, <3>1 DEF Keys, Calls
    <2>4. CASE fits # {}
      BY <1>1, <1>2, <1>6, <2>1, <2>2, <2>4
    <2>5. QED
      BY <2>3, <2>4
  <1>9. ASSUME rotation = "round_robin", NumKeys <= 2
        PROVE  IF fits = {} THEN w.q.seen = Keys
               ELSE w.q.seen \cup {w.q.key} = Keys \/ w.q.tries = 1
    <2>1. Limit = 2 * NumKeys /\ \A n \in 0..left : KeyAt(q, i, n) = ((i + n) % NumKeys) + 1
      BY <1>9 DEF Limit, KeyAt
    <2>2. w.q.seen \subseteq Keys /\ (fits # {} => w.q.key \in Keys)
      BY <1>7 DEF Calls
    <2>3. CASE q.seen = Keys
      BY <1>6, <2>2, <2>3
    <2>4. CASE NumKeys = 1 /\ q.seen # Keys
      <3>1. Keys = {1} /\ q.tries = 0
        BY <1>9, <2>4 DEF Keys, Ready, Calls
      <3>2. CASE fits = {}
        <4>1. 0 \in 0..(passed - 1)
          BY <1>6a, <2>1, <2>4, <3>1, <3>2 DEF left
        <4>2. KeyAt(q, i, 0) \in w.q.seen
          BY <1>6, <4>1
        <4>3. QED
          BY <2>2, <3>1, <3>2, <4>2
      <3>3. QED
        BY <2>2, <3>1, <3>2
    <2>5. CASE NumKeys = 2 /\ q.seen # Keys
      <3> DEFINE one == KeyAt(q, i, 0)
                 two == KeyAt(q, i, 1)
      <3>1. q.tries \in {0, 1} /\ left \in {3, 4}
        BY <1>9, <2>1, <2>5 DEF Ready, left
      <3>2. Keys = {one, two}
        <4>1. one = (i % NumKeys) + 1 /\ two = ((i + 1) % NumKeys) + 1
          BY <1>1, <2>1, <3>1
        <4>2. QED
          BY <1>1, <2>5, <4>1, BothKeys
      <3>3. passed >= 1 => one \in w.q.seen
        BY <1>2, <1>6
      <3>4. passed >= 2 => two \in w.q.seen
        BY <1>2, <1>6
      <3>5. CASE fits = {}
        BY <1>6a, <2>2, <3>1, <3>2, <3>3, <3>4, <3>5
      <3>6. CASE fits # {} /\ passed >= 1
        <4>1. passed = 1 => w.q.key = two
          BY <1>6, <3>6
        <4>2. QED
          BY <1>2, <2>2, <3>2, <3>3, <3>4, <3>6, <4>1
      <3>7. CASE fits # {} /\ passed = 0
        <4>1. w.q.key = one /\ w.q.tries = q.tries + 1
          BY <1>1, <1>6, <3>7
        <4>2. CASE q.tries = 0
          BY <3>7, <4>1, <4>2
        <4>3. CASE q.tries = 1
          <5>1. PICK k \in q.seen : Unfit(m, k)
            BY <1>9, <2>5, <4>3 DEF Ready
          <5>2. ~Unfit(m, one)
            BY <1>6b, <3>7
          <5>3. k \in Keys /\ k # one
            BY <5>1, <5>2 DEF Calls
          <5>4. QED
            BY <1>6, <2>2, <3>2, <3>7, <4>1, <5>1, <5>3
        <4>4. QED
          BY <3>1, <4>2, <4>3
      <3>8. QED
        BY <1>2, <3>5, <3>6, <3>7
    <2>6. QED
      BY <1>1, <1>9, <2>3, <2>4, <2>5
  <1>10. Looked(w.q)
    <2>1. w.q.tries <= Limit /\ (fits # {} => w.q.tries >= 1)
      BY <1>1, <1>2, <1>6 DEF left
    <2>2. rotation \in {"failover", "round_robin"}
      BY PoolAssumption DEF TypeOK
    <2>3. w.q.attempt < NumKeys
      BY <1>6 DEF Ready
    <2>4. QED
      BY <1>6, <1>8, <1>9, <2>1, <2>2, <2>3 DEF Looked, Covered
  <1>11. QED
    BY <1>3, <1>5, <1>6, <1>7, <1>10 DEF w

-----------------------------------------------------------------------------
(* A choice after which the call looks at a key, or has none.              *)
Choices == [q : Calls, b : Breakers, i : 0..(NumKeys - 1), m : Memories]

Good(s) ==
  /\ s \in Choices /\ Storm(s.b)
  /\ s.q.pc \in {"exists", "none"} /\ Looked(s.q)

(* The numbers a new choice begins with.                                   *)
LEMMA Starts ==
  /\ 0 \in 0..(2 * NumKeys) /\ 0 \in 0..NumKeys /\ 1 \in Keys
  /\ 0 <= Limit /\ 0 < NumKeys /\ 0 \in 0..(NumKeys - 1)
  BY PoolAssumption DEF Keys, Limit

LEMMA Fresh ==
  Closed \in Breakers /\ Storm(Closed) /\ Healthy \in [cool : BOOLEAN, invalid : BOOLEAN]
  BY PoolAssumption DEF Closed, Breakers, Storm, Healthy

(* The breaker keeps its type and the count of a storm.                    *)
LEMMA BreakerGood ==
  ASSUME NEW b \in Breakers, Storm(b), NEW r \in Requests
  PROVE  /\ Peek(b) \in Breakers /\ Storm(Peek(b))
         /\ Admit(b, r) \in Breakers /\ Storm(Admit(b, r))
         /\ Untold(b, r) \in Breakers /\ Storm(Untold(b, r))
         /\ RateLimited(b) \in Breakers /\ Storm(RateLimited(b))
         /\ [b EXCEPT !.prober = @ \ {r}] \in Breakers
         /\ Storm([b EXCEPT !.prober = @ \ {r}])
  <1>1. Peek(b) \in Breakers /\ Storm(Peek(b))
    BY DEF Peek, Breakers, Storm
  <1>2. Admit(b, r) \in Breakers /\ Storm(Admit(b, r))
    BY DEF Admit, Breakers, Storm
  <1>3. Untold(b, r) \in Breakers /\ Storm(Untold(b, r))
    BY DEF Untold, Breakers, Storm
  <1>4. RateLimited(b) \in Breakers /\ Storm(RateLimited(b))
    <2>1. b.count \in 0..Threshold /\ Threshold \in 0..Threshold
      BY PoolAssumption DEF Breakers
    <2>2. CASE b.count + 1 >= Threshold
      BY <2>1, <2>2 DEF RateLimited, Breakers, Storm, Closed
    <2>3. CASE ~(b.count + 1 >= Threshold)
      <3>1. b.count + 1 \in 0..Threshold
        BY <2>1, <2>3, PoolAssumption
      <3>2. RateLimited(b) = [b EXCEPT !.count = b.count + 1]
        BY <2>3 DEF RateLimited
      <3>3. RateLimited(b) \in Breakers
        BY <3>1, <3>2 DEF Breakers
      <3>4. b.state = "closed"
        BY <2>1, <2>3, PoolAssumption DEF Storm
      <3>5. QED
        BY <3>2, <3>3, <3>4 DEF Storm, Breakers
    <2>4. QED
      BY <2>2, <2>3
  <1>5. [b EXCEPT !.prober = @ \ {r}] \in Breakers /\ Storm([b EXCEPT !.prober = @ \ {r}])
    BY DEF Breakers, Storm
  <1>6. QED
    BY <1>1, <1>2, <1>3, <1>4, <1>5

LEMMA WalkGood ==
  ASSUME TypeOK, NEW q \in Calls, NEW b \in Breakers, Storm(b),
         NEW i \in 0..(NumKeys - 1), NEW m \in Memories, Ready(q, m)
  PROVE  Good(Walk(q, b, i, m)) /\ Walk(q, b, i, m).q.again = q.again
  <1> DEFINE w == Walk(q, b, i, m)
  <1>1. /\ w.b = b /\ w.m = m /\ w.i \in 0..(NumKeys - 1)
        /\ w.q \in Calls /\ w.q.pc \in {"exists", "none"} /\ Looked(w.q)
        /\ w.q.again = q.again
    BY WalkLooks
  <1>2. w = [b |-> w.b, m |-> w.m, i |-> w.i, q |-> w.q]
    BY DEF Walk
  <1> HIDE DEF w
  <1>3. w \in Choices
    BY <1>1, <1>2 DEF Choices
  <1>4. QED
    BY <1>1, <1>3 DEF Good, w

LEMMA GetGood ==
  ASSUME TypeOK, NEW r \in Requests, NEW q \in Calls, q.attempt < NumKeys,
         NEW b \in Breakers, Storm(b),
         NEW i \in 0..(NumKeys - 1), NEW m \in Memories
  PROVE  /\ Good(GetHealthyKey(r, q, b, i, m))
         /\ GetHealthyKey(r, q, b, i, m).q.again = q.again
  <1> DEFINE p     == Peek(b)
             fresh == [q EXCEPT !.tries = 0, !.seen = {}]
             none  == [fresh EXCEPT !.pc = "none", !.seen = Keys]
  <1>1. p \in Breakers /\ Storm(p)
    BY BreakerGood
  <1>2. /\ fresh \in Calls /\ fresh.tries = 0 /\ fresh.seen = {}
        /\ fresh.attempt = q.attempt /\ fresh.again = q.again
    BY Starts DEF Calls
  <1>3. 0 <= Limit
    BY Starts
  <1> HIDE DEF p
  <1>4. CASE Allows(p)
    <2>1. Ready(fresh, m)
      BY <1>2, <1>3 DEF Ready
    <2>2. Admit(p, r) \in Breakers /\ Storm(Admit(p, r))
      BY <1>1, BreakerGood
    <2>3. GetHealthyKey(r, q, b, i, m) = Walk(fresh, Admit(p, r), i, m)
      BY <1>4 DEF GetHealthyKey, p
    <2> HIDE DEF fresh
    <2>4. QED
      BY <1>2, <2>1, <2>2, <2>3, WalkGood
  <1>5. CASE ~Allows(p)
    <2>1. GetHealthyKey(r, q, b, i, m) = [q |-> none, b |-> p, i |-> i, m |-> m]
      BY <1>5 DEF GetHealthyKey, p
    <2>2. /\ none \in Calls /\ none.pc = "none" /\ none.seen = Keys
          /\ none.attempt < NumKeys /\ none.again = q.again /\ none.tries = 0
      BY <1>2 DEF Calls
    <2> HIDE DEF none
    <2>3. QED
      BY <1>1, <1>3, <2>1, <2>2 DEF Good, Choices, Looked
  <1>6. QED
    BY <1>4, <1>5

(* A choice that the call keeps: it looks at a key, sleeps, or is over.    *)
Kept(t) ==
  /\ t \in Choices /\ Storm(t.b)
  /\ t.q.pc \in {"exists", "idle", "asleep"} /\ Looked(t.q)

LEMMA EndKept ==
  ASSUME NEW r \in Requests, NEW s, Good(s), s.q.pc = "none"
  PROVE  Kept(End(r, s))
  <1>1. Untold(s.b, r) \in Breakers /\ Storm(Untold(s.b, r))
    BY BreakerGood DEF Good, Choices
  <1>2. /\ End(r, s) \in Choices /\ End(r, s).b = Untold(s.b, r)
        /\ End(r, s).q = [Idle EXCEPT !.seen = s.q.seen]
    <2>1. s.q.seen \in SUBSET Keys
      BY DEF Good, Choices, Calls
    <2>2. [Idle EXCEPT !.seen = s.q.seen] \in Calls
      BY <2>1, Starts DEF Calls, Idle
    <2>3. QED
      BY <1>1, <2>2 DEF End, Good, Choices
  <1>3. 0 <= Limit
    BY Starts
  <1>4. QED
    BY <1>1, <1>2, <1>3 DEF Kept, Good, Looked, Idle

LEMMA OrWaitKept ==
  ASSUME TypeOK, NEW r \in Requests, NEW s, Good(s), NEW t \in OrWait(r, s)
  PROVE  Kept(t)
  <1> DEFINE alive == {k \in Keys : ~s.m[k].invalid}
             ready == {k \in alive : ~s.m[k].cool}
             twice == GetHealthyKey(r, [s.q EXCEPT !.again = TRUE], s.b, s.i, s.m)
  <1>1. CASE s.q.pc = "exists"
    <2>1. t = s
      BY <1>1 DEF OrWait
    <2>2. QED
      BY <1>1, <2>1 DEF Good, Kept
  <1>2. CASE s.q.pc = "none" /\ (s.q.again \/ alive = {})
    <2>1. t = End(r, s)
      BY <1>2 DEF OrWait
    <2>2. QED
      BY <1>2, <2>1, EndKept
  <1>3. CASE s.q.pc = "none" /\ ~s.q.again /\ ready # {}
    <2>1. t = IF twice.q.pc = "exists" THEN twice ELSE End(r, twice)
      BY <1>3 DEF OrWait
    <2>2. Good(twice)
      <3>1. [s.q EXCEPT !.again = TRUE] \in Calls
            /\ [s.q EXCEPT !.again = TRUE].attempt < NumKeys
        BY <1>3 DEF Good, Choices, Calls, Looked
      <3>2. QED
        BY <3>1, GetGood DEF Good, Choices
    <2> HIDE DEF twice
    <2>3. CASE twice.q.pc = "exists"
      BY <2>1, <2>2, <2>3 DEF Good, Kept
    <2>4. CASE twice.q.pc # "exists"
      BY <2>1, <2>2, <2>4, EndKept DEF Good
    <2>5. QED
      BY <2>3, <2>4
  <1>4. CASE s.q.pc = "none" /\ ~s.q.again /\ alive # {} /\ ready = {}
    <2>1. \/ t = End(r, s)
          \/ \E k \in alive : t = [s EXCEPT !.q.pc = "asleep", !.q.key = k]
      BY <1>4 DEF OrWait
    <2>2. ASSUME NEW k \in alive, t = [s EXCEPT !.q.pc = "asleep", !.q.key = k]
          PROVE  Kept(t)
      <3>1. t \in Choices /\ t.b = s.b /\ t.q = [s.q EXCEPT !.pc = "asleep", !.key = k]
        BY <2>2 DEF Good, Choices, Calls
      <3>2. /\ t.q.pc = "asleep" /\ t.q.tries = s.q.tries
            /\ t.q.seen = s.q.seen /\ t.q.attempt = s.q.attempt
        BY <3>1 DEF Good, Choices, Calls
      <3>3. QED
        BY <1>4, <3>1, <3>2 DEF Kept, Good, Looked
    <2>3. QED
      BY <1>4, <2>1, <2>2, EndKept
  <1>5. QED
    BY <1>1, <1>2, <1>3, <1>4 DEF Good

-----------------------------------------------------------------------------
(* The rest of a step that sets one call: Redis, the environment and what  *)
(* is stamped keep their types, the strategy stays.                        *)
Around ==
  /\ rotation' = rotation
  /\ stamped' \subseteq Keys /\ redisCool' \subseteq Keys
  /\ redisInvalid' \subseteq Keys
  /\ well' \in BOOLEAN /\ faults' \in 0..MaxFaults

LEMMA Moved ==
  ASSUME IInv, Around, NEW r \in Requests, NEW q \in Calls, q.pc # "none",
         Looked(q), req' = [req EXCEPT ![r] = q],
         index' \in 0..(NumKeys - 1), breaker' \in Breakers, Storm(breaker'),
         mem' \in Memories
  PROVE  IInv'
  <1>1. q \in [pc : {"idle", "exists", "ttl", "sent", "cooling", "banning", "asleep"},
               key : Keys, tries : 0..(2 * NumKeys), attempt : 0..NumKeys,
               again : BOOLEAN, seen : SUBSET Keys]
    BY DEF Calls
  <1>2. TypeOK'
    BY <1>1 DEF IInv, TypeOK, Around, Breakers, Memories
  <1>3. StormRemembered'
    BY DEF StormRemembered, Storm
  <1>4. \A p \in Requests : Looked(req'[p])
    BY DEF IInv, TypeOK
  <1>5. (\A p \in Requests : Looked(req[p]))'
    BY <1>4 DEF Looked, Limit, Covered, Around
  <1>6. QED
    BY <1>2, <1>3, <1>5 DEF IInv

LEMMA Chosen ==
  ASSUME IInv, Around, NEW r \in Requests, NEW s, Good(s), Choose(r, s)
  PROVE  IInv'
  <1>1. PICK t \in OrWait(r, s) :
          /\ req' = [req EXCEPT ![r] = t.q]
          /\ breaker' = t.b /\ index' = t.i /\ mem' = t.m
    BY DEF Choose
  <1>2. Kept(t)
    BY OrWaitKept DEF IInv
  <1>3. QED
    BY <1>1, <1>2, Moved DEF Kept, Choices

(* search() after n attempts. *)
LEMMA Searched ==
  ASSUME IInv, Around, NEW r \in Requests, NEW n \in 0..NumKeys,
         NEW b \in Breakers, Storm(b), Search(r, n, b)
  PROVE  IInv'
  <1> DEFINE q == [Idle EXCEPT !.attempt = n]
             s == [q |-> q, b |-> b, i |-> index, m |-> mem]
             e == [s EXCEPT !.q.pc = "none", !.q.again = TRUE]
  <1>1. /\ q \in Calls /\ q.attempt = n /\ q.tries = 0 /\ q.seen = Keys
        /\ index \in 0..(NumKeys - 1) /\ mem \in Memories
    BY Starts DEF Idle, Calls, IInv, TypeOK, Memories
  <1>2. CASE n >= NumKeys
    <2>1. Choose(r, e)
      BY <1>2 DEF Search
    <2>2. s \in Choices /\ s.q = q /\ s.b = b
      BY <1>1 DEF Choices
    <2> HIDE DEF s, q
    <2>3. /\ e.q \in Calls /\ e.q.pc = "none" /\ e.q.again /\ e.q.tries = 0
          /\ e.q.seen = Keys /\ e \in Choices /\ e.b = b
      BY <1>1, <2>2 DEF Choices, Calls
    <2> HIDE DEF e
    <2>4. Good(e)
      BY <2>3, Starts DEF Good, Looked
    <2>5. QED
      BY <2>1, <2>4, Chosen
  <1>3. CASE ~(n >= NumKeys)
    <2>1. Choose(r, GetHealthyKey(r, q, b, index, mem))
      BY <1>3 DEF Search
    <2>2. q.attempt < NumKeys
      BY <1>1, <1>3, PoolAssumption
    <2>3. Good(GetHealthyKey(r, q, b, index, mem))
      BY <1>1, <2>2, GetGood DEF IInv
    <2>4. QED
      BY <2>1, <2>3, Chosen
  <1>4. QED
    BY <1>2, <1>3

(* The parts of the state before a step, as the lemmas want them.          *)
LEMMA Before ==
  ASSUME IInv, NEW r \in Requests
  PROVE  /\ req[r] \in Calls /\ req[r].pc # "none" /\ Looked(req[r])
         /\ breaker \in Breakers /\ Storm(breaker) /\ mem \in Memories
         /\ index \in 0..(NumKeys - 1) /\ req[r].key \in Keys
         /\ stamped \subseteq Keys /\ redisCool \subseteq Keys
         /\ redisInvalid \subseteq Keys /\ well \in BOOLEAN
         /\ faults \in 0..MaxFaults
  BY DEF IInv, TypeOK, StormRemembered, Storm, Calls, Breakers, Memories

LEMMA FaultTyped ==
  ASSUME IInv, Fault
  PROVE  faults' \in 0..MaxFaults /\ rotation' = rotation /\ well' = well
  BY PoolAssumption DEF IInv, TypeOK, Fault

(* A call that goes on to its request, or back to where it began.          *)
LEMMA Resting ==
  ASSUME NEW k \in Keys, NEW n \in 0..(NumKeys - 1)
  PROVE  /\ Idle \in Calls /\ Idle.pc = "idle" /\ Looked(Idle)
         /\ [Idle EXCEPT !.pc = "sent", !.key = k, !.attempt = n] \in Calls
         /\ [Idle EXCEPT !.pc = "sent", !.key = k, !.attempt = n].pc = "sent"
         /\ Looked([Idle EXCEPT !.pc = "sent", !.key = k, !.attempt = n])
  <1> DEFINE q == [Idle EXCEPT !.pc = "sent", !.key = k, !.attempt = n]
  <1>1. n \in 0..NumKeys /\ n < NumKeys
    BY PoolAssumption
  <1>2. Idle \in Calls /\ Idle.pc = "idle" /\ Looked(Idle)
    BY Starts DEF Idle, Calls, Looked
  <1>3. /\ q \in Calls /\ q.pc = "sent" /\ q.tries = 0 /\ q.attempt = n
    BY <1>1, Starts DEF Idle, Calls
  <1> HIDE DEF q
  <1>4. Looked(q)
    BY <1>1, <1>3, Starts DEF Looked
  <1>5. QED
    BY <1>2, <1>3, <1>4 DEF q

(* _is_healthy answered no, and memory rules the key out since.            *)
LEMMA LookedOn ==
  ASSUME IInv, Around, NEW r \in Requests, req[r].pc \in {"exists", "ttl"},
         NEW m \in Memories, Unfit(m, req[r].key), LookOn(r, m)
  PROVE  IInv'
  <1> DEFINE q == [req[r] EXCEPT !.seen = @ \cup {req[r].key}]
  <1>1. /\ req[r] \in Calls /\ Looked(req[r]) /\ req[r].key \in Keys
    BY Before
  <1>2. /\ q \in Calls /\ q.tries = req[r].tries /\ q.attempt = req[r].attempt
        /\ q.seen = req[r].seen \cup {req[r].key}
    BY <1>1 DEF Calls
  <1> HIDE DEF q
  <1>3. Ready(q, m)
    <2>1. q.tries <= Limit /\ q.attempt < NumKeys
      BY <1>1, <1>2 DEF Looked
    <2>2. ASSUME rotation = "failover" PROVE 1..q.tries \subseteq q.seen
      BY <1>1, <1>2, <2>2 DEF Looked, Calls
    <2>3. ASSUME rotation = "round_robin", NumKeys <= 2
          PROVE  q.seen = Keys \/ (q.tries = 1 /\ \E k \in q.seen : Unfit(m, k))
      BY <1>1, <1>2, <2>3 DEF Looked
    <2>4. QED
      BY <2>1, <2>2, <2>3 DEF Ready
  <1>4. Good(Walk(q, breaker, index, m))
    BY <1>2, <1>3, Before, WalkGood DEF IInv
  <1>5. Choose(r, Walk(q, breaker, index, m))
    BY DEF LookOn, q
  <1>6. QED
    BY <1>4, <1>5, Chosen

-----------------------------------------------------------------------------
(* The invariant holds at the start: no key is marked, no call looks, the   *)
(* circuit is closed.                                                       *)
THEOREM InitEstablishes == Init => IInv
  <1> SUFFICES ASSUME Init PROVE IInv
    OBVIOUS
  <1>1. Idle \in Calls /\ Idle.pc = "idle" /\ Looked(Idle)
    BY Starts, Resting
  <1>2. TypeOK
    <2>1. /\ rotation \in Rotations /\ index \in 0..(NumKeys - 1)
          /\ breaker \in Breakers /\ mem \in Memories /\ stamped \subseteq Keys
          /\ redisCool \subseteq Keys /\ redisInvalid \subseteq Keys
          /\ well \in BOOLEAN /\ faults \in 0..MaxFaults
      <3>1. mem \in Memories
        BY Fresh DEF Init, Memories
      <3>2. 0 \in 0..MaxFaults
        BY PoolAssumption
      <3>3. QED
        BY <3>1, <3>2, Starts, Fresh DEF Init
    <2>2. req = [r \in Requests |-> Idle]
      BY DEF Init
    <2>3. QED
      BY <1>1, <2>1, <2>2 DEF TypeOK, Breakers, Memories, Calls
  <1>3. QED
    BY <1>1, <1>2 DEF Init, IInv, StormRemembered, Closed

LEMMA ExhaustPreserves ==
  ASSUME IInv, NEW r \in Requests, Exhaust(r)
  PROVE  IInv'
  <1>1. /\ req[r] \in Calls /\ req[r].pc = "sent" /\ Looked(req[r])
        /\ req[r].attempt \in 0..(NumKeys - 1) /\ req[r].key \in Keys
    <2>1. req[r] \in Calls /\ req[r].pc = "sent" /\ Looked(req[r])
      BY Before DEF Exhaust, At
    <2>2. QED
      BY <2>1, PoolAssumption DEF Calls, Looked
  <1>2. req[r].attempt + 1 \in 0..NumKeys /\ NumKeys \in 0..NumKeys
    BY <1>1, PoolAssumption
  <1>3. PICK b \in {breaker, RateLimited(breaker)}, n \in 0..NumKeys :
          MarkExhausted(r, b, n)
    BY <1>2 DEF Exhaust
  <1>4. b \in Breakers /\ Storm(b)
    BY Before, BreakerGood
  <1>5. CASE mem[req[r].key].cool
    <2>1. Search(r, n, b) /\ Around
      BY <1>3, <1>5, Before DEF MarkExhausted, Exhaust, Around, redisVars, envVars
    <2>2. QED
      BY <1>4, <2>1, Searched
  <1>6. CASE ~mem[req[r].key].cool
    <2> DEFINE k == req[r].key
               q == [req[r] EXCEPT !.pc = "cooling", !.attempt = n]
    <2>1. /\ mem' = [mem EXCEPT ![k].cool = TRUE] /\ stamped' = stamped \cup {k}
          /\ breaker' = b /\ index' = index /\ req' = [req EXCEPT ![r] = q]
      BY <1>3, <1>6 DEF MarkExhausted
    <2>2. Around
      BY <1>1, <2>1, Before DEF Exhaust, Around, redisVars, envVars
    <2>3. mem' \in Memories
      BY <1>1, <2>1, Before DEF Memories
    <2>4. q \in Calls /\ q.pc = "cooling" /\ Looked(q)
      BY <1>1 DEF Calls, Looked
    <2>5. QED
      BY <1>4, <2>1, <2>2, <2>3, <2>4, Before, Moved
  <1>7. QED
    BY <1>5, <1>6

LEMMA WrittenPreserves ==
  ASSUME IInv, NEW r \in Requests, Written(r)
  PROVE  IInv'
  <1> DEFINE n == IF At(r, "cooling") THEN req[r].attempt ELSE req[r].attempt + 1
  <1>1. n \in 0..NumKeys
    <2>1. req[r] \in Calls /\ Looked(req[r])
      BY Before
    <2>2. QED
      BY <2>1, PoolAssumption DEF Written, At, Calls, Looked
  <1>2. Around
    BY Before, FaultTyped DEF Written, Around, redisVars, envVars
  <1>3. Search(r, n, breaker)
    BY DEF Written
  <1> HIDE DEF n
  <1>4. QED
    BY <1>1, <1>2, <1>3, Before, Searched

LEMMA StepPreservesCall ==
  ASSUME IInv, NEW r \in Requests, Step(r)
  PROVE  IInv'
  <1> DEFINE k == req[r].key
  <1>0. /\ req[r] \in Calls /\ Looked(req[r]) /\ k \in Keys
        /\ breaker \in Breakers /\ Storm(breaker) /\ mem \in Memories
        /\ index \in 0..(NumKeys - 1)
    BY Before
  <1>1. CASE CheckInvalid(r)
    <2>1. Around /\ req[r].pc = "exists"
      BY <1>1, Before DEF CheckInvalid, Around, redisVars, envVars, At
    <2>2. CASE k \in redisInvalid
      <3>1. LookOn(r, [mem EXCEPT ![k].invalid = TRUE])
        BY <1>1, <2>2 DEF CheckInvalid
      <3>2. /\ [mem EXCEPT ![k].invalid = TRUE] \in Memories
            /\ Unfit([mem EXCEPT ![k].invalid = TRUE], k)
        BY <1>0 DEF Memories, Unfit
      <3>3. QED
        BY <2>1, <3>1, <3>2, LookedOn
    <2>3. CASE k \notin redisInvalid
      <3>1. /\ req' = [req EXCEPT ![r] = [req[r] EXCEPT !.pc = "ttl"]]
            /\ UNCHANGED <<index, breaker, mem>>
        BY <1>1, <2>3 DEF CheckInvalid, Move
      <3>2. /\ [req[r] EXCEPT !.pc = "ttl"] \in Calls
            /\ Looked([req[r] EXCEPT !.pc = "ttl"])
            /\ [req[r] EXCEPT !.pc = "ttl"].pc = "ttl"
        BY <1>0, <2>1 DEF Calls, Looked
      <3>3. QED
        BY <1>0, <2>1, <3>1, <3>2, Moved
    <2>4. QED
      BY <2>2, <2>3
  <1>2. CASE CheckCooldown(r)
    <2>1. Around /\ req[r].pc = "ttl"
      BY <1>2, Before DEF CheckCooldown, Around, redisVars, envVars, At
    <2>2. CASE k \in redisCool
      <3>1. LookOn(r, [mem EXCEPT ![k].cool = TRUE])
        BY <1>2, <2>2 DEF CheckCooldown
      <3>2. /\ [mem EXCEPT ![k].cool = TRUE] \in Memories
            /\ Unfit([mem EXCEPT ![k].cool = TRUE], k)
        BY <1>0 DEF Memories, Unfit
      <3>3. QED
        BY <2>1, <3>1, <3>2, LookedOn
    <2>3. CASE k \notin redisCool
      <3>1. Send(r) /\ UNCHANGED <<index, breaker, mem>>
        BY <1>2, <2>3 DEF CheckCooldown
      <3>2. req[r].attempt \in 0..(NumKeys - 1)
        BY <1>0, <2>1, PoolAssumption DEF Calls, Looked
      <3>3. QED
        BY <1>0, <2>1, <3>1, <3>2, Resting, Moved DEF Send
    <2>4. QED
      BY <2>2, <2>3
  <1>3. CASE Wake(r)
    <2> DEFINE q == [req[r] EXCEPT !.again = TRUE]
    <2>1. Around /\ req[r].pc = "asleep"
          /\ Choose(r, GetHealthyKey(r, q, breaker, index, mem))
      BY <1>3, Before DEF Wake, Around, redisVars, envVars, At
    <2>2. q \in Calls /\ q.attempt < NumKeys
      BY <1>0, <2>1 DEF Calls, Looked
    <2>3. QED
      BY <1>0, <2>1, <2>2, GetGood, Chosen DEF IInv
  <1>4. CASE Succeed(r)
    <2>1. Around /\ req' = [req EXCEPT ![r] = Idle] /\ breaker' = Closed
          /\ index' = index
      BY <1>4, Before DEF Succeed, Around, redisVars, envVars
    <2>2. mem' \in Memories
      BY <1>0, <1>4 DEF Succeed, Memories
    <2>3. Closed \in Breakers /\ Storm(Closed)
      BY Fresh
    <2>4. QED
      BY <1>0, <2>1, <2>2, <2>3, Starts, Resting, Moved
  <1>5. CASE Exhaust(r)
    BY <1>5, ExhaustPreserves
  <1>6. CASE Refuse(r)
    <2> DEFINE q == [req[r] EXCEPT !.pc = "banning"]
    <2>1. /\ Around /\ req' = [req EXCEPT ![r] = q] /\ req[r].pc = "sent"
          /\ UNCHANGED <<index, breaker>>
      BY <1>6, Before DEF Refuse, Move, Around, redisVars, envVars, At
    <2>2. mem' \in Memories
      BY <1>0, <1>6 DEF Refuse, Memories
    <2>3. q \in Calls /\ q.pc = "banning" /\ Looked(q)
      BY <1>0, <2>1 DEF Calls, Looked
    <2>4. QED
      BY <1>0, <2>1, <2>2, <2>3, Moved
  <1>7. CASE BadRequest(r)
    <2>1. Around /\ req[r].pc = "sent" /\ Search(r, req[r].attempt + 1, breaker)
      BY <1>7, Before DEF BadRequest, Around, redisVars, envVars, At
    <2>2. req[r].attempt + 1 \in 0..NumKeys
      BY <1>0, <2>1, PoolAssumption DEF Calls, Looked
    <2>3. QED
      BY <1>0, <2>1, <2>2, Searched
  <1>8. CASE Written(r)
    BY <1>8, WrittenPreserves
  <1>9. QED
    BY <1>1, <1>2, <1>3, <1>4, <1>5, <1>6, <1>7, <1>8 DEF Step

(* No step breaks the invariant, be it a look, a report, a probe, the end   *)
(* of a cooldown or a fault.                                                *)
THEOREM StepPreserves == IInv /\ [Next]_vars => IInv'
  <1> SUFFICES ASSUME IInv, [Next]_vars PROVE IInv'
    OBVIOUS
  <1>0. TypeOK /\ StormRemembered /\ \A r \in Requests : Looked(req[r])
    BY DEF IInv
  <1>1. ASSUME NEW r \in Requests, Begin(r) PROVE IInv'
    <2> DEFINE b == [breaker EXCEPT !.prober = @ \ {r}]
    <2>1. Search(r, 0, b) /\ Around
      BY <1>1, Before DEF Begin, Around, redisVars, envVars
    <2>2. b \in Breakers /\ Storm(b)
      BY Before, BreakerGood
    <2> HIDE DEF b
    <2>3. QED
      BY <2>1, <2>2, Starts, Searched
  <1>2. ASSUME NEW r \in Requests, Step(r) PROVE IInv'
    BY <1>2, StepPreservesCall
  <1>3. ASSUME NEW r \in Requests, CheckFails(r) PROVE IInv'
    <2>1. Send(r) /\ Around /\ UNCHANGED <<index, breaker, mem>>
      BY <1>3, Before, FaultTyped DEF CheckFails, Around, poolVars, redisVars
    <2>2. req[r].attempt \in 0..(NumKeys - 1) /\ req[r].key \in Keys
      BY <1>3, Before, PoolAssumption DEF CheckFails, Calls, Looked
    <2>3. QED
      BY <2>1, <2>2, Before, Resting, Moved DEF Send
  <1>4. ASSUME NEW r \in Requests, Abandon(r) PROVE IInv'
    <2>1. /\ req' = [req EXCEPT ![r] = Idle] /\ breaker' = Untold(breaker, r)
          /\ UNCHANGED <<index, mem>> /\ Around
      BY <1>4, Before DEF Abandon, Around, redisVars, envVars
    <2>2. QED
      BY <2>1, Before, BreakerGood, Starts, Resting, Moved
  <1>5. ASSUME UNCHANGED <<rotation, req>>, TypeOK', StormRemembered' PROVE IInv'
    BY <1>0, <1>5 DEF IInv, Looked, Limit, Covered
  <1>6. ASSUME NEW k \in Keys, MemoryExpires(k) \/ RedisExpires(k) PROVE IInv'
    <2>1. UNCHANGED <<rotation, index, breaker, stamped, redisInvalid, req, well, faults>>
          /\ redisCool' \subseteq Keys /\ mem' \in Memories
      <3>1. CASE MemoryExpires(k)
        BY <1>0, <3>1 DEF MemoryExpires, redisVars, envVars, TypeOK, Memories
      <3>2. CASE RedisExpires(k)
        BY <1>0, <3>2 DEF RedisExpires, poolVars, envVars, TypeOK, Memories
      <3>3. QED
        BY <1>6, <3>1, <3>2
    <2>2. QED
      BY <1>0, <1>5, <2>1 DEF TypeOK, StormRemembered, Memories
  <1>7. CASE WindowPasses
    <2>1. /\ UNCHANGED <<rotation, index, mem, stamped, redisCool, redisInvalid,
                         req, well, faults>>
          /\ breaker' = [breaker EXCEPT !.elapsed = TRUE]
      BY <1>7 DEF WindowPasses, redisVars, envVars
    <2>2. QED
      BY <1>0, <1>5, <2>1 DEF TypeOK, StormRemembered
  <1>8. CASE Recover
    BY <1>0, <1>5, <1>8 DEF Recover, poolVars, redisVars, TypeOK, StormRemembered
  <1>9. CASE Restart
    <2>1. /\ index' = 0 /\ breaker' = Closed /\ stamped' = {}
          /\ mem' = [k \in Keys |-> Healthy]
          /\ req' = [r \in Requests |-> Idle]
          /\ UNCHANGED <<rotation, well, redisCool, redisInvalid>>
          /\ faults' \in 0..MaxFaults
      BY <1>9, FaultTyped DEF Restart, redisVars
    <2>2. Idle \in Calls /\ Idle.pc = "idle" /\ Looked(Idle)
      BY Starts, Resting
    <2>3. TypeOK'
      <3>1. /\ index' \in 0..(NumKeys - 1) /\ breaker' \in Breakers
            /\ mem' \in Memories /\ stamped' \subseteq Keys
        BY <2>1, Starts, Fresh DEF Memories
      <3>2. QED
        BY <1>0, <2>1, <2>2, <3>1 DEF TypeOK, Breakers, Memories, Calls
    <2>4. StormRemembered'
      BY <2>1 DEF StormRemembered, Closed
    <2>5. \A r \in Requests : req'[r].pc = "idle" /\ Looked(req'[r])
      BY <2>1, <2>2
    <2>6. (\A r \in Requests : Looked(req[r]))'
      BY <2>1, <2>5 DEF Looked, Limit, Covered
    <2>7. QED
      BY <2>3, <2>4, <2>6 DEF IInv
  <1>10. CASE UNCHANGED vars
    BY <1>0, <1>5, <1>10 DEF vars, poolVars, redisVars, envVars, TypeOK, StormRemembered
  <1>11. QED
    BY <1>1, <1>2, <1>3, <1>4, <1>6, <1>7, <1>8, <1>9, <1>10 DEF Next

(* So it holds in every state that is reached.                              *)
THEOREM Invariance == Spec => []IInv
  BY InitEstablishes, StepPreserves, PTL DEF Spec

-----------------------------------------------------------------------------
(* The variables keep their types: no index runs off the keys, no call     *)
(* makes more attempts than there are keys.                                *)
THEOREM TypeCorrect == Spec => []TypeOK
  <1>1. IInv => TypeOK
    BY DEF IInv
  <1>2. QED
    BY <1>1, Invariance, PTL

(* The circuit is not closed but with the full count of a storm.           *)
THEOREM StormsCounted == Spec => []StormRemembered
  <1>1. IInv => StormRemembered
    BY DEF IInv
  <1>2. QED
    BY <1>1, Invariance, PTL

(* "All keys exhausted" is said by nobody who has not seen each key        *)
(* unhealthy: for every fail-over pool, and every rotation of two keys.    *)
THEOREM ExhaustionIsHonest == Spec => []HonestlyExhausted
  <1>1. IInv => HonestlyExhausted
    BY DEF IInv, Looked, Covered, HonestlyExhausted, SeenAll
  <1>2. QED
    BY <1>1, Invariance, PTL
=============================================================================
