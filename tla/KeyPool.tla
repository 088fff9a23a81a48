------------------------------ MODULE KeyPool ------------------------------
(***************************************************************************)
(* APIKeyPool with its circuit breaker, and the calls of the search and    *)
(* embedding clients that share one pool. A call asks for a key, looks at  *)
(* keys in memory and then in Redis, sends its request, reports the answer *)
(* and, when the key was refused, starts over with another one.            *)
(*                                                                         *)
(* A call suspends at the two Redis reads of a look, at the Redis write    *)
(* of a report, while it sleeps until a key recovers, and while its        *)
(* request is under way; the rest is one step with what precedes it.       *)
(***************************************************************************)
EXTENDS Integers, FiniteSets

CONSTANTS NumKeys,    \* keys of the pool, in the order of their priorities
          Requests,   \* calls of search() or embed_batch()
          Threshold,  \* _429_threshold
          Rotations,  \* the strategies in use
          Answers,    \* how the provider may refuse a request
          MaxFaults   \* bound: Redis errors and restarts

ASSUME PoolAssumption ==
  /\ NumKeys \in Nat \ {0} /\ Threshold \in Nat \ {0} /\ MaxFaults \in Nat
  /\ Rotations \subseteq {"failover", "round_robin"}
  /\ Answers \subseteq {"limited", "quota", "timeout", "refused", "bad"}

Keys == 1..NumKeys

VARIABLES
  rotation,      \* strategy of this pool
  index,         \* _round_robin_index
  breaker,       \* the CircuitBreaker; prober and untold are history
  mem,           \* per key: a running entry in _memory_exhausted, _memory_invalid
  stamped,       \* keys of _exhaustion_timestamps
  redisCool,     \* api_key:exhausted:* in Redis
  redisInvalid,  \* api_key:invalid:* in Redis
  req,           \* the calls; seen is history
  well,          \* the provider answers every request from now on
  faults

poolVars  == <<index, breaker, mem, stamped>>
redisVars == <<redisCool, redisInvalid>>
envVars   == <<rotation, well, faults>>
vars == <<poolVars, redisVars, req, envVars>>

Closed == [state |-> "closed", elapsed |-> FALSE, inFlight |-> FALSE,
           count |-> 0, prober |-> {}, untold |-> FALSE]
Healthy == [cool |-> FALSE, invalid |-> FALSE]
Idle == [pc |-> "idle", key |-> 1, tries |-> 0, attempt |-> 0,
         again |-> FALSE, seen |-> Keys]

(* A pool is made; Redis holds the marks of processes before it.           *)
Init ==
  /\ rotation \in Rotations /\ index = 0 /\ breaker = Closed
  /\ mem = [k \in Keys |-> Healthy] /\ stamped = {}
  /\ redisCool \in SUBSET Keys /\ redisInvalid \in SUBSET Keys
  /\ req = [r \in Requests |-> Idle]
  /\ well = FALSE /\ faults = 0

-----------------------------------------------------------------------------
(* The circuit breaker. Reading `state` moves an open circuit whose window *)
(* has passed to half-open.                                                *)
PeekStays(b) == b \* mutant: nobody looks at the clock

Peek(b) ==
  IF b.state = "open" /\ b.elapsed
    THEN [b EXCEPT !.state = "half", !.inFlight = FALSE]
    ELSE b

Allows(b) == b.state = "closed" \/ (b.state = "half" /\ ~b.inFlight)

Admit(b, r) ==
  IF b.state = "half" THEN [b EXCEPT !.inFlight = TRUE, !.prober = {r}] ELSE b

CountForgotten(b) == \* mutant: opening the circuit starts the count afresh
  IF b.count + 1 >= Threshold
    THEN [Closed EXCEPT !.state = "open"]
    ELSE [b EXCEPT !.count = b.count + 1]

(* record_failure(RATE_LIMITED), the only error that the callers report    *)
(* and the breaker counts: a 5xx is raised past handle_error(). The count  *)
(* goes on, but is only compared with Threshold.                           *)
RateLimited(b) ==
  IF b.count + 1 >= Threshold
    THEN [Closed EXCEPT !.state = "open", !.count = Threshold]
    ELSE [b EXCEPT !.count = b.count + 1]

(* The call of r ends without a report that the breaker understands.       *)
Untold(b, r) == [b EXCEPT !.untold = @ \/ r \in b.prober]

-----------------------------------------------------------------------------
(* Choosing a key. A choice s is the call q, the breaker b, the index i    *)
(* and the memory m after it; the call is at "exists" with a key, or at    *)
(* "none".                                                                 *)

LimitOnce == NumKeys \* mutant: one rotation

Limit == IF rotation = "failover" THEN NumKeys ELSE 2 * NumKeys

(* The key that comes n places after the call's next one.                  *)
KeyAt(q, i, n) ==
  IF rotation = "failover" THEN q.tries + n + 1 ELSE ((i + n) % NumKeys) + 1

RunsOff(i, n) == i + n \* mutant: the index does not come round

Advance(i, n) ==
  IF rotation = "failover" THEN i ELSE (i + n) % NumKeys

(* _failover and _round_robin: on to the next key that memory does not     *)
(* rule out. The keys before it are passed over without suspending. An     *)
(* entry whose time is over is no entry: it goes when its key is looked at.*)
Walk(q, b, i, m) ==
  LET left   == Limit - q.tries
      fits   == {n \in 0..(left - 1) : LET k == KeyAt(q, i, n) IN
                                         ~m[k].invalid /\ ~m[k].cool}
      passed == IF fits = {} THEN left
                  ELSE CHOOSE n \in fits : \A o \in fits : n <= o
      taken  == IF fits = {} THEN left ELSE passed + 1
  IN  [b |-> b, m |-> m,
       i |-> Advance(i, taken),
       q |-> [q EXCEPT !.tries = @ + taken,
                !.pc   = IF fits = {} THEN "none" ELSE "exists",
                !.key  = IF fits = {} THEN @ ELSE KeyAt(q, i, passed),
                !.seen = @ \cup {KeyAt(q, i, n) : n \in 0..(passed - 1)}]]

(* get_healthy_key() up to its first await. A call the breaker refuses has *)
(* no key either.                                                          *)
GetHealthyKey(r, q, b, i, m) ==
  LET p     == Peek(b)
      fresh == [q EXCEPT !.tries = 0, !.seen = {}]
  IN  IF Allows(p)
        THEN Walk(fresh, Admit(p, r), i, m)
        ELSE [q |-> [fresh EXCEPT !.pc = "none", !.seen = Keys],
              b |-> p, i |-> i, m |-> m]

(* The call has no key. What it has seen stays, for HonestlyExhausted.     *)
End(r, s) ==
  [s EXCEPT !.q = [Idle EXCEPT !.seen = s.q.seen], !.b = Untold(@, r)]

(* get_healthy_key_or_wait(): without a key, ask a second time: at once if *)
(* memory has a usable key, else after the soonest cooldown if that fits   *)
(* the time it may wait.                                                   *)
OrWait(r, s) ==
  LET alive == {k \in Keys : ~s.m[k].invalid}
      ready == {k \in alive : ~s.m[k].cool}
      twice == GetHealthyKey(r, [s.q EXCEPT !.again = TRUE], s.b, s.i, s.m)
  IN  CASE s.q.pc = "exists" -> {s}
        [] s.q.pc = "none" /\ (s.q.again \/ alive = {}) -> {End(r, s)}
        [] s.q.pc = "none" /\ ~s.q.again /\ ready # {} ->
             {IF twice.q.pc = "exists" THEN twice ELSE End(r, twice)}
        [] OTHER -> {End(r, s)} \cup
             {[s EXCEPT !.q.pc = "asleep", !.q.key = k] : k \in alive}

(* The choice s becomes the state of call r.                               *)
Choose(r, s) ==
  \E t \in UNION {OrWait(r, c) : c \in {s}} :
    /\ req' = [req EXCEPT ![r] = t.q]
    /\ breaker' = t.b /\ index' = t.i /\ mem' = t.m

(* search(): give up after one attempt per key, else ask for one.          *)
Search(r, attempt, b) ==
  LET s == [q |-> [Idle EXCEPT !.attempt = attempt], b |-> b,
            i |-> index, m |-> mem]
  IN  IF attempt >= NumKeys
        THEN Choose(r, [s EXCEPT !.q.pc = "none", !.q.again = TRUE])
        ELSE Choose(r, GetHealthyKey(r, s.q, b, index, mem))

-----------------------------------------------------------------------------
(* The calls.                                                              *)

At(r, p)   == req[r].pc = p
Move(r, p) == req' = [req EXCEPT ![r].pc = p]
Send(r)    == req' = [req EXCEPT ![r] = [Idle EXCEPT !.pc = "sent",
                        !.key = req[r].key, !.attempt = req[r].attempt]]
Fault      == faults < MaxFaults /\ faults' = faults + 1
           /\ UNCHANGED <<rotation, well>>

Begin(r) ==
  /\ At(r, "idle")
  /\ Search(r, 0, [breaker EXCEPT !.prober = @ \ {r}])
  /\ UNCHANGED <<stamped, redisVars, envVars>>

(* _is_healthy answered no, and left m in memory: on to the next key.      *)
LookOn(r, m) ==
  Choose(r, Walk([req[r] EXCEPT !.seen = @ \cup {req[r].key}],
                 breaker, index, m))

ExistsIgnored(r) == \* mutant: only the cooldown is looked up
  /\ At(r, "exists") /\ Move(r, "ttl")
  /\ UNCHANGED <<poolVars, redisVars, envVars>>

(* _is_healthy: EXISTS of the invalid mark.                                *)
CheckInvalid(r) ==
  LET k == req[r].key IN
  /\ At(r, "exists")
  /\ IF k \in redisInvalid
       THEN LookOn(r, [mem EXCEPT ![k].invalid = TRUE])
       ELSE Move(r, "ttl") /\ UNCHANGED <<index, breaker, mem>>
  /\ UNCHANGED <<stamped, redisVars, envVars>>

(* _is_healthy: TTL of the cooldown, carried over into memory.             *)
CheckCooldown(r) ==
  LET k == req[r].key IN
  /\ At(r, "ttl")
  /\ IF k \in redisCool
       THEN LookOn(r, [mem EXCEPT ![k].cool = TRUE])
       ELSE Send(r) /\ UNCHANGED <<index, breaker, mem>>
  /\ UNCHANGED <<stamped, redisVars, envVars>>

(* A Redis read fails: what memory said counts.                            *)
CheckFails(r) ==
  /\ req[r].pc \in {"exists", "ttl"} /\ Fault /\ Send(r)
  /\ UNCHANGED <<poolVars, redisVars>>

(* The sleep until the soonest recovery is over.                           *)
Wake(r) ==
  /\ At(r, "asleep") /\ ~mem[req[r].key].cool
  /\ Choose(r, GetHealthyKey(r, [req[r] EXCEPT !.again = TRUE],
                             breaker, index, mem))
  /\ UNCHANGED <<stamped, redisVars, envVars>>

(* record_success()                                                        *)
Succeed(r) ==
  LET k == req[r].key IN
  /\ At(r, "sent")
  /\ breaker' = Closed
  /\ stamped' = stamped \ {k}
  /\ mem' = IF k \in stamped THEN [mem EXCEPT ![k].cool = FALSE] ELSE mem
  /\ req' = [req EXCEPT ![r] = Idle]
  /\ UNCHANGED <<index, redisVars, envVars>>

(* mark_exhausted() with the breaker already told: a key that cools is     *)
(* left as it is. The call is at attempt n when it goes on.                *)
MarkExhausted(r, b, n) ==
  LET k == req[r].key IN
  IF mem[k].cool
    THEN Search(r, n, b) /\ UNCHANGED stamped
    ELSE /\ mem' = [mem EXCEPT ![k].cool = TRUE]
         /\ stamped' = stamped \cup {k}
         /\ breaker' = b
         /\ req' = [req EXCEPT ![r].pc = "cooling", ![r].attempt = n]
         /\ UNCHANGED index

(* handle_error() for a 429, for an exhausted quota, and for a time-out,   *)
(* after which search() does not try again.                                *)
Exhaust(r) ==
  /\ At(r, "sent") /\ ~well
  /\ \/ "limited" \in Answers
        /\ MarkExhausted(r, RateLimited(breaker), req[r].attempt + 1)
     \/ "quota" \in Answers /\ MarkExhausted(r, breaker, req[r].attempt + 1)
     \/ "timeout" \in Answers /\ MarkExhausted(r, breaker, NumKeys)
  /\ UNCHANGED <<redisVars, envVars>>

(* handle_error() for a 401 or 403: mark_invalid().                        *)
Refuse(r) ==
  LET k == req[r].key IN
  /\ At(r, "sent") /\ ~well /\ "refused" \in Answers
  /\ mem' = [mem EXCEPT ![k] = [cool |-> FALSE, invalid |-> TRUE]]
  /\ Move(r, "banning")
  /\ UNCHANGED <<index, breaker, stamped, redisVars, envVars>>

(* handle_error() for a 400: nothing is marked, and the call tries again.  *)
BadRequest(r) ==
  /\ At(r, "sent") /\ ~well /\ "bad" \in Answers
  /\ Search(r, req[r].attempt + 1, breaker)
  /\ UNCHANGED <<stamped, redisVars, envVars>>

(* SETEX or SET reaches Redis, or fails and is ignored; the call goes on.  *)
Written(r) ==
  /\ req[r].pc \in {"cooling", "banning"}
  /\ \/ /\ redisCool' = redisCool \cup {k \in {req[r].key} : At(r, "cooling")}
        /\ redisInvalid' =
             redisInvalid \cup {k \in {req[r].key} : At(r, "banning")}
        /\ UNCHANGED envVars
     \/ Fault /\ UNCHANGED redisVars
  /\ Search(r, IF At(r, "cooling") THEN req[r].attempt ELSE req[r].attempt + 1,
            breaker)
  /\ UNCHANGED stamped

(* The call is cancelled, or ends in a 5xx or another error that nobody    *)
(* reports to the pool.                                                    *)
Abandon(r) ==
  /\ ~At(r, "idle")
  /\ req' = [req EXCEPT ![r] = Idle]
  /\ breaker' = Untold(breaker, r)
  /\ UNCHANGED <<index, mem, stamped, redisVars, envVars>>

-----------------------------------------------------------------------------
(* Time, the provider, and a restart of the process.                       *)

WindowPasses ==
  /\ breaker.state = "open" /\ ~breaker.elapsed
  /\ breaker' = [breaker EXCEPT !.elapsed = TRUE]
  /\ UNCHANGED <<index, mem, stamped, redisVars, req, envVars>>

MemoryExpires(k) ==
  /\ mem[k].cool
  /\ mem' = [mem EXCEPT ![k].cool = FALSE]
  /\ UNCHANGED <<index, breaker, stamped, redisVars, req, envVars>>

RedisExpires(k) ==
  /\ k \in redisCool
  /\ redisCool' = redisCool \ {k}
  /\ UNCHANGED <<poolVars, redisInvalid, req, envVars>>

Recover ==
  /\ ~well /\ well' = TRUE
  /\ UNCHANGED <<poolVars, redisVars, req, rotation, faults>>

Restart ==
  /\ Fault
  /\ index' = 0 /\ breaker' = Closed /\ stamped' = {}
  /\ mem' = [k \in Keys |-> Healthy]
  /\ req' = [r \in Requests |-> Idle]
  /\ UNCHANGED redisVars

Step(r) ==
  \/ CheckInvalid(r) \/ CheckCooldown(r) \/ Wake(r)
  \/ Succeed(r) \/ Exhaust(r) \/ Refuse(r) \/ BadRequest(r)
  \/ Written(r)

Next ==
  \/ \E r \in Requests : Begin(r) \/ Step(r) \/ CheckFails(r) \/ Abandon(r)
  \/ \E k \in Keys : MemoryExpires(k) \/ RedisExpires(k)
  \/ WindowPasses \/ Recover \/ Restart

Spec == Init /\ [][Next]_vars

(* Somebody always searches, every call goes on, and time passes.          *)
FairSpec ==
  /\ Spec
  /\ \A r \in Requests : WF_vars(Begin(r)) /\ WF_vars(Step(r))
  /\ \A k \in Keys : WF_vars(MemoryExpires(k)) /\ WF_vars(RedisExpires(k))
  /\ WF_vars(WindowPasses)

-----------------------------------------------------------------------------
TypeOK ==
  /\ rotation \in Rotations /\ index \in 0..(NumKeys - 1)
  /\ breaker \in [state : {"closed", "open", "half"}, elapsed : BOOLEAN,
                  inFlight : BOOLEAN, count : 0..Threshold,
                  prober : SUBSET Requests, untold : BOOLEAN]
  /\ mem \in [Keys -> [cool : BOOLEAN, invalid : BOOLEAN]]
  /\ stamped \subseteq Keys /\ redisCool \subseteq Keys
  /\ redisInvalid \subseteq Keys
  /\ req \in [Requests ->
       [pc : {"idle", "exists", "ttl", "sent", "cooling", "banning", "asleep"},
        key : Keys, tries : 0..(2 * NumKeys), attempt : 0..NumKeys,
        again : BOOLEAN, seen : SUBSET Keys]]
  /\ well \in BOOLEAN /\ faults \in 0..MaxFaults

(* record_failure() has no branch for a 429 during half-open: it reopens   *)
(* the circuit only because nothing but a success takes the count back.    *)
(* So whenever the circuit is not closed, one more 429 is enough.          *)
StormRemembered == breaker.state # "closed" => breaker.count = Threshold

(* The call said that all keys are exhausted only after this very choice   *)
(* found each of them unhealthy.                                           *)
SeenAll(r) == req[r].pc \in {"idle", "asleep"} => req[r].seen = Keys

(* "All keys exhausted" is said only by a choice that found each key       *)
(* unhealthy: always with fail-over, whatever others mark and clear during *)
(* the awaits; with round-robin as long as there are two keys, although    *)
(* others move the shared index and a choice looks at 2 * NumKeys of its   *)
(* positions at most.                                                      *)
HonestlyExhausted ==
  rotation = "failover" \/ NumKeys <= 2 => \A r \in Requests : SeenAll(r)

(* The lock of the index is there to prevent key skipping: refuted for the *)
(* three keys of the embedding client. Others move the index past a usable *)
(* key each time that this call waits for Redis, the memory of a key it    *)
(* has seen expires, and its 2 * NumKeys positions are used up.            *)
NoneSkipped ==
  [][\A r \in Requests :
       (req'[r] # req[r] /\ req'[r].pc \in {"idle", "asleep"}) =>
         \A k \in Keys \ req'[r].seen :
           mem'[k] # Healthy \/ k \in redisCool' \cup redisInvalid']_vars

(* Once the provider answers again the circuit closes, unless its probe    *)
(* ended without a success or a 429: cancelled, with an error that nobody  *)
(* reports or that the breaker ignores, or without a usable key.           *)
Recovers == well ~> (breaker.state = "closed" \/ breaker.untold)

(* The promise itself, open [45s] -> half-open [probe] -> closed.          *)
AlwaysRecovers == well ~> (breaker.state = "closed")

(* A key whose refusal reached Redis is given up for good: requests that   *)
(* still use it die out, in spite of restarts that forget it.              *)
RefusedRetired ==
  \A k \in Keys : (k \in redisInvalid) ~>
    [](\A r \in Requests : ~(req[r].pc = "sent" /\ req[r].key = k))

(* A key in cooldown is not sent: refuted, memory is read before the two   *)
(* awaits of a look, and another call may mark the key meanwhile.          *)
CoolingNotChosen ==
  [][\A r \in Requests : req'[r].pc = "sent" /\ req[r].pc = "ttl" =>
       ~mem[req[r].key].cool]_vars

====
