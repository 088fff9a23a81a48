----------------------------- MODULE LLMLimiter -----------------------------
(***************************************************************************)
(* LLMConcurrencyLimiter.acquire() over an asyncio.Semaphore, and the LLM  *)
(* calls that use it. A call whose key is refused, or whose provider       *)
(* fails, asks again from inside its slot, and so asks for another one.    *)
(*                                                                         *)
(* The sections under the limiter's lock never suspend, so a coroutine     *)
(* lets others run only while it waits for the semaphore and while its     *)
(* request is under way.                                                   *)
(***************************************************************************)
EXTENDS Integers, Sequences, FiniteSets, SequencesExt

CONSTANTS Calls,         \* callers of ask() and its siblings
          MaxConcurrent, \* llm_max_concurrent
          MaxAttempts,   \* max_retries of the key rotation
          MaxCancels     \* bound: cancellations

ASSUME LimitsAssumption ==
  /\ MaxConcurrent \in Nat \ {0} /\ MaxAttempts \in Nat \ {0}
  /\ MaxCancels \in Nat

VARIABLES
  \* the semaphore
  value,     \* _value
  waiters,   \* _waiters: the calls whose futures it holds
  granted,   \* those of them whose future is set
  \* the limiter
  active,    \* _stats.active_requests
  queued,    \* _queued
  \* the calls
  pc,
  slots,     \* slots a call holds, one inside the other
  attempts,  \* slots it has asked for
  cancels

semVars  == <<value, waiters, granted>>
vars == <<semVars, active, queued, pc, slots, attempts, cancels>>

Levels == 1..MaxAttempts
Held   == {h \in Calls \X Levels : h[2] <= slots[h[1]]}

Init ==
  /\ value = MaxConcurrent /\ waiters = <<>> /\ granted = {}
  /\ active = 0 /\ queued = 0
  /\ pc = [c \in Calls |-> "idle"]
  /\ slots = [c \in Calls |-> 0] /\ attempts = [c \in Calls |-> 0]
  /\ cancels = 0

-----------------------------------------------------------------------------
WakeNobody(v, ws, g) == \* mutant: a slot given back wakes nobody
  value' = v /\ granted' = g

(* _wake_up_next: the first waiter not yet woken takes one of v slots.      *)
Wake(v, ws, g) ==
  IF v > 0 /\ \E i \in DOMAIN ws : ws[i] \notin g
    THEN \E i \in DOMAIN ws :
           /\ ws[i] \notin g
           /\ \A j \in 1..(i - 1) : ws[j] \in g
           /\ value' = v - 1 /\ granted' = g \cup {ws[i]}
    ELSE value' = v /\ granted' = g

\* the future of a waiter leaves the queue
Dequeue(c) ==
  \E i \in DOMAIN waiters : waiters[i] = c /\ waiters' = RemoveAt(waiters, i)

(* asyncio.Semaphore.acquire() and the accounting around it: at once when   *)
(* there is a slot and nobody waits for one, else in the queue.             *)
Acquire(c) ==
  /\ attempts' = [attempts EXCEPT ![c] = @ + 1]
  /\ IF value > 0 /\ waiters = <<>>
       THEN /\ value' = value - 1
            /\ active' = active + 1
            /\ slots' = [slots EXCEPT ![c] = @ + 1]
            /\ pc' = [pc EXCEPT ![c] = "calling"]
            /\ UNCHANGED <<waiters, granted, queued>>
       ELSE /\ waiters' = Append(waiters, c)
            /\ queued' = queued + 1
            /\ pc' = [pc EXCEPT ![c] = "waiting"]
            /\ UNCHANGED <<value, granted, active, slots>>
  /\ UNCHANGED cancels

Ask(c) ==
  /\ pc[c] = "idle"
  /\ Acquire(c)

(* A 401 or 429 rotates the key, a failed provider gives way to another:    *)
(* ask() is called again while the slot is held.                            *)
AskAgain(c) ==
  /\ pc[c] = "calling"
  /\ attempts[c] < MaxAttempts
  /\ Acquire(c)

ProceedAlone(c) == \* mutant: a woken call does not hand the wakeup on
  /\ c \in granted
  /\ Dequeue(c)
  /\ UNCHANGED value /\ granted' = granted \ {c}
  /\ queued' = queued - 1
  /\ active' = active + 1
  /\ slots' = [slots EXCEPT ![c] = @ + 1]
  /\ pc' = [pc EXCEPT ![c] = "calling"]
  /\ UNCHANGED <<attempts, cancels>>

\* wait_for(semaphore.acquire()) returns, and the section under the lock
Proceed(c) ==
  /\ c \in granted
  /\ Dequeue(c)
  /\ Wake(value, waiters', granted \ {c})
  /\ queued' = queued - 1
  /\ active' = active + 1
  /\ slots' = [slots EXCEPT ![c] = @ + 1]
  /\ pc' = [pc EXCEPT ![c] = "calling"]
  /\ UNCHANGED <<attempts, cancels>>

-----------------------------------------------------------------------------
(* A call that ends, in whatever way, gives its slots back one inside the   *)
(* other. Nothing suspends in between; here other calls may run.            *)
Settle(c, how, left) ==
  /\ pc' = [pc EXCEPT ![c] = IF left = 0 THEN "idle" ELSE how]
  /\ attempts' = [attempts EXCEPT ![c] = IF left = 0 THEN 0 ELSE @]

QuitUngranted(c) == \* mutant: forgets the slot it had just been granted
  /\ Dequeue(c)
  /\ value' = value /\ granted' = granted \ {c}

\* the semaphore's acquire() is cancelled: a slot already granted goes on
Quit(c) ==
  /\ Dequeue(c)
  /\ IF c \in granted
       THEN Wake(value + 1, waiters', granted \ {c})
       ELSE UNCHANGED <<value, granted>>

\* queue_timeout
TimedOut(c) ==
  /\ pc[c] = "waiting"
  /\ Quit(c)
  /\ queued' = queued - 1
  /\ Settle(c, "failing", slots[c])
  /\ UNCHANGED <<active, slots, cancels>>

Uncount == IF queued > 0 THEN queued - 1 ELSE queued

CancelWaiting(c) ==
  /\ cancels < MaxCancels
  /\ cancels' = cancels + 1
  /\ pc[c] = "waiting"
  /\ Quit(c)
  /\ queued' = Uncount
  /\ Settle(c, "cancelled", slots[c])
  /\ UNCHANGED <<active, slots>>

CancelCalling(c) ==
  /\ cancels < MaxCancels
  /\ cancels' = cancels + 1
  /\ pc[c] = "calling"
  /\ pc' = [pc EXCEPT ![c] = "cancelled"]
  /\ UNCHANGED <<semVars, active, queued, slots, attempts>>

LeaveTwice(c) == \* mutant: on the way of a cancellation both handlers release
  /\ pc[c] \in {"calling", "failing", "cancelled"}
  /\ active' = active - 1
  /\ Wake(IF pc[c] = "cancelled" THEN value + 2 ELSE value + 1, waiters, granted)
  /\ queued' = IF pc[c] = "cancelled" THEN Uncount ELSE queued
  /\ slots' = [slots EXCEPT ![c] = @ - 1]
  /\ Settle(c, pc[c], slots[c] - 1)
  /\ UNCHANGED <<waiters, cancels>>

(* The inner finally gives a slot back; on a CancelledError the outer       *)
(* handler then takes the call for one that was still queued.               *)
Leave(c) ==
  /\ pc[c] \in {"calling", "failing", "cancelled"}
  /\ active' = active - 1
  /\ Wake(value + 1, waiters, granted)
  /\ queued' = IF pc[c] = "cancelled" THEN Uncount ELSE queued
  /\ slots' = [slots EXCEPT ![c] = @ - 1]
  /\ Settle(c, pc[c], slots[c] - 1)
  /\ UNCHANGED <<waiters, cancels>>

-----------------------------------------------------------------------------
Next ==
  \E c \in Calls :
    \/ Ask(c) \/ AskAgain(c) \/ Proceed(c) \/ TimedOut(c)
    \/ CancelWaiting(c) \/ CancelCalling(c) \/ Leave(c)

Spec == Init /\ [][Next]_vars

(* Requests end (each has a hard timeout), woken calls run, and a call that *)
(* waits with slots in its hands times out. The timeout of a call that      *)
(* holds nothing is not relied on.                                          *)
FairSpec ==
  /\ Spec
  /\ \A c \in Calls : /\ WF_vars(Proceed(c)) /\ WF_vars(Leave(c))
                      /\ WF_vars(slots[c] > 0 /\ TimedOut(c))

-----------------------------------------------------------------------------
(* The type of every variable. queued may fall below zero.                  *)
TypeOK ==
  /\ value \in 0..MaxConcurrent
  /\ waiters \in Seq(Calls) /\ granted \subseteq Calls
  /\ active \in Nat /\ queued \in Int
  /\ pc \in [Calls -> {"idle", "waiting", "calling", "failing", "cancelled"}]
  /\ slots \in [Calls -> 0..MaxAttempts]
  /\ attempts \in [Calls -> 0..MaxAttempts]
  /\ cancels \in 0..MaxCancels

(* acquire(): whatever mixture of timeouts, cancellations and calls within  *)
(* calls, no slot is lost or made up: each is free, promised to a woken     *)
(* call or held, and active_requests counts the held ones.                  *)
SlotsExact ==
  /\ active = Cardinality(Held)
  /\ value + Cardinality(granted) + Cardinality(Held) = MaxConcurrent

(* No lost wakeup: when a slot is free nobody sleeps in the queue unless a  *)
(* woken call, which hands the wakeup on, has still to run.                 *)
NoLostWakeup ==
  value > 0 /\ (\E i \in DOMAIN waiters : waiters[i] \notin granted) => granted # {}

(* queued_count never counts more calls than wait, and is exact until the   *)
(* first cancellation.                                                      *)
QueueNotOvercounted ==
  /\ queued <= Len(waiters)
  /\ cancels = 0 => queued = Len(waiters)

(* Every call that waits for a slot gets it or gives up, although calls     *)
(* that hold slots wait for more of them.                                   *)
Served == \A c \in Calls : pc[c] = "waiting" ~> pc[c] # "waiting"

(* The slots, those taken inside one another included, are those of the     *)
(* abstract controller: at most MaxConcurrent are held at any time.         *)
AbstractSlots == INSTANCE Slots WITH Clients  <- Calls \X Levels,
                                     Capacity <- MaxConcurrent,
                                     holders  <- Held
ImplementsSlots == AbstractSlots!Spec

-----------------------------------------------------------------------------
(* ask(): "Hold one concurrency slot for the entire retry loop so that      *)
(* retry storms ... cannot exhaust all available semaphore slots            *)
(* simultaneously": the slots are never all held by calls that wait for one *)
(* more to retry with.                                                      *)
RetriesLeaveSlots ==
  ~(/\ Cardinality(Held) = MaxConcurrent
    /\ \A h \in Held : pc[h[1]] = "waiting")

(* queued_count: "Current number of queued (waiting) requests".             *)
QueueExact == queued = Len(waiters)
=============================================================================
