--------------------------- MODULE ExecutionSlots ---------------------------
(***************************************************************************)
(* Execution admission of AgentDomainService: every chat stream takes one  *)
(* of MaxSlots execution slots before it relays the events of its task.    *)
(* Two workload classes compete; interactive work goes first, but no more  *)
(* than Burst times in a row while heavy work waits.                       *)
(*                                                                         *)
(* The service runs on one asyncio loop. The critical sections under the   *)
(* admission lock contain no await, so the lock is never contended and a   *)
(* poll of the wait loop is one atomic step.                               *)
(***************************************************************************)
EXTENDS Naturals, FiniteSets

CONSTANTS Sessions,  \* sessions with one chat stream each
          MaxSlots,  \* settings.max_concurrent_executions
          Burst,     \* MAX_INTERACTIVE_EXECUTION_BURST
          None

ASSUME SessionsFinite == IsFiniteSet(Sessions)
ASSUME SlotsPositive  == MaxSlots \in Nat \ {0}
ASSUME BurstPositive  == Burst \in Nat \ {0}

Interactive == "interactive"
Heavy       == "heavy"
Classes     == {Interactive, Heavy}

ASSUME NoneIsNoClass == None \notin Classes

VARIABLES
  \* one entry per session: its chat() generator and its background task
  pc,           \* where the chat stream is in the acquisition of its slot
  class,        \* session.workload_class, sticky once classified
  running,      \* the task's runner executes (LLM and tools)
  \* the service's counters
  waiting,      \* _waiting_execution_slots
  slotsInUse,   \* _execution_slots_in_use
  semaphore,    \* value of _agent_execution_semaphore
  lastClass,    \* _last_execution_slot_class
  consecutive,  \* _consecutive_execution_slot_grants, saturated at Burst + 1
  \* history: interactive grants since heavy work waits without a grant,
  \* saturated at Burst + 1
  bypassed

counters == <<waiting, slotsInUse, semaphore, lastClass, consecutive>>
vars     == <<pc, class, running, counters, bypassed>>

(***************************************************************************)
(* polling  first acquisition, under the 5 s timeout                       *)
(* notified timed out, the WAITING progress event is with the client       *)
(* requeued second acquisition, without a timeout                          *)
(* reserved slot counted, blocked on the semaphore; NoBlockedReservation   *)
(*          shows that no stream gets here, so no action leaves it         *)
(***************************************************************************)
Stages  == {"idle", "polling", "notified", "requeued", "reserved", "executing"}
Waiting == {"polling", "requeued"}

Waiters(c) == {s \in Sessions : pc[s] \in Waiting /\ class[s] = c}
Executing  == {s \in Sessions : pc[s] = "executing"}

-----------------------------------------------------------------------------
(* Slips the runs must notice. *)
NextClassOffByOne(w) ==
  IF w[Interactive] > 0
  THEN IF w[Heavy] > 0 /\ lastClass = Interactive /\ consecutive > Burst
       THEN Heavy ELSE Interactive
  ELSE IF w[Heavy] > 0 THEN Heavy ELSE None

NextClassNoBurst(w) ==
  IF w[Interactive] > 0 THEN Interactive
  ELSE IF w[Heavy] > 0 THEN Heavy ELSE None

(* _select_next_execution_workload_class *)
NextClass(w) ==
  IF w[Interactive] > 0
  THEN IF w[Heavy] > 0 /\ lastClass = Interactive /\ consecutive >= Burst
       THEN Heavy ELSE Interactive
  ELSE IF w[Heavy] > 0 THEN Heavy ELSE None

(* _record_execution_slot_grant *)
RecordGrant(c) ==
  /\ lastClass' = c
  /\ consecutive' = IF lastClass # c THEN 1
                    ELSE IF consecutive > Burst THEN consecutive
                    ELSE consecutive + 1

(* the history of the grants, as seen by the heavy sessions that wait *)
RecordBypass(c) ==
  bypassed' = IF c # Interactive \/ Waiters(Heavy) = {} THEN 0
              ELSE IF bypassed > Burst THEN bypassed
              ELSE bypassed + 1

Admits(c, w) == NextClass(w) = c /\ slotsInUse < MaxSlots

(* the tail of _acquire_execution_slot: count the slot, take the semaphore *)
Grant(s, c, w) ==
  /\ Admits(c, w)
  /\ waiting' = [w EXCEPT ![c] = @ - 1]
  /\ slotsInUse' = slotsInUse + 1
  /\ RecordGrant(c)
  /\ RecordBypass(c)
  /\ semaphore' = IF semaphore > 0 THEN semaphore - 1 ELSE 0
  /\ pc' = [pc EXCEPT ![s] = IF semaphore > 0 THEN "executing" ELSE "reserved"]

(* one call of _acquire_execution_slot: register, look once, else sleep *)
Acquire(s, c, stage) ==
  LET registered == [waiting EXCEPT ![c] = @ + 1]
  IN  \/ Grant(s, c, registered)
      \/ /\ ~Admits(c, registered)
         /\ waiting' = registered
         /\ pc' = [pc EXCEPT ![s] = stage]
         /\ UNCHANGED <<slotsInUse, semaphore, lastClass, consecutive, bypassed>>

(* a cancelled waiter that stays counted *)
DecrementForgotten(c) == [waiting EXCEPT ![c] = IF @ = 0 THEN 0 ELSE @]

(* _decrement_waiting_execution_slot *)
Decrement(c) == [waiting EXCEPT ![c] = IF @ = 0 THEN 0 ELSE @ - 1]

(* the waiting heavy sessions once s has left the queue, for the history *)
KeepBypass(s) ==
  bypassed' = IF Waiters(Heavy) \subseteq {s} THEN 0 ELSE bypassed

-----------------------------------------------------------------------------
Init ==
  /\ pc          = [s \in Sessions |-> "idle"]
  /\ class       = [s \in Sessions |-> None]
  /\ running     = [s \in Sessions |-> FALSE]
  /\ waiting     = [c \in Classes |-> 0]
  /\ slotsInUse  = 0
  /\ semaphore   = MaxSlots
  /\ lastClass   = None
  /\ consecutive = 0
  /\ bypassed    = 0

(* chat(): a message starts the task before the slot is asked for; a       *)
(* reconnecting stream has no message and starts nothing.                  *)
Chat(s) ==
  /\ pc[s] = "idle"
  /\ \E c \in IF class[s] = None THEN Classes ELSE {class[s]} :
       /\ class' = [class EXCEPT ![s] = c]
       /\ Acquire(s, c, "polling")
  /\ \E hasMessage \in BOOLEAN :
       running' = [running EXCEPT ![s] = @ \/ hasMessage]

(* 10 ms later the waiter looks again *)
Poll(s) ==
  /\ pc[s] \in Waiting
  /\ Grant(s, class[s], waiting)
  /\ UNCHANGED <<class, running>>

(* asyncio.wait_for cancels the first acquisition after 5 s *)
TimeOut(s) ==
  /\ pc[s] = "polling"
  /\ pc' = [pc EXCEPT ![s] = "notified"]
  /\ waiting' = Decrement(class[s])
  /\ KeepBypass(s)
  /\ UNCHANGED <<class, running, slotsInUse, semaphore, lastClass, consecutive>>

(* the client took the progress event: ask again, for as long as it takes *)
Retry(s) ==
  /\ pc[s] = "notified"
  /\ Acquire(s, class[s], "requeued")
  /\ UNCHANGED <<class, running>>

(* a disconnect whose finally releases a slot that was never granted *)
CancelReleases(s) ==
  /\ pc[s] \in Waiting \cup {"notified"}
  /\ waiting' = IF pc[s] \in Waiting THEN Decrement(class[s]) ELSE waiting
  /\ KeepBypass(s)
  /\ semaphore' = semaphore + 1
  /\ slotsInUse' = slotsInUse - 1
  /\ pc' = [pc EXCEPT ![s] = "idle"]
  /\ UNCHANGED <<class, running, lastClass, consecutive>>

(* the client disconnects before the slot is granted *)
Cancel(s) ==
  /\ \/ /\ pc[s] \in Waiting
        /\ waiting' = Decrement(class[s])
        /\ KeepBypass(s)
     \/ /\ pc[s] = "notified"
        /\ UNCHANGED <<waiting, bypassed>>
  /\ pc' = [pc EXCEPT ![s] = "idle"]
  /\ UNCHANGED <<class, running, slotsInUse, semaphore, lastClass, consecutive>>

(* chat()'s finally: _release_execution_slot. The stream ends on a terminal *)
(* event, on a wait event and on a disconnect; the task is not asked.       *)
Release(s) ==
  /\ pc[s] = "executing"
  /\ pc' = [pc EXCEPT ![s] = "idle"]
  /\ semaphore' = semaphore + 1
  /\ slotsInUse' = IF slotsInUse = 0 THEN 0 ELSE slotsInUse - 1
  /\ UNCHANGED <<class, running, waiting, lastClass, consecutive, bypassed>>

(* the background task ends *)
Finish(s) ==
  /\ running[s]
  /\ running' = [running EXCEPT ![s] = FALSE]
  /\ UNCHANGED <<pc, class, counters, bypassed>>

Next ==
  \E s \in Sessions :
    \/ Chat(s) \/ Poll(s) \/ TimeOut(s) \/ Retry(s)
    \/ Cancel(s) \/ Release(s) \/ Finish(s)

Spec == Init /\ [][Next]_vars

(***************************************************************************)
(* Fairness: a sleeping waiter is woken every 10 ms, a client that was     *)
(* told to wait asks again or goes away, a stream with a slot ends (its    *)
(* task ends, or the orphan timeout cancels it).                           *)
(***************************************************************************)
Fairness ==
  \A s \in Sessions :
    /\ WF_vars(Poll(s))
    /\ WF_vars(Retry(s) \/ Cancel(s))
    /\ WF_vars(Release(s))

FairSpec == Spec /\ Fairness

-----------------------------------------------------------------------------
TypeOK ==
  /\ pc \in [Sessions -> Stages]
  /\ class \in [Sessions -> Classes \cup {None}]
  /\ running \in [Sessions -> BOOLEAN]
  /\ waiting \in [Classes -> Nat]
  /\ slotsInUse \in Nat
  /\ semaphore \in Nat
  /\ lastClass \in Classes \cup {None}
  /\ consecutive \in 0..(Burst + 1)
  /\ bypassed \in 0..(Burst + 1)

(***************************************************************************)
(* The counters agree with the streams they count, whatever the order of   *)
(* grants, timeouts, cancellations and releases: a waiter cancelled at its *)
(* poll is uncounted once, and the two records of the slots in use, the    *)
(* counter and the semaphore, never drift apart.                           *)
(***************************************************************************)
SlotAccounting ==
  /\ slotsInUse = Cardinality(Executing)
  /\ slotsInUse + semaphore = MaxSlots
  /\ \A c \in Classes : waiting[c] = Cardinality(Waiters(c))

(***************************************************************************)
(* The admission check makes the semaphore redundant: a stream that was    *)
(* granted a slot never blocks on it while the slot is counted as used.    *)
(***************************************************************************)
NoBlockedReservation == \A s \in Sessions : pc[s] # "reserved"

(***************************************************************************)
(* MAX_INTERACTIVE_EXECUTION_BURST: while a heavy session waits, at most   *)
(* Burst interactive sessions are granted a slot before a heavy one is.    *)
(***************************************************************************)
HeavyBypassBounded == bypassed <= Burst

(***************************************************************************)
(* No class is starved: if from some time on a class always has a waiter,  *)
(* slots keep being granted to that class.                                 *)
(***************************************************************************)
GrantedTo(c) ==
  \E s \in Sessions :
    class'[s] = c /\ pc[s] # "executing" /\ pc'[s] = "executing"

ClassProgress ==
  \A c \in Classes :
    <>[](waiting[c] > 0) => []<><<GrantedTo(c)>>_vars

(***************************************************************************)
(* The streams with a slot are the holders of an admission controller of   *)
(* MaxSlots slots.                                                         *)
(***************************************************************************)
Admission == INSTANCE Slots WITH
  Clients  <- Sessions,
  Capacity <- MaxSlots,
  holders  <- Executing

ImplementsSlots == Admission!Spec

(***************************************************************************)
(* "_agent_execution_semaphore: limits concurrent LLM execution loops":    *)
(* no more than MaxSlots tasks run at a time.                              *)
(***************************************************************************)
ExecutionLoopsBounded == Cardinality({s \in Sessions : running[s]}) <= MaxSlots
=============================================================================
