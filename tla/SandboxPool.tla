----------------------------- MODULE SandboxPool -----------------------------
(***************************************************************************)
(* SandboxPool over DockerSandbox: a bounded queue of warm containers, the *)
(* tasks that fill it, pause and evict what is idle in it and reap orphan  *)
(* containers, and the sessions that acquire from it.                      *)
(*                                                                         *)
(* The tasks share one event loop: what a task does between two awaits is  *)
(* one step. Getting from a queue that is not empty and putting into one   *)
(* that is not full do not suspend.                                        *)
(***************************************************************************)
EXTENDS Naturals, Sequences, SequencesExt, FiniteSets

CONSTANTS Boxes,      \* sandbox ids; bound: containers that exist or are remembered
          Sessions,   \* session creations, each of which acquires a sandbox once
          Tasks,      \* bound: replenishments under way at once
          MinSize, MaxSize,   \* sandbox_pool_min_size, sandbox_pool_max_size
          PauseIdle,  \* sandbox_pool_pause_idle
          OomMonitor, \* sandbox_oom_monitor_enabled
          Reaping,    \* sandbox_name_prefix is not empty
          MayStop,    \* whether the process is stopped or crashes
          MaxFails,   \* _max_consecutive_failures
          MaxRetries, \* max_health_retries of acquire()
          MaxFaults,  \* bound: failures, cancellations, crashes and stops
          None

ASSUME SizesAssumption ==
  /\ MinSize \in Nat \ {0} /\ MaxSize \in Nat /\ MinSize <= MaxSize
  /\ MaxFails \in Nat \ {0} /\ MaxRetries \in Nat /\ MaxFaults \in Nat
ASSUME SettingsAssumption == {PauseIdle, OomMonitor, Reaping, MayStop} \subseteq BOOLEAN
ASSUME NamesAssumption ==
  /\ {None, "idle", "check"} \cap Boxes = {}
  /\ "loop" \notin Tasks

VARIABLES
  \* the Docker host
  box,       \* state of each container, and age: 0 young, 1 past the grace
             \* period of the reaper, 2 past the idle TTL of the pool
  \* the pool object
  phase,     \* "up", "stopping", "stopped": _started and _stopping
  pool,      \* _pool
  stamps,    \* keys of _pool_timestamps
  pausedIds, \* _paused_ids
  fails,     \* _consecutive_failures
  breaker,   \* "closed", "open", "due": open, its reset time reached
  \* its tasks
  spin,      \* a task runs without ever suspending
  fill,      \* runs of _warm_pool: not running, testing the size, or creating
  pauser,    \* _deferred_pause of each sandbox
  loop,      \* _warm_pool_loop and _evict_stale_sandboxes
  reaper,    \* _reap_orphan_containers
  \* its callers
  user,
  faults

breakerVars == <<fails, breaker, spin>>
taskVars    == <<fill, pauser, loop, reaper>>
poolVars    == <<phase, pool, stamps, pausedIds>>
vars == <<box, poolVars, breakerVars, taskVars, user, faults>>

Fills == Tasks \cup {"loop"}
Stopping == phase # "up"

Gone      == [state |-> "gone", age |-> 0]
Running   == [state |-> "running", age |-> 0]
Exists(b) == box[b] # Gone
Filling    == {fill[f] : f \in Fills} \cap Boxes
Saved      == {"bound", "waiting"}
HasBox     == {"unpausing", "held"} \cup Saved
Used       == {user[c].box : c \in {d \in Sessions : user[d].pc \in HasBox}}
SavedBoxes == {user[c].box : c \in {d \in Sessions : user[d].pc \in Saved}}
\* what the provider of active sandbox ids asks the database for: not "waiting"
Leased     == {user[c].box : c \in {d \in Sessions : user[d].pc = "bound"}}
Pooled     == Range(pool) \cup Range(loop.kept)

\* an id that nothing refers to any more: the next container's
Unknown(b) ==
  /\ ~Exists(b) /\ pauser[b] = "none"
  /\ b \notin stamps \cup pausedIds \cup Pooled \cup Filling \cup {loop.victim}
  /\ b \notin reaper.cands
  /\ \A c \in Sessions : user[c].box # b

NoReap == [pc |-> "idle", cands |-> {}]
Asleep == [pc |-> "sleep", stale |-> {}, kept |-> <<>>, victim |-> None]
NoUser == [pc |-> "idle", box |-> None, tries |-> 0]
Over   == [NoUser EXCEPT !.pc = "over"]

Fault ==
  /\ faults < MaxFaults
  /\ faults' = faults + 1

-----------------------------------------------------------------------------
(* start(): the maintenance loop sleeps first, one task warms the pool.     *)
Started(t) == [f \in Fills |-> IF f = t THEN "check" ELSE "idle"]

Init ==
  /\ box = [b \in Boxes |-> Gone]
  /\ phase = "up" /\ pool = <<>> /\ stamps = {} /\ pausedIds = {}
  /\ fails = 0 /\ breaker = "closed" /\ spin = FALSE
  /\ \E t \in Tasks : fill = Started(t)
  /\ pauser = [b \in Boxes |-> "none"]
  /\ loop = Asleep /\ reaper = NoReap
  /\ user = [c \in Sessions |-> NoUser]
  /\ faults = 0

(* Time. A sandbox is created, verified and paused (5 s after it is put)    *)
(* within the reaper's grace period of 120 s.                               *)
Ages(b) ==
  /\ Exists(b) /\ box[b].age < 2
  /\ pauser[b] = "none" /\ b \notin Filling
  /\ box[b].age = 1 => b \in stamps
  /\ box' = [box EXCEPT ![b].age = @ + 1]
  /\ UNCHANGED <<poolVars, breakerVars, taskVars, user, faults>>

BackoffOver ==
  /\ breaker = "open"
  /\ breaker' = "due" /\ spin' = FALSE
  /\ UNCHANGED <<box, poolVars, fails, taskVars, user, faults>>

(* The container's main process exits.                                      *)
Exits(b) ==
  /\ Fault
  /\ box[b].state = "running"
  /\ box' = [box EXCEPT ![b].state = "exited"]
  /\ UNCHANGED <<poolVars, breakerVars, taskVars, user>>

-----------------------------------------------------------------------------
EnoughButOne(f) == \* mutant: content with one sandbox less
  /\ fill[f] = "check"
  /\ ~spin
  /\ Len(pool) + 1 >= MinSize \/ Stopping
  /\ fill' = [fill EXCEPT ![f] = "idle"]
  /\ UNCHANGED <<box, poolVars, breakerVars, pauser, loop, reaper, user, faults>>

(* _warm_pool. The test of its loop follows the last put or failure without *)
(* a suspension; here other tasks may run before it, which only adds to     *)
(* what can happen.                                                         *)
EnoughOrStopping(f) ==
  /\ fill[f] = "check"
  /\ ~spin
  /\ Len(pool) >= MinSize \/ Stopping
  /\ fill' = [fill EXCEPT ![f] = "idle"]
  /\ UNCHANGED <<box, poolVars, breakerVars, pauser, loop, reaper, user, faults>>

MemoryPressure(f) ==
  /\ Fault
  /\ fill[f] = "check"
  /\ ~spin
  /\ fill' = [fill EXCEPT ![f] = "idle"]
  /\ UNCHANGED <<box, poolVars, breakerVars, pauser, loop, reaper, user>>

Wanted(f) ==
  /\ fill[f] = "check"
  /\ ~spin
  /\ Len(pool) < MinSize /\ ~Stopping

(* _create_and_verify_sandbox returns None at once, and the loop of         *)
(* _warm_pool asks again: no await suspends before the reset time.          *)
CircuitOpen(f) ==
  /\ Wanted(f)
  /\ breaker = "open"
  /\ spin' = TRUE
  /\ UNCHANGED <<box, poolVars, fails, breaker, taskVars, user, faults>>

CreateStart(f) ==
  /\ Wanted(f)
  /\ breaker # "open"
  /\ breaker' = "closed"
  /\ fails' = IF breaker = "due" THEN 0 ELSE fails
  /\ \E b \in Boxes :
       /\ Unknown(b)
       /\ box' = [box EXCEPT ![b] = Running]
       /\ fill' = [fill EXCEPT ![f] = b]
  /\ UNCHANGED <<poolVars, spin, pauser, loop, reaper, user, faults>>

FailedExactly(n) == \* mutant: opens at exactly the threshold
  /\ fails' = n + 1
  /\ breaker' = IF n + 1 = MaxFails THEN "open" ELSE breaker

\* one failure more than n, counted up to the threshold
Failed(n) ==
  /\ fails' = IF n < MaxFails THEN n + 1 ELSE n
  /\ breaker' = IF fails' = MaxFails THEN "open"
                ELSE IF breaker = "due" THEN "closed" ELSE breaker

\* create() raises: the host has no room for another container
CreateRaises(f) ==
  /\ Wanted(f)
  /\ breaker # "open"
  /\ ~\E b \in Boxes : Unknown(b)
  /\ Failed(IF breaker = "due" THEN 0 ELSE fails)
  /\ UNCHANGED <<box, poolVars, spin, taskVars, user, faults>>

(* The sandbox is verified and put, or destroyed when the queue is full.    *)
CreateDone(f) ==
  LET b == fill[f] IN
  /\ b \in Boxes
  /\ ~spin
  /\ box[b].state = "running"
  /\ fails' = 0
  /\ IF Len(pool) < MaxSize
       THEN /\ pool' = Append(pool, b)
            /\ stamps' = stamps \cup {b}
            /\ pauser' = [pauser EXCEPT ![b] = IF PauseIdle THEN "delay" ELSE @]
            /\ fill' = [fill EXCEPT ![f] = "check"]
            /\ UNCHANGED box
       ELSE /\ box' = [box EXCEPT ![b] = Gone]
            /\ fill' = [fill EXCEPT ![f] = "idle"]
            /\ UNCHANGED <<pool, stamps, pauser>>
  /\ UNCHANGED <<phase, pausedIds, breaker, spin, loop, reaper, user, faults>>

\* verification raises: nothing destroys the container
CreateFails(f) ==
  /\ fill[f] \in Boxes
  /\ ~spin
  /\ box[fill[f]].state = "running" => Fault
  /\ box[fill[f]].state # "running" => UNCHANGED faults
  /\ Failed(fails)
  /\ fill' = [fill EXCEPT ![f] = "check"]
  /\ UNCHANGED <<box, poolVars, spin, pauser, loop, reaper, user>>

-----------------------------------------------------------------------------
(* _deferred_pause: after the delay, and when pause() has returned.         *)
PauseStart(b) ==
  /\ pauser[b] = "delay"
  /\ ~spin
  /\ IF Stopping \/ b \notin stamps
       THEN /\ pauser' = [pauser EXCEPT ![b] = "none"]
            /\ UNCHANGED stamps
       ELSE /\ pauser' = [pauser EXCEPT ![b] = "pausing"]
            /\ stamps' = stamps \ {b}
  /\ UNCHANGED <<box, phase, pool, pausedIds, breakerVars, fill, loop, reaper,
                 user, faults>>

PauseDoneUnstamped(b) == \* mutant: a failed pause() does not put the stamp back
  /\ pauser[b] = "pausing"
  /\ ~spin
  /\ \/ /\ Exists(b)
        /\ box' = [box EXCEPT ![b].state = IF @ = "running" THEN "paused" ELSE @]
        /\ pausedIds' = pausedIds \cup {b}
        /\ stamps' = stamps \cup {b}
        /\ UNCHANGED faults
     \/ Fault /\ UNCHANGED <<box, pausedIds, stamps>>
  /\ pauser' = [pauser EXCEPT ![b] = "none"]
  /\ UNCHANGED <<phase, pool, breakerVars, fill, loop, reaper, user>>

PauseDone(b) ==
  /\ pauser[b] = "pausing"
  /\ ~spin
  /\ \/ /\ Exists(b)
        /\ box' = [box EXCEPT ![b].state = IF @ = "running" THEN "paused" ELSE @]
        /\ pausedIds' = pausedIds \cup {b}
        /\ UNCHANGED faults
     \/ /\ Exists(b) => Fault
        /\ ~Exists(b) => UNCHANGED faults
        /\ UNCHANGED <<box, pausedIds>>
  /\ stamps' = stamps \cup {b}
  /\ pauser' = [pauser EXCEPT ![b] = "none"]
  /\ UNCHANGED <<phase, pool, breakerVars, fill, loop, reaper, user>>

-----------------------------------------------------------------------------
(* acquire()                                                                *)
Ask(c) ==
  /\ user[c].pc = "idle"
  /\ ~spin /\ ~Stopping
  /\ user' = [user EXCEPT ![c] = [NoUser EXCEPT !.pc = "asking"]]
  /\ UNCHANGED <<box, poolVars, breakerVars, taskVars, faults>>

\* a replenishment is started, unless as many as the bound allows are running
Replenish ==
  IF Stopping \/ \A t \in Tasks : fill[t] # "idle"
    THEN UNCHANGED fill
    ELSE \E t \in Tasks :
           /\ fill[t] = "idle"
           /\ fill' = [fill EXCEPT ![t] = "check"]

GetKeepsStamp(c) == \* mutant: the time stamp is not popped
  LET b == Head(pool) IN
  /\ user[c].pc = "asking" /\ pool # <<>>
  /\ ~spin
  /\ pool' = Tail(pool)
  /\ UNCHANGED stamps
  /\ pausedIds' = pausedIds \ {b}
  /\ IF b \in pausedIds
       THEN /\ user' = [user EXCEPT ![c].pc = "unpausing", ![c].box = b]
            /\ UNCHANGED fill
       ELSE /\ user' = [user EXCEPT ![c] = [pc |-> "held", box |-> b, tries |-> 0]]
            /\ Replenish
  /\ UNCHANGED <<box, phase, breakerVars, pauser, loop, reaper, faults>>

Get(c) ==
  LET b == Head(pool) IN
  /\ user[c].pc = "asking" /\ pool # <<>>
  /\ ~spin
  /\ pool' = Tail(pool)
  /\ stamps' = stamps \ {b}
  /\ pausedIds' = pausedIds \ {b}
  /\ IF b \in pausedIds
       THEN /\ user' = [user EXCEPT ![c].pc = "unpausing", ![c].box = b]
            /\ UNCHANGED fill
       ELSE /\ user' = [user EXCEPT ![c] = [pc |-> "held", box |-> b, tries |-> 0]]
            /\ Replenish
  /\ UNCHANGED <<box, phase, breakerVars, pauser, loop, reaper, faults>>

Unpaused(c) ==
  LET b == user[c].box IN
  /\ user[c].pc = "unpausing"
  /\ ~spin
  /\ box[b].state \in {"running", "paused"}
  /\ box' = [box EXCEPT ![b].state = "running"]
  /\ user' = [user EXCEPT ![c].pc = "held", ![c].tries = 0]
  /\ Replenish
  /\ UNCHANGED <<poolVars, breakerVars, pauser, loop, reaper, faults>>

\* the health check after unpause() fails: destroy, and try again
Unhealthy(c) ==
  LET b == user[c].box IN
  /\ user[c].pc = "unpausing"
  /\ ~spin
  /\ box[b].state \in {"running", "paused"} => Fault
  /\ box[b].state \notin {"running", "paused"} => UNCHANGED faults
  /\ box' = [box EXCEPT ![b] = Gone]
  /\ user' = [user EXCEPT ![c].box = None,
                          ![c].pc = IF user[c].tries < MaxRetries THEN "asking" ELSE "creating",
                          ![c].tries = IF @ < MaxRetries THEN @ + 1 ELSE 0]
  /\ Replenish
  /\ UNCHANGED <<poolVars, breakerVars, pauser, loop, reaper>>

TimedOut(c) ==
  /\ user[c].pc = "asking" /\ pool = <<>>
  /\ ~spin
  /\ user' = [user EXCEPT ![c].pc = "creating", ![c].tries = 0]
  /\ UNCHANGED <<box, poolVars, breakerVars, taskVars, faults>>

OnDemand(c) ==
  /\ user[c].pc = "creating"
  /\ ~spin
  /\ \E b \in Boxes :
       /\ Unknown(b)
       /\ box' = [box EXCEPT ![b] = Running]
       /\ user' = [user EXCEPT ![c].pc = "held", ![c].box = b]
  /\ UNCHANGED <<poolVars, breakerVars, taskVars, faults>>

NoRoom(c) ==
  /\ user[c].pc = "creating"
  /\ ~spin
  /\ ~\E b \in Boxes : Unknown(b)
  /\ user' = [user EXCEPT ![c] = Over]
  /\ UNCHANGED <<box, poolVars, breakerVars, taskVars, faults>>

(* The caller binds the sandbox to its session and saves it. The session    *)
(* may wait for its user. At its end the binding is cleared, and a pooled   *)
(* sandbox is not destroyed. A caller may be cancelled before it saves.     *)
Bind(c) ==
  /\ user[c].pc = "held"
  /\ ~spin
  /\ user' = [user EXCEPT ![c].pc = "bound"]
  /\ UNCHANGED <<box, poolVars, breakerVars, taskVars, faults>>

Waits(c) ==
  /\ user[c].pc \in Saved
  /\ ~spin
  /\ user' = [user EXCEPT ![c].pc = IF @ = "bound" THEN "waiting" ELSE "bound"]
  /\ UNCHANGED <<box, poolVars, breakerVars, taskVars, faults>>

End(c) ==
  /\ user[c].pc \in Saved
  /\ ~spin
  /\ user' = [user EXCEPT ![c] = Over]
  /\ UNCHANGED <<box, poolVars, breakerVars, taskVars, faults>>

Cancelled(c) ==
  /\ Fault
  /\ user[c].pc \in {"asking", "unpausing", "creating", "held"}
  /\ ~spin
  /\ user' = [user EXCEPT ![c] = Over]
  /\ UNCHANGED <<box, poolVars, breakerVars, taskVars>>

-----------------------------------------------------------------------------
WarmsNoGrace(all, known) == \* mutant: the reaper has no grace period
  /\ pool' = all
  /\ loop' = [Asleep EXCEPT !.pc = "warming"]
  /\ fill' = [fill EXCEPT !["loop"] = "check"]
  /\ reaper' = IF reaper.pc = "due"
                 THEN [pc |-> "asking",
                       cands |-> {b \in Boxes : Exists(b)} \ known]
                 ELSE reaper

(* _evict_stale_sandboxes drains the queue up to the next stale sandbox,    *)
(* or, when there is none left, puts back what it kept; the round then goes *)
(* on to the reaper, when it is due, and to _warm_pool.                     *)
Warms(all, known) ==
  /\ pool' = all
  /\ loop' = [Asleep EXCEPT !.pc = "warming"]
  /\ fill' = [fill EXCEPT !["loop"] = "check"]
  /\ reaper' = IF reaper.pc = "due"
                 THEN [pc |-> "asking",
                       cands |-> {b \in Boxes : Exists(b) /\ box[b].age > 0} \ known]
                 ELSE reaper

Requeue(all, known) ==
  IF Len(all) <= MaxSize
    THEN Warms(all, known)
    ELSE /\ pool' = SubSeq(all, 1, MaxSize)
         /\ loop' = [Asleep EXCEPT !.pc = "shedding", !.victim = all[MaxSize + 1],
                                   !.kept = SubSeq(all, MaxSize + 2, Len(all))]
         /\ UNCHANGED <<fill, reaper>>

DrainLeaves(kept, stale, known) == \* mutant: the victim stays in the queue
  LET i == SelectInSeq(pool, LAMBDA b : b \in stale) IN
  IF i = 0
    THEN Requeue(kept \o pool, known)
    ELSE /\ pool' = SubSeq(pool, i, Len(pool))
         /\ loop' = [pc |-> "evicting", stale |-> stale, victim |-> pool[i],
                     kept |-> kept \o SubSeq(pool, 1, i - 1)]
         /\ UNCHANGED <<fill, reaper>>

DrainKeeps(kept, stale, known) == \* mutant: the victim is kept as well
  LET i == SelectInSeq(pool, LAMBDA b : b \in stale) IN
  IF i = 0
    THEN Requeue(kept \o pool, known)
    ELSE /\ pool' = SubSeq(pool, i + 1, Len(pool))
         /\ loop' = [pc |-> "evicting", stale |-> stale, victim |-> pool[i],
                     kept |-> kept \o SubSeq(pool, 1, i)]
         /\ UNCHANGED <<fill, reaper>>

Drain(kept, stale, known) ==
  LET i == SelectInSeq(pool, LAMBDA b : b \in stale) IN
  IF i = 0
    THEN Requeue(kept \o pool, known)
    ELSE /\ pool' = SubSeq(pool, i + 1, Len(pool))
         /\ loop' = [pc |-> "evicting", stale |-> stale, victim |-> pool[i],
                     kept |-> kept \o SubSeq(pool, 1, i - 1)]
         /\ UNCHANGED <<fill, reaper>>

Stale == IF Len(pool) > MinSize THEN {b \in stamps : box[b].age = 2} ELSE {}

LoopRound ==
  /\ loop.pc = "sleep" /\ phase = "up"
  /\ ~spin
  /\ IF Stale = {} THEN Warms(pool, stamps) ELSE Drain(<<>>, Stale, stamps)
  /\ UNCHANGED <<box, phase, stamps, pausedIds, breakerVars, pauser, user, faults>>

\* unpause() and destroy() returned; or one of them timed out
Evict ==
  LET b == loop.victim IN
  /\ loop.pc = "evicting"
  /\ ~spin
  /\ \/ /\ box' = [box EXCEPT ![b] = Gone]
        /\ pausedIds' = pausedIds \ {b}
        /\ UNCHANGED faults
     \/ Fault /\ UNCHANGED <<box, pausedIds>>
  /\ stamps' = stamps \ {b}
  /\ Drain(loop.kept, loop.stale, stamps')
  /\ UNCHANGED <<phase, breakerVars, pauser, user>>

Shed ==
  /\ loop.pc = "shedding"
  /\ ~spin
  /\ box' = [box EXCEPT ![loop.victim] = Gone]
  /\ Requeue(pool \o loop.kept, stamps)
  /\ UNCHANGED <<phase, stamps, pausedIds, breakerVars, pauser, user, faults>>

LoopSleeps ==
  /\ loop.pc = "warming" /\ fill["loop"] = "idle"
  /\ loop' = Asleep
  /\ UNCHANGED <<box, poolVars, breakerVars, fill, pauser, reaper, user, faults>>

-----------------------------------------------------------------------------
(* The reaper runs once in reaper_interval, one run at a time.              *)
ReaperDue ==
  /\ Reaping
  /\ reaper.pc = "idle"
  /\ reaper' = [reaper EXCEPT !.pc = "due"]
  /\ UNCHANGED <<box, poolVars, breakerVars, fill, pauser, loop, user, faults>>

(* _reap_orphan_containers, started with the containers past the grace      *)
(* period whose ids have no time stamp: the provider of leased ids answers, *)
(* with no ids when it fails; then each container that is left is removed.  *)
LeftOf(r) == IF r.cands = {} THEN NoReap ELSE r

ReaperScan ==
  /\ reaper.pc = "asking"
  /\ ~spin
  /\ \E leases \in {Leased, {}} :
       /\ IF leases # Leased THEN Fault ELSE UNCHANGED faults
       /\ reaper' = LeftOf([pc |-> "removing",
                              cands |-> {b \in reaper.cands : Exists(b)} \ leases])
  /\ UNCHANGED <<box, poolVars, breakerVars, fill, pauser, loop, user>>

ReaperRemove(b) ==
  /\ b \in reaper.cands
  /\ ~spin
  /\ box' = [box EXCEPT ![b] = Gone]
  /\ reaper' = LeftOf([reaper EXCEPT !.cands = @ \ {b}])
  /\ UNCHANGED <<poolVars, breakerVars, fill, pauser, loop, user, faults>>

(* A container of the host died of signal 9: reading container_id, which a  *)
(* DockerSandbox has not, raises after the first sandbox was taken.         *)
DieEvent ==
  /\ OomMonitor /\ ~Stopping
  /\ ~spin
  /\ pool # <<>>
  /\ pool' = Tail(pool)
  /\ UNCHANGED <<box, phase, stamps, pausedIds, breakerVars, taskVars, user, faults>>

-----------------------------------------------------------------------------
(* stop(): the maintenance loop is cancelled wherever it is, its locals and *)
(* the sandbox it creates are lost; other tasks go on.                      *)
Stop ==
  /\ MayStop
  /\ Fault
  /\ phase = "up"
  /\ ~spin
  /\ phase' = "stopping"
  /\ loop' = [Asleep EXCEPT !.pc = "off"]
  /\ fill' = [fill EXCEPT !["loop"] = "idle"]
  /\ UNCHANGED <<box, pool, stamps, pausedIds, breakerVars, pauser, reaper, user>>

StopOne ==
  /\ phase = "stopping" /\ pool # <<>>
  /\ ~spin
  /\ \/ /\ box' = [box EXCEPT ![Head(pool)] = Gone]
        /\ pausedIds' = pausedIds \ {Head(pool)}
        /\ UNCHANGED faults
     \/ Fault /\ UNCHANGED <<box, pausedIds>>
  /\ stamps' = stamps \ {Head(pool)}
  /\ pool' = Tail(pool)
  /\ UNCHANGED <<phase, breakerVars, taskVars, user>>

StopEnd ==
  /\ phase = "stopping" /\ pool = <<>>
  /\ ~spin
  /\ phase' = "stopped"
  /\ stamps' = {} /\ pausedIds' = {}
  /\ UNCHANGED <<box, pool, breakerVars, taskVars, user, faults>>

(* The process ends, or crashes, and starts again. Containers and saved     *)
(* sessions stay.                                                           *)
Restart ==
  /\ MayStop
  /\ IF phase = "stopped" THEN UNCHANGED faults ELSE Fault
  /\ phase' = "up" /\ pool' = <<>> /\ stamps' = {} /\ pausedIds' = {}
  /\ fails' = 0 /\ breaker' = "closed" /\ spin' = FALSE
  /\ \E t \in Tasks : fill' = Started(t)
  /\ pauser' = [b \in Boxes |-> "none"]
  /\ loop' = Asleep /\ reaper' = NoReap
  /\ user' = [c \in Sessions |-> IF user[c].pc \in Saved THEN user[c] ELSE Over]
  /\ UNCHANGED box

-----------------------------------------------------------------------------
Fill(f)   == \/ EnoughOrStopping(f) \/ MemoryPressure(f) \/ CircuitOpen(f)
             \/ CreateStart(f) \/ CreateRaises(f) \/ CreateDone(f) \/ CreateFails(f)
Answer(c) == \/ Get(c) \/ Unpaused(c) \/ Unhealthy(c) \/ TimedOut(c)
             \/ OnDemand(c) \/ NoRoom(c)
Loop      == LoopRound \/ Evict \/ Shed \/ LoopSleeps
Reaps     == ReaperDue \/ ReaperScan \/ \E b \in Boxes : ReaperRemove(b)
Stops     == StopOne \/ StopEnd

Next ==
  \/ \E b \in Boxes : Ages(b) \/ Exits(b) \/ PauseStart(b) \/ PauseDone(b)
  \/ \E f \in Fills : Fill(f)
  \/ \E c \in Sessions : Ask(c) \/ Answer(c) \/ Bind(c) \/ Waits(c) \/ End(c) \/ Cancelled(c)
  \/ Loop \/ Reaps
  \/ BackoffOver \/ DieEvent \/ Stop \/ Stops \/ Restart

Spec == Init /\ [][Next]_vars

(* Docker calls return or time out, the event loop runs what is ready when  *)
(* it is not kept busy, and time passes. A creation that has returned is    *)
(* ready although the loop may be busy in between. Sessions need not ask,   *)
(* and need not end.                                                        *)
FairSpec ==
  /\ Spec
  /\ \A b \in Boxes : WF_vars(Ages(b))
  /\ WF_vars(\E b \in Boxes : PauseStart(b) \/ PauseDone(b))
  /\ \A f \in Fills : WF_vars(Fill(f)) /\ SF_vars(CreateDone(f) \/ CreateFails(f))
  /\ \A c \in Sessions : WF_vars(Answer(c)) /\ WF_vars(Bind(c))
  /\ WF_vars(Loop) /\ WF_vars(Reaps) /\ WF_vars(Stops) /\ WF_vars(BackoffOver)

-----------------------------------------------------------------------------
(* The type of every variable.                                              *)
TypeOK ==
  /\ box \in [Boxes -> [state : {"gone", "running", "paused", "exited"}, age : 0..2]]
  /\ phase \in {"up", "stopping", "stopped"}
  /\ pool \in Seq(Boxes) /\ Len(pool) <= MaxSize
  /\ stamps \subseteq Boxes /\ pausedIds \subseteq Boxes
  /\ fails \in 0..MaxFails
  /\ breaker \in {"closed", "open", "due"} /\ spin \in BOOLEAN
  /\ fill \in [Fills -> Boxes \cup {"idle", "check"}]
  /\ pauser \in [Boxes -> {"none", "delay", "pausing"}]
  /\ loop \in [pc : {"sleep", "evicting", "shedding", "warming", "off"},
               stale : SUBSET Boxes, kept : Seq(Boxes), victim : Boxes \cup {None}]
  /\ reaper \in [pc : {"idle", "due", "asking", "removing"}, cands : SUBSET Boxes]
  /\ user \in [Sessions -> [pc : {"idle", "asking", "creating", "over"} \cup HasBox,
                            box : Boxes \cup {None}, tries : 0..MaxRetries]]
  /\ faults \in 0..MaxFaults

(* A sandbox is in one pair of hands: it is not twice in the queue, the     *)
(* eviction that drains and refills the queue neither loses count of it nor *)
(* duplicates it, and no two sessions are given the same one.               *)
Exclusive ==
  LET victims == IF loop.pc \in {"evicting", "shedding"} THEN <<loop.victim>> ELSE <<>>
      queued  == pool \o loop.kept \o victims
      filling == {f \in Fills : fill[f] \in Boxes}
      users   == {c \in Sessions : user[c].pc \in HasBox}
  IN /\ IsInjective(queued)
     /\ \A f \in filling, g \in filling : fill[f] = fill[g] => f = g
     /\ \A c \in users, d \in users : user[c].box = user[d].box => c = d
     /\ Range(queued) \cap (Used \cup Filling) = {}
     /\ Used \cap Filling = {}

(* Whatever waits in the pool, or in the hands of the eviction, has a time  *)
(* stamp, by which eviction and reaper know it, unless its deferred pause   *)
(* is under way.                                                            *)
Tracked == \A b \in Pooled : b \in stamps \/ pauser[b] = "pausing"

(* The reaper never sets out to remove a sandbox that the pool creates or   *)
(* holds, although it knows them from a snapshot taken three awaits before. *)
ReaperSparesPool == reaper.cands \cap (Pooled \cup Filling) = {}

(* While a session has a sandbox, nothing but the reaper removes it: not an *)
(* eviction, an overflowing queue, another session or stop().               *)
OnlyReaperRemoves ==
  [][\A c \in Sessions :
       user[c].pc \in {"held"} \cup Saved /\ Exists(user[c].box)
         => box'[user[c].box] # Gone \/ user[c].box \in reaper.cands]_vars

-----------------------------------------------------------------------------
(* The pool is full to its minimum again and again while it is up, however  *)
(* often sessions empty it and creations fail.                              *)
Refills == []<>(Len(pool) >= MinSize \/ Stopping)

(* _reap_orphan_containers: "destroy sandbox containers not tracked by pool *)
(* or active sessions": a container nobody holds is removed in the end.     *)
Orphan(b) ==
  Exists(b) /\ b \notin Pooled \cup Filling \cup Used \cup {loop.victim}

Reclaimed == \A b \in Boxes : Orphan(b) ~> ~Orphan(b) \/ Stopping

-----------------------------------------------------------------------------
(* What comments of the code promise and the code does not keep. Each is    *)
(* refuted by MCSandboxPool, with its own configuration or with one of      *)
(* Crash, Minimum and Leased; DieEvent, and a host on which creation fails  *)
(* at once, refute Reclaimed, whose run leaves both away.                   *)

(* _continuous_health_monitor: "Continuously monitor pooled sandboxes for   *)
(* crashes": one whose container exited leaves the pool.                    *)
CrashDetected ==
  \A b \in Boxes : b \in Pooled /\ box[b].state = "exited" ~> b \notin Pooled

(* _deferred_pause reserves the sandbox "to prevent TOCTOU race with        *)
(* concurrent acquire()": what a session has is not paused.                 *)
NotPausedInUse ==
  \A c \in Sessions : user[c].pc \in {"held"} \cup Saved => box[user[c].box].state # "paused"

(* _evict_stale_sandboxes "Only evicts down to min_size to always keep      *)
(* minimum warm".                                                           *)
KeepsMinimum ==
  [][loop.pc = "sleep" /\ loop'.pc = "evicting"
       => Cardinality(Range(pool) \ loop'.stale) >= MinSize]_vars

(* stop(): "Stop the pool warmer and cleanup all pooled sandboxes".         *)
StopEmpties == phase = "stopped" => pool = <<>>

(* The reaper "never kills containers still leased by active sessions".     *)
LeasedSpared ==
  [][reaper.pc = "asking" /\ reaper'.pc = "removing"
       => reaper'.cands \cap SavedBoxes = {}]_vars

(* _create_and_verify_sandbox "Includes circuit breaker to prevent rapid    *)
(* failure loops": no task keeps the event loop to itself.                  *)
NoBusyLoop == ~spin
=============================================================================
