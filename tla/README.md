# TLA+ model of Pythinker

This directory holds TLA+ specifications of the concurrent core of Pythinker, the TLC
configurations that check them on small instances, and theorems about them that
TLAPS checks for every value of the constants. Paths below are relative to the
repository root; the checked-out sources are cited under `src/`.

## 1. The system

Pythinker runs AI agents in sandboxed containers. A Vue front end talks over SSE to a
FastAPI backend (`backend/app`). The backend is one Python 3.12 process on one asyncio
loop per instance: the code between two awaits that suspend is atomic, and everything
else interleaves. State lives in four places: the process (registries, locks, counters,
pools), Redis (streams, locks, liveness keys), MongoDB (session documents, memories,
outbox) and Docker (containers).

One user message travels like this: `AgentDomainService.chat` creates or finds a task
under a per-session lock (`AgentTaskFactory` takes a sandbox from `SandboxPool`), puts the
message in the task's input stream (`RedisStreamQueue`), starts the task
(`RedisStreamTask`), takes an execution slot and relays the output stream. The task runs
`AgentTaskRunner`, which pops input, drives a flow (LLM calls under
`LLMConcurrencyLimiter`), puts events in the output stream, stores them in the session and
writes the session's status. Stop, takeover and teardown (`AgentSessionLifecycle`) act on
the same session, task and sandbox from other requests. Memories are mirrored from MongoDB
to Qdrant through an outbox (`SyncWorker`).

## 2. Inventory

"Hard" names what makes the part difficult; "correct when" is what its properties say.
Paths are below `backend/` unless they start with `src/` or `frontend/`.

| Component | State | Operations | Interacts with | Hard | Correct when |
|---|---|---|---|---|---|
| Execution admission, `app/domain/services/agent_domain_service.py` | slots in use, semaphore, waiters per class, last class and its run of grants | acquire (poll every 10 ms), release, 5 s timeout, cancel | every chat stream | counters kept by several coroutines that are cancelled at any poll | counters equal the streams they count; bounded bypass; no class starves |
| Redis queue, `app/infrastructure/external/message_queue/redis_stream_queue.py` | Redis stream, lock key with a 10 s TTL, the owner's renewal | put, get, pop, delete, clear, is_empty | tasks, chat | lock expiry, two poppers, crash inside a pop, trimming | every message is handed out at most once and in order |
| Redis task, `app/infrastructure/external/task/redis_task.py` | registry, execution task, pause flag, liveness key | create, run, cancel, pause, resume, destroy | runner, queue, chat | `run` while running, cancel while starting, cleanup after the end | no message accepted is stranded; liveness reflects a running task |
| Task runner, `app/domain/services/agent_task_runner.py` | per-run status, wait state, sandbox lease | run, cancel, destroy, put event | queue, session, flow, sandbox | status write races with stop and teardown | one terminal status per run, and it is not overwritten |
| Chat service, `app/domain/services/agent_domain_service.py` | session document, creation locks, cancel events, background tasks | chat, enqueue, confirm, reconnect | all of the above | a message that arrives while the task ends, reconnects, disconnects | the session's status agrees with its task |
| Session lifecycle, `app/domain/services/agents/agent_session_lifecycle.py` | takeover state, task id, status, sandbox id | stop, pause, resume, start and end takeover, teardown | task, session store, sandbox | whole-document saves of objects read before an await | a stopped session stays stopped; a user who took over is alone at the browser, and gives it back |
| Task factory, `app/domain/services/agents/agent_task_factory.py` | sandbox binding, task id | create task | pool, task, session store | sandbox recycled half way through initialisation | one live task per session, a bound sandbox is not reused |
| Session store, `app/infrastructure/repositories/mongo_session_repository.py` | session documents | save, atomic field updates, events | lifecycle, chat, runner | read-modify-write next to atomic updates | no update is lost |
| Sandbox pool, `app/core/sandbox_pool.py` | queue of sandboxes, paused ids, timestamps, circuit breaker | start, stop, acquire, warm, pause, evict, reap, health | Docker, task factory | several background loops on one pool, awaits inside selection loops | a sandbox is idle, in use or destroyed, never two of them |
| LLM limiter, `app/domain/services/concurrency/llm_limiter.py` | active and queued counts, semaphore, slow start | acquire, timeout | every LLM call | accounting of a cancelled waiter | counts equal the callers they count |
| Token budget, `app/domain/services/concurrency/token_budget.py` | allocations and usage per phase | allocate, consume, rebalance | flows | rounding and exhaustion at the boundaries | the phases never spend more than the budget |
| Outbox and sync worker, `app/domain/models/sync_outbox.py`, `app/infrastructure/repositories/sync_outbox_repository.py`, `app/domain/services/sync_worker.py` | outbox entries, dead letters, vector index | enqueue, claim, apply, retry, dead-letter | MongoDB, Qdrant | crash after a claim, retries reordering operations | the index converges to the store |
| Reconciliation, `app/domain/services/reconciliation_job.py` | sync state of memories | find drift, retry, verify | outbox | races with the worker it repairs | every failed memory is retried |
| Sandbox manager and Docker sandbox, `app/core/sandbox_manager.py`, `app/infrastructure/external/sandbox/` | registered sandboxes, sessions, health | create, get, health check, recover | pool, Docker | recovery next to use | a recovered sandbox keeps its session |
| Circuit breakers, `app/infrastructure/external/key_pool.py`, `app/core/circuit_breaker_registry.py`, `app/core/circuit_breaker_adaptive.py`, `app/infrastructure/external/cache/circuit_breaker.py` | state, failure window, probes | record, allow | LLM, cache, HTTP | half-open probes | an open circuit lets through bounded probes |
| API key pool, `app/infrastructure/external/key_pool.py` | key cooldowns in Redis | get, mark exhausted, mark invalid | LLM, search | several clients over one key | an exhausted key is not handed out |
| HTTP pool, browser pool, `app/infrastructure/external/http_pool.py`, `app/infrastructure/external/browser/connection_pool.py` | connections in use and idle | acquire, release, evict | tools, sandboxes | cleanup next to use | a connection has one user |
| Plans and plan-act flow, `app/domain/models/plan.py`, `app/domain/services/flows/plan_act.py` | steps, dependencies, flow status | plan, execute, verify, update, summarise | LLM, tools | blocked dependencies, replanning while executing | a step runs after its dependencies |
| Stream guard, retry budget, rate governor, `app/domain/services/` | counters and windows | check, record | LLM calls | boundary values | limits hold |
| Orphan cleanup, maintenance, stale sessions, `app/application/services/` | session statuses | sweep | lifecycle, task registry | sweeps next to starting sessions | a live session is never swept |
| Auth and tokens, `app/application/services/` | users, tokens | login, refresh, revoke | API | revocation | a revoked token is refused |
| API routes, `app/interfaces/` | none | HTTP and SSE | chat service | disconnects | pass-through |
| Canvas, screenshots, files, ratings, reports, `app/application/services/` | documents | CRUD | MongoDB, storage | few | pass-through |
| Nanobot gateway, `nanobot/` | bus queues, cron jobs, sessions, channels | publish, consume, schedule, chat | chat networks | job saves next to runs | due jobs run once |
| Sandbox service, `sandbox/app` | shells, files, supervisor | exec, read, write | backend | process control | pass-through |
| Front end, `frontend/src` | SSE connection and event cache | connect, retry, render | API | reconnect, duplicate events | events shown once and in order |
| Mock server, monitoring, scripts, docs | none | none | none | none | none |

The hard behaviours, in the order in which they are modelled: accounting under
cancellation (admission, limiter); at-most-once delivery under lock expiry and crashes
(queue); background loops over one pool (sandbox pool); a task that ends while a message
arrives, and a stop next to it (session runtime); a half-open circuit and shared rotation
(key pool); retries that reorder, and crashes between two stores (outbox); two records of
one fact that no lock holds together (takeover).

## 3. Plan

The modules, in the order in which they are written. Stages 1 to 7 are done.

1. `Slots` (abstract) and `ExecutionSlots`; `Channel` (abstract) and `RedisStreamQueue`:
   what every message passes through. Both refine their abstract specification, and are
   proved.
2. `SandboxPool`: the largest amount of concurrency over one piece of state.
3. `LLMLimiter`, which refines the same `Slots`, and is proved.
4. `SessionRuntime`: chat service, task factory, Redis task, task runner, session lifecycle
   and session document of one session, with chats that overlap, disconnect and are
   cancelled, stops, failures of the flow, and writes of a cancelled coroutine that still
   land. Input and output streams are sequences with the promises of `Channel`.
5. `KeyPool`: the API key pool with the circuit breaker around it. Question: is an upstream
   that has recovered used again. Answer: not always (`keypool_stuck`), and `Recovers` says
   when.
6. `SyncOutbox`: outbox, worker, dead letters and reconciliation, with crashes between any
   two steps. Question: does the vector index converge to the store. Answer: for every
   memory that none of seven named causes touched.
7. `Takeover`: a user takes the browser from the agent and gives it back, over the same
   document, with whole-document saves of copies read before an await. Question: is the
   user alone meanwhile, and does the agent go on afterwards.
8. What is left and could be modelled: the sweeps of orphans as an environment of
   `SessionRuntime`, the token budget, the batch operations of the outbox, and an abstract
   specification of a session's life (pending, running, waiting, one terminal status) that
   `SessionRuntime` implements where it does.

Each stage has one run for what holds, or two where progress needs smaller bounds; where
the code breaks a promise of its own, the definition stays and a configuration that is run
by hand refutes it (section 6). One such refutation is a run of its own.

Every safety property that a run checks has a theorem (section 7), but for `StreamsEnd`, which
speaks of ENABLED. Modules keep to recursion-free definitions so that the stages that are left
can have theirs.

## 4. Modules

| Module | Models | Extends or instantiates |
|---|---|---|
| `Slots` | what an admission controller promises: at most Capacity holders | |
| `ExecutionSlots` | slot admission in `agent_domain_service.py` | implements `Slots` |
| `ExecutionSlotsProofs` | its theorems | `ExecutionSlots`, TLAPS |
| `Channel` | what a queue promises: entries received in order, each once, lost only from the front | |
| `RedisStreamQueue` | `redis_stream_queue.py` over a Redis server | implements `Channel` |
| `RedisStreamQueueProofs` | its theorems | `RedisStreamQueue`, TLAPS |
| `SandboxPool` | `sandbox_pool.py` with Docker, reaper and sessions around it | |
| `SandboxPoolProofs` | its theorems | `SandboxPool`, TLAPS |
| `LLMLimiter` | `llm_limiter.py` over `asyncio.Semaphore`, and the calls nested in it | implements `Slots` |
| `LLMLimiterProofs` | its theorems | `LLMLimiter`, TLAPS |
| `SessionRuntime` | one session: its chats, tasks, stops, warm-up and document | |
| `SessionRuntimeProofs` | its theorems | `SessionRuntime`, TLAPS |
| `KeyPool` | `key_pool.py` as the search and embedding clients use it | |
| `KeyPoolProofs` | its theorems | `KeyPool`, TLAPS |
| `SyncOutbox` | outbox, `sync_worker.py`, `memory_service.py`, `reconciliation_job.py` over MongoDB and Qdrant | |
| `SyncOutboxProofs` | its theorems | `SyncOutbox`, TLAPS |
| `Takeover` | start, end, pause, resume and stop of a session from `agent_session_lifecycle.py`, over its document and tasks | |
| `TakeoverProofs` | its theorems | `Takeover`, TLAPS |
| `MC...` | model values and symmetry for TLC, one per component | the component |

Operators marked `mutant`, or introduced as slips, are wrong versions of the definition
that follows them. No specification uses them; put in the place of that definition they
break one property each, which shows that the property looks at the code.

What is one step is the same everywhere. In the process a step is the code from one await
that suspends to the next, so a critical section without such an await is atomic whatever
lock it takes. At a server a step is one command. A coroutine can be cancelled exactly at
its suspended awaits, and a handler or `finally` block that suspends again is a step of its
own.

### ExecutionSlots

`AgentDomainService` counts streams that wait (`_waiting_execution_slots`, by workload
class), streams that hold a slot (`_execution_slots_in_use`), and has a semaphore beside the
counter. `waiting`, `slotsInUse`, `semaphore`, `lastClass` and `consecutive` are these
fields. `pc[s]` is where the stream of session s is; a stream polls under the 5 s timeout
(`polling`), is told that it waits (`notified`), polls again without one (`requeued`), and
relays (`executing`). `reserved` is the stage between counting the slot and getting the
semaphore. `NextClass` is `_select_next_execution_workload_class`. `running[s]` is the
session's task, which `chat()` starts before it asks for a slot and which outlives the
stream. `consecutive` is cut off at Burst + 1 because the code only compares it with Burst.

### RedisStreamQueue

`stream` is the set of ids in the Redis stream, in the order of their numbers; `lock` is the
popper whose token is in the lock key. `pc[p]` is the Redis command that the call of `pop()`
waits for. `lockLost[p]` is the event that the renewal coroutine sets. Every command is
atomic at the server; its reply can be lost, and redis-py then sends it again, so a
deletion whose first reply was lost is answered 0 and its entry dropped. `Expire` is the
end of the lock's time to live. Trimming is approximate: it drops old entries, but leaves
at least MaxLen.

### SandboxPool

`box[b]` is a container on the Docker host, with an age of three classes: younger than the
reaper's grace period, older, older than the pool's idle time. `pool`, `stamps`,
`pausedIds`, `fails`, `phase` are `_pool`, the keys of `_pool_timestamps`, `_paused_ids`,
`_consecutive_failures` and the two flags of the pool. `fill[f]` is a run of `_warm_pool`,
one of the maintenance loop and one per replenishment; `pauser[b]` a `_deferred_pause`;
`loop` the maintenance loop with the locals of `_evict_stale_sandboxes`; `reaper` a run of
`_reap_orphan_containers`; `user[c]` a session from `acquire()` to its end. `spin` says that
a task goes round without suspending: while it does, only Docker, time and the reset of the
breaker move. `DieEvent` takes one sandbox out of the queue because `_handle_container_die`
reads `container_id`, which `DockerSandbox` has not, and the error ends the handler; the
same error ends `_continuous_health_monitor`'s check before it changes anything, so the
monitor has no action.

### LLMLimiter

`value`, `waiters`, `granted` are `asyncio.Semaphore` as Python 3.12 has it: a release wakes
the first waiter, a woken waiter owns its slot before it runs, and hands further free slots
on. `active` and `queued` are the limiter's counters. A call may ask again inside its slot
(`AskAgain`), as `ask()` does when it rotates a key or falls back to another provider, so
`slots[c]` counts slots held one inside the other. `Leave` is the inner `finally`, and on a
cancellation also the outer `except`, which takes the call for a queued one.

### SessionRuntime

| Variable | Code |
|---|---|
| `doc` | the session's document in MongoDB: `status`, `task_id`, and whether `sandbox_id` is set (`box`) |
| `registered` | `RedisStreamTask._task_registry` |
| `task[t]` | a `RedisStreamTask` with its runner: where it is, `in` and `out` streams, the cancellation of its execution task, and the locals of `AgentTaskRunner.run()`: nothing looked at yet (`fresh`), last event an error (`err`), done was said (`said`), events so far (`n`) |
| `chat[c]` | a request from the route (`session_routes.py`) through `AgentService.chat` to `AgentDomainService.chat`: where it is, the lock it took from the table, its task, the factory's `copy` of the document, what it has read (`seen`, `got`), what it tells the user (`outcome`), whether its client left (`gone`) or its cancel event is set (`cancelled`) |
| `current` | `AgentService._session_cancel_events`: the chat whose event it holds |
| `lock` | `_task_creation_locks`: the lock the table holds for the session |
| `stop[s]`, `warm` | a call of `stop_session`, by the user or by the stale-session cleanup (`auto`); `_warm_sandbox_for_session` |

`turn` and `alone` (a chat's place in the order of chats, and that no task executed when it
began) and `taken` are history. A chat's name stands also for its message, for the lock it
would create and for the task it would create, since it creates each once.

A whole-document save (`MongoSessionRepository.save`) writes a copy that was read before an
await: `BindSandbox`, `CreateTask`, `BindTask`, `StopSaves`, `WarmSaves`. All other writes are
field updates. `Yielded` is what a yield does to a generator whose reader has left: it is
closed there. Teardown is two steps, `Teardown` and `TeardownWrites`, because the task is
cancelled before the await of the status write; a stop goes on to destroy the sandbox and
to save without it. The cleanup that runs before a user's next session is created stops what
has had no open stream for a while. It calls the domain service, past the hook that cancels
the warm-up, and under a time-out that can cut the stop off at each of its awaits
(`AutoStopCut`): before its status write (`cut`) that leaves a cancelled task in a session
that says it runs, which the cleanup after it finds again.

What the flow does with a message is a choice of events that ends in one of the ways
`PlanActFlow.run` and `DiscussFlow.run` end. The cursor a client sends when it reconnects is
nothing, or a place another chat of the same task has read up to. `Overlap` says when a
chat may begin: when the streams of the others have ended (`none`; their tasks may go on),
when the others have been told an outcome (`told`), or at any time (`any`). `faults` is one
budget of cancellations, disconnects, exceptions, stops and a warm-up still under way; the
time-out of an automatic stop is free, as it comes once.

Left out: admission to the relay (`ExecutionSlots` has it), the idle timeout of
`AgentService.chat`, duplicate messages, a reconnect without a message, pausing and takeover
(`Takeover` has them), the task's liveness key, and the replacement of a sandbox that does
not come up.

### KeyPool

| Variable | Code |
|---|---|
| `breaker` | `CircuitBreaker`: `state`, `inFlight` (`_half_open_in_flight`), `count` (`_429_count`), and whether the open window has passed |
| `mem` | per key, whether `_memory_exhausted` has a running entry for it, and whether `_memory_invalid` has it |
| `stamped` | the keys of `_exhaustion_timestamps` |
| `redisCool`, `redisInvalid` | `api_key:exhausted:*` and `api_key:invalid:*` in Redis |
| `index`, `rotation` | `_round_robin_index`, the strategy |
| `req[r]` | a call of `SerperSearch.search` or `embed_batch`: before the EXISTS or the TTL of a look (`exists`, `ttl`), asleep in `get_healthy_key_or_wait`, its request under way (`sent`), before the Redis write of a report (`cooling`, `banning`) |

A choice of a key runs through the keys that memory rules out without suspending, so it is
one step up to the first Redis read (`Walk`); after each read that rules a key out it goes
on from there, while other calls may have moved the index. `prober`, `untold` and `seen` are
history: who took the probe, whether a probe ended without a report that the breaker
counts, and which keys the latest choice found unhealthy. How long a cooldown or the
window lasts is left open: each may end at any time. The callers raise a 5xx past
`handle_error()`, so the breaker never hears of one; `RateLimited` is its only failure.

### SyncOutbox

| Variable | Code |
|---|---|
| `store`, `failed` | documents of `long_term_memories`, and those whose `sync_state` is "failed" |
| `vector` | memories with a point in Qdrant |
| `outbox`, `dlq` | `sync_outbox` in the order of `created_at`; entries that the dead-letter queue has |
| `worker` | `SyncWorker`: where it is in `_process_entry`, and the set of copies it still has to process, the oldest first (`Entry`) |
| `client[m]` | the `store_memory` or `delete_memory` of m under way |
| `listed` | what `_retry_failed_syncs` has still to retry |
| `up`, `lock` | whether the process runs; the startup lock in Redis |

A step is one command at MongoDB, Qdrant or Redis. A command may fail before or after it
took effect, and each failure goes where the code's `except` takes it: out of the batch for
`mark_processing`, into `_handle_failure` for `mark_completed`, to the end of the batch for
the writes of `_handle_failure`. The Qdrant repository swallows its errors, so the worker
never learns of one. `ran` counts executions and is history. `hit` collects the memories
that one of these causes has touched, as far as `Forgiven` names it: a swallowed Qdrant error
(`qdrant`), an executed entry that was not marked completed and is executed again later
(`reopened`), a document without entry (`unqueued`), a vector deleted whose document stayed
(`undeleted`), a document deleted without entry (`orphaned`), an expired document
(`expired`), an entry left PROCESSING (`stranded`). `Converged` excuses a memory only if a
cause touched this very memory: what happens to one must not harm the others in the batch.
`MCSyncOutboxCause.cfg`, with one cause left out of `Forgiven`, refutes `Converged` for each of
them: every excuse is needed (section 6).

### Takeover

| Variable | Code |
|---|---|
| `doc` | the session's document: `takeover_state`, `status`, `task_id` |
| `task[t]` | a chat that creates a task (`asked`, `new`, `bound`), then its `RedisStreamTask`: `_paused`, and where its runner is (`flow`, or at an `event`, where it waits while it is paused); `copy` is what the chat read |
| `req[r]` | a request: which operation, where it is, and its copy of the document |

A whole-document save is `Save`: the request's copy, not the document, with one field
changed. `Pauses` and `Wakes` are `RedisStreamTask.pause()` and `resume()`: they fail when the
task is done, or is paused (not paused) already. A failed save or restart may happen
between any two steps. `hit` collects causes for which a property excuses the session; the
operations `keep` (`end_takeover` with `resume_agent=False`), `pause`, `resume` and `stop` are
causes once they begin, because each is meant to set task and document apart or knows
nothing of takeovers. `close` is the teardown at the end of a chat's stream: what the
stream saw before is left open, except that a task has ended. The flow's own `DoneEvent`
counts as the end of the flow. A failed stream is torn down like a stop that saves nothing.

Left out: the array of events in the document, the statuses failed (like cancelled) and
initializing, the contents of the login state, and what the browser is doing when the agent
is paused: the flag is looked at between two events, so a tool call under way goes on.

## 5. Runs

| Run | Bounds | Shows |
|---|---|---|
| `slots` | 3 sessions, 1 slot, burst 2 | counters exact in every order of grants, timeouts, cancellations, releases; at most Burst interactive grants pass a waiting heavy stream; no class starves; the holders implement `Slots` |
| `queue` | 2 poppers, 3 entries, 2 faults, 2 late renewals, trimming to 1 | an entry is handed out once although the lock expires under its owner; what is lost was lost to a fault or to trimming; nobody frees another's lock; one popper at a time is in the critical section while renewals are in time; every entry leaves the stream although poppers die with the lock; `Channel` is implemented |
| `pool_host` | 2 containers, 2 sessions, every background task, 1 fault | what waits in the pool has its time stamp; the reaper never picks it |
| `pool_hands` | 5 containers, 2 replenishments, pool of 2 | eviction drains and refills the queue while it overflows: no sandbox is in two hands, nothing in use is removed |
| `pool_progress` | 4 containers, 1 session, no faults | the pool returns to its minimum; an orphan is removed |
| `limiter` | 4 calls, 2 slots, 3 attempts, 2 cancellations | no slot lost or made up, no wakeup lost, every waiting call served or gives up; `Slots` is implemented |
| `session` | 2 chats, one after the other, 1 event a message; a stop, the warm-up and 3 faults with one of them (2 with an automatic stop), or 1 fault with both | every stream ends; a document does not say that the session runs when nothing works on it; what the last user was told is what the document says; who is told "completed" had the message taken; a task that executes stays in the registry until it has ended |
| `keypool` | 2 keys, 2 calls, both strategies, threshold 2, no Redis fault | the count of a storm of 429s survives until a success; who is told that all keys are exhausted has seen each of them unhealthy in this very choice |
| `keypool_live` | 1 key, 2 calls, both strategies, 1 Redis error or restart | when the provider answers again the circuit closes, unless its probe ended unreported; a key whose refusal reached Redis is used no more, in the end |
| `keypool_stuck` | 2 keys, 1 call, fail-over | refutes `AlwaysRecovers` |
| `outbox` | 2 memories, 3 entries, batches of 2, 2 tries, 2 faults | untouched memories are in Qdrant exactly when they are in MongoDB, once nothing is left to do for them; no entry is executed more often than it may be, FAILED without a dead letter, or buried and tried again; each is settled while there is a worker |
| `takeover` | 2 chats, 2 requests of any kind, 1 fault or restart | a user who has taken over is alone at the browser; no agent stays paused in an idle session; no request leaves the document half-way |

Why the bounds are enough. The interesting cases of the admission need a waiter of each
class beside a holder (three sessions, one slot) and a burst that is more than one; more
slots only add holders that never meet, and the theorems cover every number. The queue
needs a lock that passes to a second popper while the first is between two commands (two
poppers), an entry that outlives another (three entries, of which trimming keeps one or
more), and two faults because a lost reply followed by a crash is the worst the retry
logic can meet. The pool is split: `pool_host` has every task with few containers, which
is where tasks disturb each other; `pool_hands` has so many containers that draining finds
a full queue when it puts back, which takes one more than the queue's size twice over;
`pool_progress` drops faults, since a fault that may always happen leaves nothing to
promise. The limiter needs two calls that hold slots, one that sleeps and one that is
woken: four calls; and a third attempt so that a call nests twice. A session's second chat
meets everything a first one can leave behind: a task that goes on, a torn document, a
message nobody took, a flow that waits; one fault puts a cancellation, a disconnect or an
exception at any place. One event a message is enough to have a task that ends after a
part of its events were read, and one that ends before. A stop, a late warm-up and more
disturbances than one meet a single chat only (`Narrow` in `MCSessionRuntime`);
by hand, the same constants under `Spec` with one fault (two chats, with a stop or the
warm-up), and one chat with two stops, pass as well.

The key pool needs a second key for a rotation to be worth the name, and a second call to
move the index and to mark keys under the first; the threshold is 2 so that a count below
it exists. Two keys are too few to refute `NoneSkipped`, which is why `HonestlyExhausted`
says for which pools it holds; the theorem covers those with every number of keys and calls.
Progress needs one key only: the circuit does not know how many there are, and a second
key would only let more calls through. The outbox needs two memories for "one must not
harm the other", an upsert and a delete of one memory beside an entry of the other (three
entries), a batch of two for the copy that waits while the first is processed, and two
tries so that a retry exists; two faults can strike one entry twice, or an entry and the
process. A takeover needs two requests to overlap, and two chats to have a task replaced
by another; by hand, three requests over one chat, without faults, pass as well.

`MCSyncOutbox.cfg` and `MCTakeover.cfg` switch the check for deadlocks off: both instances stop
for good when entries, or chats and requests, are used up.

Fairness. A property that something happens is checked under these assumptions only:

- *Admission*: a sleeping waiter looks again every 10 ms (`Poll`); a client that was told
  to wait asks again or leaves, because the generator is resumed or closed by the server;
  a stream with a slot ends (its task ends, or the relay loop's orphan timeout ends it).
  Timeouts and first chats need not happen.
- *Queue*: Redis expires keys and answers commands; a consumer asks again while the stream
  is not empty (the runner's loop does). Fairness of `Lock` is weak: another popper that
  wins every time would starve a popper, not the stream. Faults and deletion are never
  required.
- *Pool*: Docker calls return or time out, time passes, and a loop that is ready runs
  unless one spins. Completion of a creation is strongly fair: it stays ready, but a
  spinning loop between reset times disables it again and again. Sessions need neither
  ask nor end. One timing assumption is built into `Ages`: a container is created, verified
  and paused within the reaper's grace period (120 s; the code's own timeouts for these
  steps are shorter).
- *Limiter*: requests end by their hard timeout, a woken call runs, and a call that waits
  with slots in its hands times out (`queue_timeout`). The timeout of a call without slots
  is not relied on: it is served.
- *Key pool*: somebody always searches, calls go on and are answered, cooldowns and the
  window end, and expired keys leave Redis. What a call is answered is free until the
  provider has recovered (`well`), and nothing makes it recover: `Recovers` is about what
  happens afterwards. Cancellations and faults are never required.
- *Outbox*: the worker's loop goes on, retries come due, and a process that stopped is
  started again (by its supervisor). Nobody has to store, delete or reconcile anything, and
  the startup lock need not expire.
- *Takeover*: no property needs fairness.
- *Session*: `StreamsEnd` is a state predicate: as long as a stream is open, somebody can
  go on. `MCSessionRuntimeLive.cfg`, by hand, checks `Ended` under `FairSpec`, where the event
  loop runs what is ready and users need do nothing. LLM answers are events a task
  yields in its own time; that they come at all is the relay loop's and the LLM client's
  timeouts, which are left out.

## 6. Where code and comments part

`AlwaysRecovers` has a run of its own. The others are kept as definitions with a configuration
that refutes them, to be run by hand (`tlc -config <cfg> <module>`). Together with the
hazards in `PROJECT.json` they are the list of what is hard here: a row of this table is a
hazard against which the code has no protection.

| Definition | Configuration | What happens |
|---|---|---|
| `ExecutionLoopsBounded` | `MCExecutionSlotsLoops.cfg` | a comment says the semaphore limits LLM loops; it limits event streams. The task starts before its stream asks for a slot and goes on after the stream ended |
| `LeasedSpared` | `MCSandboxPoolLeased.cfg` | the provider of leased sandboxes does not ask for sessions that wait for their user: the reaper removes their sandboxes |
| `NoBusyLoop` | as INVARIANT of `MCSandboxPool.cfg` | with the circuit open `_warm_pool` goes round without suspending, and the whole event loop stands still until the reset time |
| `RetriesLeaveSlots` | `MCLLMLimiterRetries.cfg` | a retry after a refused key asks for a second slot inside the first: as many such calls as slots wait for each other until the queue timeout |
| `CrashDetected` | `MCSandboxPoolCrash.cfg` | the health monitor fails on every `DockerSandbox` (`sandbox_pool.py:881`), so a pooled sandbox whose container exited stays (docstring at 795) |
| `NotPausedInUse` | as INVARIANT of `MCSandboxPool.cfg` | `_deferred_pause` takes the stamp, not the sandbox: a session gets it while `pause()` is under way (`sandbox_pool.py:583`, against the comment at 581) |
| `KeepsMinimum` | `MCSandboxPoolMinimum.cfg` | eviction tests the size once and then evicts all that is stale (`sandbox_pool.py:610`, against the docstring at 604) |
| `StopEmpties` | as INVARIANT of `MCSandboxPool.cfg` | a creation that ends during `stop()` puts its sandbox into the stopped pool (`sandbox_pool.py:330`, docstring at 305) |
| `Reclaimed` | `MCSandboxPoolDieEvent.cfg` | what a die event took out of the queue keeps its time stamp, and the reaper spares what has one (`sandbox_pool.py:964`, against 943 and 685) |
| `Reclaimed` | the same with two `Boxes`, no OOM monitor, no retries, one fault | when creation fails at once, `_warm_pool` never gives the loop back to the reaper that would make room (`sandbox_pool.py:432`, 998) |
| `QueueExact` | `MCLLMLimiterQueued.cfg` | a call cancelled inside its slot is subtracted from the queue as well (`llm_limiter.py:218`-227): `queued_count` falls below the number of waiting calls |
| `CancelStops` | as INVARIANT of `MCSessionRuntime.cfg` | the service's loop sees the cancellation first and cancels the read of the domain stream, which skips the branch that would cancel the task: the stream closes, the task works on (`agent_service.py:933`, docstring at `session_routes.py:644`) |
| `Delivered` | as INVARIANT of `MCSessionRuntime.cfg` | the client leaves at the yield between the message's put and `task.run()`: the message stays in the stream of a task that never starts (`agent_domain_service.py:727`, against `session_routes.py:1704`-1706: background tasks go on) |
| `WaitKept` | `MCSessionRuntimeWait.cfg` | the task is done before the relay has read its question: a `WaitEvent` that is drained does not count, and the waiting session is torn down as cancelled (`agent_domain_service.py:1130`) |
| `OwnCancelOnly` | `MCSessionRuntimeClobber.cfg` | a stream that ends on a terminal status asks for the cancellation of the session's chat, which may be a later one (`session_routes.py:1740`, against the comment at `agent_service.py:1047`) |
| `OneTask` | `MCSessionRuntimeOrphan.cfg` | a second chat between the creation of a task and the flow's first status write creates another (`agent_domain_service.py:627`, against the comment at 617) |
| `StopSticks` | `MCSessionRuntimeStopped.cfg` | the chat whose task was stopped sees it end without a word, takes that for completion and tears the session down once more, after the stop; a task factory's save of its copy can land there, too (`mongo_session_repository.py:75`), and a warm-up that an automatic stop leaves alone says "pending" again (`agent_service.py:120`) |
| `Settled` without `NoneStranded` | as INVARIANT of `MCSessionRuntime.cfg` with `Overlap` = "any", three chats, two faults, no stop and no warm-up, once `Settled` is written without that conjunct | a chat creates its task from a copy that says "running" (a first chat's task had just begun), saves it, puts its message, and its client leaves before `task.run()`: the first task has ended meanwhile, the new one never starts, and the document says "running" for ever (`mongo_session_repository.py:75`, `agent_domain_service.py:727`) |
| `OneBinder` | `MCSessionRuntimeLock.cfg` | teardown drops the lock from the table while a creator holds it, and the next creator gets a new one (`agent_session_lifecycle.py:140`) |
| `AlwaysRecovers` | `MCKeyPoolStuck.cfg` (a run) | after a storm of 429s the circuit is half-open before the keys have cooled; the first request takes the only probe, finds no key and reports nothing: every later one is rejected until a restart (`key_pool.py:231`, against the plan of 2026-03-02, line 330) |
| `CoolingNotChosen` | as PROPERTY of `MCKeyPool.cfg` | a look reads memory before its two Redis awaits: a key that another call marks meanwhile, and whose write has not arrived, is sent (`key_pool.py:695`) |
| `NoneSkipped` | `MCKeyPoolSkipped.cfg` | the lock of the shared index is said to prevent key skipping (`key_pool.py:577`), and who has no key to have found "all keys unhealthy" (605). With the three keys of the embedding client, others move the index past a usable key whenever a call waits for Redis; once the memory of a key it has seen expires, its six positions are spent on the other two |
| `Converged` without `qdrant` | `MCSyncOutboxCause.cfg` | the repository swallows Qdrant errors, so a failed upsert is marked completed (`qdrant_memory_repository.py:121`; `sync_worker.py:107` would retry it) |
| ... `reopened` | the same, leaving out `reopened` | an upsert that was executed and could not be marked is tried again later, after a delete of the same memory: the vector is back |
| ... `unqueued` | the same, leaving out `unqueued` | a crash between document and entry leaves a memory that says "pending" and that nobody retries (`memory_service.py:233`) |
| ... `undeleted` | the same, leaving out `undeleted` | the delete of the vector is queued before the document is deleted, which may fail (`memory_service.py:980`) |
| ... `orphaned` | the same, leaving out `orphaned` | "orphans are cleaned up by the reconciliation worker" (`memory_service.py:976`): the step is disabled and not implemented (`reconciliation_job.py:78`, 362) |
| ... `expired` | the same, leaving out `expired` | `cleanup_expired` deletes documents and tells nobody (`mongo_memory_repository.py:545`) |
| ... `stranded` | the same, leaving out `stranded` | a worker that dies, or cannot write, after `mark_processing` leaves the entry PROCESSING, for which nobody asks (`sync_outbox_repository.py:81`) |
| `TakenUp` | `MCSyncOutboxRestart.cfg` | the startup lock lives six hours, is not released and is asked for at startup only: a backend restarted earlier has no sync worker (`lifespan.py:711`, against the docstring at 93) |
| `ReliablyResumes` | `MCTakeoverTwice.cfg` | two `start_takeover` both read idle; the second cannot pause what is paused and rolls back to idle: the agent stays paused, and an end finds nothing to end (`agent_session_lifecycle.py:346`, against `src/docs/plan/LIVE_VIEW_TAKEOVER_AND_USER_CONTROL_PLAN.md:227`) |
| `NothingToResume` | `MCTakeoverRevived.cfg` | a session that is taken up again says "completed" until its flow writes "running": an end in between skips the resume of a paused task (`agent_session_lifecycle.py:423`, comment at 421) |
| `NeverGrantedBeside` | `MCTakeoverDetached.cfg` | the stream of an older chat ends after a newer task was bound, and its teardown detaches it: a takeover finds no task, and is granted beside the agent (`agent_domain_service.py:1145`, against the message at `agent_session_lifecycle.py:371`) |
| `NotMarooned` | `MCTakeoverMarooned.cfg` | a takeover of a session without a task cannot be ended with a resume: there is nothing to resume, so it stays active, also in a session that has not ended (`agent_session_lifecycle.py:326`, 459) |

`Settled` excepts cancelled streams for the reason `CancelStops` is refuted: a stream that is
cut off between the cancellation of its task and the status write of its teardown leaves a
document that says the session runs, with a task that has ended. So does an automatic stop
that its time-out cuts off there; the next one finds that session again. The third exception,
`NoneStranded`, was found by the proof: the inductive argument needs somebody who owes the
document its last write, and a task that was bound and never started owes it in vain.

Three more divergences have no definition. `update_sync_state` looks for an ObjectId, which
memory ids are not (`mongo_memories_collection.py:112`): a memory that failed once is
retried in every reconciliation. `mark_exhausted` leaves a cooling key as it is
(`key_pool.py:754`): an exhausted quota, reported while the key cools for a few seconds after
a time-out, is forgotten with these seconds. And the docstring of `acquire()` (`llm_limiter.py:163`)
promises an error when the queue timeout is 0; the code then waits without a timeout.

## 7. Proofs

TLAPS checks these for all values of the constants that satisfy the named assumptions of
the modules (finitely many sessions, at least one slot, `None` outside the sets it is told
apart from, requests of the kinds the routes know, and the like). Nothing else is assumed.

- `ExecutionSlotsProofs`. The inductive invariant is `TypeOK` with `SlotAccounting`, the
  absence of reserved streams, and the relation of `bypassed` to `consecutive` and
  `lastClass`: without the last, `HeavyBypassBounded` is not inductive, since nothing would
  keep the history of a waiting heavy stream below the code's own counter. Accounting and
  absence of reserved streams need each other: the semaphore is positive when a grant is
  possible only because counter and semaphore add up to MaxSlots. Counting the streams by
  `Cardinality` costs lemmas about adding to and removing from a filtered set.
- `RedisStreamQueueProofs`. Beside `AtMostOnce` and `NothingVanishes` the invariant says
  that an entry in the stream was put and not yet handed out (`StreamFresh`), which makes
  a second deletion of it answer 0, and what the entry read by a popper says about the
  entries before it (`FirstIsOldest`): an older one is no longer in the stream. That is
  what refinement needs, because `Channel` receives in order.
- `LLMLimiterProofs`. Beside `SlotsExact`, `NoLostWakeup` and `QueueNotOvercounted` the
  invariant says how many slots a call holds from where it stands (`Ladder`: while it
  waits it has asked for more slots than it holds), and that `waiters` lists waiting calls
  only, each once, the woken ones among them
  (`QueueOfWaiting`). The holders are pairs of a call and a level, so that slots held one
  inside the other are told apart, and refinement to `Slots` is a step that adds or removes
  one pair.

- `RedisStreamQueueProofs`, for the lock: while no renewal was late, who is between SET and
  the release has the key (`HoldersHaveTheKey`). This implies `OneConsumer`, and that nobody
  else frees a lock (`LockIsOwners`).
- `SandboxPoolProofs`. `Exclusive` is not inductive, since the eviction moves sandboxes from
  the queue to a list of its own while others put and take: `Held` says that queue, list,
  victim, creations and sessions have each sandbox once, wherever it is. `Tracked` and
  `ReaperSparesPool` need `Shaped` (what the eviction has drained is in its hands only while
  it is at work) and `Young`: what is created, checked or about to be paused is within the
  grace period, which is why a snapshot taken three awaits earlier does not name it. This is
  the timing assumption of section 5, and the theorem holds under it. The eviction's
  loops are modelled by the first place in the queue where they stop; that there is one is
  the least-number principle (`WFMin`), and no induction over data.
- `SessionRuntimeProofs`, for every `Overlap` of streams. `Settled` is about states in which
  nothing works. Its invariant, `Pledged`, is about all states: as long as the document says
  that the session runs, somebody owes it another status (`Owed`): a task at work, a chat that
  binds, starts or tears down, a stop before its write, or the warm-up. Each action either
  writes another status or hands the debt on, and `NeverCancelled`, `NeverCut` and
  `NoneStranded` are where a debtor vanishes. To hand it on one has to know what a chat holds
  where it is (`PlacedAt`), that nobody names a task before it is bound (`BornAt`), and that
  who starts a task has put its message (`FilledAt`). A step touches one chat, and at most one
  task: lemmas say once what such steps preserve (`ChatStepsKeep`, `TaskStepsKeep`, ...), and
  each action is shown to be one.
- `SessionRuntimeProofs`, for `Overlap` = "none": a chat begins when the streams of the others
  have ended, while their tasks may go on. TLC refutes `Registered` and `Answered` for streams
  that overlap, `Overlap` = "told" or "any", with two chats and no fault: another chat's teardown
  takes a task that was created and not started out of the registry, and its chat then starts
  it; or it tells a task to stop that has started and not read its message, and that stop ends
  the stream as completed. So this is their one hypothesis. The invariant, `Successive`, says that
  beside a chat that began alone nothing executes but the task it started (`AloneAt`); that a
  task which was told to stop, or is over and still registered, is named by no document and no
  copy outside a teardown (`Forgotten`), so that what such a chat finds registered has not
  started; and where its message is (`Holds`): the last in the input of a task that has not said
  that it is done and will not before it looks there, or taken. `Boxed` is why the warm-up,
  which saves the whole document from a copy, never names a task: it copies documents without a
  sandbox, and those have none.
- `SessionRuntimeProofs`, `LastWord`, for `Overlap` = "none", too. TLC refutes it for "told" and
  "any" with two chats and no fault: an older chat that has been told its outcome writes it in
  its teardown, after the newer one's. The invariant, `Worded`, says of the chat that began last,
  and alone, what it was told, its task and the document (`ToldBy`). A chat that read "completed"
  leaves a task that has said so and will write it, because its input is empty and what it looks
  at is set (`Finishing`, `Finished`): this needs `LookedAt`, that a run which works on a message
  is not `fresh`, and `Holds` of `Successive`, by which a flow is done only when nothing is left
  to take. Any other outcome leaves a task that writes no status any more (`Quenched`): it ended,
  or its teardown tells it to stop. That the teardown finds it takes two facts: the document
  names the chat's task until then (`NamedAt`), and the task is registered as long as it
  executes. `Ordered` says that whose stream is open began last, so that no other chat's end
  comes after its own. Each step of a chat is shown to keep this (`Proceeds`), and each step of a
  task (`Concludes`).
- `KeyPoolProofs`. A call has seen, at each look, the keys before its place in the walk
  (fail-over), or the other key (two keys in rotation): `Looked`. The theorem
  `ExhaustionIsHonest` covers fail-over with any number of keys and rotation with at most two;
  with three it is false (`NoneSkipped`, section 6).
- `SyncOutboxProofs`. `Counted` relates an entry's status to how often it was executed,
  `Copied` the worker's copies to the entries they were read from, for nobody but the worker
  writes an entry that is pending; `Buried` follows. `Untouched` says of a memory that no
  cause has touched what each of its entries is up to, in which order they run, and hence
  what its vector is; this gives `Converged`, under the hypothesis that every cause is
  `Forgiven`, the weakest under which it is true (section 6 refutes it without each).
- `TakeoverProofs`. For each request the invariant says what the document and its task look
  like where it is (`PlacedAt` and what follows it): who leaves the document half-way is still
  to save it (`SomeoneThrough`), and the task is paused from a halt to the wake
  (`PausedMeanwhile`, `FreeOtherwise`). Every part is under the causes that the properties
  name, and no others: each needs its own, so that one `hit` does not void them all.

Each module proves Init, preservation by one step per action, and the theorems from the
invariant by PTL. What is proved for every instance need not be run as well: the type invariants
of admission, queue and limiter, `NoBlockedReservation` (a granted stream never blocks on the
semaphore) and `QueueNotOvercounted` (`queued_count` is never too high) are theorems and
appear in no configuration.

Model-checked only:

- Liveness (`ClassProgress`, `Drains`, `Served`, `Refills`, `Reclaimed`, `Recovers`,
  `RefusedRetired`, `Settles`, `Ended`), with fairness, and `StreamsEnd`, which speaks of
  ENABLED: beyond the prover. So would be RECURSIVE operators, which no module has. The
  refinement theorems are about safety, as `Slots` and `Channel` state no fairness.

## 8. Not modelled, and why

- Most of the program's lines: flows, prompts, tools, providers, channels and the front end are
  text, I/O and rendering, sequential within one request, and share no state that these
  modules do not have.
- Of the key pool: the weighted strategy, which looks at all keys and draws one; the health
  probe loop; the LLM clients, which mark keys themselves; the lengths of cooldowns and
  their adaptive multiplier.
- Of the outbox: batch operations and `delete_user_memories`, writes in parallel to MongoDB and
  Qdrant, merging of memories, `cleanup_old_completed`, and two workers at once, which the
  expiry of the startup lock under a running worker allows.
- Token budget, orphan sweeps: section 3, stage 8. The sandbox manager keeps a registry that
  nobody outside fills: its `get_sandbox()` and `create_sandbox()` have no caller.
- What a flow says and plans, prompts, parsing, scoring: text, not protocol.
- Statistics, logging, metrics, progress events.
- The non-destructive reads of the queue (`get`, `get_range`, `get_latest_id`): they change
  nothing. `SessionRuntime` reads its output streams by them, as a place in a sequence.
- Of the pool: pulling images, warming the browser, memory numbers (a shortage is a fault).
- Several backend processes over one Redis and one Docker: the code keeps its registries per
  process, and every module here is one process, except that poppers of a queue may live
  in different ones.
- CRUD services, authentication, front end, sandbox service, nanobot: `PROJECT.json` gives
  the reason for each.
