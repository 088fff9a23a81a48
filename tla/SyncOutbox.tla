----------------------------- MODULE SyncOutbox -----------------------------
(***************************************************************************)
(* Memories live in MongoDB and are found through vectors in Qdrant.       *)
(* MemoryService writes a memory and then an entry in the outbox;          *)
(* SyncWorker carries entries over to Qdrant, tries again, and gives up    *)
(* into a dead-letter queue; ReconciliationJob writes new entries for      *)
(* memories whose first one could not be written.                          *)
(*                                                                         *)
(* A step is one command at MongoDB, Qdrant or Redis with the code up to   *)
(* the next one. A command fails before or after it took effect.           *)
(***************************************************************************)
EXTENDS Integers, Sequences, FiniteSets

CONSTANTS Memories,
          MaxRetries,  \* max_retries of an entry
          BatchSize,   \* limit of get_pending_entries
          MaxEntries,  \* bound: entries ever written
          MaxFaults,   \* bound: failed commands and restarts
          Forgiven     \* causes for which Converged excuses a memory

Causes == {"qdrant", "reopened", "unqueued", "undeleted", "orphaned", "expired",
           "stranded"}

ASSUME OutboxAssumption ==
  /\ MaxRetries \in Nat \ {0} /\ BatchSize \in Nat \ {0}
  /\ MaxEntries \in Nat /\ MaxFaults \in Nat /\ Forgiven \subseteq Causes

VARIABLES
  store,   \* long_term_memories: the document of a memory
  failed,  \* those whose sync_state is "failed"
  vector,  \* memories with a point in Qdrant
  outbox,  \* sync_outbox in the order of created_at; ran is history
  dlq,     \* entries with a document in the dead-letter queue
  up,      \* the process runs
  lock,    \* leader:startup:sync_worker in Redis
  worker,  \* SyncWorker: where it is, and what is left of its batch
  client,  \* the request that stores or deletes a memory
  listed,  \* memories a run of _retry_failed_syncs has still to retry
  faults,
  hit      \* history: memories touched by a cause in Forgiven

dataVars == <<store, failed, vector>>
boxVars  == <<outbox, dlq>>
procVars == <<up, lock, worker, client, listed>>
vars == <<dataVars, boxVars, procVars, faults, hit>>

Off    == [pc |-> "off", batch |-> {}]
Asleep == [pc |-> "asleep", batch |-> {}]

Init ==
  /\ store = [m \in Memories |-> "none"] /\ failed = {} /\ vector = {}
  /\ outbox = <<>> /\ dlq = {}
  /\ up = TRUE /\ lock = TRUE /\ worker = Asleep
  /\ client = [m \in Memories |-> "idle"] /\ listed = {}
  /\ faults = 0 /\ hit = {}

Fault == faults < MaxFaults /\ faults' = faults + 1

Blame(ms, cause) == hit' = IF cause \in Forgiven THEN hit \cup ms ELSE hit

(* MongoSyncOutboxRepository.create()                                      *)
Create(op, m) ==
  /\ Len(outbox) < MaxEntries
  /\ outbox' = Append(outbox, [op |-> op, mem |-> m, status |-> "pending",
                               tries |-> 0, waits |-> FALSE, ran |-> 0])

-----------------------------------------------------------------------------
(* MemoryService                                                           *)

(* store_memory: the document is created, with sync_state "pending".       *)
StoreMemory(m) ==
  /\ up /\ client[m] = "idle" /\ store[m] = "none"
  /\ store' = [store EXCEPT ![m] = "live"]
  /\ \/ /\ client' = [client EXCEPT ![m] = "stored"]
        /\ UNCHANGED <<faults, hit>>
     \/ Fault /\ Blame({m}, "unqueued") /\ UNCHANGED client
  /\ UNCHANGED <<failed, vector, boxVars, up, lock, worker, listed>>

(* store_memory: the entry is written; "pending" is written once more. The *)
(* entry may be there although one of the two failed.                      *)
QueueUpsert(m) ==
  /\ client[m] = "stored"
  /\ \/ /\ Create("upsert", m)
        /\ client' = [client EXCEPT ![m] = "idle"]
        /\ UNCHANGED <<faults, hit>>
     \/ /\ Fault /\ Blame({m}, "unqueued")
        /\ Create("upsert", m) \/ UNCHANGED outbox
        /\ client' = [client EXCEPT ![m] = "refused"]
  /\ UNCHANGED <<dataVars, dlq, up, lock, worker, listed>>

(* store_memory: the entry could not be written.                           *)
MarkUnsynced(m) ==
  /\ client[m] = "refused"
  /\ client' = [client EXCEPT ![m] = "idle"]
  /\ \/ /\ failed' = failed \cup {n \in {m} : store[m] = "live"}
        /\ UNCHANGED faults
     \/ Fault /\ UNCHANGED failed
  /\ UNCHANGED <<store, vector, boxVars, up, lock, worker, listed, hit>>

(* delete_memory: the entry first, whose failure is ignored ...            *)
QueueDelete(m) ==
  /\ up /\ client[m] = "idle" /\ store[m] = "live"
  /\ \/ Create("delete", m) /\ UNCHANGED <<faults, hit>>
     \/ /\ Fault /\ Blame({m}, "orphaned")
        /\ Create("delete", m) \/ UNCHANGED outbox
  /\ client' = [client EXCEPT ![m] = "deleting"]
  /\ UNCHANGED <<dataVars, dlq, up, lock, worker, listed>>

(* ... then the document, where a failure may leave it.                    *)
DeleteMemory(m) ==
  LET gone == store' = [store EXCEPT ![m] = "gone"] /\ failed' = failed \ {m}
  IN
  /\ client[m] = "deleting"
  /\ \/ gone /\ UNCHANGED <<faults, hit>>
     \/ /\ Fault /\ Blame({m}, "undeleted")
        /\ gone \/ UNCHANGED <<store, failed>>
  /\ client' = [client EXCEPT ![m] = "idle"]
  /\ UNCHANGED <<vector, boxVars, up, lock, worker, listed>>

(* cleanup_expired: documents go, and nothing tells Qdrant.                *)
Expire(m) ==
  /\ up /\ store[m] = "live"
  /\ store' = [store EXCEPT ![m] = "gone"] /\ failed' = failed \ {m}
  /\ Blame({m}, "expired")
  /\ UNCHANGED <<vector, boxVars, procVars, faults>>

-----------------------------------------------------------------------------
(* ReconciliationJob._retry_failed_syncs. update_sync_state() finds no     *)
(* document: memory ids are no ObjectIds. So a memory stays "failed".      *)

FindFailed ==
  /\ up /\ listed = {} /\ failed # {}
  /\ listed' = failed
  /\ UNCHANGED <<dataVars, boxVars, up, lock, worker, client, faults, hit>>

RetryFailed(m) ==
  /\ up /\ m \in listed
  /\ \/ Create("upsert", m) /\ UNCHANGED faults
     \/ Fault /\ UNCHANGED outbox
  /\ listed' = listed \ {m}
  /\ UNCHANGED <<dataVars, dlq, up, lock, worker, client, hit>>

-----------------------------------------------------------------------------
(* SyncWorker                                                              *)

NewestFirst == \* mutant: the order of created_at turned round
  CHOOSE c \in worker.batch : \A d \in worker.batch : c.id >= d.id

(* The copy of the entry being processed: the oldest of the batch.         *)
Entry == CHOOSE c \in worker.batch : \A d \in worker.batch : c.id <= d.id

Pending == {e \in DOMAIN outbox : outbox[e].status = "pending"}

DueOnce == \* mutant: only entries without a next_retry_at
  {e \in Pending : outbox[e].tries = 0}

Due == {e \in Pending : ~outbox[e].waits}

(* get_pending_entries: copies of what is due, of the oldest BatchSize.    *)
Poll ==
  LET oldest == {e \in Due : Cardinality({d \in Due : d < e}) < BatchSize} IN
  /\ worker.pc = "asleep" /\ oldest # {}
  /\ worker' = [pc |-> "claim",
                batch |-> {[id |-> e, tries |-> outbox[e].tries] : e \in oldest}]
  /\ UNCHANGED <<dataVars, boxVars, up, lock, client, listed, faults, hit>>

To(p) == worker' = [worker EXCEPT !.pc = p]

(* The next entry of the batch, else the sleep until the next poll.        *)
NextEntry ==
  LET rest == worker.batch \ {Entry} IN
  worker' = IF rest = {} THEN Asleep ELSE [pc |-> "claim", batch |-> rest]

Mark(x) == outbox' = [outbox EXCEPT ![Entry.id].status = x]

(* A command of the worker that writes w to MongoDB and goes on to n: done,*)
(* or failed with or without effect, which goes on to x.                   *)
Command(p, w, n, x) ==
  /\ worker.pc = p
  /\ \/ w /\ n /\ UNCHANGED faults
     \/ Fault /\ x /\ (w \/ UNCHANGED boxVars)
  /\ UNCHANGED <<dataVars, up, lock, client, listed>>

(* mark_processing is outside the try: its failure ends the batch.         *)
Claim ==
  /\ worker.pc = "claim"
  /\ \/ Mark("processing") /\ To("execute") /\ UNCHANGED <<faults, hit>>
     \/ /\ Fault /\ worker' = Asleep
        /\ \/ /\ Mark("processing")
              /\ Blame({outbox[Entry.id].mem}, "stranded")
           \/ UNCHANGED <<outbox, hit>>
  /\ UNCHANGED <<dataVars, dlq, up, lock, client, listed>>

(* upsert_memory and delete_memory catch every error and return.           *)
Execute ==
  LET e == outbox[Entry.id] IN
  /\ worker.pc = "execute"
  /\ \/ /\ vector' = IF e.op = "upsert" THEN vector \cup {e.mem}
                     ELSE vector \ {e.mem}
        /\ UNCHANGED <<faults, hit>>
     \/ Fault /\ Blame({e.mem}, "qdrant") /\ UNCHANGED vector
  /\ outbox' = [outbox EXCEPT ![Entry.id].ran = @ + 1]
  /\ To("complete")
  /\ UNCHANGED <<store, failed, dlq, up, lock, client, listed>>

BuryLate == \* mutant: one try too many
  To(IF Entry.tries + 1 > MaxRetries THEN "bury" ELSE "retry")

(* _handle_failure: OutboxEntry.mark_failed on the copy decides.           *)
HandleFailure == To(IF Entry.tries + 1 >= MaxRetries THEN "bury" ELSE "retry")

Complete ==
  /\ Command("complete", Mark("completed") /\ UNCHANGED dlq,
             NextEntry /\ UNCHANGED hit,
             HandleFailure /\ Blame({outbox[Entry.id].mem}, "reopened"))

(* mark_failed of the repository: pending again, not before next_retry_at. *)
Retry ==
  /\ Command("retry",
             /\ outbox' = [outbox EXCEPT ![Entry.id] =
                  [@ EXCEPT !.status = "pending", !.waits = TRUE,
                            !.tries = Entry.tries + 1]]
             /\ UNCHANGED dlq,
             NextEntry, worker' = Asleep)
  /\ UNCHANGED hit

FailedOnly == \* mutant: the entry is failed, but not inserted
  /\ Command("bury", UNCHANGED boxVars, To("mark"), worker' = Asleep)
  /\ UNCHANGED hit

(* move_to_dead_letter_queue: the dead letter first ...                    *)
Bury ==
  /\ Command("bury", dlq' = dlq \cup {Entry.id} /\ UNCHANGED outbox,
             To("mark"), worker' = Asleep)
  /\ UNCHANGED hit

(* ... then the entry.                                                     *)
MarkFailed ==
  /\ Command("mark", Mark("failed") /\ UNCHANGED dlq,
             NextEntry, worker' = Asleep)
  /\ UNCHANGED hit

(* next_retry_at comes.                                                    *)
RetryDue(e) ==
  /\ e \in DOMAIN outbox /\ outbox[e].waits
  /\ outbox' = [outbox EXCEPT ![e].waits = FALSE]
  /\ UNCHANGED <<dataVars, dlq, procVars, faults, hit>>

-----------------------------------------------------------------------------
(* The process                                                             *)

(* A crash, or a shutdown, which cancels the worker and the requests.      *)
Stop ==
  /\ up /\ Fault
  /\ up' = FALSE /\ worker' = Off /\ listed' = {}
  /\ client' = [m \in Memories |-> "idle"]
  /\ hit' = hit \cup {m \in Memories :
       \/ client[m] \in {"stored", "refused"} /\ "unqueued" \in Forgiven
       \/ client[m] = "deleting" /\ "undeleted" \in Forgiven
       \/ /\ worker.pc = "execute" /\ m = outbox[Entry.id].mem
          /\ "stranded" \in Forgiven}
  /\ UNCHANGED <<dataVars, boxVars, lock>>

(* _try_acquire_startup_singleton: without the lock there is no worker.    *)
Start ==
  /\ ~up /\ up' = TRUE
  /\ worker' = IF lock THEN Off ELSE Asleep
  /\ lock' = TRUE
  /\ UNCHANGED <<dataVars, boxVars, client, listed, faults, hit>>

(* Six hours after it was taken. stop() does not release it.               *)
LockExpires ==
  /\ lock /\ lock' = FALSE
  /\ UNCHANGED <<dataVars, boxVars, up, worker, client, listed, faults, hit>>

Work == Poll \/ Claim \/ Execute \/ Complete \/ Retry \/ Bury \/ MarkFailed

Next ==
  \/ \E m \in Memories :
       \/ StoreMemory(m) \/ QueueUpsert(m) \/ MarkUnsynced(m)
       \/ QueueDelete(m) \/ DeleteMemory(m) \/ Expire(m) \/ RetryFailed(m)
  \/ FindFailed \/ Work
  \/ \E e \in 1..MaxEntries : RetryDue(e)
  \/ Stop \/ Start \/ LockExpires

Spec == Init /\ [][Next]_vars

(* The worker is a loop, retries come due, and a process that stopped is   *)
(* started again. Nobody has to store, delete or reconcile anything.       *)
FairSpec ==
  /\ Spec
  /\ WF_vars(Work) /\ WF_vars(Start)
  /\ \A e \in 1..MaxEntries : WF_vars(RetryDue(e))

-----------------------------------------------------------------------------
Entries == [op : {"upsert", "delete"}, mem : Memories,
            status : {"pending", "processing", "completed", "failed"},
            tries : 0..MaxRetries, waits : BOOLEAN, ran : Nat]

TypeOK ==
  /\ store \in [Memories -> {"none", "live", "gone"}]
  /\ failed \subseteq Memories /\ vector \subseteq Memories
  /\ outbox \in Seq(Entries) /\ Len(outbox) <= MaxEntries
  /\ dlq \subseteq DOMAIN outbox
  /\ up \in BOOLEAN /\ lock \in BOOLEAN
  /\ worker \in [pc : {"off", "asleep", "claim", "execute", "complete", "retry",
                       "bury", "mark"},
                 batch : SUBSET [id : DOMAIN outbox, tries : 0..(MaxRetries - 1)]]
  /\ (worker.batch = {}) <=> (worker.pc \in {"off", "asleep"})
  /\ client \in [Memories -> {"idle", "stored", "refused", "deleting"}]
  /\ listed \subseteq Memories
  /\ faults \in 0..MaxFaults /\ hit \subseteq Memories

Status(e) == IF e \in DOMAIN outbox THEN outbox[e].status ELSE "unwritten"

(* An entry nobody looks at any more: get_pending_entries asks for PENDING.*)
Stranded(e) ==
  /\ Status(e) = "processing"
  /\ \A c \in worker.batch : c.id # e

Quiet(m) == /\ client[m] = "idle" /\ m \notin listed
            /\ \A e \in DOMAIN outbox :
                 \/ outbox[e].mem # m \/ Stranded(e)
                 \/ Status(e) \in {"completed", "failed"}

(* When nothing will be done any more for a memory, Qdrant has its vector  *)
(* if and only if MongoDB has it - unless a cause in Forgiven touched this *)
(* very memory. Faults at one memory's commands do no harm to the others,  *)
(* whose entries wait in the same batches and outlive the same restarts.   *)
Converged ==
  \A m \in Memories \ hit :
    Quiet(m) => (m \in vector <=> store[m] = "live")

(* An entry is executed MaxRetries times at most, whatever fails: also     *)
(* when the worker dies, or the count of its copy cannot be written. What  *)
(* is FAILED lies in the dead letters; what lies there was tried as often  *)
(* as it may be, and is never tried again.                                 *)
Buried ==
  \A e \in DOMAIN outbox :
    /\ outbox[e].ran <= MaxRetries
    /\ outbox[e].status = "failed" => e \in dlq
    /\ e \in dlq => outbox[e].ran = MaxRetries /\ outbox[e].status # "pending"

(* Every entry is completed, dead-lettered or stranded, as long as there   *)
(* is a worker: no entry holds up the others for ever.                     *)
Settles ==
  \A e \in 1..MaxEntries :
    Status(e) = "pending" ~>
      Status(e) \in {"completed", "failed"} \/ Stranded(e) \/ worker.pc = "off"

(* "Ensures reliable MongoDB -> Qdrant synchronization": every entry is    *)
(* taken up.                                                               *)
TakenUp == \A e \in 1..MaxEntries : Status(e) = "pending" ~> Status(e) # "pending"

====
