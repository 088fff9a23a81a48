--------------------------- MODULE SyncOutboxProofs ---------------------------
(***************************************************************************)
(* Theorems about SyncOutbox for any memories, entries, batches, retries   *)
(* and faults.                                                             *)
(***************************************************************************)
EXTENDS SyncOutbox, FiniteSetTheorems, SequenceTheorems, WellFoundedInduction, TLAPS

-----------------------------------------------------------------------------
(* How often an entry was executed, by its status.                         *)
CountOf(e) ==
  /\ outbox[e].ran <= MaxRetries
  /\ outbox[e].status = "pending" =>
       outbox[e].ran = outbox[e].tries /\ outbox[e].tries < MaxRetries /\ e \notin dlq
  /\ outbox[e].status = "failed" => e \in dlq
  /\ e \in dlq => outbox[e].ran = MaxRetries

Counted == \A e \in DOMAIN outbox : CountOf(e)

(* The worker's copies are as good as the entries: those still to be       *)
(* processed are pending, and the one in hand was executed as its count    *)
(* says.                                                                   *)
InHand == worker.pc \in {"execute", "complete", "retry", "bury", "mark"}

Untaken(c) == worker.pc = "claim" \/ c # Entry

Fits ==
  LET e == outbox[Entry.id] IN
  /\ e.status \in (IF worker.pc \in {"execute", "complete"} THEN {"processing"}
                   ELSE {"processing", "completed"})
  /\ e.ran = (IF worker.pc = "execute" THEN Entry.tries ELSE Entry.tries + 1)
  /\ worker.pc \in {"execute", "complete", "retry", "bury"} => Entry.id \notin dlq
  /\ worker.pc = "retry" => Entry.tries + 1 < MaxRetries
  /\ worker.pc \in {"bury", "mark"} => Entry.tries + 1 = MaxRetries
  /\ worker.pc = "mark" => Entry.id \in dlq

Copied ==
  /\ \A c, d \in worker.batch : c.id = d.id => c = d
  /\ \A c \in worker.batch : Untaken(c) =>
       outbox[c.id].status = "pending" /\ outbox[c.id].tries = c.tries
  /\ InHand => Fits

(* Without a process there is no worker.                                   *)
Down == ~up => worker.pc = "off"

(* A memory that no cause touched has at most one upsert and then one      *)
(* delete, which are executed in that order, each without a failure.       *)
Of(m) == {e \in DOMAIN outbox : outbox[e].mem = m}

Has(m, op) == \E e \in Of(m) : outbox[e].op = op

Executed(m, op) == \E e \in Of(m) : outbox[e].op = op /\ outbox[e].ran # 0

(* Its entries are executed once, and never put off or given up.           *)
Smooth(m) ==
  /\ m \notin failed \cup listed
  /\ \A e \in Of(m) :
       /\ ~outbox[e].waits /\ outbox[e].status # "failed"
       /\ outbox[e].status = "pending" => outbox[e].ran = 0
       /\ outbox[e].status = "completed" => outbox[e].ran # 0

(* What is in processing was executed, or the worker is about to. Of two   *)
(* entries of a memory, the worker holds none without the older.           *)
InBatch(e) == \E c \in worker.batch : c.id = e

Held(m) ==
  /\ worker.pc \in {"retry", "bury", "mark"} => Entry.id \notin Of(m)
  /\ \A e \in Of(m) : outbox[e].status = "processing" =>
       outbox[e].ran # 0 \/ (worker.pc = "execute" /\ Entry.id = e)
  /\ worker.pc = "execute" /\ Entry.id \in Of(m) => outbox[Entry.id].ran = 0
  /\ \A u, d \in Of(m) :
       /\ outbox[u].op = "upsert" /\ outbox[d].op = "delete"
       /\ outbox[u].status = "pending" /\ InBatch(d)
       => InBatch(u)

InStep(m) ==
  /\ store[m] = "none" => client[m] = "idle" /\ ~Has(m, "upsert") /\ ~Has(m, "delete")
  /\ client[m] = "stored" => store[m] = "live" /\ ~Has(m, "upsert") /\ ~Has(m, "delete")
  /\ client[m] # "refused"
  /\ client[m] = "deleting" => store[m] = "live" /\ Has(m, "upsert") /\ Has(m, "delete")
  /\ store[m] = "live" /\ client[m] = "idle" => Has(m, "upsert") /\ ~Has(m, "delete")
  /\ store[m] = "gone" => client[m] = "idle" /\ Has(m, "upsert") /\ Has(m, "delete")

Ordered(m) ==
  \A u, d \in Of(m) :
    outbox[u].op = "upsert" /\ outbox[d].op = "delete" =>
      u < d /\ (outbox[d].ran # 0 => outbox[u].ran # 0)

Mirrored(m) == m \in vector <=> Executed(m, "upsert") /\ ~Executed(m, "delete")

Clean(m) == Smooth(m) /\ Held(m) /\ InStep(m) /\ Ordered(m) /\ Mirrored(m)

Untouched == Forgiven = Causes => \A m \in Memories \ hit : Clean(m)

IInv == TypeOK /\ Counted /\ Copied /\ Down /\ Untouched

-----------------------------------------------------------------------------
(* The outbox and the batch. *)
Box == Seq(Entries)

LEMMA BoxTyped ==
  ASSUME TypeOK
  PROVE  /\ outbox \in Box /\ Len(outbox) \in Nat /\ DOMAIN outbox = 1..Len(outbox)
         /\ \A e \in DOMAIN outbox : outbox[e] \in Entries /\ e \in Nat
  <1>1. outbox \in Seq(Entries)
    BY DEF TypeOK
  <1>2. /\ Len(outbox) \in Nat /\ DOMAIN outbox = 1..Len(outbox)
        /\ \A e \in 1..Len(outbox) : outbox[e] \in Entries
    BY <1>1, LenProperties, ElementOfSeq
  <1>3. QED
    BY <1>1, <1>2 DEF Box

LEMMA LeastExists ==
  ASSUME NEW T \in SUBSET Nat, T # {}
  PROVE  \E x \in T : \A y \in T : x <= y
  <1>1. PICK x \in T : \A y \in T : ~(<<y, x>> \in OpToRel(<, Nat))
    BY WFMin, NatLessThanWellFounded
  <1>2. \A y \in T : ~(y < x)
    BY <1>1 DEF OpToRel
  <1>3. QED
    BY <1>2

AtWork == worker.pc = "claim" \/ InHand

LEMMA OldestInHand ==
  ASSUME TypeOK, AtWork
  PROVE  /\ Entry \in worker.batch /\ \A d \in worker.batch : Entry.id <= d.id
         /\ Entry.id \in DOMAIN outbox /\ outbox[Entry.id] \in Entries
         /\ Entry.tries \in 0..(MaxRetries - 1)
  <1>1. /\ worker.batch \subseteq [id : DOMAIN outbox, tries : 0..(MaxRetries - 1)]
        /\ worker.batch # {}
    BY DEF TypeOK, AtWork, InHand
  <1> DEFINE ids == {c.id : c \in worker.batch}
  <1>2. ids \in SUBSET Nat /\ ids # {}
    BY <1>1, BoxTyped
  <1>3. PICK i \in ids : \A j \in ids : i <= j
    BY <1>2, LeastExists
  <1>4. \E c \in worker.batch : \A d \in worker.batch : c.id <= d.id
    BY <1>3
  <1>5. Entry \in worker.batch /\ \A d \in worker.batch : Entry.id <= d.id
    BY <1>4 DEF Entry
  <1>6. QED
    BY <1>1, <1>5, BoxTyped

(* Only entry e changes, in what does not say what is to be done. *)
Only(e) ==
  /\ outbox' \in Box /\ Len(outbox') = Len(outbox) /\ DOMAIN outbox' = DOMAIN outbox
  /\ \A d \in DOMAIN outbox :
       /\ outbox'[d].op = outbox[d].op /\ outbox'[d].mem = outbox[d].mem
       /\ d # e => outbox'[d] = outbox[d]

LEMMA ChangeOne ==
  ASSUME TypeOK, NEW e \in DOMAIN outbox, NEW x \in Entries,
         x.op = outbox[e].op, x.mem = outbox[e].mem,
         outbox' = [outbox EXCEPT ![e] = x]
  PROVE  Only(e) /\ outbox'[e] = x
  <1>1. outbox \in Seq(Entries) /\ e \in 1..Len(outbox)
    BY BoxTyped DEF Box
  <1>2. outbox' \in Seq(Entries) /\ Len(outbox') = Len(outbox)
    BY <1>1, ExceptSeq
  <1>3. DOMAIN outbox' = DOMAIN outbox
    BY <1>1, <1>2, LenProperties
  <1>4. \A d \in DOMAIN outbox : outbox'[d] = IF d = e THEN x ELSE outbox[d]
    BY <1>1
  <1>5. QED
    BY <1>2, <1>3, <1>4 DEF Only, Box

LEMMA MarkDoes ==
  ASSUME TypeOK, AtWork,
         NEW x \in {"pending", "processing", "completed", "failed"}, Mark(x)
  PROVE  LET e == outbox[Entry.id]  f == outbox'[Entry.id] IN
         /\ Only(Entry.id)
         /\ f.status = x /\ f.tries = e.tries /\ f.waits = e.waits /\ f.ran = e.ran
  <1> DEFINE y == [outbox[Entry.id] EXCEPT !.status = x]
  <1>1. Entry.id \in DOMAIN outbox /\ outbox[Entry.id] \in Entries
    BY OldestInHand
  <1>2. y \in Entries
    BY <1>1 DEF Entries
  <1>3. outbox' = [outbox EXCEPT ![Entry.id] = y]
    BY DEF Mark
  <1>4. /\ y.op = outbox[Entry.id].op /\ y.mem = outbox[Entry.id].mem
        /\ y.status = x /\ y.tries = outbox[Entry.id].tries
        /\ y.waits = outbox[Entry.id].waits /\ y.ran = outbox[Entry.id].ran
    BY <1>1 DEF Entries
  <1> HIDE DEF y
  <1>5. Only(Entry.id) /\ outbox'[Entry.id] = y
    BY <1>1, <1>2, <1>3, <1>4, ChangeOne
  <1>6. QED
    BY <1>4, <1>5

(* A new entry is the last, and pending. *)
Added(op, m) ==
  LET n == Len(outbox) + 1 IN
  /\ outbox' \in Box /\ Len(outbox') = n /\ n <= MaxEntries
  /\ DOMAIN outbox' = DOMAIN outbox \cup {n} /\ n \notin DOMAIN outbox
  /\ \A d \in DOMAIN outbox : d < n /\ outbox'[d] = outbox[d]
  /\ outbox'[n] = [op |-> op, mem |-> m, status |-> "pending", tries |-> 0,
                   waits |-> FALSE, ran |-> 0]

LEMMA CreateDoes ==
  ASSUME TypeOK, NEW m \in Memories, NEW op \in {"upsert", "delete"}, Create(op, m)
  PROVE  Added(op, m)
  <1> DEFINE x == [op |-> op, mem |-> m, status |-> "pending", tries |-> 0,
                   waits |-> FALSE, ran |-> 0]
  <1>1. x \in Entries
    BY OutboxAssumption DEF Entries
  <1>2. outbox \in Seq(Entries) /\ DOMAIN outbox = 1..Len(outbox) /\ Len(outbox) \in Nat
    BY BoxTyped DEF Box
  <1>3. outbox' = Append(outbox, x) /\ Len(outbox) < MaxEntries
    BY DEF Create
  <1> HIDE DEF x
  <1>4. /\ outbox' \in Seq(Entries) /\ Len(outbox') = Len(outbox) + 1
        /\ \A i \in 1..Len(outbox) : outbox'[i] = outbox[i]
        /\ outbox'[Len(outbox) + 1] = x
    BY <1>1, <1>2, <1>3, AppendProperties
  <1>5. DOMAIN outbox' = 1..(Len(outbox) + 1)
    BY <1>4, LenProperties
  <1>6. QED
    BY <1>2, <1>3, <1>4, <1>5, OutboxAssumption DEF Added, Box, x

-----------------------------------------------------------------------------
(* What the worker's steps come down to. *)
LEMMA ToDoes ==
  ASSUME TypeOK, NEW p, To(p)
  PROVE  worker'.pc = p /\ worker'.batch = worker.batch /\ Entry' = Entry
  <1>1. worker'.pc = p /\ worker'.batch = worker.batch
    BY DEF TypeOK, To
  <1>2. QED
    BY <1>1 DEF Entry

LEMMA SleepDoes ==
  ASSUME worker' = Asleep \/ worker' = Off
  PROVE  worker'.batch = {} /\ worker'.pc \in {"off", "asleep"}
  BY DEF Asleep, Off

LEMMA NextEntryDoes ==
  ASSUME NextEntry
  PROVE  /\ worker'.batch = worker.batch \ {Entry}
         /\ worker'.pc = (IF worker'.batch = {} THEN "asleep" ELSE "claim")
  BY DEF NextEntry, Asleep

BoxOK ==
  /\ outbox \in Seq(Entries) /\ Len(outbox) <= MaxEntries
  /\ dlq \subseteq DOMAIN outbox
  /\ worker \in [pc : {"off", "asleep", "claim", "execute", "complete", "retry",
                       "bury", "mark"},
                 batch : SUBSET [id : DOMAIN outbox, tries : 0..(MaxRetries - 1)]]
  /\ (worker.batch = {}) <=> (worker.pc \in {"off", "asleep"})

RestOK ==
  /\ store \in [Memories -> {"none", "live", "gone"}]
  /\ failed \subseteq Memories /\ vector \subseteq Memories
  /\ up \in BOOLEAN /\ lock \in BOOLEAN
  /\ client \in [Memories -> {"idle", "stored", "refused", "deleting"}]
  /\ listed \subseteq Memories
  /\ faults \in 0..MaxFaults /\ hit \subseteq Memories

LEMMA TypeParts == TypeOK <=> BoxOK /\ RestOK
  BY DEF TypeOK, BoxOK, RestOK

Worked == BoxOK /\ Counted /\ Copied

(* The worker sleeps, or is off, whatever else happened to one entry. *)
LEMMA SleepKeeps ==
  ASSUME TypeOK, worker' = Asleep \/ worker' = Off, Counted',
         outbox' \in Box, Len(outbox') = Len(outbox), dlq' \subseteq DOMAIN outbox'
  PROVE  Worked'
  <1>1. BoxOK'
    BY DEF BoxOK, TypeOK, Box, Asleep, Off
  <1>2. Copied'
    BY SleepDoes DEF Copied, InHand
  <1>3. QED
    BY <1>1, <1>2 DEF Worked

LEMMA NextKeeps ==
  ASSUME TypeOK, Copied, AtWork, NextEntry, Only(Entry.id), Counted',
         dlq' \subseteq DOMAIN outbox
  PROVE  Worked'
  <1>1. /\ worker'.batch = worker.batch \ {Entry}
        /\ worker'.pc \in {"claim", "asleep"}
        /\ worker'.batch = {} <=> worker'.pc = "asleep"
        /\ worker' \in [pc : {"claim", "asleep"}, batch : {worker'.batch}]
    BY DEF NextEntry, Asleep
  <1>2. BoxOK'
    BY <1>1 DEF BoxOK, TypeOK, Only, Box
  <1>3. Copied'
    <2>1. \A c \in worker'.batch :
            /\ outbox[c.id].status = "pending" /\ outbox[c.id].tries = c.tries
            /\ c.id # Entry.id /\ c.id \in DOMAIN outbox
      BY <1>1, OldestInHand DEF Copied, Untaken, TypeOK
    <2>2. QED
      BY <1>1, <2>1 DEF Copied, Only, InHand
  <1>4. QED
    BY <1>2, <1>3 DEF Worked

LEMMA ToKeeps ==
  ASSUME TypeOK, Copied, AtWork, NEW p \in {"execute", "complete", "retry", "bury", "mark"},
         To(p), Only(Entry.id), Counted', dlq' \subseteq DOMAIN outbox, Fits'
  PROVE  Worked'
  <1>1. /\ worker'.pc = p /\ worker'.batch = worker.batch /\ Entry' = Entry
        /\ worker' = [pc |-> p, batch |-> worker.batch]
    BY ToDoes DEF TypeOK, To
  <1>2. BoxOK'
    BY <1>1, OldestInHand DEF BoxOK, TypeOK, Only, Box
  <1>3. Copied'
    <2>1. \A c \in worker.batch : c # Entry =>
            /\ outbox[c.id].status = "pending" /\ outbox[c.id].tries = c.tries
            /\ c.id # Entry.id /\ c.id \in DOMAIN outbox
      BY OldestInHand DEF Copied, Untaken, TypeOK
    <2>2. QED
      BY <1>1, <2>1 DEF Copied, Only, Untaken
  <1>4. QED
    BY <1>2, <1>3 DEF Worked

(* A step of the worker with a failed command, which sends it to sleep. *)
LEMMA CountKept ==
  ASSUME TypeOK, Counted, outbox' = outbox, dlq' = dlq
  PROVE  Counted' /\ outbox' \in Box /\ Len(outbox') = Len(outbox)
         /\ dlq' \subseteq DOMAIN outbox'
  BY BoxTyped DEF TypeOK, Counted, CountOf

(* One entry's status changes to one that is neither pending nor failed. *)
LEMMA MarkCounts ==
  ASSUME TypeOK, Counted, AtWork, NEW x \in {"processing", "completed"}, Mark(x),
         dlq' = dlq
  PROVE  Only(Entry.id) /\ Counted' /\ dlq' \subseteq DOMAIN outbox
  <1>1. Only(Entry.id) /\ outbox'[Entry.id].status = x
        /\ outbox'[Entry.id].ran = outbox[Entry.id].ran
    BY MarkDoes
  <1>2. QED
    BY <1>1, OldestInHand DEF TypeOK, Counted, CountOf, Only

LEMMA PollWorks ==
  ASSUME IInv, Poll
  PROVE  Worked'
  <1> DEFINE oldest == {e \in Due : Cardinality({d \in Due : d < e}) < BatchSize}
             batch == {[id |-> e, tries |-> outbox[e].tries] : e \in oldest}
  <1>1. /\ TypeOK /\ Counted /\ UNCHANGED boxVars /\ oldest # {}
        /\ worker' = [pc |-> "claim", batch |-> batch]
    BY DEF IInv, Poll
  <1>2. \A e \in oldest : /\ e \in DOMAIN outbox /\ outbox[e].status = "pending"
                          /\ outbox[e].tries \in 0..(MaxRetries - 1)
    BY <1>1, BoxTyped, OutboxAssumption DEF Due, Pending, Counted, CountOf, Entries
  <1>3. \A c \in batch : \E e \in oldest : c = [id |-> e, tries |-> outbox[e].tries]
    OBVIOUS
  <1>4. batch # {}
    BY <1>1
  <1> HIDE DEF batch, oldest
  <1>5. \A c \in batch :
          /\ c.id \in oldest /\ c.tries = outbox[c.id].tries
          /\ c = [id |-> c.id, tries |-> outbox[c.id].tries]
    BY <1>3
  <1>6. batch \subseteq [id : DOMAIN outbox, tries : 0..(MaxRetries - 1)]
    BY <1>2, <1>5
  <1>7. BoxOK'
    BY <1>1, <1>4, <1>6 DEF boxVars, TypeOK, BoxOK
  <1>8. Counted'
    BY <1>1 DEF boxVars, Counted, CountOf
  <1>9. Copied'
    BY <1>1, <1>2, <1>5 DEF boxVars, Copied, InHand
  <1>10. QED
    BY <1>7, <1>8, <1>9 DEF Worked

LEMMA ClaimWorks ==
  ASSUME IInv, Claim
  PROVE  Worked'
  <1>1. TypeOK /\ Counted /\ Copied /\ AtWork /\ dlq' = dlq /\ worker.pc = "claim"
    BY DEF IInv, Claim, AtWork
  <1>2. /\ outbox[Entry.id].status = "pending" /\ outbox[Entry.id].ran = Entry.tries
        /\ Entry.id \notin dlq
    BY <1>1, OldestInHand DEF Copied, Untaken, Counted, CountOf
  <1>3. CASE Mark("processing") /\ To("execute")
    <2>1. Only(Entry.id) /\ Counted' /\ dlq' \subseteq DOMAIN outbox
      BY <1>1, <1>3, MarkCounts
    <2>2. Fits'
      BY <1>1, <1>2, <1>3, MarkDoes, ToDoes DEF Fits
    <2>3. QED
      BY <1>1, <1>3, <2>1, <2>2, ToKeeps
  <1>4. CASE worker' = Asleep /\ (Mark("processing") \/ outbox' = outbox)
    <2>1. Counted' /\ outbox' \in Box /\ Len(outbox') = Len(outbox)
          /\ dlq' \subseteq DOMAIN outbox'
      BY <1>1, <1>4, MarkCounts, CountKept DEF Only
    <2>2. QED
      BY <1>1, <1>4, <2>1, SleepKeeps
  <1>5. QED
    BY <1>3, <1>4 DEF Claim

LEMMA ExecuteDoes ==
  ASSUME TypeOK, Execute
  PROVE  LET e == outbox[Entry.id]  f == outbox'[Entry.id] IN
         /\ Only(Entry.id)
         /\ f.status = e.status /\ f.tries = e.tries /\ f.waits = e.waits
         /\ f.ran = e.ran + 1
  <1> DEFINE y == [outbox[Entry.id] EXCEPT !.ran = @ + 1]
  <1>1. Entry.id \in DOMAIN outbox /\ outbox[Entry.id] \in Entries
    BY OldestInHand DEF Execute, AtWork, InHand
  <1>2. y \in Entries
    BY <1>1 DEF Entries
  <1>3. outbox' = [outbox EXCEPT ![Entry.id] = y]
    BY DEF Execute
  <1>4. /\ y.op = outbox[Entry.id].op /\ y.mem = outbox[Entry.id].mem
        /\ y.status = outbox[Entry.id].status /\ y.tries = outbox[Entry.id].tries
        /\ y.waits = outbox[Entry.id].waits /\ y.ran = outbox[Entry.id].ran + 1
    BY <1>1 DEF Entries
  <1> HIDE DEF y
  <1>5. Only(Entry.id) /\ outbox'[Entry.id] = y
    BY <1>1, <1>2, <1>3, <1>4, ChangeOne
  <1>6. QED
    BY <1>4, <1>5

LEMMA ExecuteWorks ==
  ASSUME IInv, Execute
  PROVE  Worked'
  <1>1. /\ TypeOK /\ Counted /\ Copied /\ AtWork /\ dlq' = dlq
        /\ worker.pc = "execute" /\ To("complete") /\ Fits
    BY DEF IInv, Execute, AtWork, InHand, Copied
  <1>2. /\ outbox[Entry.id].status = "processing" /\ outbox[Entry.id].ran = Entry.tries
        /\ Entry.id \notin dlq /\ Entry.tries \in 0..(MaxRetries - 1)
    BY <1>1, OldestInHand DEF Fits
  <1>3. Only(Entry.id) /\ outbox'[Entry.id].status = "processing"
        /\ outbox'[Entry.id].ran = Entry.tries + 1
    BY <1>1, <1>2, ExecuteDoes
  <1>4. Counted'
    BY <1>1, <1>2, <1>3, OutboxAssumption DEF Counted, CountOf, Only
  <1>5. Fits'
    BY <1>1, <1>2, <1>3, ToDoes DEF Fits
  <1>6. dlq' \subseteq DOMAIN outbox
    BY <1>1 DEF TypeOK
  <1>7. QED
    BY <1>1, <1>3, <1>4, <1>5, <1>6, ToKeeps

LEMMA HandleFailureDoes ==
  ASSUME TypeOK, AtWork, HandleFailure
  PROVE  \E p \in {"bury", "retry"} :
           /\ To(p)
           /\ p = "bury" => Entry.tries + 1 = MaxRetries
           /\ p = "retry" => Entry.tries + 1 < MaxRetries
  BY OldestInHand, OutboxAssumption DEF HandleFailure

LEMMA CompleteWorks ==
  ASSUME IInv, Complete
  PROVE  Worked'
  <1>1. /\ TypeOK /\ Counted /\ Copied /\ AtWork
        /\ worker.pc = "complete" /\ Fits
    BY DEF IInv, Complete, Command, AtWork, InHand, Copied
  <1>2. /\ outbox[Entry.id].status = "processing" /\ outbox[Entry.id].ran = Entry.tries + 1
        /\ Entry.id \notin dlq /\ Entry.tries \in 0..(MaxRetries - 1)
    BY <1>1, OldestInHand DEF Fits
  <1>3. /\ dlq' = dlq
        /\ Mark("completed") \/ outbox' = outbox
        /\ (Mark("completed") /\ NextEntry) \/ HandleFailure
    BY DEF Complete, Command, boxVars
  <1>4. /\ Only(Entry.id) /\ Counted' /\ dlq' \subseteq DOMAIN outbox
        /\ outbox'[Entry.id].status \in {"processing", "completed"}
        /\ outbox'[Entry.id].ran = Entry.tries + 1
    <2>1. CASE Mark("completed")
      BY <1>1, <1>2, <1>3, <2>1, MarkDoes, MarkCounts
    <2>2. CASE outbox' = outbox
      BY <1>1, <1>2, <1>3, <2>2, CountKept DEF Only
    <2>3. QED
      BY <1>3, <2>1, <2>2
  <1>5. CASE NextEntry
    BY <1>1, <1>4, <1>5, NextKeeps
  <1>6. CASE HandleFailure
    <2>1. PICK p \in {"bury", "retry"} :
            /\ To(p)
            /\ p = "bury" => Entry.tries + 1 = MaxRetries
            /\ p = "retry" => Entry.tries + 1 < MaxRetries
      BY <1>1, <1>6, HandleFailureDoes
    <2>2. worker'.pc = p /\ Entry' = Entry
      BY <1>1, <2>1, ToDoes
    <2>3. Fits'
      BY <1>2, <1>3, <1>4, <2>1, <2>2 DEF Fits
    <2>4. QED
      BY <1>1, <1>4, <2>1, <2>3, ToKeeps
  <1>7. QED
    BY <1>3, <1>5, <1>6

(* mark_failed: what the entry becomes when it is tried again. *)
Again(e) ==
  /\ outbox'[e].status = "pending" /\ outbox'[e].waits
  /\ outbox'[e].tries = Entry.tries + 1 /\ outbox'[e].ran = outbox[e].ran

LEMMA RetryDoes ==
  ASSUME IInv, Retry
  PROVE  /\ dlq' = dlq
         /\ \/ /\ NextEntry \/ worker' = Asleep
               /\ Only(Entry.id) /\ Again(Entry.id)
            \/ worker' = Asleep /\ outbox' = outbox
  <1> DEFINE y == [outbox[Entry.id] EXCEPT !.status = "pending", !.waits = TRUE,
                                           !.tries = Entry.tries + 1]
  <1>1. TypeOK /\ Copied /\ AtWork /\ worker.pc = "retry"
    BY DEF IInv, Retry, Command, AtWork, InHand
  <1>2. /\ Entry.id \in DOMAIN outbox /\ outbox[Entry.id] \in Entries
        /\ Entry.tries + 1 \in 0..MaxRetries
    BY <1>1, OldestInHand, OutboxAssumption
  <1>3. y \in Entries
    BY <1>2 DEF Entries
  <1>4. /\ y.op = outbox[Entry.id].op /\ y.mem = outbox[Entry.id].mem
        /\ y.status = "pending" /\ y.tries = Entry.tries + 1
        /\ y.waits /\ y.ran = outbox[Entry.id].ran
    BY <1>2 DEF Entries
  <1>5. /\ dlq' = dlq
        /\ \/ /\ outbox' = [outbox EXCEPT ![Entry.id] = y]
              /\ NextEntry \/ worker' = Asleep
           \/ outbox' = outbox /\ worker' = Asleep
    BY DEF Retry, Command, boxVars
  <1> HIDE DEF y
  <1>6. ASSUME outbox' = [outbox EXCEPT ![Entry.id] = y]
        PROVE  Only(Entry.id) /\ Again(Entry.id)
    BY <1>1, <1>2, <1>3, <1>4, <1>6, ChangeOne DEF Again
  <1>7. QED
    BY <1>5, <1>6

LEMMA RetryWorks ==
  ASSUME IInv, Retry
  PROVE  Worked'
  <1>1. /\ TypeOK /\ Counted /\ Copied /\ AtWork
        /\ worker.pc = "retry" /\ Fits
    BY DEF IInv, Retry, Command, AtWork, InHand, Copied
  <1>2. /\ outbox[Entry.id].ran = Entry.tries + 1 /\ Entry.tries + 1 < MaxRetries
        /\ Entry.id \notin dlq /\ Entry.id \in DOMAIN outbox
    BY <1>1, OldestInHand DEF Fits
  <1>3. CASE outbox' = outbox
    BY <1>1, <1>3, RetryDoes, CountKept, SleepKeeps, NextKeeps DEF Only
  <1>4. CASE Only(Entry.id) /\ Again(Entry.id) /\ (NextEntry \/ worker' = Asleep)
    <2>1. Counted' /\ dlq' \subseteq DOMAIN outbox
      BY <1>1, <1>2, <1>4, RetryDoes DEF TypeOK, Counted, CountOf, Only, Again
    <2>2. QED
      BY <1>1, <1>4, <2>1, SleepKeeps, NextKeeps DEF Only
  <1>5. QED
    BY <1>3, <1>4, RetryDoes

LEMMA BuryWorks ==
  ASSUME IInv, Bury
  PROVE  Worked'
  <1>1. /\ TypeOK /\ Counted /\ Copied /\ AtWork
        /\ worker.pc = "bury" /\ Fits
    BY DEF IInv, Bury, Command, AtWork, InHand, Copied
  <1>2. /\ outbox[Entry.id].ran = MaxRetries
        /\ outbox[Entry.id].status \in {"processing", "completed"}
        /\ Entry.id \in DOMAIN outbox /\ Entry.tries + 1 = MaxRetries
    BY <1>1, OldestInHand DEF Fits
  <1>3. /\ outbox' = outbox
        /\ \/ dlq' = dlq \cup {Entry.id} /\ (To("mark") \/ worker' = Asleep)
           \/ dlq' = dlq /\ worker' = Asleep
    BY DEF Bury, Command, boxVars
  <1>4. Only(Entry.id) /\ Counted' /\ dlq' \subseteq DOMAIN outbox
    BY <1>1, <1>2, <1>3, BoxTyped DEF TypeOK, Only, Counted, CountOf
  <1>5. CASE worker' = Asleep
    BY <1>1, <1>4, <1>5, SleepKeeps DEF Only
  <1>6. CASE dlq' = dlq \cup {Entry.id} /\ To("mark")
    <2>1. worker'.pc = "mark" /\ Entry' = Entry
      BY <1>1, <1>6, ToDoes
    <2>2. Fits'
      BY <1>1, <1>2, <1>3, <1>6, <2>1 DEF Fits
    <2>3. QED
      BY <1>1, <1>4, <1>6, <2>2, ToKeeps
  <1>7. QED
    BY <1>3, <1>5, <1>6

LEMMA MarkFailedWorks ==
  ASSUME IInv, MarkFailed
  PROVE  Worked'
  <1>1. /\ TypeOK /\ Counted /\ Copied /\ AtWork
        /\ worker.pc = "mark" /\ Fits
    BY DEF IInv, MarkFailed, Command, AtWork, InHand, Copied
  <1>2. Entry.id \in dlq
    BY <1>1 DEF Fits
  <1>3. /\ dlq' = dlq
        /\ Mark("failed") \/ outbox' = outbox
        /\ NextEntry \/ worker' = Asleep
    BY DEF MarkFailed, Command, boxVars
  <1>4. Only(Entry.id) /\ Counted' /\ dlq' \subseteq DOMAIN outbox
    <2>1. CASE Mark("failed")
      BY <1>1, <1>2, <1>3, <2>1, MarkDoes DEF TypeOK, Counted, CountOf, Only
    <2>2. CASE outbox' = outbox
      BY <1>1, <1>3, <2>2, CountKept DEF Only
    <2>3. QED
      BY <1>3, <2>1, <2>2
  <1>5. QED
    BY <1>1, <1>3, <1>4, SleepKeeps, NextKeeps DEF Only

LEMMA RetryDueDoes ==
  ASSUME TypeOK, NEW e, RetryDue(e)
  PROVE  /\ e \in DOMAIN outbox /\ Only(e)
         /\ outbox'[e].status = outbox[e].status /\ outbox'[e].tries = outbox[e].tries
         /\ outbox'[e].ran = outbox[e].ran /\ ~outbox'[e].waits /\ outbox[e].waits
         /\ UNCHANGED <<dlq, worker>>
  <1> DEFINE y == [outbox[e] EXCEPT !.waits = FALSE]
  <1>1. e \in DOMAIN outbox /\ outbox[e] \in Entries
    BY BoxTyped DEF RetryDue
  <1>2. FALSE \in BOOLEAN
    OBVIOUS
  <1>3. y \in Entries
    BY <1>1, <1>2 DEF Entries
  <1>4. /\ y.op = outbox[e].op /\ y.mem = outbox[e].mem /\ y.status = outbox[e].status
        /\ y.tries = outbox[e].tries /\ y.ran = outbox[e].ran /\ ~y.waits
    BY <1>1 DEF Entries
  <1>5. outbox' = [outbox EXCEPT ![e] = y] /\ UNCHANGED <<dlq, worker>> /\ outbox[e].waits
    BY DEF RetryDue, procVars
  <1> HIDE DEF y
  <1>6. Only(e) /\ outbox'[e] = y
    BY <1>1, <1>3, <1>4, <1>5, ChangeOne
  <1>7. QED
    BY <1>1, <1>4, <1>5, <1>6


(* No step of the worker: entries come, and go on waiting or come due. *)
LEMMA StillWorks ==
  ASSUME IInv, dlq' = dlq, worker' = worker, outbox' \in Box, Len(outbox') <= MaxEntries,
         DOMAIN outbox \subseteq DOMAIN outbox',
         \A e \in DOMAIN outbox : /\ outbox'[e].status = outbox[e].status
                                  /\ outbox'[e].tries = outbox[e].tries
                                  /\ outbox'[e].ran = outbox[e].ran,
         \A e \in DOMAIN outbox' \ DOMAIN outbox :
           outbox'[e].status = "pending" /\ outbox'[e].tries = 0 /\ outbox'[e].ran = 0
  PROVE  Worked'
  <1>1. TypeOK /\ Counted /\ Copied /\ Entry' = Entry
    BY DEF IInv, Entry
  <1>2. BoxOK'
    <2>1. worker' \in [pc : {"off", "asleep", "claim", "execute", "complete", "retry",
                             "bury", "mark"},
                       batch : SUBSET [id : DOMAIN outbox', tries : 0..(MaxRetries - 1)]]
      BY <1>1 DEF TypeOK
    <2>2. QED
      BY <1>1, <2>1 DEF BoxOK, TypeOK, Box
  <1>3. Counted'
    <2>1. ASSUME NEW e \in DOMAIN outbox
          PROVE  CountOf(e)'
      BY <1>1 DEF Counted, CountOf
    <2>2. ASSUME NEW e \in DOMAIN outbox' \ DOMAIN outbox
          PROVE  CountOf(e)'
      BY <1>1, OutboxAssumption DEF CountOf, TypeOK
    <2>3. QED
      BY <2>1, <2>2 DEF Counted
  <1>4. Copied'
    <2>1. \A c \in worker.batch : c.id \in DOMAIN outbox
      BY <1>1 DEF TypeOK
    <2>2. InHand => Fits'
      BY <1>1, OldestInHand DEF Copied, Fits, AtWork
    <2>3. QED
      BY <1>1, <2>1, <2>2 DEF Copied, InHand, Untaken
  <1>5. QED
    BY <1>2, <1>3, <1>4 DEF Worked

LEMMA RetryDueWorks ==
  ASSUME IInv, NEW e, RetryDue(e)
  PROVE  Worked'
  <1>1. TypeOK
    BY DEF IInv
  <1>2. QED
    BY <1>1, RetryDueDoes, StillWorks DEF Only, TypeOK

(* What the others do with the outbox: nothing, or one entry more. *)
LEMMA OthersWork ==
  ASSUME IInv, dlq' = dlq, worker' = worker,
         outbox' = outbox \/ \E m \in Memories, op \in {"upsert", "delete"} : Create(op, m)
  PROVE  Worked'
  <1>1. TypeOK
    BY DEF IInv
  <1>2. CASE outbox' = outbox
    BY <1>1, <1>2, BoxTyped, StillWorks DEF TypeOK
  <1>3. CASE \E m \in Memories, op \in {"upsert", "delete"} : Added(op, m)
    BY <1>1, <1>3, StillWorks DEF Added
  <1>4. QED
    BY <1>1, <1>2, <1>3, CreateDoes

LEMMA StopsWork ==
  ASSUME IInv, Stop \/ Start
  PROVE  Worked'
  <1>1. /\ TypeOK /\ Counted /\ outbox' = outbox /\ dlq' = dlq
        /\ worker' = Asleep \/ worker' = Off
    BY DEF IInv, Stop, Start, boxVars
  <1>2. QED
    BY <1>1, CountKept, SleepKeeps


LEMMA Blamed ==
  ASSUME TypeOK, NEW ms \in SUBSET Memories, NEW cause, Blame(ms, cause)
  PROVE  hit' \subseteq Memories
  BY DEF TypeOK, Blame

LEMMA Faulted ==
  ASSUME TypeOK, Fault \/ faults' = faults
  PROVE  faults' \in 0..MaxFaults
  BY OutboxAssumption DEF TypeOK, Fault

(* Memories and requests. *)
ClientStep(m) ==
  \/ StoreMemory(m) \/ QueueUpsert(m) \/ MarkUnsynced(m)
  \/ QueueDelete(m) \/ DeleteMemory(m) \/ Expire(m) \/ RetryFailed(m)

LEMMA ClientTypes ==
  ASSUME TypeOK, NEW m \in Memories, ClientStep(m)
  PROVE  RestOK'
  <1>1. faults' \in 0..MaxFaults
    BY Faulted DEF ClientStep, StoreMemory, QueueUpsert, MarkUnsynced, QueueDelete,
         DeleteMemory, Expire, RetryFailed
  <1>2. hit' \subseteq Memories
    <2>1. {m} \in SUBSET Memories /\ hit \subseteq Memories
      BY DEF TypeOK
    <2>2. hit' = hit \/ \E cause : Blame({m}, cause)
      BY DEF ClientStep, StoreMemory, QueueUpsert, MarkUnsynced, QueueDelete,
         DeleteMemory, Expire, RetryFailed
    <2>3. QED
      BY <2>1, <2>2, Blamed
  <1>3. /\ up' = up /\ lock' = lock /\ vector' = vector
    BY DEF ClientStep, StoreMemory, QueueUpsert, MarkUnsynced, QueueDelete,
         DeleteMemory, Expire, RetryFailed, dataVars, procVars
  <1>4. store' \in [Memories -> {"none", "live", "gone"}] /\ failed' \subseteq Memories
    BY DEF TypeOK, ClientStep, StoreMemory, QueueUpsert, MarkUnsynced, QueueDelete,
         DeleteMemory, Expire, RetryFailed, dataVars
  <1>5. /\ client' \in [Memories -> {"idle", "stored", "refused", "deleting"}]
        /\ listed' \subseteq Memories
    BY DEF TypeOK, ClientStep, StoreMemory, QueueUpsert, MarkUnsynced, QueueDelete,
         DeleteMemory, Expire, RetryFailed, procVars
  <1>6. QED
    BY <1>1, <1>2, <1>3, <1>4, <1>5 DEF RestOK, TypeOK

LEMMA ClientWorks ==
  ASSUME IInv, NEW m \in Memories, ClientStep(m)
  PROVE  Worked'
  <1>1. dlq' = dlq /\ worker' = worker
    BY DEF ClientStep, StoreMemory, QueueUpsert, MarkUnsynced, QueueDelete,
         DeleteMemory, Expire, RetryFailed, boxVars, procVars
  <1>2. outbox' = outbox \/ Create("upsert", m) \/ Create("delete", m)
    BY DEF ClientStep, StoreMemory, QueueUpsert, MarkUnsynced, QueueDelete,
         DeleteMemory, Expire, RetryFailed, boxVars
  <1>3. QED
    BY <1>1, <1>2, OthersWork

LEMMA WorkTypes ==
  ASSUME TypeOK, Work
  PROVE  RestOK'
  <1>1. CASE Poll
    BY <1>1 DEF Poll, TypeOK, RestOK, dataVars
  <1>2. CASE Work /\ ~Poll
    <2>1. AtWork
      BY <1>2 DEF Work, Claim, Execute, Complete, Retry, Bury, MarkFailed, Command,
           AtWork, InHand
    <2>2. outbox[Entry.id].mem \in Memories
      BY <2>1, OldestInHand DEF Entries
    <2>3. faults' \in 0..MaxFaults
      BY <1>2, Faulted DEF Work, Claim, Execute, Complete, Retry, Bury, MarkFailed,
           Command
    <2>4. hit' \subseteq Memories
      <3>1. {outbox[Entry.id].mem} \in SUBSET Memories /\ hit \subseteq Memories
        BY <2>2 DEF TypeOK
      <3>2. hit' = hit \/ \E cause : Blame({outbox[Entry.id].mem}, cause)
        BY <1>2 DEF Work, Claim, Execute, Complete, Retry, Bury, MarkFailed, Command
      <3>3. QED
        BY <3>1, <3>2, Blamed
    <2>5. vector' \subseteq Memories
      BY <1>2, <2>2 DEF TypeOK, Work, Claim, Execute, Complete, Retry, Bury,
           MarkFailed, Command, dataVars
    <2>6. UNCHANGED <<store, failed, up, lock, client, listed>>
      BY <1>2 DEF Work, Claim, Execute, Complete, Retry, Bury, MarkFailed, Command,
           dataVars
    <2>7. QED
      BY <2>3, <2>4, <2>5, <2>6 DEF RestOK, TypeOK
  <1>3. QED
    BY <1>1, <1>2

LEMMA WorkWorks ==
  ASSUME IInv, Work
  PROVE  Worked'
  BY PollWorks, ClaimWorks, ExecuteWorks, CompleteWorks, RetryWorks, BuryWorks,
     MarkFailedWorks DEF Work

ProcessStep == FindFailed \/ Stop \/ Start \/ LockExpires \/ \E e \in 1..MaxEntries : RetryDue(e)

LEMMA ProcessTypes ==
  ASSUME TypeOK, ProcessStep
  PROVE  RestOK'
  <1>1. CASE FindFailed
    BY <1>1 DEF FindFailed, TypeOK, RestOK, dataVars
  <1>2. CASE Stop
    <2>1. faults' \in 0..MaxFaults
      BY <1>2, Faulted DEF Stop
    <2>2. QED
      BY <1>2, <2>1 DEF Stop, TypeOK, RestOK, dataVars
  <1>3. CASE Start
    BY <1>3 DEF Start, TypeOK, RestOK, dataVars
  <1>4. CASE LockExpires
    BY <1>4 DEF LockExpires, TypeOK, RestOK, dataVars
  <1>5. CASE \E e \in 1..MaxEntries : RetryDue(e)
    BY <1>5 DEF RetryDue, TypeOK, RestOK, dataVars, procVars
  <1>6. QED
    BY <1>1, <1>2, <1>3, <1>4, <1>5 DEF ProcessStep

LEMMA ProcessWorks ==
  ASSUME IInv, ProcessStep
  PROVE  Worked'
  <1>1. CASE FindFailed \/ LockExpires
    <2>1. dlq' = dlq /\ worker' = worker /\ outbox' = outbox
      BY <1>1 DEF FindFailed, LockExpires, boxVars
    <2>2. QED
      BY <2>1, OthersWork
  <1>2. QED
    BY <1>1, StopsWork, RetryDueWorks DEF ProcessStep

LEMMA NextSteps == Next <=> (\E m \in Memories : ClientStep(m)) \/ Work \/ ProcessStep
  BY DEF Next, ClientStep, ProcessStep


-----------------------------------------------------------------------------
(* A memory that no cause touched, through the steps of the others. *)
LEMMA FrameKept ==
  ASSUME NEW m \in Memories, Clean(m),
         Of(m)' = Of(m), \A e \in Of(m) : outbox'[e] = outbox[e],
         store'[m] = store[m], client'[m] = client[m], m \notin failed' \cup listed',
         m \in vector' <=> m \in vector, Held(m)'
  PROVE  Clean(m)'
  <1>1. Has(m, "upsert")' = Has(m, "upsert") /\ Has(m, "delete")' = Has(m, "delete")
    BY DEF Has
  <1>2. /\ Executed(m, "upsert")' = Executed(m, "upsert")
        /\ Executed(m, "delete")' = Executed(m, "delete")
    BY DEF Executed
  <1>3. Smooth(m)'
    BY DEF Clean, Smooth
  <1>4. InStep(m)'
    BY <1>1 DEF Clean, InStep
  <1>5. Ordered(m)'
    BY DEF Clean, Ordered
  <1>6. Mirrored(m)'
    BY <1>2 DEF Clean, Mirrored
  <1>7. QED
    BY <1>3, <1>4, <1>5, <1>6 DEF Clean

(* An entry of another memory changes, or none does. *)
LEMMA OnlyFrames ==
  ASSUME TypeOK, NEW m \in Memories, NEW e, Only(e)
  PROVE  /\ Of(m)' = Of(m)
         /\ e \notin Of(m) => \A d \in Of(m) : outbox'[d] = outbox[d]
  BY DEF Only, Of

LEMMA AddedFrames ==
  ASSUME NEW m \in Memories, NEW n \in Memories, NEW op, Added(op, n)
  PROVE  /\ Of(m)' = Of(m) \cup (IF n = m THEN {Len(outbox) + 1} ELSE {})
         /\ Of(m) \subseteq DOMAIN outbox
         /\ \A d \in Of(m) : outbox'[d] = outbox[d]
  BY DEF Added, Of

(* The worker goes to sleep. *)
LEMMA SleepHolds ==
  ASSUME NEW m \in Memories, worker' = Asleep \/ worker' = Off,
         \A e \in Of(m)' : outbox'[e].status = "processing" => outbox'[e].ran # 0
  PROVE  Held(m)'
  BY SleepDoes DEF Held, InBatch

(* The worker is done with an entry. *)
LEMMA NextHolds ==
  ASSUME TypeOK, AtWork, NEW m \in Memories, Held(m), NextEntry, Only(Entry.id),
         Entry.id \in Of(m) => outbox'[Entry.id].status # "pending",
         \A e \in Of(m) : e # Entry.id => outbox'[e] = outbox[e],
         \A e \in Of(m) : outbox'[e].status = "processing" => outbox'[e].ran # 0
  PROVE  Held(m)'
  <1>1. Of(m)' = Of(m)
    BY OnlyFrames
  <1>2. worker'.batch = worker.batch \ {Entry} /\ worker'.pc \in {"claim", "asleep"}
    BY NextEntryDoes
  <1>3. ASSUME NEW u \in Of(m), NEW d \in Of(m), outbox'[u].op = "upsert",
               outbox'[d].op = "delete", outbox'[u].status = "pending", InBatch(d)'
        PROVE  InBatch(u)'
    <2>1. u # Entry.id
      BY <1>3
    <2>2. InBatch(d) /\ outbox[u].op = "upsert" /\ outbox[d].op = "delete"
          /\ outbox[u].status = "pending"
      BY <1>2, <1>3, <2>1 DEF InBatch, Only, Of
    <2>3. InBatch(u)
      BY <2>2 DEF Held
    <2>4. QED
      BY <1>2, <2>1, <2>3 DEF InBatch
  <1>4. QED
    BY <1>1, <1>2, <1>3 DEF Held

(* The worker goes on with its entry, which is not this memory's. *)
LEMMA ToHolds ==
  ASSUME TypeOK, AtWork, NEW m \in Memories, Held(m), NEW p, To(p), Only(Entry.id),
         Entry.id \notin Of(m)
  PROVE  Held(m)'
  <1>1. Of(m)' = Of(m) /\ \A d \in Of(m) : outbox'[d] = outbox[d]
    BY OnlyFrames
  <1>2. worker'.pc = p /\ worker'.batch = worker.batch /\ Entry' = Entry
    BY ToDoes
  <1>3. QED
    BY <1>1, <1>2 DEF Held, InBatch


(* Forgiven = Causes: whatever is blamed is forgiven. *)
LEMMA BlameHits ==
  ASSUME Forgiven = Causes, NEW cause \in Causes, NEW ms, Blame(ms, cause)
  PROVE  hit' = hit \cup ms
  BY DEF Blame

LEMMA AtWorkHolds ==
  ASSUME TypeOK, NEW m \in Memories, Held(m), worker.pc # "execute" \/ Entry.id \notin Of(m)
  PROVE  \A e \in Of(m) : outbox[e].status = "processing" => outbox[e].ran # 0
  BY DEF Held

LEMMA PollCleans ==
  ASSUME TypeOK, NEW m \in Memories, Clean(m), Poll
  PROVE  Clean(m)'
  <1> DEFINE Before(e) == {x \in Due : x < e}
             oldest == {e \in Due : Cardinality(Before(e)) < BatchSize}
  <1>1. /\ worker.pc = "asleep" /\ UNCHANGED <<dataVars, boxVars, client, listed>>
        /\ worker'.pc = "claim"
        /\ worker'.batch = {[id |-> e, tries |-> outbox[e].tries] : e \in oldest}
    BY DEF Poll
  <1>2. ASSUME NEW e
        PROVE  InBatch(e)' <=> e \in oldest
    <2> HIDE DEF oldest
    <2>1. \A c \in worker'.batch : \E x \in oldest : c = [id |-> x, tries |-> outbox[x].tries]
      BY <1>1
    <2>2. e \in oldest => [id |-> e, tries |-> outbox[e].tries] \in worker'.batch
      BY <1>1
    <2>3. QED
      BY <2>1, <2>2 DEF InBatch
  <1>3. Of(m)' = Of(m) /\ \A e \in Of(m) : outbox'[e] = outbox[e]
    BY <1>1 DEF Of, boxVars
  <1>4. ASSUME NEW u \in Of(m), NEW d \in Of(m), outbox[u].op = "upsert",
               outbox[d].op = "delete", outbox[u].status = "pending", d \in oldest
        PROVE  u \in oldest
    <2>1. u < d /\ u \in Due /\ d \in Due
      BY <1>4 DEF Clean, Ordered, Smooth, Due, Pending, Of
    <2>2. Due \subseteq 1..Len(outbox) /\ Len(outbox) \in Nat
      BY BoxTyped DEF Due, Pending
    <2>3. IsFiniteSet(1..Len(outbox))
      BY <2>2, FS_Interval
    <2>4. IsFiniteSet(Before(d))
      BY <2>2, <2>3, FS_Subset
    <2>5. Before(u) \subseteq Before(d)
      <3>1. u \in Nat /\ d \in Nat /\ \A x \in Due : x \in Nat
        BY <2>1, <2>2
      <3>2. \A x \in Due : x < u => x < d
        BY <2>1, <3>1
      <3>3. QED
        BY <3>2
    <2> HIDE DEF Before
    <2>6. /\ Cardinality(Before(u)) <= Cardinality(Before(d))
          /\ Cardinality(Before(u)) \in Nat /\ Cardinality(Before(d)) \in Nat
      BY <2>4, <2>5, FS_Subset, FS_CardinalityType
    <2>7. QED
      BY <1>4, <2>1, <2>6, OutboxAssumption
  <1> HIDE DEF oldest
  <1>5. Held(m)'
    BY <1>1, <1>2, <1>3, <1>4 DEF Clean, Held
  <1>6. QED
    BY <1>1, <1>3, <1>5, FrameKept DEF dataVars, Clean, Smooth

LEMMA ClaimCleans ==
  ASSUME TypeOK, Copied, Forgiven = Causes, NEW m \in Memories \ hit', Clean(m), Claim
  PROVE  Clean(m)'
  <1>1. /\ AtWork /\ worker.pc = "claim" /\ UNCHANGED <<dataVars, client, listed>>
        /\ m \notin failed' \cup listed'
    BY DEF Claim, AtWork, dataVars, Clean, Smooth
  <1>2. /\ Entry.id \in DOMAIN outbox /\ Entry \in worker.batch
        /\ outbox[Entry.id].status = "pending"
    BY <1>1, OldestInHand DEF Copied, Untaken
  <1>3. \A e \in Of(m) : outbox[e].status = "processing" => outbox[e].ran # 0
    BY <1>1, AtWorkHolds DEF Clean
  <1>4. CASE worker' = Asleep /\ outbox' = outbox
    <2>1. Of(m)' = Of(m) /\ \A e \in Of(m) : outbox'[e] = outbox[e]
      BY <1>4 DEF Of
    <2>2. Held(m)'
      BY <1>3, <1>4, <2>1, SleepHolds
    <2>3. QED
      BY <1>1, <2>1, <2>2, FrameKept DEF dataVars
  <1>5. CASE Entry.id \notin Of(m) /\ Mark("processing")
    <2>1. Of(m)' = Of(m) /\ (\A e \in Of(m) : outbox'[e] = outbox[e]) /\ Only(Entry.id)
      BY <1>1, <1>5, MarkDoes, OnlyFrames
    <2>2. CASE worker' = Asleep
      <3>1. Held(m)'
        BY <1>3, <2>1, <2>2, SleepHolds
      <3>2. QED
        BY <1>1, <2>1, <3>1, FrameKept DEF dataVars
    <2>3. CASE To("execute")
      <3>1. Held(m)'
        BY <1>1, <1>5, <2>1, <2>3, ToHolds DEF Clean
      <3>2. QED
        BY <1>1, <2>1, <3>1, FrameKept DEF dataVars
    <2>4. QED
      BY <1>5, <2>2, <2>3 DEF Claim
  <1>6. CASE Entry.id \in Of(m) /\ Mark("processing") /\ To("execute")
    <2>1. /\ Of(m)' = Of(m) /\ Only(Entry.id)
          /\ outbox'[Entry.id].status = "processing"
          /\ outbox'[Entry.id].ran = outbox[Entry.id].ran
          /\ outbox'[Entry.id].waits = outbox[Entry.id].waits
      BY <1>1, <1>6, MarkDoes, OnlyFrames
    <2>2. \A e \in Of(m) :
            /\ e \in DOMAIN outbox
            /\ outbox'[e].op = outbox[e].op /\ outbox'[e].ran = outbox[e].ran
            /\ outbox'[e].waits = outbox[e].waits
            /\ e # Entry.id => outbox'[e] = outbox[e]
      BY <2>1 DEF Of, Only
    <2>3. outbox[Entry.id].ran = 0
      BY <1>2, <1>6 DEF Clean, Smooth
    <2>4. worker'.pc = "execute" /\ worker'.batch = worker.batch /\ Entry' = Entry
      BY <1>1, <1>6, ToDoes
    <2>5. Held(m)'
      BY <1>1, <1>2, <1>3, <2>1, <2>2, <2>3, <2>4 DEF Clean, Held, InBatch
    <2>6. Smooth(m)'
      BY <1>1, <2>1, <2>2 DEF Clean, Smooth
    <2>7. /\ Has(m, "upsert")' = Has(m, "upsert") /\ Has(m, "delete")' = Has(m, "delete")
          /\ Executed(m, "upsert")' = Executed(m, "upsert")
          /\ Executed(m, "delete")' = Executed(m, "delete")
      BY <2>1, <2>2 DEF Has, Executed
    <2>8. InStep(m)' /\ Mirrored(m)'
      BY <1>1, <2>7 DEF Clean, InStep, Mirrored, dataVars
    <2>9. Ordered(m)'
      BY <2>1, <2>2 DEF Clean, Ordered
    <2>10. QED
      BY <2>5, <2>6, <2>8, <2>9 DEF Clean
  <1>7. Blame({outbox[Entry.id].mem}, "stranded") => Entry.id \notin Of(m)
    <2>1. Blame({outbox[Entry.id].mem}, "stranded") => outbox[Entry.id].mem \in hit'
      BY BlameHits DEF Causes
    <2>2. Entry.id \in Of(m) => outbox[Entry.id].mem = m
      BY DEF Of
    <2>3. QED
      BY <2>1, <2>2
  <1>8. QED
    BY <1>4, <1>5, <1>6, <1>7 DEF Claim


LEMMA ExecuteCleans ==
  ASSUME TypeOK, Copied, Forgiven = Causes, NEW m \in Memories \ hit', Clean(m), Execute
  PROVE  Clean(m)'
  <1> DEFINE i == Entry.id
  <1>1. /\ AtWork /\ worker.pc = "execute" /\ InHand /\ Fits /\ To("complete")
        /\ UNCHANGED <<store, failed, client, listed>>
        /\ m \notin failed' \cup listed'
    BY DEF Execute, AtWork, InHand, Clean, Smooth, Copied
  <1>2. /\ i \in DOMAIN outbox /\ Entry \in worker.batch
        /\ \A c \in worker.batch : i <= c.id
        /\ outbox[i].status = "processing" /\ outbox[i].mem \in Memories
        /\ outbox[i].op \in {"upsert", "delete"}
    BY <1>1, OldestInHand DEF Fits, Entries
  <1>3. /\ Of(m)' = Of(m) /\ Only(i)
        /\ outbox'[i].status = "processing" /\ outbox'[i].ran = outbox[i].ran + 1
        /\ outbox'[i].waits = outbox[i].waits
    BY <1>2, ExecuteDoes, OnlyFrames
  <1>4. /\ i \in Of(m) <=> outbox[i].mem = m
        /\ Of(m) \subseteq DOMAIN outbox
    BY <1>2 DEF Of
  <1>5. \/ vector' = (IF outbox[i].op = "upsert" THEN vector \cup {outbox[i].mem}
                      ELSE vector \ {outbox[i].mem})
        \/ vector' = vector /\ outbox[i].mem \in hit'
    BY BlameHits DEF Execute, Causes
  <1>6. worker'.pc = "complete" /\ worker'.batch = worker.batch /\ Entry' = Entry
    BY <1>1, ToDoes
  <1> HIDE DEF i
  <1>7. CASE i \notin Of(m)
    <2>1. \A e \in Of(m) : outbox'[e] = outbox[e]
      BY <1>3, <1>4, <1>7 DEF Only
    <2>2. Held(m)'
      BY <1>1, <1>3, <1>7, ToHolds DEF Clean, i
    <2>3. m \in vector' <=> m \in vector
      BY <1>4, <1>5, <1>7
    <2>4. QED
      BY <1>1, <1>3, <2>1, <2>2, <2>3, FrameKept
  <1>8. CASE i \in Of(m)
    <2>1. outbox[i].ran = 0 /\ outbox'[i].ran = 1 /\ outbox[i].mem = m
      BY <1>1, <1>3, <1>4, <1>8 DEF Clean, Held, i
    <2>2. \A e \in Of(m) :
            /\ outbox'[e].op = outbox[e].op /\ outbox'[e].status = outbox[e].status
            /\ outbox'[e].waits = outbox[e].waits
            /\ e # i => outbox'[e].ran = outbox[e].ran
      BY <1>2, <1>3, <1>4 DEF Only
    <2>3. \A e \in Of(m) : outbox[e].status = "processing" => e = i \/ outbox[e].ran # 0
      BY <1>1 DEF Clean, Held, i
    <2>4. Held(m)'
      BY <1>3, <1>6, <2>1, <2>2, <2>3 DEF Clean, Held, InBatch
    <2>5. Smooth(m)'
      BY <1>1, <1>2, <1>3, <2>1, <2>2 DEF Clean, Smooth
    <2>6. Has(m, "upsert")' = Has(m, "upsert") /\ Has(m, "delete")' = Has(m, "delete")
      BY <1>3, <2>2 DEF Has
    <2>7. InStep(m)'
      BY <1>1, <2>6 DEF Clean, InStep
    <2>8. ASSUME NEW u \in Of(m), outbox[u].op = "upsert", outbox[i].op = "delete"
          PROVE  outbox[u].ran # 0
      <3>1. u < i /\ u \in Nat /\ i \in Nat
        BY <1>2, <1>4, <1>8, <2>8, BoxTyped DEF Clean, Ordered
      <3>2. ~InBatch(u)
        BY <1>2, <3>1 DEF InBatch
      <3>3. InBatch(i)
        BY <1>2 DEF InBatch, i
      <3>4. outbox[u].status # "pending"
        BY <1>8, <2>8, <3>2, <3>3 DEF Clean, Held
      <3>5. outbox[u].status \in {"processing", "completed"}
        BY <1>4, <3>4, BoxTyped DEF Clean, Smooth, Entries
      <3>6. QED
        BY <2>3, <3>1, <3>5 DEF Clean, Smooth
    <2>9. Ordered(m)'
      <3>1. ASSUME NEW u \in Of(m), NEW d \in Of(m), outbox[u].op = "upsert",
                   outbox[d].op = "delete"
            PROVE  u < d /\ (outbox'[d].ran # 0 => outbox'[u].ran # 0)
        <4>1. u < d /\ (outbox[d].ran # 0 => outbox[u].ran # 0)
          BY <3>1 DEF Clean, Ordered
        <4>2. d = i => outbox'[u].ran # 0
          BY <2>2, <2>8, <3>1
        <4>3. QED
          BY <2>1, <2>2, <4>1, <4>2
      <3>2. QED
        BY <1>3, <2>2, <3>1 DEF Ordered
    <2>10. vector' = (IF outbox[i].op = "upsert" THEN vector \cup {m} ELSE vector \ {m})
      BY <1>5, <2>1
    <2>11. CASE outbox[i].op = "upsert"
      <3>1. \A d \in Of(m) : outbox[d].op = "delete" => outbox[d].ran = 0 /\ d # i
        BY <1>8, <2>1, <2>11 DEF Clean, Ordered
      <3>2. Executed(m, "upsert")' /\ ~Executed(m, "delete")'
        BY <1>3, <1>8, <2>1, <2>2, <2>11, <3>1 DEF Executed
      <3>3. QED
        BY <2>4, <2>5, <2>7, <2>9, <2>10, <2>11, <3>2 DEF Clean, Mirrored
    <2>12. CASE outbox[i].op = "delete"
      <3>1. Executed(m, "delete")'
        BY <1>3, <1>8, <2>1, <2>2, <2>12 DEF Executed
      <3>2. QED
        BY <2>4, <2>5, <2>7, <2>9, <2>10, <2>12, <3>1 DEF Clean, Mirrored
    <2>13. QED
      BY <1>2, <2>11, <2>12
  <1>9. QED
    BY <1>7, <1>8

(* The worker loses its entry, or puts it off: that memory was touched. *)
LEMMA HandedOn ==
  ASSUME TypeOK, AtWork, worker.pc # "execute", NEW m \in Memories, Clean(m),
         Only(Entry.id), Entry.id \notin Of(m),
         NextEntry \/ worker' = Asleep \/ \E p : To(p),
         UNCHANGED <<dataVars, client, listed>>
  PROVE  Clean(m)'
  <1>1. Of(m)' = Of(m) /\ \A e \in Of(m) : outbox'[e] = outbox[e]
    BY OnlyFrames
  <1>2. \A e \in Of(m) : outbox[e].status = "processing" => outbox[e].ran # 0
    BY AtWorkHolds DEF Clean
  <1>3. Held(m)'
    BY <1>1, <1>2, NextHolds, SleepHolds, ToHolds DEF Clean
  <1>4. m \notin failed' \cup listed'
    BY DEF Clean, Smooth, dataVars
  <1>5. QED
    BY <1>1, <1>3, <1>4, FrameKept DEF dataVars

LEMMA CompleteCleans ==
  ASSUME TypeOK, Copied, Forgiven = Causes, NEW m \in Memories \ hit', Clean(m), Complete
  PROVE  Clean(m)'
  <1>1. /\ AtWork /\ worker.pc = "complete" /\ Fits
        /\ UNCHANGED <<dataVars, client, listed>> /\ m \notin failed' \cup listed'
    BY DEF Complete, Command, AtWork, InHand, Clean, Smooth, Copied, dataVars
  <1>2. /\ Entry.id \in DOMAIN outbox /\ outbox[Entry.id].ran # 0
        /\ Entry.tries \in 0..(MaxRetries - 1)
    BY <1>1, OldestInHand DEF Fits
  <1>3. \/ Mark("completed") /\ NextEntry
        \/ /\ HandleFailure /\ Blame({outbox[Entry.id].mem}, "reopened")
           /\ Mark("completed") \/ outbox' = outbox
    BY DEF Complete, Command, boxVars
  <1>4. Only(Entry.id)
    BY <1>1, <1>3, MarkDoes DEF Only, TypeOK, Box
  <1>5. CASE Entry.id \notin Of(m)
    <2>1. NextEntry \/ \E p : To(p)
      BY <1>1, <1>3, HandleFailureDoes
    <2>2. QED
      BY <1>1, <1>4, <1>5, <2>1, HandedOn
  <1>6. CASE Entry.id \in Of(m)
    <2>1. Mark("completed") /\ NextEntry
      <3>1. outbox[Entry.id].mem = m
        BY <1>6 DEF Of
      <3>2. Blame({outbox[Entry.id].mem}, "reopened") => m \in hit'
        BY <3>1, BlameHits DEF Causes
      <3>3. QED
        BY <1>3, <3>2
    <2>2. /\ Of(m)' = Of(m) /\ outbox'[Entry.id].status = "completed"
          /\ outbox'[Entry.id].ran = outbox[Entry.id].ran
          /\ outbox'[Entry.id].waits = outbox[Entry.id].waits
      BY <1>1, <1>4, <2>1, MarkDoes, OnlyFrames
    <2>3. \A e \in Of(m) :
            /\ outbox'[e].op = outbox[e].op /\ outbox'[e].ran = outbox[e].ran
            /\ outbox'[e].waits = outbox[e].waits
            /\ e # Entry.id => outbox'[e] = outbox[e]
      BY <1>4, <2>2 DEF Of, Only
    <2>4. \A e \in Of(m) : outbox'[e].status = "processing" => outbox'[e].ran # 0
      BY <1>1, <2>2, <2>3, AtWorkHolds DEF Clean
    <2>5. Held(m)'
      BY <1>1, <1>4, <2>1, <2>2, <2>3, <2>4, NextHolds DEF Clean
    <2>6. Smooth(m)'
      BY <1>1, <1>2, <2>2, <2>3 DEF Clean, Smooth
    <2>7. /\ Has(m, "upsert")' = Has(m, "upsert") /\ Has(m, "delete")' = Has(m, "delete")
          /\ Executed(m, "upsert")' = Executed(m, "upsert")
          /\ Executed(m, "delete")' = Executed(m, "delete")
      BY <2>2, <2>3 DEF Has, Executed
    <2>8. InStep(m)' /\ Mirrored(m)'
      BY <1>1, <2>7 DEF Clean, InStep, Mirrored, dataVars
    <2>9. Ordered(m)'
      BY <2>2, <2>3 DEF Clean, Ordered
    <2>10. QED
      BY <2>5, <2>6, <2>8, <2>9 DEF Clean
  <1>7. QED
    BY <1>5, <1>6

LEMMA FailureCleans ==
  ASSUME IInv, NEW m \in Memories, Clean(m), Retry \/ Bury \/ MarkFailed
  PROVE  Clean(m)'
  <1>1. /\ TypeOK /\ AtWork /\ worker.pc \in {"retry", "bury", "mark"}
        /\ UNCHANGED <<dataVars, client, listed>>
    BY DEF IInv, Retry, Bury, MarkFailed, Command, AtWork, InHand
  <1>2. Entry.id \notin Of(m)
    BY <1>1 DEF Clean, Held
  <1>3. NextEntry \/ worker' = Asleep \/ \E p : To(p)
    BY DEF Retry, Bury, MarkFailed, Command
  <1>4. Only(Entry.id) \/ outbox' = outbox
    <2>1. CASE Retry
      BY <2>1, RetryDoes
    <2>2. CASE Bury
      BY <2>2 DEF Bury, Command, boxVars
    <2>3. CASE MarkFailed
      BY <1>1, <2>3, MarkDoes DEF MarkFailed, Command, boxVars
    <2>4. QED
      BY <2>1, <2>2, <2>3
  <1>5. Only(Entry.id)
    BY <1>1, <1>4 DEF Only, TypeOK, Box
  <1>6. QED
    BY <1>1, <1>2, <1>3, <1>5, HandedOn


LEMMA StopCleans ==
  ASSUME IInv, Forgiven = Causes, NEW m \in Memories \ hit', Clean(m), Stop
  PROVE  Clean(m)'
  <1>1. /\ TypeOK /\ worker' = Off /\ listed' = {} /\ client'[m] = "idle"
        /\ outbox' = outbox /\ UNCHANGED dataVars
    BY DEF IInv, Stop, boxVars
  <1>2. /\ client[m] \notin {"stored", "refused", "deleting"}
        /\ worker.pc = "execute" => m # outbox[Entry.id].mem
    BY DEF Stop, Causes
  <1>3. client[m] = "idle"
    BY <1>1, <1>2 DEF TypeOK
  <1>4. Of(m)' = Of(m) /\ \A e \in Of(m) : outbox'[e] = outbox[e]
    BY <1>1 DEF Of
  <1>5. worker.pc # "execute" \/ Entry.id \notin Of(m)
    BY <1>2 DEF Of
  <1>6. Held(m)'
    BY <1>1, <1>4, <1>5, AtWorkHolds, SleepHolds DEF Clean
  <1>7. QED
    BY <1>1, <1>3, <1>4, <1>6, FrameKept DEF Clean, Smooth, dataVars

LEMMA StartCleans ==
  ASSUME IInv, NEW m \in Memories, Clean(m), Start
  PROVE  Clean(m)'
  <1>1. /\ TypeOK /\ worker' \in {Asleep, Off} /\ worker.pc = "off"
        /\ outbox' = outbox /\ UNCHANGED <<dataVars, client, listed>>
    BY DEF IInv, Start, boxVars, Down
  <1>2. Of(m)' = Of(m) /\ \A e \in Of(m) : outbox'[e] = outbox[e]
    BY <1>1 DEF Of
  <1>3. Held(m)'
    BY <1>1, <1>2, AtWorkHolds, SleepHolds DEF Clean
  <1>4. QED
    BY <1>1, <1>2, <1>3, FrameKept DEF Clean, Smooth, dataVars

(* The worker is not concerned. *)
LEMMA StandsStill ==
  ASSUME NEW m \in Memories, Clean(m), Of(m)' = Of(m),
         \A e \in Of(m) : outbox'[e] = outbox[e], worker' = worker,
         store'[m] = store[m], client'[m] = client[m], m \notin failed' \cup listed',
         m \in vector' <=> m \in vector
  PROVE  Clean(m)'
  <1>1. Entry' = Entry
    BY DEF Entry
  <1>2. Held(m)'
    BY <1>1 DEF Clean, Held, InBatch
  <1>3. QED
    BY <1>2, FrameKept

LEMMA ProcessCleans ==
  ASSUME IInv, Forgiven = Causes, NEW m \in Memories \ hit', Clean(m), ProcessStep
  PROVE  Clean(m)'
  <1>1. CASE FindFailed \/ LockExpires
    <2>1. /\ UNCHANGED <<dataVars, boxVars, worker, client>> /\ m \notin failed' \cup listed'
      BY <1>1 DEF FindFailed, LockExpires, Clean, Smooth, dataVars
    <2>2. Of(m)' = Of(m) /\ \A e \in Of(m) : outbox'[e] = outbox[e]
      BY <2>1 DEF Of, boxVars
    <2>3. QED
      BY <2>1, <2>2, StandsStill DEF dataVars
  <1>2. ASSUME NEW e, RetryDue(e)
        PROVE  Clean(m)'
    <2>1. /\ e \in DOMAIN outbox /\ Only(e) /\ outbox[e].waits /\ TypeOK
          /\ UNCHANGED <<dataVars, worker, client>> /\ m \notin failed' \cup listed'
      BY <1>2, RetryDueDoes DEF IInv, RetryDue, procVars, Clean, Smooth, dataVars
    <2>2. e \notin Of(m)
      BY <2>1 DEF Clean, Smooth
    <2>3. Of(m)' = Of(m) /\ \A d \in Of(m) : outbox'[d] = outbox[d]
      BY <2>1, <2>2, OnlyFrames
    <2>4. QED
      BY <2>1, <2>3, StandsStill DEF dataVars
  <1>3. QED
    BY <1>1, <1>2, StopCleans, StartCleans DEF ProcessStep

(* Another memory is stored, deleted, expired or reconciled. *)
LEMMA OthersClean ==
  ASSUME IInv, NEW m \in Memories, Clean(m), NEW n \in Memories \ {m}, ClientStep(n)
  PROVE  Clean(m)'
  <1>1. TypeOK
    BY DEF IInv
  <1>2. /\ store'[m] = store[m] /\ client'[m] = client[m] /\ vector' = vector
        /\ worker' = worker
    BY <1>1 DEF TypeOK, ClientStep, StoreMemory, QueueUpsert, MarkUnsynced, QueueDelete,
       DeleteMemory, Expire, RetryFailed, dataVars, procVars
  <1>3. m \notin failed' \cup listed'
    BY DEF Clean, Smooth, ClientStep, StoreMemory, QueueUpsert, MarkUnsynced, QueueDelete,
       DeleteMemory, Expire, RetryFailed, dataVars, procVars
  <1>4. outbox' = outbox \/ Create("upsert", n) \/ Create("delete", n)
    BY DEF ClientStep, StoreMemory, QueueUpsert, MarkUnsynced, QueueDelete,
         DeleteMemory, Expire, RetryFailed, boxVars
  <1>5. Of(m)' = Of(m) /\ \A e \in Of(m) : outbox'[e] = outbox[e]
    <2>1. CASE outbox' = outbox
      BY <2>1 DEF Of
    <2>2. CASE Create("upsert", n) \/ Create("delete", n)
      BY <1>1, <2>2, CreateDoes, AddedFrames
    <2>3. QED
      BY <1>4, <2>1, <2>2
  <1>6. QED
    BY <1>2, <1>3, <1>5, StandsStill

(* A new entry of the memory itself. *)
LEMMA AddedKeeps ==
  ASSUME TypeOK, NEW m \in Memories, Clean(m), NEW op \in {"upsert", "delete"},
         Added(op, m), worker' = worker, op = "upsert" => ~Has(m, "delete"),
         m \notin failed' \cup listed', vector' = vector
  PROVE  /\ Smooth(m)' /\ Held(m)' /\ Ordered(m)' /\ Mirrored(m)'
         /\ Has(m, op)' /\ \A o : o # op => (Has(m, o)' <=> Has(m, o))
  <1> DEFINE n == Len(outbox) + 1
  <1>1. /\ Of(m)' = Of(m) \cup {n} /\ Of(m) \subseteq DOMAIN outbox /\ n \notin Of(m)
        /\ \A e \in Of(m) : outbox'[e] = outbox[e] /\ e < n
        /\ outbox'[n].op = op /\ outbox'[n].status = "pending" /\ ~outbox'[n].waits
        /\ outbox'[n].ran = 0 /\ n \notin DOMAIN outbox
    BY AddedFrames DEF Added
  <1> HIDE DEF n
  <1>2. Entry' = Entry
    BY DEF Entry
  <1>3. /\ InHand => Entry.id \in DOMAIN outbox
        /\ \A e : InBatch(e) => e \in DOMAIN outbox
    BY OldestInHand DEF AtWork, TypeOK, InBatch
  <1>4. Smooth(m)'
    BY <1>1 DEF Clean, Smooth
  <1>5. Held(m)'
    <2>1. ASSUME NEW u \in Of(m)', NEW d \in Of(m)', outbox'[u].op = "upsert",
                 outbox'[d].op = "delete", outbox'[u].status = "pending", InBatch(d)
          PROVE  InBatch(u)
      <3>1. d \in Of(m)
        BY <1>1, <1>3, <2>1
      <3>2. u \in Of(m)
        BY <1>1, <2>1, <3>1 DEF Has
      <3>3. QED
        BY <1>1, <2>1, <3>1, <3>2 DEF Clean, Held
    <2>2. InHand => (Entry.id \in Of(m)' <=> Entry.id \in Of(m))
      BY <1>1, <1>3
    <2>3. /\ worker.pc \in {"retry", "bury", "mark"} => Entry.id \notin Of(m)'
          /\ worker.pc = "execute" /\ Entry.id \in Of(m)' => outbox'[Entry.id].ran = 0
      BY <1>1, <2>2 DEF Clean, Held, InHand
    <2>4. \A e \in Of(m)' : outbox'[e].status = "processing" =>
            outbox'[e].ran # 0 \/ (worker.pc = "execute" /\ Entry.id = e)
      BY <1>1 DEF Clean, Held
    <2>5. QED
      BY <1>2, <2>1, <2>3, <2>4 DEF Held, InBatch
  <1>6. Ordered(m)'
    <2>1. ASSUME NEW u \in Of(m)', NEW d \in Of(m)', outbox'[u].op = "upsert",
                 outbox'[d].op = "delete"
          PROVE  u < d /\ (outbox'[d].ran # 0 => outbox'[u].ran # 0)
      <3>1. u \in Of(m)
        BY <1>1, <2>1 DEF Has
      <3>2. QED
        BY <1>1, <2>1, <3>1 DEF Clean, Ordered
    <2>2. QED
      BY <2>1 DEF Ordered
  <1>7. Has(m, op)' /\ \A o : o # op => (Has(m, o)' <=> Has(m, o))
    BY <1>1 DEF Has
  <1>8. /\ Executed(m, "upsert")' = Executed(m, "upsert")
        /\ Executed(m, "delete")' = Executed(m, "delete")
    BY <1>1 DEF Executed
  <1>9. Mirrored(m)'
    BY <1>8 DEF Clean, Mirrored
  <1>10. QED
    BY <1>4, <1>5, <1>6, <1>7, <1>9

LEMMA OwnCleans ==
  ASSUME IInv, Forgiven = Causes, NEW m \in Memories \ hit', Clean(m), ClientStep(m)
  PROVE  Clean(m)'
  <1>1. TypeOK /\ \A cause \in Causes : ~Blame({m}, cause)
    BY BlameHits DEF IInv
  <1>2. m \notin failed \cup listed
    BY DEF Clean, Smooth
  <1>3. CASE StoreMemory(m)
    <2>1. /\ store[m] = "none" /\ store'[m] = "live" /\ client'[m] = "stored"
          /\ UNCHANGED <<failed, vector, boxVars, listed, worker>>
      BY <1>1, <1>3 DEF StoreMemory, Causes, TypeOK
    <2>2. Of(m)' = Of(m) /\ outbox' = outbox /\ Entry' = Entry
      BY <2>1 DEF Of, boxVars, Entry
    <2>3. Smooth(m)' /\ Held(m)' /\ Ordered(m)' /\ Mirrored(m)'
      BY <1>2, <2>1, <2>2 DEF Clean, Smooth, Held, Ordered, Mirrored, InBatch, Executed
    <2>4. InStep(m)'
      BY <2>1, <2>2 DEF Clean, InStep, Has
    <2>5. QED
      BY <2>3, <2>4 DEF Clean
  <1>4. CASE QueueUpsert(m)
    <2>1. /\ client[m] = "stored" /\ client'[m] = "idle" /\ Create("upsert", m)
          /\ UNCHANGED <<dataVars, listed, worker>>
      BY <1>1, <1>4 DEF QueueUpsert, Causes, TypeOK
    <2>2. /\ Added("upsert", m) /\ store[m] = "live" /\ ~Has(m, "delete")
          /\ m \notin failed' \cup listed' /\ vector' = vector
      BY <1>1, <1>2, <2>1, CreateDoes DEF Clean, InStep, dataVars
    <2>3. /\ Smooth(m)' /\ Held(m)' /\ Ordered(m)' /\ Mirrored(m)'
          /\ Has(m, "upsert")' /\ ~Has(m, "delete")'
      BY <1>1, <2>1, <2>2, AddedKeeps
    <2>4. InStep(m)'
      BY <2>1, <2>2, <2>3 DEF InStep, dataVars
    <2>5. QED
      BY <2>3, <2>4 DEF Clean
  <1>5. CASE QueueDelete(m)
    <2>1. /\ client[m] = "idle" /\ store[m] = "live" /\ client'[m] = "deleting"
          /\ Create("delete", m) /\ UNCHANGED <<dataVars, listed, worker>>
      BY <1>1, <1>5 DEF QueueDelete, Causes, TypeOK
    <2>2. /\ Added("delete", m) /\ Has(m, "upsert")
          /\ m \notin failed' \cup listed' /\ vector' = vector
      BY <1>1, <1>2, <2>1, CreateDoes DEF Clean, InStep, dataVars
    <2>3. /\ Smooth(m)' /\ Held(m)' /\ Ordered(m)' /\ Mirrored(m)'
          /\ Has(m, "delete")' /\ Has(m, "upsert")'
      BY <1>1, <2>1, <2>2, AddedKeeps
    <2>4. InStep(m)'
      BY <2>1, <2>2, <2>3 DEF InStep, dataVars
    <2>5. QED
      BY <2>3, <2>4 DEF Clean
  <1>6. CASE DeleteMemory(m)
    <2>1. /\ client[m] = "deleting" /\ store'[m] = "gone" /\ client'[m] = "idle"
          /\ failed' = failed \ {m}
          /\ UNCHANGED <<vector, boxVars, listed, worker>>
      BY <1>1, <1>6 DEF DeleteMemory, Causes, TypeOK
    <2>2. Of(m)' = Of(m) /\ outbox' = outbox /\ Entry' = Entry
      BY <2>1 DEF Of, boxVars, Entry
    <2>3. Smooth(m)' /\ Held(m)' /\ Ordered(m)' /\ Mirrored(m)'
      BY <1>2, <2>1, <2>2 DEF Clean, Smooth, Held, Ordered, Mirrored, InBatch, Executed
    <2>4. InStep(m)'
      BY <2>1, <2>2 DEF Clean, InStep, Has
    <2>5. QED
      BY <2>3, <2>4 DEF Clean
  <1>7. ~MarkUnsynced(m)
    BY DEF MarkUnsynced, Clean, InStep
  <1>8. ~RetryFailed(m)
    BY <1>2 DEF RetryFailed
  <1>9. ~Expire(m)
    BY <1>1 DEF Expire, Causes
  <1>10. QED
    BY <1>3, <1>4, <1>5, <1>6, <1>7, <1>8, <1>9 DEF ClientStep


-----------------------------------------------------------------------------
(* The theorems. *)

(* Nothing is stored, written or touched yet.                              *)
THEOREM InitEstablishes == Init => IInv
  <1> SUFFICES ASSUME Init
               PROVE  IInv
    OBVIOUS
  <1>1. outbox = <<>> /\ DOMAIN outbox = {} /\ Len(outbox) = 0
    BY DEF Init
  <1>2. <<>> \in Seq(Entries)
    OBVIOUS
  <1>3. TypeOK
    <2>1. worker.pc = "asleep" /\ worker.batch = {} /\ worker = Asleep
      BY DEF Init, Asleep
    <2>2. QED
      BY <1>1, <1>2, <2>1, OutboxAssumption DEF Init, TypeOK, Asleep
  <1>4. Counted /\ Down
    BY <1>1 DEF Init, Counted, Down
  <1>5. Copied
    BY DEF Init, Asleep, Copied, InHand
  <1>6. ASSUME NEW m \in Memories
        PROVE  Clean(m)
    <2>1. Of(m) = {}
      BY <1>1 DEF Of
    <2>2. Smooth(m) /\ Held(m) /\ Ordered(m)
      BY <2>1 DEF Init, Asleep, Smooth, Held, Ordered
    <2>3. InStep(m) /\ Mirrored(m)
      BY <2>1 DEF Init, InStep, Mirrored, Has, Executed
    <2>4. QED
      BY <2>2, <2>3 DEF Clean
  <1>7. QED
    BY <1>3, <1>4, <1>5, <1>6 DEF IInv, Untouched

LEMMA DownKept ==
  ASSUME IInv, Next
  PROVE  Down'
  <1>1. CASE Work
    <2>1. worker.pc # "off" /\ up' = up
      BY <1>1 DEF Work, Poll, Claim, Execute, Complete, Retry, Bury, MarkFailed, Command
    <2>2. QED
      BY <2>1 DEF IInv, Down
  <1>2. CASE \E m \in Memories : ClientStep(m)
    <2>1. up' = up /\ worker' = worker
      BY <1>2 DEF ClientStep, StoreMemory, QueueUpsert, MarkUnsynced, QueueDelete,
         DeleteMemory, Expire, RetryFailed, procVars
    <2>2. QED
      BY <2>1 DEF IInv, Down
  <1>3. CASE ProcessStep
    BY <1>3 DEF ProcessStep, FindFailed, Stop, Start, LockExpires, RetryDue, procVars,
       IInv, Down, Off
  <1>4. QED
    BY <1>1, <1>2, <1>3, NextSteps

LEMMA HitsStay ==
  ASSUME IInv, Next
  PROVE  hit \subseteq hit'
  <1>1. CASE Work
    BY <1>1 DEF Work, Poll, Claim, Execute, Complete, Retry, Bury, MarkFailed, Command,
       Blame
  <1>2. CASE \E m \in Memories : ClientStep(m)
    BY <1>2 DEF ClientStep, StoreMemory, QueueUpsert, MarkUnsynced, QueueDelete,
       DeleteMemory, Expire, RetryFailed, Blame
  <1>3. CASE ProcessStep
    BY <1>3 DEF ProcessStep, FindFailed, Stop, Start, LockExpires, RetryDue
  <1>4. QED
    BY <1>1, <1>2, <1>3, NextSteps

LEMMA UntouchedKept ==
  ASSUME IInv, Next
  PROVE  Untouched'
  <1> SUFFICES ASSUME Forgiven = Causes, NEW m \in Memories \ hit'
               PROVE  Clean(m)'
    BY DEF Untouched
  <1>1. TypeOK /\ Copied /\ Clean(m)
    BY HitsStay DEF IInv, Untouched
  <1>2. CASE Work
    BY <1>1, <1>2, PollCleans, ClaimCleans, ExecuteCleans, CompleteCleans, FailureCleans
       DEF Work
  <1>3. CASE \E n \in Memories : ClientStep(n)
    BY <1>1, <1>3, OthersClean, OwnCleans
  <1>4. CASE ProcessStep
    BY <1>1, <1>4, ProcessCleans
  <1>5. QED
    BY <1>2, <1>3, <1>4, NextSteps

(* Every command of a client, of the worker, of the reconciliation, and    *)
(* every restart leaves the invariant standing.                            *)
THEOREM StepPreserves == IInv /\ [Next]_vars => IInv'
  <1>1. ASSUME IInv, Next
        PROVE  IInv'
    <2>1. RestOK'
      BY <1>1, NextSteps, ClientTypes, WorkTypes, ProcessTypes DEF IInv
    <2>2. Worked'
      BY <1>1, NextSteps, ClientWorks, WorkWorks, ProcessWorks
    <2>3. TypeOK'
      BY <2>1, <2>2 DEF TypeOK, RestOK, BoxOK, Worked
    <2>4. QED
      BY <1>1, <2>2, <2>3, DownKept, UntouchedKept DEF IInv, Worked
  <1>2. ASSUME IInv, UNCHANGED vars
        PROVE  IInv'
    <2>1. /\ store' = store /\ failed' = failed /\ vector' = vector /\ outbox' = outbox
          /\ dlq' = dlq /\ up' = up /\ lock' = lock /\ worker' = worker
          /\ client' = client /\ listed' = listed /\ faults' = faults /\ hit' = hit
      BY <1>2 DEF vars, dataVars, boxVars, procVars
    <2>2. RestOK'
      BY <1>2, <2>1 DEF IInv, TypeOK, RestOK
    <2>3. Worked'
      BY <1>2, <2>1, OthersWork
    <2>4. TypeOK' /\ Down'
      BY <1>2, <2>1, <2>2, <2>3 DEF TypeOK, RestOK, BoxOK, Worked, IInv, Down
    <2>5. ASSUME NEW m \in Memories, Clean(m)
          PROVE  Clean(m)'
      <3>1. Of(m)' = Of(m) /\ \A e \in Of(m) : outbox'[e] = outbox[e]
        BY <2>1 DEF Of
      <3>2. QED
        BY <2>1, <2>5, <3>1, StandsStill DEF Clean, Smooth
    <2>6. Untouched'
      BY <1>2, <2>1, <2>5 DEF IInv, Untouched
    <2>7. QED
      BY <2>3, <2>4, <2>6 DEF IInv, Worked
  <1>3. QED
    BY <1>1, <1>2

(* The invariant holds in every state of every run.                        *)
THEOREM Invariance == Spec => []IInv
  BY InitEstablishes, StepPreserves, PTL DEF Spec

(* Documents, entries, copies, dead letters and requests keep their kinds: *)
(* the worker never holds the copy of an entry that is not there, nor one  *)
(* that was tried as often as it may be.                                   *)
THEOREM TypeCorrect == Spec => []TypeOK
  <1>1. IInv => TypeOK
    BY DEF IInv
  <1>2. QED
    BY <1>1, Invariance, PTL

(* However the worker, its commands and the process fail, no entry is      *)
(* executed more than max_retries times, no FAILED entry is missing from   *)
(* the dead letters, and nothing in the dead letters is tried again.       *)
THEOREM NothingLostInFailure == Spec => []Buried
  <1>1. ASSUME IInv, NEW e \in DOMAIN outbox
        PROVE  /\ outbox[e].ran <= MaxRetries
               /\ outbox[e].status = "failed" => e \in dlq
               /\ e \in dlq => outbox[e].ran = MaxRetries /\ outbox[e].status # "pending"
    BY <1>1 DEF IInv, Counted, CountOf
  <1>2. IInv => Buried
    BY <1>1 DEF Buried
  <1>3. QED
    BY <1>2, Invariance, PTL

LEMMA QuietConverged ==
  ASSUME IInv, Forgiven = Causes, NEW m \in Memories \ hit, Quiet(m)
  PROVE  m \in vector <=> store[m] = "live"
  <1>1. TypeOK /\ Clean(m) /\ client[m] = "idle"
    BY DEF IInv, Untouched, Quiet
  <1>2. ASSUME NEW e \in Of(m)
        PROVE  outbox[e].ran # 0
    <2>1. e \in DOMAIN outbox /\ outbox[e].mem = m
      BY DEF Of
    <2>2. CASE outbox[e].status = "processing"
      <3>1. \A c \in worker.batch : c.id # e
        BY <2>1, <2>2 DEF Quiet, Stranded, Status
      <3>2. worker.pc = "execute" => Entry.id # e
        BY <1>1, <3>1, OldestInHand DEF AtWork, InHand
      <3>3. QED
        BY <1>1, <2>2, <3>2 DEF Clean, Held
    <2>3. CASE outbox[e].status = "completed"
      BY <1>1, <2>3 DEF Clean, Smooth
    <2>4. outbox[e].status \in {"processing", "completed"}
      BY <1>1, <2>1 DEF Quiet, Stranded, Status, Clean, Smooth
    <2>5. QED
      BY <2>2, <2>3, <2>4
  <1>3. /\ Executed(m, "upsert") <=> Has(m, "upsert")
        /\ Executed(m, "delete") <=> Has(m, "delete")
    BY <1>2 DEF Executed, Has
  <1>4. store[m] \in {"none", "live", "gone"}
    BY <1>1 DEF TypeOK
  <1>5. QED
    BY <1>1, <1>3, <1>4 DEF Clean, InStep, Mirrored

(* When every cause that can part MongoDB from Qdrant is forgiven to the   *)
(* memory it touched - and to no other - Qdrant has the vector of every    *)
(* other memory exactly if MongoDB has the memory, once nothing is left to *)
(* be done for it. So the causes are all the causes there are.             *)
THEOREM CausesAreAll ==
  ASSUME Forgiven = Causes
  PROVE  Spec => []Converged
  <1>1. IInv => Converged
    BY QuietConverged DEF Converged
  <1>2. QED
    BY <1>1, Invariance, PTL
=============================================================================
