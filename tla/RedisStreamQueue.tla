-------------------------- MODULE RedisStreamQueue --------------------------
(***************************************************************************)
(* RedisStreamQueue: a Redis stream read destructively by pop(), which     *)
(* holds a lock key with a time to live while it reads the first entry and *)
(* deletes it. A background coroutine of the popper renews the lock and    *)
(* raises lock_lost when it finds the key is no longer its own.            *)
(*                                                                         *)
(* Every Redis command is one step, executed by the server. A command is   *)
(* sent again when its reply times out (retry_on_timeout), so a deletion   *)
(* whose first reply was lost is answered "0 deleted".                     *)
(***************************************************************************)
EXTENDS Naturals, FiniteSets

CONSTANTS Poppers,    \* callers of pop(), one call at a time each
          MaxEntries, \* bound: entries put
          MaxFaults,  \* bound: crashes, cancellations, lost replies
          MaxLen,     \* redis_stream_max_len, 0 for no trimming
          MaxStalls,  \* bound: how often a live owner is too late to renew its lock
          None

ASSUME BoundsAssumption ==
  /\ MaxEntries \in Nat /\ MaxFaults \in Nat
  /\ MaxLen \in Nat /\ MaxStalls \in Nat
ASSUME NoneAssumption == None \notin Poppers /\ None \notin Nat

VARIABLES
  \* at the Redis server
  stream,     \* ids of the entries in the stream
  sent,       \* the last id given out
  lock,       \* whose token the lock key holds
  \* in the process of each popper
  pc,         \* the await the call of pop() is at
  first,      \* the entry that XRANGE returned
  lockLost,   \* the lock_lost event
  \* bounds and history
  faults, stalls,
  confirmed,  \* how many calls of pop() were told that they deleted the entry
  dropped     \* entries trimmed, expired, or deleted without an answer

server  == <<stream, sent, lock>>
popper  == <<pc, first, lockLost>>
history == <<stalls, confirmed, dropped>>
vars    == <<server, popper, faults, history>>

Ids     == 1..MaxEntries
Holding == {"reading", "checking", "deleting"}
Stages  == {"idle", "locking", "releasing"} \cup Holding

After(entries, k) == {i \in entries : i > k}

Fault ==
  /\ faults < MaxFaults
  /\ faults' = faults + 1

-----------------------------------------------------------------------------
Init ==
  /\ stream    = {}
  /\ sent      = 0
  /\ lock      = None
  /\ pc        = [p \in Poppers |-> "idle"]
  /\ first     = [p \in Poppers |-> None]
  /\ lockLost  = [p \in Poppers |-> FALSE]
  /\ faults    = 0
  /\ stalls    = 0
  /\ confirmed = [i \in Ids |-> 0]
  /\ dropped   = {}

(* put(): XADD, which with approximate trimming drops old entries but      *)
(* never so many that fewer than MaxLen are left.                          *)
Put ==
  /\ sent < MaxEntries
  /\ sent' = sent + 1
  /\ \E k \in 0..sent :
       /\ stream' = After(stream \cup {sent + 1}, k)
       /\ k = 0 \/ (MaxLen > 0 /\ Cardinality(stream') >= MaxLen)
  /\ dropped' = dropped \cup (stream \ stream')
  /\ UNCHANGED <<lock, popper, faults, stalls, confirmed>>

(* the stream expires or is deleted with its task *)
DeleteStream ==
  /\ stream # {}
  /\ Fault
  /\ stream' = {}
  /\ dropped' = dropped \cup stream
  /\ UNCHANGED <<sent, lock, popper, stalls, confirmed>>

(* a lock key set without a time to live *)
ExpireNever ==
  /\ lock # None
  /\ FALSE
  /\ lock' = None
  /\ UNCHANGED <<stream, sent, popper, faults, history>>

(* the lock key outlives its time to live *)
Expire ==
  /\ lock # None
  /\ \/ pc[lock] \notin Holding \cup {"releasing"} /\ UNCHANGED stalls
     \/ /\ pc[lock] \in Holding \cup {"releasing"}
        /\ stalls < MaxStalls /\ stalls' = stalls + 1
  /\ lock' = None
  /\ UNCHANGED <<stream, sent, popper, faults, confirmed, dropped>>

-----------------------------------------------------------------------------
(* pop() is called *)
Start(p) ==
  /\ pc[p] = "idle"
  /\ pc' = [pc EXCEPT ![p] = "locking"]
  /\ UNCHANGED <<server, first, lockLost, faults, history>>

(* a SET without NX *)
LockAnyway(p) ==
  /\ pc[p] = "locking"
  /\ lock' = p
  /\ pc' = [pc EXCEPT ![p] = "reading"]
  /\ first' = [first EXCEPT ![p] = None]
  /\ lockLost' = [lockLost EXCEPT ![p] = FALSE]
  /\ UNCHANGED <<stream, sent, faults, history>>

(* _acquire_lock: SET NX EX *)
Lock(p) ==
  /\ pc[p] = "locking"
  /\ lock = None
  /\ lock' = p
  /\ pc' = [pc EXCEPT ![p] = "reading"]
  /\ first' = [first EXCEPT ![p] = None]
  /\ lockLost' = [lockLost EXCEPT ![p] = FALSE]
  /\ UNCHANGED <<stream, sent, faults, history>>

(* the reply of SET is lost; the retried SET finds the key taken *)
LockUnanswered(p) ==
  /\ pc[p] = "locking"
  /\ lock = None
  /\ Fault
  /\ lock' = p
  /\ UNCHANGED <<stream, sent, popper, history>>

(* the key stays taken for 5 s: pop() returns nothing *)
GiveUp(p) ==
  /\ pc[p] = "locking"
  /\ lock # None
  /\ pc' = [pc EXCEPT ![p] = "idle"]
  /\ UNCHANGED <<server, first, lockLost, faults, history>>

(* XREVRANGE for XRANGE, and an id one too high *)
ReadNewest(p) ==
  /\ pc[p] = "reading"
  /\ pc' = [pc EXCEPT ![p] = "checking"]
  /\ \E i \in stream :
       /\ \A j \in stream : j <= i
       /\ first' = [first EXCEPT ![p] = i]
  /\ UNCHANGED <<server, lockLost, faults, history>>

(* XRANGE - + COUNT 1 *)
Read(p) ==
  /\ pc[p] = "reading"
  /\ pc' = [pc EXCEPT ![p] = "checking"]
  /\ \/ /\ stream = {}
        /\ first' = [first EXCEPT ![p] = None]
     \/ \E i \in stream :
          /\ \A j \in stream : i <= j
          /\ first' = [first EXCEPT ![p] = i]
  /\ UNCHANGED <<server, lockLost, faults, history>>

(* nothing to pop, or the lock is known to be lost: leave without deleting *)
Check(p) ==
  /\ pc[p] = "checking"
  /\ pc' = [pc EXCEPT ![p] =
              IF first[p] = None \/ lockLost[p] THEN "releasing" ELSE "deleting"]
  /\ UNCHANGED <<server, first, lockLost, faults, history>>

(* slips the runs must notice: the answer of XDEL is not looked at, and    *)
(* lock_lost is looked at after the deletion instead of before             *)
DeleteUnchecked(p) ==
  /\ pc[p] = "deleting"
  /\ pc' = [pc EXCEPT ![p] = "releasing"]
  /\ stream' = stream \ {first[p]}
  /\ confirmed' = [confirmed EXCEPT ![first[p]] = @ + 1]
  /\ UNCHANGED <<sent, lock, first, lockLost, faults, stalls, dropped>>

DeleteThenCheck(p) ==
  /\ pc[p] = "deleting"
  /\ pc' = [pc EXCEPT ![p] = "releasing"]
  /\ stream' = stream \ {first[p]}
  /\ confirmed' = IF first[p] \in stream /\ ~lockLost[p]
                  THEN [confirmed EXCEPT ![first[p]] = @ + 1] ELSE confirmed
  /\ UNCHANGED <<sent, lock, first, lockLost, faults, stalls, dropped>>

(* XDEL; an answer of 0 means that the entry has been consumed *)
Delete(p) ==
  /\ pc[p] = "deleting"
  /\ pc' = [pc EXCEPT ![p] = "releasing"]
  /\ stream' = stream \ {first[p]}
  /\ confirmed' = IF first[p] \in stream
                  THEN [confirmed EXCEPT ![first[p]] = @ + 1] ELSE confirmed
  /\ UNCHANGED <<sent, lock, first, lockLost, faults, stalls, dropped>>

(* XDEL is executed but its reply is lost, or the caller is cancelled      *)
(* before it gets it; the retried XDEL is answered 0                       *)
DeleteUnanswered(p) ==
  /\ pc[p] = "deleting"
  /\ Fault
  /\ pc' = [pc EXCEPT ![p] = "releasing"]
  /\ stream' = stream \ {first[p]}
  /\ dropped' = dropped \cup ({first[p]} \cap stream)
  /\ UNCHANGED <<sent, lock, first, lockLost, stalls, confirmed>>

(* the renewal finds another token, or the renewal command fails *)
RenewalFails(p) ==
  /\ pc[p] \in Holding
  /\ ~lockLost[p]
  /\ \/ lock # p /\ UNCHANGED faults
     \/ lock = p /\ Fault
  /\ lockLost' = [lockLost EXCEPT ![p] = TRUE]
  /\ UNCHANGED <<server, pc, first, history>>

(* a release that deletes the key whoever owns it *)
ReleaseAnyones(p) ==
  /\ pc[p] = "releasing"
  /\ pc' = [pc EXCEPT ![p] = "idle"]
  /\ lock' = None
  /\ UNCHANGED <<stream, sent, first, lockLost, faults, history>>

(* finally: _release_lock deletes the key if it still holds the token *)
Release(p) ==
  /\ pc[p] = "releasing"
  /\ pc' = [pc EXCEPT ![p] = "idle"]
  /\ lock' = IF lock = p THEN None ELSE lock
  /\ UNCHANGED <<stream, sent, first, lockLost, faults, history>>

(* the caller is cancelled at XRANGE: only the finally block runs *)
Cancel(p) ==
  /\ pc[p] \in {"reading", "deleting"}
  /\ Fault
  /\ pc' = [pc EXCEPT ![p] = "releasing"]
  /\ UNCHANGED <<server, first, lockLost, history>>

(* the process dies, or its release command fails: the key stays *)
Crash(p) ==
  /\ pc[p] # "idle"
  /\ Fault
  /\ pc' = [pc EXCEPT ![p] = "idle"]
  /\ UNCHANGED <<server, first, lockLost, history>>

Pop(p) ==
  \/ Start(p) \/ Lock(p) \/ LockUnanswered(p) \/ GiveUp(p)
  \/ Read(p) \/ Check(p) \/ Delete(p) \/ DeleteUnanswered(p)
  \/ RenewalFails(p) \/ Release(p) \/ Cancel(p) \/ Crash(p)

Next == Put \/ DeleteStream \/ Expire \/ \E p \in Poppers : Pop(p)

Spec == Init /\ [][Next]_vars

(***************************************************************************)
(* The consumer loop calls pop() again while the stream is not empty, its  *)
(* commands are answered, and an abandoned lock key expires.               *)
(***************************************************************************)
Fairness ==
  /\ WF_vars(Expire)
  /\ \A p \in Poppers :
       /\ WF_vars(Start(p))
       /\ WF_vars(Lock(p))
       /\ WF_vars(Read(p) \/ Check(p) \/ Delete(p) \/ Release(p))

FairSpec == Spec /\ Fairness

-----------------------------------------------------------------------------
TypeOK ==
  /\ stream \subseteq Ids
  /\ sent \in 0..MaxEntries
  /\ lock \in Poppers \cup {None}
  /\ pc \in [Poppers -> Stages]
  /\ first \in [Poppers -> Ids \cup {None}]
  /\ lockLost \in [Poppers -> BOOLEAN]
  /\ faults \in 0..MaxFaults
  /\ stalls \in 0..MaxStalls
  /\ confirmed \in [Ids -> Nat]
  /\ dropped \subseteq Ids

(***************************************************************************)
(* An entry is handed out by at most one call of pop(), even when a lock   *)
(* expires under its owner and two calls have read the same first entry.   *)
(***************************************************************************)
AtMostOnce == \A i \in Ids : confirmed[i] <= 1

(***************************************************************************)
(* An entry that was put is in the stream, was handed out, or fell to a    *)
(* fault or to trimming: losing the lock alone loses no entry.             *)
(***************************************************************************)
NothingVanishes ==
  \A i \in 1..sent : i \in stream \/ confirmed[i] > 0 \/ i \in dropped

(***************************************************************************)
(* A lock key with a popper's token goes only by expiry or by that         *)
(* popper's own release, so a late release never frees another's lock.     *)
(***************************************************************************)
LockIsOwners ==
  [][\A p \in Poppers :
       lock = p /\ lock' # p =>
         \/ pc[p] = "releasing" /\ pc'[p] = "idle"
         \/ Expire]_vars

(***************************************************************************)
(* As long as renewals were in time, one popper at a time is between       *)
(* XRANGE and XDEL.                                                        *)
(***************************************************************************)
OneConsumer ==
  stalls = 0 => \A p, q \in Poppers : pc[p] \in Holding /\ pc[q] \in Holding => p = q

(***************************************************************************)
(* Every entry leaves the stream, also when an owner died with the lock:   *)
(* the key expires and a later pop() goes on.                              *)
(***************************************************************************)
Drains == \A i \in Ids : i \in stream ~> i \notin stream

(***************************************************************************)
(* The queue implements Channel: first in first out, received once.        *)
(***************************************************************************)
Queue == INSTANCE Channel WITH
  pending  <- stream,
  received <- {i \in Ids : confirmed[i] > 0}

ImplementsChannel == Queue!Spec
=============================================================================
