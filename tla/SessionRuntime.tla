--------------------------- MODULE SessionRuntime ---------------------------
(***************************************************************************)
(* One session and everything that works on it in one process: the chats   *)
(* of its user, the background tasks that answer them, the user's stops,   *)
(* and the warm-up of its sandbox.                                         *)
(*                                                                         *)
(* They meet in the session's document. Some update its fields one by one, *)
(* others replace it by a copy they read before they waited. A chat puts   *)
(* its message in the input stream of a task and relays the task's output  *)
(* stream until it sees how the task ended, or that it did.                *)
(*                                                                         *)
(* A chat stands for its message, for the lock it would create, and for    *)
(* the task it would create.                                               *)
(***************************************************************************)
EXTENDS Integers, Sequences, FiniteSets, SequencesExt

CONSTANTS Chats,       \* requests that carry a message
          Stops,       \* requests to stop the session
          None,
          Overlap,     \* when a chat may begin: see MayBegin
          Warmup,      \* the session was created with a sandbox warm-up
          MaxEvents,   \* bound: events of a flow for one message, without the last
          MaxFaults    \* bound: cancellations, disconnects and exceptions together

ASSUME SessionAssumption ==
  /\ None \notin Chats \cup {"completed", "failed", "cancelled", "failing"}
  /\ Overlap \in {"none", "told", "any"} /\ Warmup \in BOOLEAN
  /\ MaxEvents \in Nat /\ MaxFaults \in Nat /\ IsFiniteSet(Chats)

VARIABLES
  doc,        \* the session's document
  registered, \* RedisStreamTask._task_registry
  task,       \* the tasks, their input and output streams
  chat,       \* the chats
  current,    \* AgentService._session_cancel_events: the chat whose event it holds
  lock,       \* _task_creation_locks: the lock it holds
  stop, warm,
  taken,      \* the messages tasks have taken
  faults

vars == <<doc, registered, task, chat, current, lock, stop, warm, taken, faults>>

Statuses == {"pending", "initializing", "running", "waiting",
             "completed", "failed", "cancelled"}
Terminal == {"completed", "failed", "cancelled"}

Blank == [status |-> "pending", task |-> None, box |-> FALSE]

Init ==
  /\ doc = Blank /\ registered = {} /\ current = None /\ lock = None /\ taken = {}
  /\ task = [t \in Chats |-> [pc |-> "none", cancel |-> FALSE, fresh |-> FALSE,
                              err |-> FALSE, said |-> FALSE, n |-> 0,
                              in |-> <<>>, out |-> <<>>]]
  /\ chat = [c \in Chats |-> [pc |-> "idle", turn |-> 0, alone |-> FALSE,
                              lock |-> None, copy |-> Blank, task |-> None,
                              seen |-> 0, got |-> FALSE, outcome |-> None,
                              gone |-> FALSE, cancelled |-> FALSE]]
  /\ stop = [s \in Stops |-> [pc |-> "idle", box |-> FALSE, auto |-> FALSE]]
  /\ faults \in {0, 1} /\ faults <= MaxFaults /\ (faults = 1 => Warmup)
  /\ warm = [pc |-> IF faults = 1 THEN "start" ELSE "none", copy |-> Blank]

-----------------------------------------------------------------------------
\* a record with the fields of r replaced
With(old, r) == [f \in DOMAIN old |-> IF f \in DOMAIN r THEN r[f] ELSE old[f]]
Chat(c, r)   == chat' = [chat EXCEPT ![c] = With(@, r)]
Task(t, r)   == task' = [task EXCEPT ![t] = With(@, r)]
Lookup(id)   == IF id \in registered THEN id ELSE None

\* not RedisStreamTask.done
Live(t) == t # None /\ task[t].pc \notin {"none", "new", "done"}

\* mutant: one that executes leaves the registry, too
CancelAtOnce(t) ==
  /\ IF Live(t) THEN Task(t, [cancel |-> TRUE]) ELSE UNCHANGED task
  /\ registered' = registered \ {t}

(* RedisStreamTask.cancel(): one that executes is told and stays in the     *)
(* registry until it has stopped; any other leaves it now.                  *)
Cancel(t) ==
  IF Live(t) THEN Task(t, [cancel |-> TRUE]) /\ UNCHANGED registered
  ELSE registered' = registered \ {t} /\ UNCHANGED task

CancelRegistered(id) ==
  IF Lookup(id) = None THEN UNCHANGED <<task, registered>> ELSE Cancel(id)

Fault == faults < MaxFaults /\ faults' = faults + 1

\* where a chat goes when it has yielded: a generator whose reader has left
\* is closed there
Yielded(c, pc) == IF chat[c].gone THEN "over" ELSE pc

-----------------------------------------------------------------------------
(* A chat, up to its message.                                               *)

MayBegin(c) ==
  \A d \in Chats \ {c} :
     \/ Overlap = "any"
     \/ chat[d].pc \in {"idle", "over"}
     \/ Overlap = "told" /\ chat[d].outcome \notin {None, "failing"}

Begin(c) ==
  /\ chat[c].pc = "idle" /\ MayBegin(c)
  /\ current' = c
  /\ Chat(c, [pc |-> "arrive",
              turn |-> 1 + Cardinality({d \in Chats : chat[d].pc # "idle"}),
              alone |-> \A t \in Chats : ~Live(t)])
  /\ UNCHANGED <<doc, registered, task, lock, stop, warm, taken, faults>>

\* the document of a session torn down before
Torn == ~doc.box /\ doc.status \in Terminal

Arrive(c) ==
  /\ chat[c].pc = "arrive" /\ ~chat[c].cancelled
  /\ lock' = IF lock = None THEN c ELSE lock
  /\ Chat(c, [pc |-> "wait", lock |-> lock'])
  /\ UNCHANGED <<doc, registered, task, current, stop, warm, taken, faults>>

ArriveCancelled(c) ==
  /\ chat[c].pc = "arrive" /\ chat[c].cancelled
  /\ LET live == Live(Lookup(doc.task)) IN
     /\ IF live THEN Cancel(doc.task) ELSE UNCHANGED <<task, registered>>
     /\ Chat(c, IF live /\ ~Torn THEN [pc |-> "write", outcome |-> "cancelled"]
                                ELSE [pc |-> "close"])
     /\ lock' = IF live /\ Torn THEN None ELSE lock
  /\ UNCHANGED <<doc, current, stop, warm, taken, faults>>

(* A greeting or the like needs no task.                                    *)
AnswerAtOnce(c) ==
  /\ chat[c].pc = "arrive" /\ ~chat[c].cancelled /\ Lookup(doc.task) = None
  /\ taken' = taken \cup {c}
  /\ Chat(c, [pc |-> Yielded(c, "close"), outcome |-> "answered"])
  /\ UNCHANGED <<doc, registered, task, current, lock, stop, warm, faults>>

Creating == {"bind1", "bind2", "bind3", "bind4"}

(* Under the lock the session is read again.                                *)
Recheck(c) ==
  /\ chat[c].pc = "wait"
  /\ \A d \in Chats : ~(chat[d].pc \in Creating /\ chat[d].lock = chat[c].lock)
  /\ LET t == Lookup(doc.task) IN
     CASE doc.status = "running" /\ t # None ->
            Chat(c, [pc |-> "put", lock |-> None, task |-> t])
       [] (doc.status # "running" \/ t = None) /\ chat[c].cancelled ->
            Chat(c, [pc |-> "close", lock |-> None])
       [] OTHER -> Chat(c, [pc |-> IF doc.box THEN "bind2" ELSE "bind1", copy |-> doc])
  /\ UNCHANGED <<doc, registered, task, current, lock, stop, warm, taken, faults>>

(* AgentTaskFactory.create_task() saves its copy of the document when it    *)
(* has found a sandbox, when the browser is ready, and when the task        *)
(* exists.                                                                  *)
BindSandbox(c) ==
  /\ chat[c].pc = "bind1"
  /\ LET copy == [chat[c].copy EXCEPT !.box = TRUE] IN
     doc' = copy /\ Chat(c, [pc |-> "bind2", copy |-> copy])
  /\ UNCHANGED <<registered, task, current, lock, stop, warm, taken, faults>>

CreateTask(c) ==
  /\ chat[c].pc = "bind2"
  /\ doc' = chat[c].copy
  /\ registered' = registered \cup {c}
  /\ Task(c, [pc |-> "new"])
  /\ Chat(c, [pc |-> "bind3"])
  /\ UNCHANGED <<current, lock, stop, warm, taken, faults>>

BindTask(c) ==
  /\ chat[c].pc = "bind3"
  /\ doc' = [chat[c].copy EXCEPT !.task = c]
  /\ Chat(c, [pc |-> "bind4", task |-> c])
  /\ UNCHANGED <<registered, task, current, lock, stop, warm, taken, faults>>

(* A session that was completed is told to its new task, if there is        *)
(* anything to tell. Then the lock is released.                             *)
Reactivate(c) ==
  /\ chat[c].pc = "bind4"
  /\ \/ UNCHANGED task
     \/ chat[c].copy.status = "completed" /\ Task(c, [in |-> <<"context">>])
  /\ Chat(c, [pc |-> "put", lock |-> None, copy |-> Blank])
  /\ UNCHANGED <<doc, registered, current, lock, stop, warm, taken, faults>>

CreationFails(c) ==
  /\ chat[c].pc \in Creating
  /\ Fault
  /\ Chat(c, [pc |-> "tear", lock |-> None, outcome |-> "failing", copy |-> Blank])
  /\ UNCHANGED <<doc, registered, task, current, lock, stop, warm, taken>>

(* The message goes in; the stream starts at the cursor the client sent.    *)
Put(c) ==
  /\ chat[c].pc = "put"
  /\ LET t == chat[c].task IN
     /\ Task(t, [in |-> Append(task[t].in, c)])
     /\ \E seen \in {0} \cup {chat[d].seen : d \in {e \in Chats : chat[e].task = t}} :
          Chat(c, [pc |-> Yielded(c, "run"), seen |-> seen])
  /\ UNCHANGED <<doc, registered, current, lock, stop, warm, taken, faults>>

Run(c) ==
  /\ chat[c].pc = "run"
  /\ LET t == chat[c].task IN
     IF Live(t) THEN UNCHANGED task
     ELSE Task(t, [pc |-> "ready", fresh |-> TRUE, cancel |-> FALSE])
  /\ Chat(c, [pc |-> "relay"])
  /\ UNCHANGED <<doc, registered, current, lock, stop, warm, taken, faults>>

-----------------------------------------------------------------------------
(* A chat, from its message to its end.                                     *)

NextEvent(c) == task[chat[c].task].out[chat[c].seen + 1]
More(c)  == chat[c].seen < Len(task[chat[c].task].out)

RelayCancelled(c) ==
  /\ chat[c].pc = "relay" /\ Live(chat[c].task) /\ chat[c].cancelled
  /\ Cancel(chat[c].task)
  /\ Chat(c, [pc |-> "tear", outcome |-> "cancelled"])
  /\ UNCHANGED <<doc, current, lock, stop, warm, taken, faults>>

Read(c, outcome, pc) ==
  Chat(c, [seen |-> chat[c].seen + 1, got |-> TRUE, outcome |-> outcome, pc |-> pc])

Relay(c) ==
  /\ chat[c].pc = "relay" /\ Live(chat[c].task) /\ ~chat[c].cancelled /\ More(c)
  /\ CASE NextEvent(c) = "event" -> Read(c, None, Yielded(c, "relay"))
       [] NextEvent(c) = "wait"  -> Read(c, "waiting", Yielded(c, "close"))
       [] NextEvent(c) = "done"  -> Read(c, "completed", "mark")
       [] NextEvent(c) = "error" -> Read(c, "failed", "mark")
  /\ UNCHANGED <<doc, registered, task, current, lock, stop, warm, taken, faults>>

\* mutant: the relay waits for an event of a task that is over
TaskOverWithMore(c) ==
  /\ chat[c].pc = "relay" /\ ~Live(chat[c].task) /\ More(c)
  /\ Chat(c, [pc |-> "drain"])
  /\ UNCHANGED <<doc, registered, task, current, lock, stop, warm, taken, faults>>

TaskOver(c) ==
  /\ chat[c].pc = "relay" /\ ~Live(chat[c].task)
  /\ Chat(c, [pc |-> "drain"])
  /\ UNCHANGED <<doc, registered, task, current, lock, stop, warm, taken, faults>>

Drain(c) ==
  /\ chat[c].pc = "drain" /\ More(c)
  /\ CASE NextEvent(c) \in {"event", "wait"} -> Read(c, None, Yielded(c, "drain"))
       [] NextEvent(c) = "done"  -> Read(c, "completed", "mark")
       [] NextEvent(c) = "error" -> Read(c, "failed", "mark")
  /\ UNCHANGED <<doc, registered, task, current, lock, stop, warm, taken, faults>>

Drained(c) ==
  /\ chat[c].pc = "drain" /\ ~More(c)
  /\ CASE ~chat[c].got ->
            Chat(c, [pc |-> Yielded(c, "tear"), outcome |-> "completed"])
       [] chat[c].got /\ ~Live(chat[c].task) ->
            Chat(c, [pc |-> Yielded(c, "tear"), outcome |-> "cancelled"])
       [] OTHER -> Chat(c, [pc |-> "close"])
  /\ UNCHANGED <<doc, registered, task, current, lock, stop, warm, taken, faults>>

\* the status is written before the last event is yielded
Mark(c) ==
  /\ chat[c].pc = "mark"
  /\ doc' = [doc EXCEPT !.status = chat[c].outcome]
  /\ Chat(c, [pc |-> Yielded(c, "tear")])
  /\ UNCHANGED <<registered, task, current, lock, stop, warm, taken, faults>>

\* mutant: a failed chat leaves its task alone
TeardownSpares(c) ==
  /\ chat[c].pc = "tear"
  /\ Chat(c, [pc |-> IF Torn THEN "close" ELSE "write"])
  /\ lock' = IF Torn THEN None ELSE lock
  /\ UNCHANGED <<doc, registered, task, current, stop, warm, taken, faults>>

Teardown(c) ==
  /\ chat[c].pc = "tear"
  /\ IF Torn
     THEN /\ lock' = None
          /\ Chat(c, [pc |-> "close"])
          /\ UNCHANGED <<task, registered>>
     ELSE /\ IF chat[c].outcome = "completed" THEN UNCHANGED <<task, registered>>
             ELSE CancelRegistered(doc.task)
          /\ Chat(c, [pc |-> "write"])
          /\ UNCHANGED lock
  /\ UNCHANGED <<doc, current, stop, warm, taken, faults>>

\* mutant: an exception is written as it came
TeardownWritesRaw(c) ==
  /\ chat[c].pc = "write"
  /\ doc' = [doc EXCEPT !.task = None, !.status = chat[c].outcome]
  /\ Chat(c, [pc |-> "close"])
  /\ lock' = None
  /\ UNCHANGED <<registered, task, current, stop, warm, taken, faults>>

TeardownWrites(c) ==
  /\ chat[c].pc = "write"
  /\ LET outcome == IF chat[c].outcome = "failing" THEN "failed" ELSE chat[c].outcome IN
     /\ doc' = [doc EXCEPT !.task = None, !.status = outcome]
     /\ Chat(c, [pc |-> "close", outcome |-> outcome])
  /\ lock' = None
  /\ UNCHANGED <<registered, task, current, stop, warm, taken, faults>>

(* The service forgets the chat's event, if it is still the one it keeps;   *)
(* then the route asks for the cancellation of whatever chat it keeps.      *)
CancelCurrent(ch) ==
  IF current' = None THEN ch ELSE [ch EXCEPT ![current'].cancelled = TRUE]

Close(c) ==
  /\ chat[c].pc = "close"
  /\ current' = IF current = c THEN None ELSE current
  /\ LET over == [chat EXCEPT ![c].pc = "over", ![c].got = FALSE, ![c].lock = None] IN
     chat' = IF ~chat[c].gone /\ doc.status \in Terminal THEN CancelCurrent(over) ELSE over
  /\ UNCHANGED <<doc, registered, task, lock, stop, warm, taken, faults>>

-----------------------------------------------------------------------------
(* What users do to a chat.                                                 *)

InDomain ==
  Creating \cup {"arrive", "wait", "put", "run", "relay", "mark", "drain", "tear", "write"}

UserCancels ==
  /\ current # None
  /\ Fault
  /\ UNCHANGED current /\ chat' = CancelCurrent(chat)
  /\ UNCHANGED <<doc, registered, task, lock, stop, warm, taken>>

Abort(c) ==
  /\ chat[c].pc \in InDomain /\ chat[c].cancelled
  /\ Chat(c, [pc |-> "close", lock |-> None, copy |-> Blank])
  /\ UNCHANGED <<doc, registered, task, current, lock, stop, warm, taken, faults>>

Disconnect(c) ==
  /\ chat[c].pc \in InDomain /\ ~chat[c].gone /\ ~chat[c].cancelled
  /\ Fault
  /\ Chat(c, [gone |-> TRUE])
  /\ current' = IF current = c THEN None ELSE current
  /\ UNCHANGED <<doc, registered, task, lock, stop, warm, taken>>

\* the client left while the generator was at a yield
ClosedAtYield(c) ==
  /\ chat[c].gone /\ chat[c].outcome # "failing"
  /\ chat[c].pc \in {"run", "relay", "drain", "tear"}
  /\ Chat(c, [pc |-> "over", got |-> FALSE, lock |-> None])
  /\ UNCHANGED <<doc, registered, task, current, lock, stop, warm, taken, faults>>

-----------------------------------------------------------------------------
(* The user stops the session, or the cleanup before the user's next one.  *)

Stop(s, r) == stop' = [stop EXCEPT ![s] = With(@, r)]

StopBegins(s) ==
  /\ stop[s].pc = "idle" /\ Fault
  /\ Stop(s, [pc |-> "read"])
  /\ warm' = [pc |-> "over", copy |-> Blank]
  /\ UNCHANGED <<doc, registered, task, chat, current, lock, taken>>

(* Stale-session cleanup: it asks for open streams first, leaves the        *)
(* warm-up alone, and its time-out may cut it off where it waits.           *)
AutoStopBegins(s) ==
  /\ stop[s].pc = "idle" /\ Fault
  /\ doc.status \in {"pending", "initializing", "running"}
  /\ \A c \in Chats : chat[c].pc \in {"idle", "over"}
  /\ Stop(s, [pc |-> "read", auto |-> TRUE])
  /\ UNCHANGED <<doc, registered, task, chat, current, lock, warm, taken>>

AutoStopCut(s) ==
  /\ stop[s].auto /\ stop[s].pc \in {"read", "write", "save"}
  /\ Stop(s, [pc |-> IF stop[s].pc = "write" THEN "cut" ELSE "left", box |-> FALSE])
  /\ UNCHANGED <<doc, registered, task, chat, current, lock, warm, taken, faults>>

StopReads(s) ==
  /\ stop[s].pc = "read"
  /\ IF Torn
     THEN /\ lock' = None
          /\ Stop(s, [pc |-> "over"])
          /\ UNCHANGED <<task, registered>>
     ELSE /\ CancelRegistered(doc.task)
          /\ Stop(s, [pc |-> "write", box |-> doc.box])
          /\ UNCHANGED lock
  /\ UNCHANGED <<doc, chat, current, warm, taken, faults>>

StopWrites(s) ==
  /\ stop[s].pc = "write"
  /\ doc' = [doc EXCEPT !.task = None, !.status = "cancelled"]
  /\ Stop(s, [pc |-> IF stop[s].box THEN "save" ELSE "over"])
  /\ lock' = IF stop[s].box THEN lock ELSE None
  /\ UNCHANGED <<registered, task, chat, current, warm, taken, faults>>

\* the sandbox is destroyed, and the whole document saved without it
StopSaves(s) ==
  /\ stop[s].pc = "save"
  /\ doc' = [status |-> "cancelled", task |-> None, box |-> FALSE]
  /\ Stop(s, [pc |-> "over", box |-> FALSE])
  /\ lock' = None
  /\ UNCHANGED <<registered, task, chat, current, warm, taken, faults>>

-----------------------------------------------------------------------------
(* The warm-up of the sandbox, from which a chat waits a limited time only. *)

WarmBegins ==
  /\ warm.pc = "start"
  /\ doc' = [doc EXCEPT !.status = "initializing"]
  /\ warm' = [warm EXCEPT !.pc = "read"]
  /\ UNCHANGED <<registered, task, chat, current, lock, stop, taken, faults>>

WarmReads ==
  /\ warm.pc = "read"
  /\ warm' = IF doc.box THEN [warm EXCEPT !.pc = "end"]
                        ELSE [pc |-> "save", copy |-> doc]
  /\ UNCHANGED <<doc, registered, task, chat, current, lock, stop, taken, faults>>

WarmSaves ==
  /\ warm.pc = "save"
  /\ doc' = [warm.copy EXCEPT !.box = TRUE]
  /\ warm' = [pc |-> "end", copy |-> Blank]
  /\ UNCHANGED <<registered, task, chat, current, lock, stop, taken, faults>>

\* at once when it fails
WarmEnds ==
  /\ warm.pc \in {"read", "save", "end"}
  /\ doc' = [doc EXCEPT !.status = "pending"]
  /\ warm' = [pc |-> "over", copy |-> Blank]
  /\ UNCHANGED <<registered, task, chat, current, lock, stop, taken, faults>>

-----------------------------------------------------------------------------
(* A task: RedisStreamTask around AgentTaskRunner.run().                    *)

Goes(t, from, to) ==
  /\ task[t].pc = from /\ ~task[t].cancel
  /\ Task(t, [pc |-> to])
  /\ UNCHANGED <<registered, chat, current, lock, stop, warm>>

Say(t, event) == Append(task[t].out, event)

Begins(t) == Goes(t, "ready", "init") /\ UNCHANGED <<doc, taken, faults>>

\* every run begins with the event that names its flow
Announces(t) ==
  /\ task[t].pc = "init" /\ ~task[t].cancel
  /\ Task(t, [pc |-> "top", out |-> Say(t, "event")])
  /\ UNCHANGED <<doc, registered, chat, current, lock, stop, warm, taken, faults>>

TakesMessage(t) ==
  /\ task[t].pc = "top" /\ ~task[t].cancel /\ task[t].in # <<>>
  /\ taken' = taken \cup ({Head(task[t].in)} \cap Chats)
  /\ Task(t, [pc |-> "begin", in |-> Tail(task[t].in), fresh |-> FALSE,
              err |-> FALSE, said |-> FALSE, n |-> 0])
  /\ UNCHANGED <<doc, registered, chat, current, lock, stop, warm, faults>>

\* a run that finds no message at all has not set what it looks at next
NoMessage(t) ==
  /\ task[t].in = <<>>
  /\ Goes(t, "top", IF task[t].fresh THEN "crash" ELSE "end")
  /\ UNCHANGED <<doc, taken, faults>>

\* plan-act tells the session that it runs, discuss does not
FlowBegins(t) ==
  /\ Goes(t, "begin", "flow")
  /\ doc' \in {doc, [doc EXCEPT !.status = "running"]}
  /\ UNCHANGED <<taken, faults>>

FlowYields(t, event) ==
  /\ task[t].pc = "flow" /\ ~task[t].cancel /\ ~task[t].said
  /\ event \in {"event", "error"} => task[t].n < MaxEvents
  /\ event = "done" => task[t].n > 0
  /\ Task(t, [out |-> Say(t, event),
              n |-> task[t].n + (IF event \in {"event", "error"} THEN 1 ELSE 0),
              err |-> event = "error", said |-> event = "done",
              pc |-> IF event = "wait" THEN "waiting" ELSE "look"])
  /\ UNCHANGED <<doc, registered, chat, current, lock, stop, warm, taken, faults>>

Waits(t) ==
  /\ Goes(t, "waiting", "final")
  /\ doc' = [doc EXCEPT !.status = "waiting"]
  /\ UNCHANGED <<taken, faults>>

\* mutant: nobody looks for a message that came meanwhile
LooksAway(t) == Goes(t, "look", "flow") /\ UNCHANGED <<doc, taken, faults>>

\* a message that came meanwhile ends the flow
Looks(t) ==
  /\ Goes(t, "look", IF task[t].in = <<>> THEN "flow" ELSE "top")
  /\ UNCHANGED <<doc, taken, faults>>

\* plan-act's fast path writes a status of its own
FlowEnds(t) ==
  /\ Goes(t, "flow", "top")
  /\ doc' \in {doc} \cup {[doc EXCEPT !.status = s] : s \in {"pending", "completed"}}
  /\ UNCHANGED <<taken, faults>>

RunFails(t) ==
  /\ task[t].pc \in {"init", "top", "begin", "flow"} /\ ~task[t].said
  /\ Fault
  /\ Goes(t, task[t].pc, "crash")
  /\ UNCHANGED <<doc, taken>>

Crashes(t) ==
  /\ task[t].pc = "crash" /\ ~task[t].cancel
  /\ Task(t, [pc |-> "fail", out |-> Say(t, "error")])
  /\ UNCHANGED <<doc, registered, chat, current, lock, stop, warm, taken, faults>>

Fails(t) ==
  /\ Goes(t, "fail", "final")
  /\ doc' = [doc EXCEPT !.status = "failed"]
  /\ UNCHANGED <<taken, faults>>

\* mutant: the end of the run is not written
EndsSilently(t) ==
  /\ Goes(t, "end", IF task[t].err \/ task[t].said THEN "final" ELSE "say")
  /\ UNCHANGED <<doc, taken, faults>>

Ends(t) ==
  /\ Goes(t, "end", IF task[t].err \/ task[t].said THEN "final" ELSE "say")
  /\ doc' = [doc EXCEPT !.status = IF task[t].err THEN "failed" ELSE "completed"]
  /\ UNCHANGED <<taken, faults>>

SaysDone(t) ==
  /\ task[t].pc = "say" /\ ~task[t].cancel
  /\ Task(t, [pc |-> "final", out |-> Say(t, "done")])
  /\ UNCHANGED <<doc, registered, chat, current, lock, stop, warm, taken, faults>>

Unregisters(t) ==
  /\ task[t].pc = "final" /\ ~task[t].cancel
  /\ Task(t, [pc |-> "done", fresh |-> FALSE, err |-> FALSE, said |-> FALSE, n |-> 0])
  /\ registered' = registered \ {t}
  /\ UNCHANGED <<doc, chat, current, lock, stop, warm, taken, faults>>

(* CancelledError: its coroutine may not have begun, or may be in the       *)
(* finally clause that unregisters it.                                      *)
IsCancelled(t) ==
  /\ Live(t) /\ task[t].cancel
  /\ Task(t, [pc |-> IF task[t].pc \in {"ready", "final"} THEN "done" ELSE "final",
              cancel |-> FALSE, fresh |-> FALSE, err |-> FALSE, said |-> FALSE, n |-> 0])
  /\ UNCHANGED <<doc, registered, chat, current, lock, stop, warm, taken, faults>>

-----------------------------------------------------------------------------
ChatGoes(c) ==
  \/ Arrive(c) \/ ArriveCancelled(c) \/ AnswerAtOnce(c) \/ Recheck(c)
  \/ BindSandbox(c) \/ CreateTask(c) \/ BindTask(c) \/ Reactivate(c) \/ CreationFails(c)
  \/ Put(c) \/ Run(c) \/ RelayCancelled(c) \/ Relay(c) \/ TaskOver(c)
  \/ Drain(c) \/ Drained(c) \/ Mark(c) \/ Teardown(c) \/ TeardownWrites(c)
  \/ Close(c) \/ Abort(c) \/ ClosedAtYield(c)

TaskGoes(t) ==
  \/ Begins(t) \/ Announces(t) \/ TakesMessage(t) \/ NoMessage(t) \/ FlowBegins(t)
  \/ \E event \in {"event", "error", "done", "wait"} : FlowYields(t, event)
  \/ Waits(t) \/ Looks(t) \/ FlowEnds(t) \/ RunFails(t) \/ Crashes(t) \/ Fails(t)
  \/ Ends(t) \/ SaysDone(t) \/ Unregisters(t) \/ IsCancelled(t)

StopGoes(s) == StopReads(s) \/ StopWrites(s) \/ StopSaves(s)

WarmGoes == WarmBegins \/ WarmReads \/ WarmSaves \/ WarmEnds

StopRests == {"idle", "over", "cut", "left"}

Over ==
  /\ \A c \in Chats : chat[c].pc = "over" /\ ~Live(c)
  /\ \A s \in Stops : stop[s].pc \in StopRests
  /\ warm.pc \in {"none", "over"}

Progress ==
  \/ \E c \in Chats : ChatGoes(c) \/ TaskGoes(c)
  \/ \E s \in Stops : StopGoes(s)
  \/ WarmGoes

Next ==
  \/ \E c \in Chats : Begin(c) \/ ChatGoes(c) \/ Disconnect(c)
  \/ UserCancels
  \/ \E s \in Stops : StopBegins(s) \/ AutoStopBegins(s) \/ StopGoes(s) \/ AutoStopCut(s)
  \/ WarmGoes
  \/ \E t \in Chats : TaskGoes(t)
  \/ Over /\ UNCHANGED vars

Spec == Init /\ [][Next]_vars

(* The event loop runs what is ready: chats that have begun, tasks, stops   *)
(* and the warm-up go on. Users are free to do nothing.                     *)
FairSpec ==
  /\ Spec
  /\ \A c \in Chats : WF_vars(ChatGoes(c)) /\ WF_vars(TaskGoes(c))
  /\ \A s \in Stops : WF_vars(StopGoes(s))
  /\ WF_vars(WarmGoes)

-----------------------------------------------------------------------------
Documents == [status : Statuses, task : Chats \cup {None}, box : BOOLEAN]
Outcomes  == Terminal \cup {None, "answered", "waiting", "failing"}

Events    == {"event", "wait", "done", "error"}

TaskPlaces == {"none", "new", "ready", "init", "top", "begin", "flow", "look", "waiting",
               "crash", "fail", "end", "say", "final", "done"}

ChatRecord ==
  [pc : InDomain \cup {"idle", "close", "over"}, turn : Nat, alone : BOOLEAN,
   lock : Chats \cup {None}, copy : Documents, task : Chats \cup {None}, seen : Nat,
   got : BOOLEAN, outcome : Outcomes, gone : BOOLEAN, cancelled : BOOLEAN]

TaskRecord ==
  [pc : TaskPlaces, cancel : BOOLEAN, fresh : BOOLEAN, err : BOOLEAN, said : BOOLEAN,
   n : 0 .. MaxEvents, in : Seq(Chats \cup {"context"}), out : Seq(Events)]

StopRecord == [pc : {"read", "write", "save"} \cup StopRests, box : BOOLEAN, auto : BOOLEAN]
WarmRecord == [pc : {"none", "start", "read", "save", "end", "over"}, copy : Documents]

(* Types, and that no chat has read past the end of its task's output.      *)
TypeOK ==
  /\ doc \in Documents
  /\ registered \subseteq Chats /\ taken \subseteq Chats
  /\ {current, lock} \subseteq Chats \cup {None}
  /\ faults \in 0 .. MaxFaults
  /\ task \in [Chats -> TaskRecord] /\ chat \in [Chats -> ChatRecord]
  /\ stop \in [Stops -> StopRecord] /\ warm \in WarmRecord
  /\ \A c \in Chats :
       chat[c].seen <= (IF chat[c].task = None THEN 0 ELSE Len(task[chat[c].task].out))

Executing == {t \in Chats : Live(t)}

\* tasks that work on a message and have not been told to stop
Working == {t \in Executing : ~task[t].cancel /\ task[t].pc \in {"begin", "flow", "look"}}

Quiet ==
  /\ \A c \in Chats : chat[c].pc \in {"idle", "over"}
  /\ \A s \in Stops : stop[s].pc \in StopRests
  /\ warm.pc \in {"none", "over"} /\ Executing = {}

NeverCancelled == \A c \in Chats : ~chat[c].cancelled
NeverCut       == \A s \in Stops : stop[s].pc # "cut"
NeverStopped   == \A s \in Stops : stop[s].pc = "idle"

\* no client left between its message's put and the start of the task
NoneStranded   == \A t \in Chats : task[t].pc = "new" => task[t].in = <<>>

(* Nobody waits for ever: as long as a stream is open, a chat, a task, a    *)
(* stop or the warm-up can go on. As every step of theirs uses something    *)
(* up, streams end under FairSpec.                                          *)
StreamsEnd == (\E c \in Chats : chat[c].pc \notin {"idle", "over"}) => ENABLED Progress

(* The same under FairSpec: every stream that begins ends.                  *)
Ended == \A c \in Chats : chat[c].pc # "idle" ~> chat[c].pc = "over"

(* When nothing works on the session any more, its document does not say    *)
(* that it runs, whatever was stopped, failed, left or came late. Only a    *)
(* stream, or an automatic stop, that is cut off between its task's         *)
(* cancellation and the write of its teardown may leave it so, and a task   *)
(* that was bound with a copy that said so and never started.               *)
Settled ==
  Quiet /\ NeverCancelled /\ NeverCut /\ NoneStranded => doc.status # "running"

(* What the last chat was told is what the document says in the end: no     *)
(* task and no other chat writes over it. Stops and a late warm-up do.      *)
LastWord ==
  Quiet /\ NeverCancelled /\ NeverStopped /\ warm.pc = "none" =>
    \A c \in Chats :
      /\ chat[c].alone /\ ~chat[c].gone /\ chat[c].outcome \in Terminal
      /\ \A d \in Chats : chat[d].turn <= chat[c].turn
      => doc.status = chat[c].outcome

(* A user who is told "completed" had the message taken by a task, unless   *)
(* an older task was at work when it came, or something was cancelled.      *)
Answered ==
  NeverCancelled /\ NeverStopped =>
    \A c \in Chats : chat[c].alone /\ chat[c].outcome = "completed" => c \in taken

(* A task that executes for its own chat only can be found, by a cancel or  *)
(* a teardown, in the registry: it leaves it only when it has ended.        *)
Registered ==
  NeverStopped =>
    \A t \in Executing : (\A c \in Chats \ {t} : chat[c].task # t) => t \in registered

-----------------------------------------------------------------------------
(* What the code's comments and docs promise and the code does not keep.    *)

(* The stop button: when a cancelled stream has closed, its task has been   *)
(* told to stop, or has (cancel_session: "Signals the active                *)
(* AgentTaskRunner to stop between steps").                                 *)
CancelStops ==
  \A c \in Chats : chat[c].cancelled /\ chat[c].pc = "over" => chat[c].task \notin Working

(* A message that was put in a task's stream is taken in the end, though    *)
(* the client may have left.                                                *)
Delivered ==
  Quiet /\ NeverCancelled => \A t \in Chats : Chats \cap ToSet(task[t].in) = {}

(* A session whose task asked the user a question waits for the answer.     *)
WaitKept ==
  Quiet /\ (\E t \in Chats : task[t].out # <<>> /\ Last(task[t].out) = "wait")
  => doc.status # "cancelled"

(* The end of a stream cancels no other ("don't clobber theirs").           *)
OwnCancelOnly == faults = 0 => NeverCancelled

(* One task works on a session at a time ("prevent concurrent task          *)
(* creation").                                                              *)
OneTask == Cardinality(Working) <= 1

(* A session that was stopped stays stopped, without its sandbox.           *)
StopSticks ==
  Quiet /\ (\E s \in Stops : stop[s].pc = "over") => doc.status = "cancelled" /\ ~doc.box

(* The lock admits one creator of a task at a time.                         *)
OneBinder == Cardinality({c \in Chats : chat[c].pc \in Creating}) <= 1
=============================================================================
