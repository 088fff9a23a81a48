------------------------------ MODULE Takeover ------------------------------
(***************************************************************************)
(* The user takes the browser of a session over from the agent, and gives  *)
(* it back. What the session's document says of it, and whether the task   *)
(* of the agent is paused, are kept apart: AgentSessionLifecycle sets the  *)
(* one by saving whole copies of the document, the other through the task  *)
(* it finds in the registry, and no lock holds the two together.           *)
(*                                                                         *)
(* A step is one command at MongoDB with the code up to the next one. A    *)
(* chat stands for the task it would create.                               *)
(***************************************************************************)
EXTENDS Integers, FiniteSets

CONSTANTS Chats, Requests, None,
          Ops,        \* what requests may ask for
          MaxFaults   \* bound: failed commands and restarts

Asked == {"start", "end", "keep", "pause", "resume", "stop", "close"}

ASSUME TakeoverAssumption ==
  Ops \subseteq Asked /\ None \notin Chats \cup Asked /\ MaxFaults \in Nat

VARIABLES
  doc,     \* the session's document
  task,    \* the tasks, and the chats that create them
  req,     \* the requests
  faults,
  hit      \* history: what happened that may set the two apart

vars == <<doc, task, req, faults, hit>>

Terminal == {"completed", "cancelled"}
Docs == [takeover : {"idle", "requested", "active", "resuming"},
         status : {"pending", "running", "waiting"} \cup Terminal,
         task : Chats \cup {None}]

Causes == {"chat", "overlap", "fault", "keep", "pause", "resume", "stop",
           "revived", "detached"}

Blank == [takeover |-> "idle", status |-> "pending", task |-> None]
Rest  == [pc |-> "rest", op |-> None, copy |-> Blank, view |-> Blank, task |-> None]

Init ==
  /\ doc = Blank /\ faults = 0 /\ hit = {}
  /\ task = [t \in Chats |-> [pc |-> "none", paused |-> FALSE, copy |-> Blank]]
  /\ req = [r \in Requests |-> Rest]

-----------------------------------------------------------------------------
Task(t, pc)    == task' = [task EXCEPT ![t].pc = pc]
Pause(t, b)    == task' = [task EXCEPT ![t].paused = b]
Registered(t)  == t # None /\ task[t].pc \in {"new", "bound", "start", "flow", "event", "ending"}
Lookup(id)     == IF Registered(id) THEN id ELSE None

Works(t) == t # None /\ task[t].pc \in {"start", "flow", "event"}

\* not RedisStreamTask.done
Live(t) == Works(t) \/ (t # None /\ task[t].pc = "ending")

Busy     == \E r \in Requests : req[r].pc # "rest"
Creating == \E t \in Chats : task[t].pc \in {"asked", "new", "bound"}
Quiet    == ~Busy /\ ~Creating

Fault == faults < MaxFaults /\ faults' = faults + 1
Blame(cause, when) == hit' = IF when THEN hit \cup {cause} ELSE hit

-----------------------------------------------------------------------------
(* A chat that needs a task reads the document under the session's lock,   *)
(* saves its copy, makes the task, and saves its copy with the task.       *)

ChatReads(t) ==
  /\ task[t].pc = "none" /\ ~Creating
  /\ ~(doc.status = "running" /\ Registered(doc.task))
  /\ task' = [task EXCEPT ![t].pc = "asked", ![t].copy = doc]
  /\ Blame("chat", Busy \/ doc.takeover # "idle" \/ \E u \in Chats : Works(u))
  /\ UNCHANGED <<doc, req, faults>>

CreateTask(t) ==
  /\ task[t].pc = "asked"
  /\ doc' = task[t].copy
  /\ Task(t, "new")
  /\ UNCHANGED <<req, faults, hit>>

BindTask(t) ==
  /\ task[t].pc = "new"
  /\ doc' = [task[t].copy EXCEPT !.task = t]
  /\ task' = [task EXCEPT ![t].pc = "bound", ![t].copy = Blank]
  /\ UNCHANGED <<req, faults, hit>>

Run(t) ==
  /\ task[t].pc = "bound"
  /\ Task(t, "start")
  /\ UNCHANGED <<doc, req, faults, hit>>

-----------------------------------------------------------------------------
(* The task: its flow yields events, and waits at each while it is paused. *)

FlowBegins(t) ==
  /\ task[t].pc = "start"
  /\ doc' = [doc EXCEPT !.status = "running"]
  /\ Task(t, "flow")
  /\ UNCHANGED <<req, faults, hit>>

FlowYields(t) ==
  /\ task[t].pc = "flow"
  /\ Task(t, "event")
  /\ UNCHANGED <<doc, req, faults, hit>>

GoesOn(t) ==
  /\ task[t].pc = "event" /\ ~task[t].paused
  /\ Task(t, "flow")
  /\ UNCHANGED <<doc, req, faults, hit>>

(* The event was a question to the user.                                   *)
Waits(t) ==
  /\ task[t].pc = "event" /\ ~task[t].paused
  /\ doc' = [doc EXCEPT !.status = "waiting"]
  /\ Task(t, "ending")
  /\ UNCHANGED <<req, faults, hit>>

FlowEnds(t) ==
  /\ task[t].pc = "flow"
  /\ doc' = [doc EXCEPT !.status = "completed"]
  /\ Task(t, "ending")
  /\ UNCHANGED <<req, faults, hit>>

Unregisters(t) ==
  /\ task[t].pc = "ending"
  /\ task' = [task EXCEPT ![t].pc = "over", ![t].paused = FALSE]
  /\ UNCHANGED <<doc, req, faults, hit>>

-----------------------------------------------------------------------------
(* Requests                                                                *)

Go(r, pc) == req' = [req EXCEPT ![r].pc = pc]
GoWith(r, pc, copy) == req' = [req EXCEPT ![r].pc = pc, ![r].copy = copy]
Return(r) == req' = [req EXCEPT ![r] = [Rest EXCEPT !.op = req[r].op]]

Begin(r) ==
  /\ req[r].pc = "rest" /\ req[r].op = None
  /\ \E op \in Ops :
       /\ op = "close" => \E t \in Chats : task[t].pc \in {"ending", "over"}
       /\ req' = [req EXCEPT ![r].pc = op, ![r].op = op]
       /\ hit' = hit \cup (IF Busy THEN {"overlap"} ELSE {})
                     \cup (IF Creating THEN {"chat"} ELSE {})
                     \cup ({op} \cap Causes)
  /\ UNCHANGED <<doc, task, faults>>

(* A save of d, after which n; a failure, with or without effect, goes on  *)
(* to x.                                                                   *)
Save(r, d, n, x) ==
  /\ \/ doc' = d /\ n /\ UNCHANGED <<faults, hit>>
     \/ Fault /\ Blame("fault", TRUE) /\ x /\ doc' \in {doc, d}
  /\ UNCHANGED task

SaveTakeover(r, v, n, x) ==
  Save(r, [req[r].copy EXCEPT !.takeover = v], n, x)

StartAnyway(r) == \* mutant: the takeover need not be idle
  /\ req[r].pc = "start"
  /\ GoWith(r, "request", doc)
  /\ UNCHANGED <<doc, task, faults, hit>>

(* start_takeover                                                          *)
StartReads(r) ==
  /\ req[r].pc = "start"
  /\ IF doc.takeover = "idle" THEN GoWith(r, "request", doc)
                              ELSE Return(r)
  /\ UNCHANGED <<doc, task, faults, hit>>

StartRequests(r) ==
  /\ req[r].pc = "request"
  /\ SaveTakeover(r, "requested", Go(r, "halt"), Return(r))

PauseUnstarted(t) == \* mutant: paused before it runs
  t # None /\ ~task[t].paused

(* RedisStreamTask.pause() succeeds                                        *)
Pauses(t) == Live(t) /\ ~task[t].paused

StartLeaves(r) == \* mutant: no way back when the pause fails
  LET t == Lookup(doc.task) IN
  /\ req[r].pc = "halt"
  /\ IF t = None THEN Go(r, "grant") /\ UNCHANGED task
     ELSE IF Pauses(t) THEN Pause(t, TRUE) /\ Go(r, "grant")
     ELSE Return(r) /\ UNCHANGED task
  /\ UNCHANGED <<doc, faults, hit>>

(* pause_session: without a task there is nothing to pause.                *)
StartPauses(r) ==
  LET t == Lookup(doc.task) IN
  /\ req[r].pc = "halt"
  /\ \/ /\ t = None \/ Pauses(t)
        /\ IF t = None THEN UNCHANGED task ELSE Pause(t, TRUE)
        /\ Go(r, "grant") /\ UNCHANGED <<faults, hit>>
     \/ /\ t # None /\ ~Pauses(t)
        /\ Go(r, "rollback") /\ UNCHANGED <<task, faults, hit>>
     \/ /\ Fault /\ Blame("fault", TRUE)
        /\ Go(r, "rollback") /\ UNCHANGED task
  /\ UNCHANGED doc

StartGrants(r) ==
  /\ req[r].pc = "grant"
  /\ SaveTakeover(r, "active", Return(r), Return(r))

(* The way back to idle, also of an end whose session is over.             *)
RollsBack(r) ==
  /\ req[r].pc = "rollback"
  /\ SaveTakeover(r, "idle", Return(r), Return(r))

(* end_takeover; "keep" is resume_agent = false                            *)
EndReads(r) ==
  /\ req[r].pc \in {"end", "keep"}
  /\ \/ doc.takeover = "idle" /\ Return(r)
     \/ /\ doc.takeover # "idle"
        /\ GoWith(r, IF doc.status \in Terminal THEN "rollback" ELSE "give", doc)
  /\ Blame("revived", doc.status \in Terminal /\ Works(Lookup(doc.task)))
  /\ UNCHANGED <<doc, task, faults>>

(* With resume_agent = false the login state may be kept: one more save.   *)
EndGives(r) ==
  /\ req[r].pc = "give"
  /\ \E pc \in IF req[r].op = "end" THEN {"resume"} ELSE {"give", "reread"} :
       SaveTakeover(r, "resuming", Go(r, pc), Return(r))

(* resume_session, also a request of its own                               *)
ResumeReads(r) ==
  /\ req[r].pc = "resume"
  /\ \E pc \in {"login", "wake"} :
       req' = [req EXCEPT ![r].pc = pc, ![r].view = doc,
                          ![r].task = Lookup(doc.task)]
  /\ UNCHANGED <<doc, task, faults, hit>>

(* A failure of resume_session reaches end_takeover, which saves its copy. *)
Raises(r) == IF req[r].op = "end" THEN Go(r, "undo") ELSE Return(r)

ResumeFails(r) ==
  /\ req[r].pc \in {"resume", "wake"}
  /\ Fault /\ Blame("fault", TRUE) /\ Raises(r)
  /\ UNCHANGED <<doc, task>>

KeepsLogin(r) ==
  /\ req[r].pc = "login"
  /\ Save(r, req[r].view, Go(r, "wake"), Raises(r))

(* RedisStreamTask.resume()                                                *)
Wakes(r) ==
  LET t == req[r].task
      paused == t # None /\ task[t].paused
  IN
  /\ req[r].pc = "wake"
  /\ IF paused THEN Pause(t, FALSE) ELSE UNCHANGED task
  /\ IF req[r].op = "resume" THEN Return(r)
     ELSE Go(r, IF paused THEN "reread" ELSE "retain")
  /\ UNCHANGED <<doc, faults, hit>>

EndUndoes(r) ==
  /\ req[r].pc = "undo"
  /\ SaveTakeover(r, "active", Return(r), Return(r))

EndForgets(r) == \* mutant: active again, whatever became of the resume
  /\ req[r].pc \in {"reread", "retain"}
  /\ GoWith(r, "undo", doc)
  /\ UNCHANGED <<doc, task, faults, hit>>

(* The rest of end_takeover: the document is read again, and saved.        *)
EndRereads(r) ==
  /\ req[r].pc \in {"reread", "retain"}
  /\ GoWith(r, IF req[r].pc = "reread" THEN "rollback" ELSE "undo", doc)
  /\ UNCHANGED <<doc, task, faults, hit>>

PauseReads(r) ==
  LET t == Lookup(doc.task) IN
  /\ req[r].pc = "pause" /\ Return(r)
  /\ IF Pauses(t) THEN Pause(t, TRUE) ELSE UNCHANGED task
  /\ UNCHANGED <<doc, faults, hit>>

(* _teardown_session_runtime, for stop_session or at the end of a chat's   *)
(* stream: a success ("close") cancels nothing, a failure is like a stop.  *)
(* A session that was torn down before, and has no sandbox, is left alone. *)
TornDown(status) == [doc EXCEPT !.task = None, !.status = status]

Cancelled(t) ==
  IF t = None THEN UNCHANGED task
  ELSE Task(t, IF Live(t) THEN "ending" ELSE "over")

StopReads(r) ==
  /\ req[r].pc = "stop"
  /\ \/ doc.status \in Terminal /\ Return(r) /\ UNCHANGED task
     \/ Cancelled(Lookup(doc.task)) /\ GoWith(r, "told", TornDown("cancelled"))
  /\ UNCHANGED <<doc, faults, hit>>

CloseReads(r) ==
  /\ req[r].pc = "close"
  /\ \/ doc.status \in Terminal /\ Return(r)
     \/ GoWith(r, "told", TornDown("completed"))
  /\ Blame("detached", Works(Lookup(doc.task)))
  /\ UNCHANGED <<doc, task, faults>>

StopWrites(r) ==
  /\ req[r].pc = "told"
  /\ doc' = TornDown(req[r].copy.status)
  /\ Return(r) \/ (req[r].op = "stop" /\ Go(r, "torn"))
  /\ UNCHANGED <<task, faults, hit>>

(* The sandbox was destroyed meanwhile: the copy is saved.                 *)
StopSaves(r) ==
  /\ req[r].pc = "torn"
  /\ doc' = req[r].copy /\ Return(r)
  /\ UNCHANGED <<task, faults, hit>>

(* The process dies and is started again: the document is all there is.    *)
Restart ==
  /\ Fault /\ Blame("fault", TRUE)
  /\ task' = [t \in Chats |-> IF task[t].pc = "none" THEN task[t] ELSE
                [pc |-> "over", paused |-> FALSE, copy |-> Blank]]
  /\ req' = [r \in Requests |-> [Rest EXCEPT !.op = req[r].op]]
  /\ UNCHANGED doc

Next ==
  \/ \E t \in Chats :
       \/ ChatReads(t) \/ CreateTask(t) \/ BindTask(t) \/ Run(t)
       \/ FlowBegins(t) \/ FlowYields(t) \/ GoesOn(t) \/ Waits(t)
       \/ FlowEnds(t) \/ Unregisters(t)
  \/ \E r \in Requests :
       \/ Begin(r) \/ StartReads(r) \/ StartRequests(r) \/ StartPauses(r)
       \/ StartGrants(r) \/ RollsBack(r) \/ EndReads(r) \/ EndGives(r)
       \/ ResumeReads(r) \/ ResumeFails(r) \/ KeepsLogin(r) \/ Wakes(r)
       \/ EndUndoes(r) \/ EndRereads(r)
       \/ PauseReads(r) \/ StopReads(r) \/ CloseReads(r) \/ StopWrites(r) \/ StopSaves(r)
  \/ Restart

Spec == Init /\ [][Next]_vars

-----------------------------------------------------------------------------
TypeOK ==
  /\ doc \in Docs
  /\ task \in [Chats -> [pc : {"none", "asked", "new", "bound", "start", "flow",
                               "event", "ending", "over"},
                         paused : BOOLEAN, copy : Docs]]
  /\ req \in [Requests -> [pc : {"rest", "request", "halt", "grant", "rollback",
                                "give", "resume", "login", "wake", "reread",
                                "retain", "undo", "told", "torn"} \cup Ops,
                           op : Ops \cup {None}, copy : Docs, view : Docs,
                           task : Chats \cup {None}]]
  /\ faults \in 0..MaxFaults /\ hit \subseteq Causes
  /\ \A t \in Chats : task[t].paused =>
       task[t].pc \in {"start", "flow", "event", "ending"}

(* Unless a cause in excuses occurred: a user who has taken over, and no   *)
(* request being under way, has the browser alone.                         *)
Handed(excuses) ==
  (Quiet /\ hit \cap excuses = {} /\ doc.takeover = "active") =>
    \A t \in Chats : Works(t) => task[t].paused

(* ... no agent is left paused behind a document that says idle, where an  *)
(* end_takeover has nothing to do.                                         *)
Freed(excuses) ==
  (Quiet /\ hit \cap excuses = {} /\ doc.takeover = "idle") =>
    \A t \in Chats : Works(t) => ~task[t].paused

(* ... the document is in no state that only a request is to see.          *)
Through(excuses) ==
  (Quiet /\ hit \cap excuses = {}) => doc.takeover \in {"idle", "active"}

HandedOver == Handed({"overlap", "chat", "fault", "resume", "detached"})
GivenBack == Freed({"overlap", "chat", "keep", "pause", "revived", "detached"})
SeenThrough == Through({"chat", "fault", "resume", "stop"})

(* "If session is already in a terminal state, there's nothing to resume": *)
NothingToResume == Freed(Causes \ {"revived"})

(* "Exiting takeover reliably resumes agent when requested": nobody paused *)
(* it but start_takeover, nobody asked to keep it paused.                  *)
ReliablyResumes == Freed(Causes \ {"overlap"})

(* "Refusing to grant takeover while agent may still be running": also     *)
(* when an older chat's stream ends late and detaches the agent's task.    *)
NeverGrantedBeside == Handed(Causes \ {"detached"})

(* Who ends a takeover gets the agent back, or the session is over.        *)
NotMarooned ==
  (Quiet /\ hit = {} /\ doc.takeover = "active" /\ doc.status \notin Terminal) =>
    Registered(doc.task) /\ task[doc.task].paused
====
