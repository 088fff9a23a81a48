---------------------------- MODULE TakeoverProofs ----------------------------
(***************************************************************************)
(* Theorems about Takeover for any number of chats, requests and faults.   *)
(***************************************************************************)
EXTENDS Takeover, TLAPS

-----------------------------------------------------------------------------
(***************************************************************************)
(* The inductive invariant, in the order in which its parts rest on one    *)
(* another. Each part is about the runs that certain causes spare.         *)
(***************************************************************************)
Spared(causes) == hit \cap causes = {}

Coming(t)  == task[t].pc \in {"asked", "new", "bound"}
Engaged(t) == Coming(t) \/ Works(t)

Begun == {"start", "end", "keep", "pause", "stop", "close"}

(* Which request can be where; what was asked for is known.                *)
PlaceOf(r) ==
  LET pc == req[r].pc  op == req[r].op IN
  /\ op \in {"keep", "pause", "resume", "stop"} => op \in hit
  /\ pc \in Begun => op = pc
  /\ pc \in {"request", "halt", "grant"} => op = "start"
  /\ pc = "rollback" => op \in {"start", "end", "keep"}
  /\ pc \in {"give", "reread"} => op \in {"end", "keep"}
  /\ pc \in {"resume", "login", "wake"} => op \in {"end", "resume"}
  /\ pc \in {"retain", "undo"} => op = "end"
  /\ pc = "told" => op \in {"stop", "close"}
  /\ pc = "torn" => op = "stop"

Places == \A r \in Requests : PlaceOf(r)

(* A task comes while nobody asks for anything, over an idle takeover, and *)
(* next to no other.                                                       *)
Apart ==
  Spared({"chat"}) =>
    /\ ~(Busy /\ Creating)
    /\ \A t \in Chats : Coming(t) =>
         /\ doc.takeover = "idle"
         /\ task[t].pc \in {"asked", "new"} => task[t].copy.takeover = "idle"
    /\ \A t, u \in Chats : Engaged(t) /\ Engaged(u) => t = u

(* One request at a time, whose copies of the document are fresh where it  *)
(* matters.                                                                *)
Holds(r) ==
  \/ req[r].pc \in {"request", "halt", "grant", "rollback", "give", "undo"}
  \/ req[r].pc \in {"resume", "login", "wake"} /\ req[r].op = "end"

Resuming(r) ==
  \/ req[r].pc \in {"resume", "login", "wake"} /\ req[r].op = "end"
  \/ req[r].pc \in {"reread", "retain"}

FreshOf(r) ==
  /\ Holds(r) => req[r].copy.task = doc.task
  /\ req[r].pc \in {"told", "torn"} => req[r].copy.takeover = doc.takeover
  /\ req[r].pc = "login" => /\ req[r].view.task = doc.task
                            /\ req[r].view.takeover = doc.takeover
  /\ req[r].pc = "halt" => doc.takeover = "requested"
  /\ Resuming(r) => doc.takeover = "resuming"

Alone ==
  Spared({"chat", "overlap"}) =>
    /\ \A r, s \in Requests : req[r].pc # "rest" /\ req[s].pc # "rest" => r = s
    /\ \A r \in Requests : FreshOf(r)

(* The task that works is the one of the document, and of the request that *)
(* is about to wake it.                                                    *)
Attached ==
  Spared({"chat", "overlap", "detached"}) =>
    /\ \A t \in Chats : Works(t) \/ task[t].pc = "bound" => doc.task = t
    /\ \A r \in Requests, t \in Chats : Works(t) =>
         /\ req[r].pc \notin {"told", "torn"}
         /\ req[r].pc \in {"login", "wake"} => req[r].task = t

(* Who leaves the document half-way is still to save it again.             *)
Mid(r) == req[r].pc \in {"halt", "grant", "rollback", "give", "resume", "login",
                         "wake", "reread", "retain", "undo"}

SomeoneThrough ==
  Spared({"chat", "fault", "resume"}) /\ (Spared({"stop"}) \/ Spared({"overlap"})) =>
    (doc.takeover \in {"requested", "resuming"} => \E r \in Requests : Mid(r))

(* The agent is paused from before the grant until the wake.               *)
PausedOf(t) ==
  /\ doc.takeover = "active" => task[t].paused
  /\ \A r \in Requests :
       /\ req[r].pc \in {"grant", "give", "resume", "login", "wake"} => task[t].paused
       /\ req[r].pc \notin {"retain", "undo"}

PausedMeanwhile ==
  Spared({"overlap", "chat", "fault", "resume", "detached"}) =>
    \A t \in Chats : Works(t) => PausedOf(t)

(* The agent is not paused before a halt and after a wake.                 *)
FreeOf(t) ==
  /\ doc.takeover = "idle" => ~task[t].paused
  /\ \A r \in Requests :
       req[r].pc \in {"request", "halt", "rollback", "reread"} => ~task[t].paused

FreeOtherwise ==
  Spared({"overlap", "chat", "keep", "pause", "revived", "detached"}) =>
    \A t \in Chats : Works(t) => FreeOf(t)

IInv ==
  /\ TypeOK /\ Places /\ Apart /\ Alone /\ Attached
  /\ SomeoneThrough /\ PausedMeanwhile /\ FreeOtherwise

-----------------------------------------------------------------------------
RequestPlaces == {"rest", "request", "halt", "grant", "rollback", "give",
                  "resume", "login", "wake", "reread", "retain", "undo",
                  "told", "torn"} \cup Ops

RequestStates == [pc : RequestPlaces, op : Ops \cup {None}, copy : Docs,
                  view : Docs, task : Chats \cup {None}]

TaskStates == [pc : {"none", "asked", "new", "bound", "start", "flow", "event",
                     "ending", "over"}, paused : BOOLEAN, copy : Docs]

(* The ways in which a request goes on. *)
LEMMA GoTyped ==
  ASSUME TypeOK, NEW r \in Requests, NEW pc \in RequestPlaces, NEW copy \in Docs
  PROVE  /\ Go(r, pc) => req' \in [Requests -> RequestStates]
         /\ GoWith(r, pc, copy) => req' \in [Requests -> RequestStates]
         /\ Return(r) => req' \in [Requests -> RequestStates]
  <1>1. req \in [Requests -> RequestStates] /\ doc \in Docs
    BY DEF TypeOK, RequestStates, RequestPlaces
  <1>2. Go(r, pc) => req' \in [Requests -> RequestStates]
    BY <1>1 DEF Go, RequestStates
  <1>3. GoWith(r, pc, copy) => req' \in [Requests -> RequestStates]
    BY <1>1 DEF GoWith, RequestStates
  <1>4. ASSUME Return(r) PROVE req' \in [Requests -> RequestStates]
    <2>1. [Rest EXCEPT !.op = req[r].op] \in RequestStates
      BY <1>1 DEF Rest, Blank, Docs, RequestStates, RequestPlaces
    <2>2. QED
      BY <1>1, <1>4, <2>1 DEF Return
  <1>5. QED
    BY <1>2, <1>3, <1>4

LEMMA FaultTyped ==
  ASSUME TypeOK, Fault
  PROVE  faults' \in 0..MaxFaults
  BY TakeoverAssumption DEF TypeOK, Fault

LEMMA SaveTyped ==
  ASSUME TypeOK, NEW r \in Requests, NEW d \in Docs,
         NEW p \in RequestPlaces, NEW q \in RequestPlaces,
         NEW ACTION N, NEW ACTION X, N => Go(r, p) \/ Return(r), X => Go(r, q) \/ Return(r),
         Save(r, d, N, X)
  PROVE  TypeOK'
  <1>1. /\ doc' \in Docs /\ task' = task /\ faults' \in 0..MaxFaults
        /\ hit' \subseteq Causes
    BY FaultTyped DEF TypeOK, Save, Blame, Causes
  <1>2. req' \in [Requests -> RequestStates]
    BY GoTyped DEF Save, TypeOK
  <1>3. QED
    BY <1>1, <1>2 DEF TypeOK, RequestStates, RequestPlaces

(* A request goes on in one of these ways, or stays. *)
Goes(r) ==
  \/ req' = req
  \/ Return(r)
  \/ \E pc \in RequestPlaces : Go(r, pc) \/ (\E copy \in Docs : GoWith(r, pc, copy))

LEMMA RequestTypes ==
  ASSUME TypeOK, NEW r \in Requests, Goes(r), doc' \in Docs,
         task' \in [Chats -> TaskStates],
         \A t \in Chats : task'[t].paused =>
           task'[t].pc \in {"start", "flow", "event", "ending"},
         faults' \in 0..MaxFaults, hit' \subseteq Causes
  PROVE  TypeOK'
  <1>1. req' \in [Requests -> RequestStates]
    <2>1. req \in [Requests -> RequestStates] /\ {} \in SUBSET Docs
      BY DEF TypeOK, RequestStates, RequestPlaces
    <2>2. ASSUME NEW pc \in RequestPlaces, Go(r, pc)
          PROVE  req' \in [Requests -> RequestStates]
      BY <2>2, GoTyped DEF TypeOK
    <2>3. ASSUME NEW pc \in RequestPlaces, NEW copy \in Docs, GoWith(r, pc, copy)
          PROVE  req' \in [Requests -> RequestStates]
      BY <2>3, GoTyped
    <2>4. ASSUME Return(r) PROVE req' \in [Requests -> RequestStates]
      <3>1. "rest" \in RequestPlaces /\ doc \in Docs
        BY DEF RequestPlaces, TypeOK
      <3>2. QED
        BY <2>4, <3>1, GoTyped
    <2>5. QED
      BY <2>1, <2>2, <2>3, <2>4 DEF Goes
  <1>2. QED
    BY <1>1 DEF TypeOK, RequestStates, RequestPlaces, TaskStates

LEMMA TaskTypes ==
  ASSUME TypeOK, Next,
         \/ \E t \in Chats :
               \/ ChatReads(t) \/ CreateTask(t) \/ BindTask(t) \/ Run(t)
               \/ FlowBegins(t) \/ FlowYields(t) \/ GoesOn(t) \/ Waits(t)
               \/ FlowEnds(t) \/ Unregisters(t)
         \/ Restart
  PROVE  TypeOK'
  <1>1. /\ doc \in Docs /\ task \in [Chats -> TaskStates] /\ hit \subseteq Causes
        /\ \A t \in Chats : task[t].paused =>
             task[t].pc \in {"start", "flow", "event", "ending"}
        /\ Chats \cap {None} = {}
    BY TakeoverAssumption DEF TypeOK, TaskStates
  <1>2. ASSUME NEW t \in Chats, ChatReads(t) PROVE TypeOK'
    BY <1>1, <1>2 DEF ChatReads, Blame, Causes, TypeOK, TaskStates
  <1>3. ASSUME NEW t \in Chats, CreateTask(t) \/ BindTask(t) \/ Run(t) PROVE TypeOK'
    <2>1. UNCHANGED <<req, faults, hit>>
      BY <1>3 DEF CreateTask, BindTask, Run
    <2>2. doc' \in Docs
      BY <1>1, <1>3 DEF CreateTask, BindTask, Run, Docs, TaskStates
    <2>3. CASE CreateTask(t) \/ Run(t)
      BY <1>1, <2>1, <2>2, <2>3 DEF CreateTask, Run, Task, TypeOK, TaskStates
    <2>4. CASE BindTask(t)
      <3>1. Blank \in Docs
        BY DEF Blank, Docs
      <3>2. QED
        BY <1>1, <2>1, <2>2, <2>4, <3>1 DEF BindTask, TypeOK, TaskStates
    <2>5. QED
      BY <1>3, <2>3, <2>4
  <1>4. ASSUME NEW t \in Chats,
               \/ FlowBegins(t) \/ FlowYields(t) \/ GoesOn(t) \/ Waits(t) \/ FlowEnds(t)
        PROVE  TypeOK'
    <2>1. UNCHANGED <<req, faults, hit>>
      BY <1>4 DEF FlowBegins, FlowYields, GoesOn, Waits, FlowEnds
    <2>2. doc' \in Docs
      BY <1>1, <1>4
      DEF FlowBegins, FlowYields, GoesOn, Waits, FlowEnds, Docs, Terminal
    <2>3. \E pc \in {"flow", "event", "ending"} : Task(t, pc)
      BY <1>4 DEF FlowBegins, FlowYields, GoesOn, Waits, FlowEnds
    <2>4. QED
      BY <1>1, <2>1, <2>2, <2>3 DEF Task, TypeOK, TaskStates
  <1>5. ASSUME NEW t \in Chats, Unregisters(t) PROVE TypeOK'
    BY <1>1, <1>5 DEF Unregisters, TypeOK, TaskStates
  <1>6. CASE Restart
    <2>1. faults' \in 0..MaxFaults
      BY <1>6, FaultTyped DEF Restart
    <2>2. Blank \in Docs
      BY DEF Blank, Docs
    <2>3. task' \in [Chats -> TaskStates] /\ \A t \in Chats : task'[t].paused =>
             task'[t].pc \in {"start", "flow", "event", "ending"}
      BY <1>1, <1>6, <2>2 DEF Restart, TaskStates
    <2>4. req' \in [Requests -> RequestStates]
      <3>1. \A r \in Requests : [Rest EXCEPT !.op = req[r].op] \in RequestStates
        BY <2>2, TakeoverAssumption DEF TypeOK, Rest, RequestStates, RequestPlaces
      <3>2. QED
        BY <1>6, <3>1 DEF Restart
    <2>5. QED
      BY <1>1, <1>6, <2>1, <2>3, <2>4
      DEF Restart, Blame, Causes, TypeOK, TaskStates, RequestStates, RequestPlaces
  <1>7. QED
    BY <1>2, <1>3, <1>4, <1>5, <1>6

LEMMA RequestStepTypes ==
  ASSUME TypeOK, NEW r \in Requests,
         \/ Begin(r) \/ StartReads(r) \/ StartRequests(r) \/ StartPauses(r)
         \/ StartGrants(r) \/ RollsBack(r) \/ EndReads(r) \/ EndGives(r)
         \/ ResumeReads(r) \/ ResumeFails(r) \/ KeepsLogin(r) \/ Wakes(r)
         \/ EndUndoes(r) \/ EndRereads(r)
         \/ PauseReads(r) \/ StopReads(r) \/ CloseReads(r) \/ StopWrites(r) \/ StopSaves(r)
  PROVE  TypeOK'
  <1>1. /\ doc \in Docs /\ task \in [Chats -> TaskStates] /\ hit \subseteq Causes
        /\ \A t \in Chats : task[t].paused =>
             task[t].pc \in {"start", "flow", "event", "ending"}
        /\ req \in [Requests -> RequestStates] /\ faults \in 0..MaxFaults
    BY DEF TypeOK, TaskStates, RequestStates, RequestPlaces
  <1>2. /\ req[r].copy \in Docs /\ req[r].view \in Docs
        /\ req[r].task \in Chats \cup {None} /\ req[r].op \in Ops \cup {None}
    BY <1>1 DEF RequestStates
  <1>3. \A v \in {"idle", "requested", "active", "resuming"} :
          [req[r].copy EXCEPT !.takeover = v] \in Docs
    BY <1>2 DEF Docs
  <1>4. \A id : Lookup(id) \in Chats \cup {None} \/ Lookup(id) = id
    BY DEF Lookup
  <1>5. Lookup(doc.task) \in Chats \cup {None}
    BY <1>1 DEF Lookup, Docs
  <1>6. \A status \in {"completed", "cancelled", "pending", "running", "waiting"} :
          TornDown(status) \in Docs
    BY <1>1 DEF TornDown, Docs, Terminal
  <1>7. CASE Begin(r)
    <2>1. PICK op \in Ops :
            /\ req' = [req EXCEPT ![r].pc = op, ![r].op = op]
            /\ hit' = hit \cup (IF Busy THEN {"overlap"} ELSE {})
                          \cup (IF Creating THEN {"chat"} ELSE {})
                          \cup ({op} \cap Causes)
      BY <1>7 DEF Begin
    <2>2. hit' \subseteq Causes
      BY <1>1, <2>1 DEF Causes
    <2>3. req' \in [Requests -> RequestStates]
      BY <1>1, <2>1 DEF RequestStates, RequestPlaces
    <2>4. QED
      BY <1>1, <1>7, <2>2, <2>3
      DEF Begin, TypeOK, TaskStates, RequestStates, RequestPlaces
  <1>8. CASE StartRequests(r) \/ StartGrants(r) \/ RollsBack(r) \/ EndUndoes(r)
    <2>1. "halt" \in RequestPlaces
      BY DEF RequestPlaces
    <2>2. CASE StartRequests(r)
      <3>1. Save(r, [req[r].copy EXCEPT !.takeover = "requested"], Go(r, "halt"), Return(r))
        BY <2>2 DEF StartRequests, SaveTakeover
      <3>2. QED
        BY <1>3, <2>1, <3>1, SaveTyped
    <2>3. CASE StartGrants(r) \/ RollsBack(r) \/ EndUndoes(r)
      <3>1. PICK v \in {"idle", "active"} :
              Save(r, [req[r].copy EXCEPT !.takeover = v], Return(r), Return(r))
        BY <2>3 DEF StartGrants, RollsBack, EndUndoes, SaveTakeover
      <3>2. QED
        BY <1>3, <2>1, <3>1, SaveTyped
    <2>4. QED
      BY <1>8, <2>2, <2>3
  <1>9. CASE EndGives(r)
    <2>1. PICK pc \in {"resume", "give", "reread"} :
            SaveTakeover(r, "resuming", Go(r, pc), Return(r))
      BY <1>9 DEF EndGives
    <2>2. pc \in RequestPlaces
      BY DEF RequestPlaces
    <2>3. QED
      BY <1>3, <2>1, <2>2, SaveTyped DEF SaveTakeover
  <1>10. CASE KeepsLogin(r)
    <2>1. "wake" \in RequestPlaces /\ "undo" \in RequestPlaces
      BY DEF RequestPlaces
    <2>2. Raises(r) => Go(r, "undo") \/ Return(r)
      BY DEF Raises
    <2>3. QED
      BY <1>2, <1>10, <2>1, <2>2, SaveTyped DEF KeepsLogin
  <1>11. CASE StartPauses(r)
    <2>1. Goes(r)
      BY <1>11 DEF StartPauses, Goes, RequestPlaces
    <2>2. /\ task' \in [Chats -> TaskStates]
          /\ \A t \in Chats : task'[t].paused =>
               task'[t].pc \in {"start", "flow", "event", "ending"}
      BY <1>1, <1>5, <1>11
      DEF StartPauses, Pause, Pauses, Live, Works, TaskStates
    <2>3. faults' \in 0..MaxFaults /\ hit' \subseteq Causes /\ doc' = doc
      BY <1>1, <1>11, FaultTyped DEF StartPauses, Blame, Causes
    <2>4. QED
      BY <1>1, <2>1, <2>2, <2>3, RequestTypes
  <1>12. CASE StartReads(r) \/ EndReads(r) \/ EndRereads(r) \/ CloseReads(r)
    <2>1. Goes(r)
      <3>1. /\ "request" \in RequestPlaces /\ "rollback" \in RequestPlaces
            /\ "give" \in RequestPlaces /\ "undo" \in RequestPlaces
            /\ "told" \in RequestPlaces /\ TornDown("completed") \in Docs
        BY <1>6 DEF RequestPlaces
      <3>2. CASE StartReads(r)
        BY <1>1, <3>1, <3>2 DEF StartReads, Goes
      <3>3. CASE EndReads(r)
        BY <1>1, <3>1, <3>3 DEF EndReads, Goes
      <3>4. CASE EndRereads(r)
        BY <1>1, <3>1, <3>4 DEF EndRereads, Goes
      <3>5. CASE CloseReads(r)
        BY <1>1, <3>1, <3>5 DEF CloseReads, Goes
      <3>6. QED
        BY <1>12, <3>2, <3>3, <3>4, <3>5
    <2>2. hit' \subseteq Causes
      BY <1>1, <1>12 DEF StartReads, EndReads, EndRereads, CloseReads, Blame, Causes
    <2>3. UNCHANGED <<doc, task, faults>>
      BY <1>12 DEF StartReads, EndReads, EndRereads, CloseReads
    <2>4. QED
      BY <1>1, <2>1, <2>2, <2>3, RequestTypes
  <1>13. CASE ResumeReads(r)
    <2>1. PICK pc \in {"login", "wake"} :
            req' = [req EXCEPT ![r].pc = pc, ![r].view = doc,
                               ![r].task = Lookup(doc.task)]
      BY <1>13 DEF ResumeReads
    <2>2. req' \in [Requests -> RequestStates]
      <3>1. pc \in RequestPlaces /\ req[r] \in RequestStates
        BY <1>1, <2>1 DEF RequestPlaces
      <3>2. [req[r] EXCEPT !.pc = pc, !.view = doc, !.task = Lookup(doc.task)]
              \in RequestStates
        BY <1>1, <1>5, <3>1 DEF RequestStates
      <3>3. req' = [req EXCEPT ![r] =
               [req[r] EXCEPT !.pc = pc, !.view = doc, !.task = Lookup(doc.task)]]
        BY <1>1, <2>1, <3>1 DEF RequestStates
      <3>4. QED
        BY <1>1, <3>2, <3>3
    <2>3. UNCHANGED <<doc, task, faults, hit>>
      BY <1>13 DEF ResumeReads
    <2>4. QED
      BY <1>1, <2>2, <2>3 DEF TypeOK, TaskStates, RequestStates, RequestPlaces
  <1>14. CASE ResumeFails(r)
    <2>1. Goes(r) /\ UNCHANGED <<doc, task>>
      BY <1>14 DEF ResumeFails, Raises, Goes, RequestPlaces
    <2>2. hit' \subseteq Causes /\ faults' \in 0..MaxFaults
      BY <1>1, <1>14, FaultTyped DEF ResumeFails, Blame, Causes
    <2>3. QED
      BY <1>1, <2>1, <2>2, RequestTypes
  <1>15. CASE Wakes(r) \/ PauseReads(r)
    <2>1. Goes(r)
      BY <1>15 DEF Wakes, PauseReads, Goes, RequestPlaces
    <2>2. /\ task' \in [Chats -> TaskStates]
          /\ \A t \in Chats : task'[t].paused =>
               task'[t].pc \in {"start", "flow", "event", "ending"}
      <3>1. CASE Wakes(r)
        <4>1. \/ UNCHANGED task
              \/ req[r].task # None /\ Pause(req[r].task, FALSE)
          BY <3>1 DEF Wakes
        <4>2. ASSUME NEW t \in Chats, Pause(t, FALSE)
              PROVE  /\ task' \in [Chats -> TaskStates]
                     /\ \A u \in Chats : task'[u].paused => task[u].paused
                     /\ \A u \in Chats : task'[u].pc = task[u].pc
          BY <1>1, <4>2 DEF Pause, TaskStates
        <4>3. QED
          BY <1>1, <1>2, <4>1, <4>2
      <3>2. CASE PauseReads(r)
        BY <1>1, <1>5, <3>2 DEF PauseReads, Pause, Pauses, Live, Works, TaskStates
      <3>3. QED
        BY <1>15, <3>1, <3>2
    <2>3. UNCHANGED <<doc, faults, hit>>
      BY <1>15 DEF Wakes, PauseReads
    <2>4. QED
      BY <1>1, <2>1, <2>2, <2>3, RequestTypes
  <1>16. CASE StopReads(r)
    <2>1. Goes(r)
      BY <1>6, <1>16 DEF StopReads, Goes, RequestPlaces
    <2>2. /\ task' \in [Chats -> TaskStates]
          /\ \A t \in Chats : task'[t].paused =>
               task'[t].pc \in {"start", "flow", "event", "ending"}
      <3>1. CASE UNCHANGED task
        BY <1>1, <3>1
      <3>2. CASE Cancelled(Lookup(doc.task))
        BY <1>1, <1>5, <3>2
        DEF Cancelled, Task, Lookup, Registered, Live, Works, TaskStates
      <3>3. QED
        BY <1>16, <3>1, <3>2 DEF StopReads
    <2>3. UNCHANGED <<doc, faults, hit>>
      BY <1>16 DEF StopReads
    <2>4. QED
      BY <1>1, <2>1, <2>2, <2>3, RequestTypes
  <1>17. CASE StopWrites(r) \/ StopSaves(r)
    <2>1. Goes(r)
      BY <1>17 DEF StopWrites, StopSaves, Goes, RequestPlaces
    <2>2. doc' \in Docs
      BY <1>1, <1>2, <1>17 DEF StopWrites, StopSaves, TornDown, Docs
    <2>3. UNCHANGED <<task, faults, hit>>
      BY <1>17 DEF StopWrites, StopSaves
    <2>4. QED
      BY <1>1, <2>1, <2>2, <2>3, RequestTypes
  <1>18. QED
    BY <1>7, <1>8, <1>9, <1>10, <1>11, <1>12, <1>13, <1>14, <1>15, <1>16, <1>17

-----------------------------------------------------------------------------
(* The same, request by request and task by task. *)
Others(r) == \A s \in Requests : s # r => req'[s] = req[s]

Moved(r, pc, copy) ==
  /\ Others(r)
  /\ req'[r].pc = pc /\ req'[r].op = req[r].op /\ req'[r].copy = copy
  /\ req'[r].view = req[r].view /\ req'[r].task = req[r].task

Returned(r) ==
  Others(r) /\ req'[r].pc = "rest" /\ req'[r].op = req[r].op

LEMMA RequestMoves ==
  ASSUME TypeOK, NEW r \in Requests
  PROVE  /\ \A pc : Go(r, pc) => Moved(r, pc, req[r].copy)
         /\ \A pc, copy : GoWith(r, pc, copy) => Moved(r, pc, copy)
         /\ Return(r) => Returned(r)
  <1>1. req \in [Requests -> RequestStates]
    BY DEF TypeOK, RequestStates, RequestPlaces
  <1>2. QED
    BY <1>1 DEF Go, GoWith, Return, Moved, Returned, Others, Rest, RequestStates

LEMMA TaskMoves ==
  ASSUME TypeOK, NEW t \in Chats
  PROVE  /\ \A b : Pause(t, b) => \A u \in Chats :
              /\ task'[u].pc = task[u].pc /\ task'[u].copy = task[u].copy
              /\ task'[u].paused = (IF u = t THEN b ELSE task[u].paused)
         /\ \A pc : Task(t, pc) => \A u \in Chats :
              /\ task'[u].pc = (IF u = t THEN pc ELSE task[u].pc)
              /\ task'[u].copy = task[u].copy /\ task'[u].paused = task[u].paused
  <1>1. task \in [Chats -> TaskStates]
    BY DEF TypeOK, TaskStates
  <1>2. QED
    BY <1>1 DEF Pause, Task, TaskStates

(* What each step of a request does, field by field. A save writes the     *)
(* copy with one takeover; it fails with or without that effect.           *)
Written(r, v) == doc'.takeover = v /\ doc'.task = req[r].copy.task

Saves(r, v) == UNCHANGED <<task, hit>> /\ Written(r, v)

Fails(r, v) ==
  /\ task' = task /\ "fault" \in hit'
  /\ doc' = doc \/ Written(r, v)

LEMMA SaveDoes ==
  ASSUME TypeOK, NEW r \in Requests, NEW v, NEW ACTION N, NEW ACTION X,
         SaveTakeover(r, v, N, X)
  PROVE  (Saves(r, v) /\ N) \/ (Fails(r, v) /\ X)
  <1>1. req[r].copy \in Docs
    BY DEF TypeOK
  <1> DEFINE d == [req[r].copy EXCEPT !.takeover = v]
  <1>2. d.takeover = v /\ d.task = req[r].copy.task
    BY <1>1 DEF Docs
  <1>3. Save(r, d, N, X)
    BY DEF SaveTakeover
  <1> HIDE DEF d
  <1>4. CASE doc' = d /\ N /\ UNCHANGED <<task, hit>>
    BY <1>2, <1>4 DEF Saves, Written
  <1>5. CASE "fault" \in hit' /\ X /\ doc' \in {doc, d} /\ task' = task
    BY <1>2, <1>5 DEF Fails, Written
  <1>6. QED
    BY <1>3, <1>4, <1>5 DEF Save, Blame

LEMMA StartRequestsDoes ==
  ASSUME TypeOK, NEW r \in Requests, StartRequests(r)
  PROVE  \/ Saves(r, "requested") /\ Moved(r, "halt", req[r].copy)
         \/ Fails(r, "requested") /\ Returned(r)
  <1>1. SaveTakeover(r, "requested", Go(r, "halt"), Return(r))
    BY DEF StartRequests
  <1>2. /\ Go(r, "halt") => Moved(r, "halt", req[r].copy)
        /\ Return(r) => Returned(r)
    BY RequestMoves
  <1>3. QED
    BY <1>1, <1>2, SaveDoes

LEMMA GrantsDoes ==
  ASSUME TypeOK, NEW r \in Requests, StartGrants(r) \/ EndUndoes(r)
  PROVE  (Saves(r, "active") \/ Fails(r, "active")) /\ Returned(r)
  <1>1. SaveTakeover(r, "active", Return(r), Return(r))
    BY DEF StartGrants, EndUndoes
  <1>2. QED
    BY <1>1, SaveDoes, RequestMoves

LEMMA RollsBackDoes ==
  ASSUME TypeOK, NEW r \in Requests, RollsBack(r)
  PROVE  (Saves(r, "idle") \/ Fails(r, "idle")) /\ Returned(r)
  <1>1. SaveTakeover(r, "idle", Return(r), Return(r))
    BY DEF RollsBack
  <1>2. QED
    BY <1>1, SaveDoes, RequestMoves

LEMMA EndGivesDoes ==
  ASSUME TypeOK, NEW r \in Requests, EndGives(r)
  PROVE  \/ Fails(r, "resuming") /\ Returned(r)
         \/ /\ Saves(r, "resuming")
            /\ \E pc \in {"resume", "give", "reread"} :
                 Moved(r, pc, req[r].copy) /\ (pc = "resume" <=> req[r].op = "end")
  <1>1. PICK pc \in {"resume", "give", "reread"} :
          /\ SaveTakeover(r, "resuming", Go(r, pc), Return(r))
          /\ pc = "resume" <=> req[r].op = "end"
    BY DEF EndGives
  <1>2. /\ Go(r, pc) => Moved(r, pc, req[r].copy)
        /\ Return(r) => Returned(r)
    BY RequestMoves
  <1>3. QED
    BY <1>1, <1>2, SaveDoes

Raised(r) ==
  Returned(r) \/ (req[r].op = "end" /\ Moved(r, "undo", req[r].copy))

LEMMA RaisesDoes ==
  ASSUME TypeOK, NEW r \in Requests, Raises(r)
  PROVE  Raised(r)
  <1>1. /\ Go(r, "undo") => Moved(r, "undo", req[r].copy)
        /\ Return(r) => Returned(r)
    BY RequestMoves
  <1>2. QED
    BY <1>1 DEF Raises, Raised

LEMMA ResumeReadsDoes ==
  ASSUME TypeOK, NEW r \in Requests, ResumeReads(r)
  PROVE  /\ UNCHANGED <<doc, task, hit>> /\ Others(r)
         /\ req'[r].pc \in {"login", "wake"} /\ req'[r].op = req[r].op
         /\ req'[r].copy = req[r].copy /\ req'[r].view = doc
         /\ req'[r].task = Lookup(doc.task)
  <1>1. req \in [Requests -> RequestStates]
    BY DEF TypeOK, RequestStates, RequestPlaces
  <1>2. QED
    BY <1>1 DEF ResumeReads, Others, RequestStates

LEMMA ResumeFailsDoes ==
  ASSUME TypeOK, NEW r \in Requests, ResumeFails(r)
  PROVE  UNCHANGED <<doc, task>> /\ "fault" \in hit' /\ Raised(r)
  BY RaisesDoes DEF ResumeFails, Blame

LEMMA KeepsLoginDoes ==
  ASSUME TypeOK, NEW r \in Requests, KeepsLogin(r)
  PROVE  /\ task' = task /\ doc' \in {doc, req[r].view}
         /\ \/ /\ hit' = hit /\ doc' = req[r].view
               /\ Moved(r, "wake", req[r].copy)
            \/ "fault" \in hit' /\ Raised(r)
  <1>1. Go(r, "wake") => Moved(r, "wake", req[r].copy)
    BY RequestMoves
  <1>2. QED
    BY <1>1, RaisesDoes DEF KeepsLogin, Save, Blame

(* One task is paused or woken. *)
Turned(t, b) ==
  \A u \in Chats : /\ task'[u].pc = task[u].pc /\ task'[u].copy = task[u].copy
                   /\ task'[u].paused = (IF u = t THEN b ELSE task[u].paused)

LEMMA PauseDoes ==
  ASSUME TypeOK, NEW t \in Chats, NEW b, Pause(t, b)
  PROVE  Turned(t, b)
  BY TaskMoves DEF Turned

LEMMA LookupFinds ==
  ASSUME TypeOK
  PROVE  /\ Lookup(doc.task) \in Chats \cup {None} /\ None \notin Chats
         /\ Lookup(doc.task) \in {doc.task, None}
         /\ Works(doc.task) => Lookup(doc.task) = doc.task
  BY TakeoverAssumption DEF TypeOK, Docs, Lookup, Registered, Works

LEMMA StartPausesDoes ==
  ASSUME TypeOK, NEW r \in Requests, StartPauses(r)
  PROVE  LET t == Lookup(doc.task) IN
         /\ doc' = doc
         /\ \/ /\ Moved(r, "grant", req[r].copy) /\ hit' = hit
               /\ \/ t = None /\ task' = task
                  \/ t \in Chats /\ Turned(t, TRUE)
            \/ /\ Moved(r, "rollback", req[r].copy) /\ task' = task
               /\ \/ "fault" \in hit'
                  \/ hit' = hit /\ t \in Chats /\ ~Pauses(t)
  <1>1. /\ Go(r, "grant") => Moved(r, "grant", req[r].copy)
        /\ Go(r, "rollback") => Moved(r, "rollback", req[r].copy)
    BY RequestMoves
  <1>2. QED
    BY <1>1, LookupFinds, PauseDoes DEF StartPauses, Blame

LEMMA PauseReadsDoes ==
  ASSUME TypeOK, NEW r \in Requests, PauseReads(r)
  PROVE  /\ UNCHANGED <<doc, hit>> /\ Returned(r)
         /\ \/ task' = task
            \/ \E t \in Chats : Turned(t, TRUE)
  BY LookupFinds, PauseDoes, RequestMoves DEF PauseReads, Pauses, Live, Works

LEMMA WakesDoes ==
  ASSUME TypeOK, NEW r \in Requests, Wakes(r)
  PROVE  LET t == req[r].task
             paused == t \in Chats /\ task[t].paused
         IN
         /\ UNCHANGED <<doc, hit>>
         /\ IF paused THEN Turned(t, FALSE) ELSE task' = task
         /\ IF req[r].op = "resume" THEN Returned(r)
            ELSE Moved(r, IF paused THEN "reread" ELSE "retain", req[r].copy)
  <1>1. req[r].task \in Chats \cup {None} /\ None \notin Chats
    BY TakeoverAssumption DEF TypeOK
  <1>2. /\ Go(r, "reread") => Moved(r, "reread", req[r].copy)
        /\ Go(r, "retain") => Moved(r, "retain", req[r].copy)
        /\ Return(r) => Returned(r)
    BY RequestMoves
  <1>3. QED
    BY <1>1, <1>2, PauseDoes DEF Wakes

LEMMA StartReadsDoes ==
  ASSUME TypeOK, NEW r \in Requests, StartReads(r)
  PROVE  /\ UNCHANGED <<doc, task, hit>>
         /\ Returned(r) \/ (doc.takeover = "idle" /\ Moved(r, "request", doc))
  <1>1. /\ GoWith(r, "request", doc) => Moved(r, "request", doc)
        /\ Return(r) => Returned(r)
    BY RequestMoves
  <1>2. QED
    BY <1>1 DEF StartReads

LEMMA EndReadsDoes ==
  ASSUME TypeOK, NEW r \in Requests, EndReads(r)
  PROVE  /\ UNCHANGED <<doc, task>>
         /\ \/ doc.takeover = "idle" /\ Returned(r)
            \/ /\ doc.takeover # "idle" /\ Moved(r, "rollback", doc)
               /\ Works(Lookup(doc.task)) => "revived" \in hit'
            \/ doc.takeover # "idle" /\ Moved(r, "give", doc)
  <1>1. /\ GoWith(r, "rollback", doc) => Moved(r, "rollback", doc)
        /\ GoWith(r, "give", doc) => Moved(r, "give", doc)
        /\ Return(r) => Returned(r)
    BY RequestMoves
  <1>2. QED
    BY <1>1 DEF EndReads, Blame

LEMMA EndRereadsDoes ==
  ASSUME TypeOK, NEW r \in Requests, EndRereads(r)
  PROVE  /\ UNCHANGED <<doc, task, hit>>
         /\ Moved(r, IF req[r].pc = "reread" THEN "rollback" ELSE "undo", doc)
  <1>1. /\ GoWith(r, "rollback", doc) => Moved(r, "rollback", doc)
        /\ GoWith(r, "undo", doc) => Moved(r, "undo", doc)
    BY RequestMoves
  <1>2. QED
    BY <1>1 DEF EndRereads

LEMMA CloseReadsDoes ==
  ASSUME TypeOK, NEW r \in Requests, CloseReads(r)
  PROVE  /\ UNCHANGED <<doc, task>>
         /\ Works(Lookup(doc.task)) => "detached" \in hit'
         /\ Returned(r) \/ Moved(r, "told", TornDown("completed"))
  BY RequestMoves DEF CloseReads, Blame

LEMMA StopReadsDoes ==
  ASSUME TypeOK, NEW r \in Requests, StopReads(r)
  PROVE  LET t == Lookup(doc.task) IN
         /\ UNCHANGED <<doc, hit>>
         /\ \/ Returned(r) /\ task' = task
            \/ /\ Moved(r, "told", TornDown("cancelled"))
               /\ \/ t = None /\ task' = task
                  \/ t \in Chats /\ \A u \in Chats :
                       /\ task'[u].copy = task[u].copy
                       /\ task'[u].paused = task[u].paused
                       /\ task'[u].pc = (IF u # t THEN task[u].pc ELSE
                                         IF Live(t) THEN "ending" ELSE "over")
  <1> DEFINE t == Lookup(doc.task)
  <1>1. t \in Chats \cup {None} /\ None \notin Chats
    BY LookupFinds
  <1>2. CASE Return(r) /\ task' = task
    BY <1>2, RequestMoves DEF StopReads
  <1>3. CASE Cancelled(t) /\ GoWith(r, "told", TornDown("cancelled"))
    <2>1. Moved(r, "told", TornDown("cancelled")) /\ UNCHANGED <<doc, hit>>
      BY <1>3, RequestMoves DEF StopReads
    <2> HIDE DEF t
    <2>2. CASE t = None
      BY <1>3, <2>1, <2>2 DEF Cancelled, t
    <2>3. CASE t \in Chats
      <3>1. Task(t, IF Live(t) THEN "ending" ELSE "over")
        BY <1>1, <1>3, <2>3 DEF Cancelled
      <3>2. QED
        BY <2>1, <2>3, <3>1, TaskMoves DEF t
    <2>4. QED
      BY <1>1, <2>2, <2>3
  <1>4. QED
    BY <1>2, <1>3 DEF StopReads

LEMMA StopWritesDoes ==
  ASSUME TypeOK, NEW r \in Requests, StopWrites(r)
  PROVE  /\ UNCHANGED <<task, hit>>
         /\ doc'.takeover = doc.takeover /\ doc'.task = None
         /\ Returned(r) \/ (req[r].op = "stop" /\ Moved(r, "torn", req[r].copy))
  BY RequestMoves DEF TypeOK, StopWrites, TornDown, Docs

LEMMA StopSavesDoes ==
  ASSUME TypeOK, NEW r \in Requests, StopSaves(r)
  PROVE  UNCHANGED <<task, hit>> /\ doc' = req[r].copy /\ Returned(r)
  BY RequestMoves DEF StopSaves

(* The requests' steps after they began. *)
Steps(r) ==
  \/ StartReads(r) \/ StartRequests(r) \/ StartPauses(r) \/ StartGrants(r)
  \/ RollsBack(r) \/ EndReads(r) \/ EndGives(r) \/ ResumeReads(r)
  \/ ResumeFails(r) \/ KeepsLogin(r) \/ Wakes(r) \/ EndUndoes(r)
  \/ EndRereads(r) \/ PauseReads(r) \/ StopReads(r) \/ CloseReads(r)
  \/ StopWrites(r) \/ StopSaves(r)

LEMMA HitGrows ==
  ASSUME Next
  PROVE  hit \subseteq hit'
  BY DEF Next, ChatReads, CreateTask, BindTask, Run, FlowBegins, FlowYields,
    GoesOn, Waits, FlowEnds, Unregisters, Restart, Begin, StartReads,
    StartRequests, StartPauses, StartGrants, RollsBack, EndReads, EndGives,
    ResumeReads, ResumeFails, KeepsLogin, Wakes, EndUndoes, EndRereads,
    PauseReads, StopReads, CloseReads, StopWrites, StopSaves, Save,
    SaveTakeover, Blame

LEMMA InTurn ==
  ASSUME IInv, NEW r \in Requests, Steps(r)
  PROVE  /\ req[r].pc # "rest" /\ Others(r) /\ hit \subseteq hit'
         /\ Spared({"chat"}) => ~Creating
         /\ Spared({"chat", "overlap"}) =>
              \A s \in Requests : s # r => req[s].pc = "rest" /\ req'[s].pc = "rest"
  <1>1. req[r].pc # "rest" /\ hit \subseteq hit'
    BY HitGrows DEF Steps, Next, StartReads,
    StartRequests, StartPauses, StartGrants, RollsBack, EndReads, EndGives,
    ResumeReads, ResumeFails, KeepsLogin, Wakes, EndUndoes, EndRereads,
    PauseReads, StopReads, CloseReads, StopWrites, StopSaves
  <1>2. TypeOK
    BY DEF IInv
  <1>3. Others(r)
    <2>1. CASE \/ StartReads(r) \/ StartRequests(r) \/ StartPauses(r)
               \/ StartGrants(r) \/ RollsBack(r) \/ EndReads(r)
      BY <1>2, <2>1, StartReadsDoes, StartRequestsDoes, StartPausesDoes, GrantsDoes,
         RollsBackDoes, EndReadsDoes DEF Moved, Returned
    <2>2. CASE \/ EndGives(r) \/ ResumeReads(r) \/ ResumeFails(r)
               \/ KeepsLogin(r) \/ Wakes(r) \/ EndUndoes(r)
      BY <1>2, <2>2, EndGivesDoes, ResumeReadsDoes, ResumeFailsDoes, KeepsLoginDoes,
         WakesDoes, GrantsDoes DEF Raised, Moved, Returned
    <2>3. CASE \/ EndRereads(r) \/ PauseReads(r) \/ StopReads(r)
               \/ CloseReads(r) \/ StopWrites(r) \/ StopSaves(r)
      BY <1>2, <2>3, EndRereadsDoes, PauseReadsDoes, StopReadsDoes, CloseReadsDoes,
         StopWritesDoes, StopSavesDoes DEF Moved, Returned
    <2>4. QED
      BY <2>1, <2>2, <2>3 DEF Steps
  <1>4. Spared({"chat"}) => ~Creating
    BY <1>1 DEF IInv, Apart, Busy
  <1>5. Spared({"chat", "overlap"}) => \A s \in Requests : s # r => req[s].pc = "rest"
    BY <1>1 DEF IInv, Alone, FreshOf
  <1>6. QED
    BY <1>1, <1>3, <1>4, <1>5 DEF Others

LEMMA Fewer ==
  ASSUME TypeOK, NEW r \in Requests, Steps(r), NEW t \in Chats
  PROVE  /\ Coming(t)' => Coming(t)
         /\ Works(t)' => Works(t)
         /\ task'[t].copy = task[t].copy
  <1>1. CASE task' = task
    BY <1>1 DEF Coming, Works
  <1>2. CASE \E u, b : Turned(u, b)
    BY <1>2 DEF Turned, Coming, Works
  <1>3. CASE StopReads(r)
    BY <1>3, StopReadsDoes DEF Coming, Works
  <1>4. StartPauses(r) \/ PauseReads(r) \/ Wakes(r) =>
          task' = task \/ \E u, b : Turned(u, b)
    BY StartPausesDoes, PauseReadsDoes, WakesDoes
  <1>5. QED
    BY <1>1, <1>2, <1>3, <1>4
    DEF Steps, StartReads, StartRequests, StartGrants, RollsBack, EndReads, EndGives,
        ResumeReads, ResumeFails, KeepsLogin, EndUndoes, EndRereads, CloseReads,
        StopWrites, StopSaves, Save, SaveTakeover

LEMMA ApartSteps ==
  ASSUME IInv, NEW r \in Requests, Steps(r)
  PROVE  Apart'
  <1>1. CASE ~Spared({"chat"})'
    BY <1>1 DEF Apart
  <1>2. CASE Spared({"chat"})'
    <2>1. Apart /\ Spared({"chat"}) /\ TypeOK
      BY <1>2, InTurn DEF IInv, Spared
    <2>2. \A t \in Chats : ~Coming(t)'
      BY <2>1, InTurn, Fewer DEF Coming, Creating
    <2>3. \A t \in Chats : Works(t)' => Works(t)
      BY <2>1, Fewer
    <2>4. QED
      BY <2>1, <2>2, <2>3 DEF Apart, Coming, Creating, Engaged
  <1>3. QED
    BY <1>1, <1>2

LEMMA AloneSteps ==
  ASSUME IInv, NEW r \in Requests, Steps(r)
  PROVE  Alone'
  <1>1. SUFFICES ASSUME Spared({"chat", "overlap"})'
                 PROVE  /\ \A q, s \in Requests :
                             req'[q].pc # "rest" /\ req'[s].pc # "rest" => q = s
                        /\ \A s \in Requests : FreshOf(s)'
    BY DEF Alone, FreshOf
  <1>2. /\ req[r].pc # "rest" /\ Others(r)
        /\ \A s \in Requests : s # r => req[s].pc = "rest" /\ req'[s].pc = "rest"
    BY <1>1, InTurn DEF Spared
  <1>3. SUFFICES FreshOf(r)'
    BY <1>2 DEF FreshOf, Holds, Resuming
  <1>4. FreshOf(r) /\ TypeOK
    BY <1>1, <1>2, InTurn DEF IInv, Alone, Spared, FreshOf
  <1>5. CASE Returned(r)
    BY <1>5 DEF Returned, FreshOf, Holds, Resuming
  <1>6. CASE StartReads(r)
    BY <1>4, <1>5, <1>6, StartReadsDoes DEF FreshOf, Moved, Holds, Resuming
  <1>7. CASE StartRequests(r)
    BY <1>4, <1>5, <1>7, StartRequestsDoes
    DEF StartRequests, Saves, Written, FreshOf, Moved, Holds, Resuming
  <1>8. CASE StartPauses(r)
    BY <1>4, <1>8, StartPausesDoes DEF StartPauses, FreshOf, Moved, Holds, Resuming
  <1>9. CASE StartGrants(r) \/ EndUndoes(r) \/ RollsBack(r) \/ PauseReads(r) \/ StopSaves(r)
    BY <1>4, <1>5, <1>9, GrantsDoes, RollsBackDoes, PauseReadsDoes, StopSavesDoes
  <1>10. CASE EndReads(r)
    BY <1>4, <1>5, <1>10, EndReadsDoes DEF FreshOf, Moved, Holds, Resuming
  <1>11. CASE EndGives(r)
    BY <1>4, <1>5, <1>11, EndGivesDoes
    DEF EndGives, Saves, Written, FreshOf, Moved, Holds, Resuming
  <1>12. CASE ResumeReads(r)
    BY <1>4, <1>12, ResumeReadsDoes DEF ResumeReads, FreshOf, Holds, Resuming
  <1>13. CASE ResumeFails(r)
    BY <1>4, <1>5, <1>13, ResumeFailsDoes
    DEF ResumeFails, Raised, FreshOf, Moved, Holds, Resuming
  <1>14. CASE KeepsLogin(r)
    BY <1>4, <1>5, <1>14, KeepsLoginDoes
    DEF KeepsLogin, Raised, FreshOf, Moved, Holds, Resuming
  <1>15. CASE Wakes(r)
    <2>1. req[r].op = "end" \/ req[r].op = "resume"
      BY <1>15 DEF IInv, Places, PlaceOf, Wakes
    <2>2. QED
      BY <1>4, <1>5, <1>15, <2>1, WakesDoes DEF Wakes, FreshOf, Moved, Holds, Resuming
  <1>16. CASE EndRereads(r)
    BY <1>4, <1>16, EndRereadsDoes DEF FreshOf, Moved, Holds, Resuming
  <1>17. CASE StopReads(r) \/ CloseReads(r)
    <2>1. TornDown("completed").takeover = doc.takeover
          /\ TornDown("cancelled").takeover = doc.takeover
      BY <1>4 DEF TypeOK, TornDown, Docs
    <2>2. QED
      BY <1>4, <1>5, <1>17, <2>1, StopReadsDoes, CloseReadsDoes
      DEF FreshOf, Moved, Holds, Resuming
  <1>18. CASE StopWrites(r)
    BY <1>4, <1>5, <1>18, StopWritesDoes DEF StopWrites, FreshOf, Moved, Holds, Resuming
  <1>19. QED
    BY <1>6, <1>7, <1>8, <1>9, <1>10, <1>11, <1>12, <1>13, <1>14, <1>15, <1>16,
       <1>17, <1>18 DEF Steps

LEMMA AttachedSteps ==
  ASSUME IInv, NEW r \in Requests, Steps(r)
  PROVE  Attached'
  <1>1. SUFFICES ASSUME Spared({"chat", "overlap", "detached"})'
                 PROVE  Attached'
    BY DEF Attached
  <1>2. /\ TypeOK /\ Attached /\ Alone /\ ~Creating /\ Others(r)
        /\ Spared({"chat", "overlap", "detached"}) /\ Spared({"chat", "overlap"})
        /\ \A s \in Requests : s # r => req[s].pc = "rest" /\ req'[s].pc = "rest"
    BY <1>1, InTurn DEF IInv, Spared
  <1>3. \A t \in Chats : task'[t].pc # "bound"
    BY <1>2, Fewer DEF Coming, Creating
  <1>4. SUFFICES ASSUME NEW t \in Chats, Works(t)'
                 PROVE  /\ doc'.task = t
                        /\ req'[r].pc \notin {"told", "torn"}
                        /\ req'[r].pc \in {"login", "wake"} => req'[r].task = t
    BY <1>2, <1>3 DEF Attached
  <1>5. /\ Works(t) /\ doc.task = t /\ Lookup(doc.task) = t
        /\ req[r].pc \notin {"told", "torn"}
        /\ req[r].pc \in {"login", "wake"} => req[r].task = t
        /\ Holds(r) => req[r].copy.task = t
        /\ req[r].pc = "login" => req[r].view.task = t
    BY <1>2, <1>4, Fewer, LookupFinds DEF Attached, Alone, FreshOf
  <1>6. CASE StartReads(r) \/ EndReads(r) \/ EndRereads(r)
    BY <1>2, <1>5, <1>6, StartReadsDoes, EndReadsDoes, EndRereadsDoes DEF Moved, Returned
  <1>7. CASE StartRequests(r) \/ StartGrants(r) \/ RollsBack(r) \/ EndUndoes(r)
    <2>1. Holds(r)
      BY <1>7 DEF StartRequests, StartGrants, RollsBack, EndUndoes, Holds
    <2>2. QED
      BY <1>2, <1>5, <1>7, <2>1, StartRequestsDoes, GrantsDoes, RollsBackDoes
      DEF Saves, Fails, Written, Moved, Returned
  <1>8. CASE EndGives(r)
    <2>1. Holds(r)
      BY <1>8 DEF EndGives, Holds
    <2>2. QED
      BY <1>2, <1>5, <1>8, <2>1, EndGivesDoes DEF Saves, Fails, Written, Moved, Returned
  <1>9. CASE StartPauses(r) \/ PauseReads(r)
    BY <1>2, <1>5, <1>9, StartPausesDoes, PauseReadsDoes DEF Moved, Returned
  <1>10. CASE ResumeReads(r)
    BY <1>2, <1>5, <1>10, ResumeReadsDoes
  <1>11. CASE ResumeFails(r)
    BY <1>2, <1>5, <1>11, ResumeFailsDoes DEF Raised, Moved, Returned
  <1>12. CASE KeepsLogin(r)
    BY <1>2, <1>5, <1>12, KeepsLoginDoes DEF KeepsLogin, Raised, Moved, Returned
  <1>13. CASE Wakes(r)
    BY <1>2, <1>5, <1>13, WakesDoes DEF Moved, Returned
  <1>14. CASE StopReads(r)
    BY <1>2, <1>4, <1>5, <1>14, StopReadsDoes DEF Works, Returned
  <1>15. CASE CloseReads(r)
    BY <1>1, <1>2, <1>5, <1>15, CloseReadsDoes DEF Spared, Returned
  <1>16. CASE StopWrites(r) \/ StopSaves(r)
    BY <1>5, <1>16 DEF StopWrites, StopSaves
  <1>17. QED
    BY <1>6, <1>7, <1>8, <1>9, <1>10, <1>11, <1>12, <1>13, <1>14, <1>15, <1>16
    DEF Steps

LEMMA ThroughSteps ==
  ASSUME IInv, NEW r \in Requests, Steps(r)
  PROVE  SomeoneThrough'
  <1>1. SUFFICES ASSUME Spared({"chat", "fault", "resume"})',
                        Spared({"stop"})' \/ Spared({"overlap"})',
                        doc'.takeover \in {"requested", "resuming"}
                 PROVE  \E s \in Requests : Mid(s)'
    BY DEF SomeoneThrough
  <1>2. /\ TypeOK /\ Places /\ Others(r) /\ "fault" \notin hit'
        /\ Spared({"chat", "fault", "resume"})
        /\ Spared({"stop"}) \/ Spared({"chat", "overlap"})
    BY <1>1, InTurn DEF IInv, Spared
  <1>3. ASSUME doc.takeover = doc'.takeover, ~Mid(r)
        PROVE  \E s \in Requests : Mid(s)'
    <2>1. PICK s \in Requests : Mid(s)
      BY <1>1, <1>2, <1>3 DEF IInv, SomeoneThrough, Spared
    <2>2. Mid(s)'
      BY <1>2, <1>3, <2>1 DEF Others, Mid
    <2>3. QED
      BY <2>2
  <1>4. CASE StartReads(r) \/ PauseReads(r) \/ StopReads(r) \/ CloseReads(r) \/ StopWrites(r)
    <2>1. ~Mid(r)
      BY <1>4
      DEF StartReads, PauseReads, StopReads, CloseReads, StopWrites, Mid
    <2>2. QED
      BY <1>2, <1>3, <1>4, <2>1, StartReadsDoes, PauseReadsDoes, StopReadsDoes,
         CloseReadsDoes, StopWritesDoes
  <1>5. CASE StopSaves(r)
    <2>1. Spared({"chat", "overlap"}) /\ req[r].pc = "torn" /\ req[r].op = "stop"
      BY <1>2, <1>5 DEF StopSaves, Places, PlaceOf, Causes, Spared
    <2>2. doc' = req[r].copy /\ req[r].copy.takeover = doc.takeover /\ ~Mid(r)
      BY <1>2, <1>5, <2>1, StopSavesDoes DEF IInv, Alone, FreshOf, Mid
    <2>3. QED
      BY <1>3, <2>2
  <1>6. CASE StartRequests(r)
    BY <1>2, <1>6, StartRequestsDoes DEF Fails, Moved, Mid
  <1>7. CASE StartPauses(r)
    BY <1>2, <1>7, StartPausesDoes DEF Moved, Mid
  <1>8. CASE StartGrants(r) \/ EndUndoes(r) \/ RollsBack(r)
    BY <1>1, <1>2, <1>8, GrantsDoes, RollsBackDoes DEF Saves, Fails, Written
  <1>9. CASE EndReads(r)
    BY <1>1, <1>2, <1>9, EndReadsDoes DEF Moved, Mid
  <1>10. CASE EndGives(r)
    BY <1>2, <1>10, EndGivesDoes DEF Fails, Moved, Mid
  <1>11. CASE ResumeReads(r)
    BY <1>2, <1>11, ResumeReadsDoes DEF Mid
  <1>12. CASE ResumeFails(r) \/ KeepsLogin(r)
    BY <1>2, <1>12, ResumeFailsDoes, KeepsLoginDoes DEF Moved, Mid
  <1>13. CASE Wakes(r)
    <2>1. req[r].op # "resume"
      BY <1>2 DEF Places, PlaceOf, Causes, Spared
    <2>2. QED
      BY <1>2, <1>13, <2>1, WakesDoes DEF Moved, Mid
  <1>14. CASE EndRereads(r)
    BY <1>2, <1>14, EndRereadsDoes DEF Moved, Mid
  <1>15. QED
    BY <1>4, <1>5, <1>6, <1>7, <1>8, <1>9, <1>10, <1>11, <1>12, <1>13, <1>14
    DEF Steps

LEMMA PausedSteps ==
  ASSUME IInv, NEW r \in Requests, Steps(r)
  PROVE  PausedMeanwhile'
  <1>1. SUFFICES ASSUME Spared({"overlap", "chat", "fault", "resume", "detached"})',
                        NEW t \in Chats, Works(t)'
                 PROVE  PausedOf(t)'
    BY DEF PausedMeanwhile, PausedOf
  <1>2. /\ TypeOK /\ Places /\ Alone /\ Attached /\ Others(r) /\ "fault" \notin hit'
        /\ Spared({"overlap", "chat", "fault", "resume", "detached"})
        /\ Spared({"chat", "overlap", "detached"}) /\ Spared({"chat", "overlap"})
        /\ \A s \in Requests : s # r => req[s].pc = "rest" /\ req'[s].pc = "rest"
    BY <1>1, InTurn DEF IInv, Spared
  <1>3. /\ Works(t) /\ doc.task = t /\ Lookup(doc.task) = t /\ t # None
        /\ req[r].pc \notin {"told", "torn"}
        /\ req[r].pc \in {"login", "wake"} => req[r].task = t
    BY <1>1, <1>2, Fewer, LookupFinds DEF Attached
  <1>4. PausedOf(t)
    BY <1>2, <1>3 DEF IInv, PausedMeanwhile, PausedOf
  <1>5. /\ req[r].pc = "halt" => doc.takeover = "requested"
        /\ req[r].pc = "login" => req[r].view.takeover = doc.takeover
        /\ Resuming(r) => doc.takeover = "resuming"
        /\ req[r].op # "resume"
    BY <1>2 DEF Alone, FreshOf, Places, PlaceOf, Causes, Spared
  <1>6. SUFFICES /\ doc'.takeover = "active" => task'[t].paused
                 /\ req'[r].pc \in {"grant", "give", "resume", "login", "wake"} =>
                      task'[t].paused
                 /\ req'[r].pc \notin {"retain", "undo"}
    BY <1>2 DEF PausedOf
  <1>7. CASE StartReads(r)
    BY <1>2, <1>4, <1>7, StartReadsDoes DEF PausedOf, Moved, Returned
  <1>8. CASE StartRequests(r)
    BY <1>2, <1>8, StartRequestsDoes DEF Saves, Fails, Written, Moved
  <1>9. CASE StartPauses(r)
    BY <1>2, <1>3, <1>5, <1>9, StartPausesDoes DEF StartPauses, Turned, Moved
  <1>10. CASE StartGrants(r)
    BY <1>2, <1>4, <1>10, GrantsDoes DEF StartGrants, PausedOf, Saves, Fails, Returned
  <1>11. CASE EndUndoes(r)
    BY <1>4, <1>11 DEF EndUndoes, PausedOf
  <1>12. CASE RollsBack(r)
    BY <1>2, <1>12, RollsBackDoes DEF Saves, Fails, Written, Returned
  <1>13. CASE EndReads(r)
    <2>1. doc.takeover \in {"requested", "resuming"} => FALSE
      <3>1. ~\E s \in Requests : Mid(s)
        BY <1>2, <1>13 DEF EndReads, Mid
      <3>2. Spared({"chat", "fault", "resume"}) /\ Spared({"overlap"})
        BY <1>2 DEF Spared
      <3>3. QED
        BY <3>1, <3>2 DEF IInv, SomeoneThrough
    <2>2. doc.takeover \in {"idle", "active"}
      BY <1>2, <2>1 DEF TypeOK, Docs
    <2>3. QED
      BY <1>2, <1>4, <1>13, <2>2, EndReadsDoes DEF PausedOf, Moved, Returned
  <1>14. CASE EndGives(r)
    BY <1>2, <1>4, <1>14, EndGivesDoes DEF EndGives, PausedOf, Saves, Fails, Written, Moved
  <1>15. CASE ResumeReads(r)
    BY <1>2, <1>4, <1>15, ResumeReadsDoes DEF ResumeReads, PausedOf
  <1>16. CASE ResumeFails(r)
    BY <1>2, <1>16, ResumeFailsDoes
  <1>17. CASE KeepsLogin(r)
    BY <1>2, <1>4, <1>5, <1>17, KeepsLoginDoes DEF KeepsLogin, PausedOf, Moved
  <1>18. CASE Wakes(r)
    <2>1. req[r].pc = "wake" /\ req[r].op = "end" /\ doc.takeover = "resuming"
      BY <1>2, <1>5, <1>18 DEF Wakes, Places, PlaceOf, Resuming
    <2>2. QED
      BY <1>2, <1>3, <1>4, <2>1, <1>18, WakesDoes DEF PausedOf, Moved
  <1>19. CASE EndRereads(r)
    BY <1>2, <1>4, <1>19, EndRereadsDoes DEF EndRereads, PausedOf, Moved
  <1>20. CASE PauseReads(r)
    BY <1>2, <1>4, <1>20, PauseReadsDoes DEF PausedOf, Turned, Returned
  <1>21. CASE StopReads(r) \/ CloseReads(r)
    BY <1>2, <1>4, <1>21, StopReadsDoes, CloseReadsDoes DEF PausedOf, Moved, Returned
  <1>22. CASE StopWrites(r) \/ StopSaves(r)
    BY <1>3, <1>22 DEF StopWrites, StopSaves
  <1>23. QED
    BY <1>7, <1>8, <1>9, <1>10, <1>11, <1>12, <1>13, <1>14, <1>15, <1>16, <1>17,
       <1>18, <1>19, <1>20, <1>21, <1>22 DEF Steps

LEMMA FreeSteps ==
  ASSUME IInv, NEW r \in Requests, Steps(r)
  PROVE  FreeOtherwise'
  <1>1. SUFFICES ASSUME Spared({"overlap", "chat", "keep", "pause", "revived", "detached"})',
                        NEW t \in Chats, Works(t)'
                 PROVE  FreeOf(t)'
    BY DEF FreeOtherwise, FreeOf
  <1>2. /\ TypeOK /\ Places /\ Alone /\ Attached /\ Others(r) /\ "revived" \notin hit'
        /\ Spared({"overlap", "chat", "keep", "pause", "revived", "detached"})
        /\ Spared({"chat", "overlap", "detached"}) /\ Spared({"chat", "overlap"})
        /\ \A s \in Requests : s # r => req[s].pc = "rest" /\ req'[s].pc = "rest"
    BY <1>1, InTurn DEF IInv, Spared
  <1>3. /\ Works(t) /\ doc.task = t /\ Lookup(doc.task) = t /\ t # None
        /\ req[r].pc \notin {"told", "torn"}
    BY <1>1, <1>2, Fewer, LookupFinds DEF Attached
  <1>4. FreeOf(t)
    BY <1>2, <1>3 DEF IInv, FreeOtherwise, FreeOf
  <1>5. /\ req[r].pc = "halt" => doc.takeover = "requested"
        /\ req[r].pc = "login" => req[r].view.takeover = doc.takeover
        /\ req[r].op \notin {"keep", "pause"}
    BY <1>2 DEF Alone, FreshOf, Places, PlaceOf, Causes, Spared
  <1>6. SUFFICES /\ doc'.takeover = "idle" => ~task'[t].paused
                 /\ req'[r].pc \in {"request", "halt", "rollback", "reread"} =>
                      ~task'[t].paused
    BY <1>2 DEF FreeOf
  <1>7. CASE StartReads(r)
    BY <1>2, <1>4, <1>7, StartReadsDoes DEF FreeOf, Moved, Returned
  <1>8. CASE StartRequests(r)
    BY <1>2, <1>4, <1>8, StartRequestsDoes
    DEF StartRequests, FreeOf, Saves, Fails, Written, Moved, Returned
  <1>9. CASE StartPauses(r)
    BY <1>2, <1>4, <1>5, <1>9, StartPausesDoes DEF StartPauses, FreeOf, Moved
  <1>10. CASE StartGrants(r) \/ EndUndoes(r)
    BY <1>2, <1>4, <1>10, GrantsDoes DEF FreeOf, Saves, Fails, Written, Returned
  <1>11. CASE RollsBack(r)
    BY <1>2, <1>4, <1>11, RollsBackDoes DEF RollsBack, FreeOf, Saves, Fails, Returned
  <1>12. CASE EndReads(r)
    BY <1>2, <1>3, <1>4, <1>12, EndReadsDoes DEF FreeOf, Moved, Returned
  <1>13. CASE EndGives(r)
    <2>1. req[r].op = "end"
      BY <1>2, <1>5, <1>13 DEF EndGives, Places, PlaceOf
    <2>2. QED
      BY <1>2, <1>4, <1>13, <2>1, EndGivesDoes DEF FreeOf, Saves, Fails, Written, Moved, Returned
  <1>14. CASE ResumeReads(r)
    BY <1>2, <1>4, <1>14, ResumeReadsDoes DEF FreeOf
  <1>15. CASE ResumeFails(r)
    BY <1>2, <1>4, <1>15, ResumeFailsDoes DEF FreeOf, Raised, Moved, Returned
  <1>16. CASE KeepsLogin(r)
    BY <1>2, <1>4, <1>5, <1>16, KeepsLoginDoes DEF KeepsLogin, FreeOf, Raised, Moved, Returned
  <1>17. CASE Wakes(r)
    <2>1. req[r].pc = "wake" /\ req[r].task = t
      BY <1>2, <1>3, <1>17 DEF Wakes, Attached
    <2>2. QED
      BY <1>2, <1>4, <1>17, <2>1, WakesDoes DEF FreeOf, Turned, Moved, Returned
  <1>18. CASE EndRereads(r)
    BY <1>2, <1>4, <1>18, EndRereadsDoes DEF FreeOf, Moved
  <1>19. CASE PauseReads(r)
    BY <1>2, <1>5, <1>19 DEF PauseReads, Places, PlaceOf, Begun
  <1>20. CASE StopReads(r) \/ CloseReads(r)
    BY <1>2, <1>4, <1>20, StopReadsDoes, CloseReadsDoes DEF FreeOf, Moved, Returned
  <1>21. CASE StopWrites(r) \/ StopSaves(r)
    BY <1>3, <1>21 DEF StopWrites, StopSaves
  <1>22. QED
    BY <1>7, <1>8, <1>9, <1>10, <1>11, <1>12, <1>13, <1>14, <1>15, <1>16, <1>17,
       <1>18, <1>19, <1>20, <1>21 DEF Steps

LEMMA PlacesSteps ==
  ASSUME IInv, NEW r \in Requests, Steps(r)
  PROVE  Places'
  <1>1. TypeOK /\ PlaceOf(r) /\ Others(r) /\ hit \subseteq hit'
    BY InTurn DEF IInv, Places, PlaceOf
  <1>2. SUFFICES PlaceOf(r)'
    BY <1>1 DEF IInv, Places, PlaceOf, Others
  <1>3. CASE Returned(r)
    BY <1>1, <1>3 DEF PlaceOf, Returned, Begun
  <1>4. CASE StartReads(r) \/ StartRequests(r) \/ StartPauses(r) \/ StartGrants(r)
    BY <1>1, <1>3, <1>4, StartReadsDoes, StartRequestsDoes, StartPausesDoes, GrantsDoes
    DEF StartReads, StartRequests, StartPauses, PlaceOf, Moved, Begun
  <1>5. CASE EndReads(r) \/ EndRereads(r)
    BY <1>1, <1>3, <1>5, EndReadsDoes, EndRereadsDoes
    DEF EndReads, EndRereads, PlaceOf, Moved, Begun
  <1>6. CASE EndGives(r)
    BY <1>1, <1>3, <1>6, EndGivesDoes DEF EndGives, PlaceOf, Moved, Begun
  <1>7. CASE ResumeReads(r)
    BY <1>1, <1>3, <1>7, ResumeReadsDoes DEF ResumeReads, PlaceOf, Begun
  <1>8. CASE ResumeFails(r) \/ KeepsLogin(r)
    BY <1>1, <1>3, <1>8, ResumeFailsDoes, KeepsLoginDoes
    DEF KeepsLogin, Raised, PlaceOf, Moved, Begun
  <1>9. CASE Wakes(r)
    BY <1>1, <1>3, <1>9, WakesDoes DEF Wakes, PlaceOf, Moved, Begun
  <1>10. CASE EndUndoes(r) \/ RollsBack(r) \/ PauseReads(r) \/ StopSaves(r)
    BY <1>1, <1>3, <1>10, GrantsDoes, RollsBackDoes, PauseReadsDoes, StopSavesDoes
  <1>11. CASE StopReads(r) \/ CloseReads(r)
    BY <1>1, <1>3, <1>11, StopReadsDoes, CloseReadsDoes
    DEF StopReads, CloseReads, PlaceOf, Moved, Begun
  <1>12. CASE StopWrites(r)
    BY <1>1, <1>3, <1>12, StopWritesDoes DEF PlaceOf, Moved, Begun
  <1>13. QED
    BY <1>4, <1>5, <1>6, <1>7, <1>8, <1>9, <1>10, <1>11, <1>12 DEF Steps

LEMMA RequestSteps ==
  ASSUME IInv, NEW r \in Requests, Steps(r)
  PROVE  IInv'
  BY RequestStepTypes, PlacesSteps, ApartSteps, AloneSteps, AttachedSteps,
     ThroughSteps, PausedSteps, FreeSteps DEF IInv, Steps

(* A request that begins finds the others at rest, or is an overlap. *)
LEMMA BeginKeeps ==
  ASSUME IInv, NEW r \in Requests, Begin(r)
  PROVE  IInv'
  <1>1. PICK op \in Ops :
          /\ req' = [req EXCEPT ![r].pc = op, ![r].op = op]
          /\ hit' = hit \cup (IF Busy THEN {"overlap"} ELSE {})
                        \cup (IF Creating THEN {"chat"} ELSE {})
                        \cup ({op} \cap Causes)
    BY DEF Begin
  <1>2. /\ UNCHANGED <<doc, task>> /\ TypeOK /\ req[r].pc = "rest"
        /\ op \in Begun \cup {"resume"}
    BY TakeoverAssumption DEF Begin, IInv, Begun, Asked
  <1>3. /\ Others(r) /\ req'[r].pc = op /\ req'[r].op = op /\ req[r].pc = "rest"
        /\ req'[r].task = req[r].task
        /\ hit \subseteq hit' /\ ({op} \cap Causes) \subseteq hit'
        /\ Busy => "overlap" \in hit'
        /\ Creating => "chat" \in hit'
    BY <1>1, <1>2 DEF Others, TypeOK
  <1>4. TypeOK'
    BY RequestStepTypes DEF IInv
  <1>5. Places'
    <2>1. PlaceOf(r)'
      BY <1>2, <1>3 DEF PlaceOf, Begun, Causes
    <2>2. QED
      BY <1>3, <2>1 DEF IInv, Places, PlaceOf, Others
  <1>6. Apart'
    BY <1>2, <1>3 DEF IInv, Apart, Spared, Coming, Engaged, Works, Creating
  <1>7. Alone'
    <2>1. SUFFICES ASSUME Spared({"chat", "overlap"})' PROVE Alone'
      BY DEF Alone, FreshOf
    <2>2. ~Busy /\ Spared({"chat", "overlap"})
      BY <1>3, <2>1 DEF Spared
    <2>3. QED
      BY <1>2, <1>3, <2>2 DEF Alone, FreshOf, Holds, Resuming, Busy, Others, Begun
  <1>8. Attached'
    BY <1>2, <1>3 DEF IInv, Attached, Spared, Works, Others, Begun
  <1>9. SomeoneThrough'
    BY <1>2, <1>3 DEF IInv, SomeoneThrough, Spared, Mid, Others
  <1>10. PausedMeanwhile'
    BY <1>2, <1>3 DEF IInv, PausedMeanwhile, PausedOf, Spared, Works, Others, Begun, Causes
  <1>11. FreeOtherwise'
    BY <1>2, <1>3 DEF IInv, FreeOtherwise, FreeOf, Spared, Works, Others, Begun
  <1>12. QED
    BY <1>4, <1>5, <1>6, <1>7, <1>8, <1>9, <1>10, <1>11 DEF IInv

(* A task that flows, or is over, only leaves the parts less to say. *)
FlowStep(t) ==
  \/ FlowBegins(t) \/ FlowYields(t) \/ GoesOn(t) \/ Waits(t)
  \/ FlowEnds(t) \/ Unregisters(t)

LEMMA FlowDoes ==
  ASSUME TypeOK, NEW t \in Chats, FlowStep(t)
  PROVE  /\ UNCHANGED <<req, hit>> /\ doc'.takeover = doc.takeover /\ doc'.task = doc.task
         /\ \A u \in Chats :
              /\ Coming(u)' <=> Coming(u)
              /\ task'[u].pc = "bound" => task[u].pc = "bound"
              /\ task'[u].pc \in {"asked", "new"} => task[u].pc \in {"asked", "new"}
              /\ task'[u].copy = task[u].copy
              /\ Works(u)' => Works(u) /\ task'[u].paused = task[u].paused
  <1>1. /\ task \in [Chats -> TaskStates] /\ doc \in Docs /\ None \notin Chats
        /\ \A pc : Task(t, pc) => \A u \in Chats :
             /\ task'[u].pc = (IF u = t THEN pc ELSE task[u].pc)
             /\ task'[u].copy = task[u].copy /\ task'[u].paused = task[u].paused
    BY TaskMoves, TakeoverAssumption DEF TypeOK, TaskStates
  <1>2. CASE FlowBegins(t) \/ FlowYields(t) \/ GoesOn(t)
    BY <1>1, <1>2 DEF FlowBegins, FlowYields, GoesOn, Coming, Works, Docs
  <1>3. CASE Waits(t) \/ FlowEnds(t)
    BY <1>1, <1>3 DEF Waits, FlowEnds, Coming, Works, Docs
  <1>4. CASE Unregisters(t)
    BY <1>1, <1>4 DEF Unregisters, Coming, Works, TaskStates
  <1>5. QED
    BY <1>2, <1>3, <1>4 DEF FlowStep

LEMMA FlowKeeps ==
  ASSUME IInv, NEW t \in Chats, FlowStep(t), TypeOK'
  PROVE  IInv'
  <1>1. TypeOK
    BY DEF IInv
  <1>2. Places' /\ Alone'
    BY <1>1, FlowDoes
    DEF IInv, Places, PlaceOf, Alone, FreshOf, Spared, Holds, Resuming
  <1>3. Apart'
    BY <1>1, FlowDoes DEF IInv, Apart, Spared, Busy, Creating, Engaged, Coming
  <1>4. Attached' /\ SomeoneThrough'
    BY <1>1, FlowDoes DEF IInv, Attached, SomeoneThrough, Spared, Mid
  <1>5. PausedMeanwhile' /\ FreeOtherwise'
    BY <1>1, FlowDoes DEF IInv, PausedMeanwhile, PausedOf, FreeOtherwise, FreeOf, Spared
  <1>6. QED
    BY <1>2, <1>3, <1>4, <1>5 DEF IInv

(* A task that comes finds no request and no other task, or chat is blamed.*)
LEMMA ComingKeeps ==
  ASSUME IInv, NEW t \in Chats,
         ChatReads(t) \/ CreateTask(t) \/ BindTask(t) \/ Run(t), TypeOK'
  PROVE  IInv'
  <1>1. /\ req' = req /\ hit \subseteq hit' /\ TypeOK
        /\ task \in [Chats -> TaskStates] /\ doc \in Docs /\ None \notin Chats
    BY TakeoverAssumption
    DEF ChatReads, CreateTask, BindTask, Run, Blame, IInv, TypeOK, TaskStates
  <1>2. Places'
    BY <1>1 DEF IInv, Places, PlaceOf
  <1>3. CASE ~Spared({"chat"})'
    BY <1>2, <1>3
    DEF IInv, Spared, Apart, Alone, FreshOf, Attached, SomeoneThrough, PausedMeanwhile, PausedOf,
        FreeOtherwise, FreeOf
  <1>4. CASE Spared({"chat"})'
    <2>1. /\ Apart /\ Spared({"chat"}) /\ \A r \in Requests : req[r].pc = "rest"
          /\ doc.takeover = "idle"
          /\ \A u \in Chats : Engaged(u) => u = t
          /\ task[t].pc \in {"none", "asked", "new", "bound"}
      BY <1>1, <1>4
      DEF IInv, Apart, Spared, Busy, Creating, Engaged, Coming, Works,
          ChatReads, CreateTask, BindTask, Run, Blame
    <2>2. /\ doc'.takeover = "idle"
          /\ task'[t].pc \in {"asked", "new"} => task'[t].copy.takeover = "idle"
          /\ task'[t].pc \in {"bound", "start"} /\ Spared({"chat", "overlap", "detached"})' =>
               doc'.task = t
          /\ task'[t].pc \in {"asked", "new", "bound", "start"}
          /\ \A u \in Chats : u # t => task'[u] = task[u]
          /\ task'[t].paused = task[t].paused
      <3>1. CASE ChatReads(t)
        BY <1>1, <2>1, <3>1 DEF ChatReads, TaskStates
      <3>2. CASE CreateTask(t)
        BY <1>1, <2>1, <3>2 DEF CreateTask, Task, TaskStates, Apart, Coming
      <3>3. CASE BindTask(t)
        BY <1>1, <2>1, <3>3 DEF BindTask, TaskStates, Apart, Coming, Docs
      <3>4. CASE Run(t)
        <4>1. Spared({"chat", "overlap", "detached"})' => doc.task = t
          BY <1>1, <3>4 DEF IInv, Attached, Spared, Run
        <4>2. task' = [task EXCEPT ![t].pc = "start"] /\ doc' = doc
          BY <3>4 DEF Run, Task
        <4>3. QED
          BY <1>1, <2>1, <4>1, <4>2 DEF TaskStates
      <3>5. QED
        BY <3>1, <3>2, <3>3, <3>4
    <2>3. ~task[t].paused
      BY <1>1, <2>1 DEF TypeOK
    <2>4. QED
      BY <1>1, <1>2, <2>1, <2>2, <2>3
      DEF IInv, Spared, Apart, Alone, FreshOf, Attached, SomeoneThrough, PausedMeanwhile, PausedOf,
        FreeOtherwise, FreeOf, Engaged, Coming, Works, Creating, Busy, Holds, Resuming
  <1>5. QED
    BY <1>3, <1>4

LEMMA RestartKeeps ==
  ASSUME IInv, Restart, TypeOK'
  PROVE  IInv'
  <1>1. /\ doc' = doc /\ hit' = hit \cup {"fault"}
        /\ \A r \in Requests : req'[r].pc = "rest" /\ req'[r].op = req[r].op
        /\ \A t \in Chats : task'[t].pc \in {"none", "over"}
    BY DEF Restart, Blame, Rest
  <1>2. Places'
    BY <1>1 DEF IInv, Places, PlaceOf, Begun
  <1>3. Apart' /\ Alone'
    BY <1>1 DEF Apart, Alone, FreshOf, Busy, Coming, Engaged, Works, Holds, Resuming
  <1>4. Attached' /\ SomeoneThrough'
    BY <1>1 DEF Attached, SomeoneThrough, Spared, Works
  <1>5. PausedMeanwhile' /\ FreeOtherwise'
    BY <1>1 DEF PausedMeanwhile, PausedOf, FreeOtherwise, FreeOf, Works
  <1>6. QED
    BY <1>2, <1>3, <1>4, <1>5 DEF IInv

-----------------------------------------------------------------------------
(* The invariant holds at the start: an idle document, no task, no request. *)
THEOREM InitEstablishes == Init => IInv
  <1>1. SUFFICES ASSUME Init PROVE IInv
    OBVIOUS
  <1>2. /\ doc = Blank /\ hit = {}
        /\ \A t \in Chats : task[t].pc = "none" /\ ~task[t].paused
        /\ \A r \in Requests : req[r].pc = "rest" /\ req[r].op = None
    BY <1>1 DEF Init, Rest
  <1>3. TypeOK
    <2>1. Blank \in Docs
      BY DEF Blank, Docs
    <2>2. Rest \in RequestStates
      BY <2>1 DEF Rest, RequestStates, RequestPlaces
    <2>3. 0 \in 0..MaxFaults
      BY TakeoverAssumption
    <2>4. QED
      BY <1>1, <2>1, <2>2, <2>3
      DEF Init, TypeOK, RequestStates, RequestPlaces
  <1>4. Places
    BY <1>2, TakeoverAssumption DEF Places, PlaceOf, Begun, Asked
  <1>5. Apart /\ Alone /\ Attached
    BY <1>2 DEF Apart, Alone, FreshOf, Attached, Busy, Coming, Engaged, Works, Holds, Resuming
  <1>6. SomeoneThrough /\ PausedMeanwhile /\ FreeOtherwise
    BY <1>2 DEF SomeoneThrough, PausedMeanwhile, PausedOf, FreeOtherwise, FreeOf, Works, Blank
  <1>7. QED
    BY <1>3, <1>4, <1>5, <1>6 DEF IInv

(* No step breaks the invariant, be it a step of a request, of a chat or of *)
(* a task, a fault or a restart.                                            *)
THEOREM StepPreserves == IInv /\ [Next]_vars => IInv'
  <1>1. SUFFICES ASSUME IInv, [Next]_vars PROVE IInv'
    OBVIOUS
  <1>2. TypeOK
    BY <1>1 DEF IInv
  <1>3. ASSUME NEW t \in Chats,
               \/ ChatReads(t) \/ CreateTask(t) \/ BindTask(t) \/ Run(t)
               \/ FlowStep(t)
        PROVE  IInv'
    <2>1. TypeOK'
      BY <1>2, <1>3, TaskTypes DEF FlowStep, Next
    <2>2. QED
      BY <1>1, <1>3, <2>1, ComingKeeps, FlowKeeps
  <1>4. ASSUME NEW r \in Requests, Begin(r) \/ Steps(r) PROVE IInv'
    BY <1>1, <1>4, BeginKeeps, RequestSteps
  <1>5. CASE Restart
    <2>1. TypeOK'
      BY <1>2, <1>5, TaskTypes DEF Next
    <2>2. QED
      BY <1>1, <1>5, <2>1, RestartKeeps
  <1>6. CASE UNCHANGED vars
    BY <1>1, <1>6
    DEF vars, IInv, TypeOK, Places, PlaceOf, Apart, Alone, FreshOf, Attached, SomeoneThrough,
        PausedMeanwhile, PausedOf, FreeOtherwise, FreeOf, Spared, Busy, Creating, Coming, Engaged,
        Works, Holds, Resuming, Mid
  <1>7. QED
    BY <1>1, <1>3, <1>4, <1>5, <1>6 DEF Next, FlowStep, Steps

(* So it holds in every state that is reached.                              *)
THEOREM Invariance == Spec => []IInv
  BY InitEstablishes, StepPreserves, PTL DEF Spec

(* Types: a paused task is one that has started and is not over.           *)
THEOREM TypeCorrect == Spec => []TypeOK
  <1>1. IInv => TypeOK
    BY DEF IInv
  <1>2. QED
    BY <1>1, Invariance, PTL

(* A user who has taken over, nobody asking for anything, has the browser  *)
(* alone, unless requests or a chat overlapped, a command failed, a resume *)
(* was asked for, or an old stream detached the task.                      *)
THEOREM TakeoverHandsOver == Spec => []HandedOver
  <1>1. IInv => HandedOver
    BY DEF IInv, PausedMeanwhile, PausedOf, HandedOver, Handed, Spared
  <1>2. QED
    BY <1>1, Invariance, PTL

(* Behind an idle document no agent is left paused, unless that was asked  *)
(* for, or one of the named races happened. Failed commands and restarts   *)
(* are no excuse.                                                          *)
THEOREM TakeoverGivesBack == Spec => []GivenBack
  <1>1. IInv => GivenBack
    BY DEF IInv, FreeOtherwise, FreeOf, GivenBack, Freed, Spared
  <1>2. QED
    BY <1>1, Invariance, PTL

(* Once nobody asks for anything the document is idle or active.           *)
THEOREM TakeoverIsSeenThrough == Spec => []SeenThrough
  <1>1. IInv => SeenThrough
    <2>1. SUFFICES ASSUME IInv, Quiet, Spared({"chat", "fault", "resume", "stop"})
                   PROVE  doc.takeover \in {"idle", "active"}
      BY DEF SeenThrough, Through, Spared
    <2>2. \A r \in Requests : ~Mid(r)
      BY <2>1 DEF Quiet, Busy, Mid
    <2>3. Spared({"chat", "fault", "resume"}) /\ Spared({"stop"})
      BY <2>1 DEF Spared
    <2>4. QED
      BY <2>1, <2>2, <2>3 DEF IInv, SomeoneThrough, TypeOK, Docs
  <1>2. QED
    BY <1>1, Invariance, PTL
=============================================================================
