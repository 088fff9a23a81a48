------------------------ MODULE SessionRuntimeProofs ------------------------
(***************************************************************************)
(* Theorems about SessionRuntime for any chats, stops, flows and failures. *)
(***************************************************************************)
EXTENDS SessionRuntime, FiniteSetTheorems, TLAPS

-----------------------------------------------------------------------------
(* The fields of the records of chats, tasks and stops.                     *)
ChatTyped(x) ==
  /\ x.pc \in InDomain \cup {"idle", "close", "over"} /\ x.turn \in Nat
  /\ x.alone \in BOOLEAN /\ x.lock \in Chats \cup {None} /\ x.copy \in Documents
  /\ x.task \in Chats \cup {None} /\ x.seen \in Nat /\ x.got \in BOOLEAN
  /\ x.outcome \in Outcomes /\ x.gone \in BOOLEAN /\ x.cancelled \in BOOLEAN

TaskTyped(x) ==
  /\ x.pc \in TaskPlaces /\ x.cancel \in BOOLEAN /\ x.fresh \in BOOLEAN
  /\ x.err \in BOOLEAN /\ x.said \in BOOLEAN /\ x.n \in 0 .. MaxEvents
  /\ x.in \in Seq(Chats \cup {"context"}) /\ x.out \in Seq(Events)

StopTyped(x) ==
  x.pc \in {"read", "write", "save"} \cup StopRests /\ x.box \in BOOLEAN /\ x.auto \in BOOLEAN

ReadOn == \A c \in Chats :
  chat[c].seen <= (IF chat[c].task = None THEN 0 ELSE Len(task[chat[c].task].out))

Typed ==
  /\ doc \in Documents /\ registered \subseteq Chats /\ taken \subseteq Chats
  /\ current \in Chats \cup {None} /\ lock \in Chats \cup {None} /\ faults \in 0 .. MaxFaults
  /\ task \in [Chats -> TaskRecord] /\ chat \in [Chats -> ChatRecord]
  /\ stop \in [Stops -> StopRecord] /\ warm \in WarmRecord

LEMMA TypeParts == (TypeOK <=> Typed /\ ReadOn) /\ (TypeOK' <=> Typed' /\ ReadOn')
  BY DEF TypeOK, Typed, ReadOn, ChatRecord, TaskRecord, StopRecord, WarmRecord

\* x is s with the fields of r replaced
ChatSet(x, s, r) ==
  /\ x.pc = IF "pc" \in DOMAIN r THEN r.pc ELSE s.pc
  /\ x.turn = IF "turn" \in DOMAIN r THEN r.turn ELSE s.turn
  /\ x.alone = IF "alone" \in DOMAIN r THEN r.alone ELSE s.alone
  /\ x.lock = IF "lock" \in DOMAIN r THEN r.lock ELSE s.lock
  /\ x.copy = IF "copy" \in DOMAIN r THEN r.copy ELSE s.copy
  /\ x.task = IF "task" \in DOMAIN r THEN r.task ELSE s.task
  /\ x.seen = IF "seen" \in DOMAIN r THEN r.seen ELSE s.seen
  /\ x.got = IF "got" \in DOMAIN r THEN r.got ELSE s.got
  /\ x.outcome = IF "outcome" \in DOMAIN r THEN r.outcome ELSE s.outcome
  /\ x.gone = IF "gone" \in DOMAIN r THEN r.gone ELSE s.gone
  /\ x.cancelled = IF "cancelled" \in DOMAIN r THEN r.cancelled ELSE s.cancelled

TaskSet(x, s, r) ==
  /\ x.pc = IF "pc" \in DOMAIN r THEN r.pc ELSE s.pc
  /\ x.cancel = IF "cancel" \in DOMAIN r THEN r.cancel ELSE s.cancel
  /\ x.fresh = IF "fresh" \in DOMAIN r THEN r.fresh ELSE s.fresh
  /\ x.err = IF "err" \in DOMAIN r THEN r.err ELSE s.err
  /\ x.said = IF "said" \in DOMAIN r THEN r.said ELSE s.said
  /\ x.n = IF "n" \in DOMAIN r THEN r.n ELSE s.n
  /\ x.in = IF "in" \in DOMAIN r THEN r.in ELSE s.in
  /\ x.out = IF "out" \in DOMAIN r THEN r.out ELSE s.out

StopSet(x, s, r) ==
  /\ x.pc = IF "pc" \in DOMAIN r THEN r.pc ELSE s.pc
  /\ x.box = IF "box" \in DOMAIN r THEN r.box ELSE s.box
  /\ x.auto = IF "auto" \in DOMAIN r THEN r.auto ELSE s.auto

LEMMA ChatFields ==
  ASSUME NEW s \in ChatRecord, NEW r, NEW x, x = With(s, r)
  PROVE  ChatSet(x, s, r) /\ (ChatTyped(x) => x \in ChatRecord) /\ ChatTyped(s)
  <1> DEFINE Fields == {"pc", "turn", "alone", "lock", "copy", "task", "seen",
                        "got", "outcome", "gone", "cancelled"}
  <1>1. DOMAIN s = Fields
    BY DEF ChatRecord
  <1>2. x = [f \in Fields |-> IF f \in DOMAIN r THEN r[f] ELSE s[f]]
    BY <1>1 DEF With
  <1>3. x = [f \in Fields |-> x[f]]
    BY <1>2
  <1>4. ChatTyped(x) => x \in ChatRecord
    BY <1>3 DEF ChatTyped, ChatRecord
  <1>5. ChatTyped(s)
    BY DEF ChatTyped, ChatRecord
  <1>6. QED
    BY <1>2, <1>4, <1>5 DEF ChatSet

LEMMA TaskFields ==
  ASSUME NEW s \in TaskRecord, NEW r, NEW x, x = With(s, r)
  PROVE  TaskSet(x, s, r) /\ (TaskTyped(x) => x \in TaskRecord) /\ TaskTyped(s)
  <1> DEFINE Fields == {"pc", "cancel", "fresh", "err", "said", "n", "in", "out"}
  <1>1. DOMAIN s = Fields
    BY DEF TaskRecord
  <1>2. x = [f \in Fields |-> IF f \in DOMAIN r THEN r[f] ELSE s[f]]
    BY <1>1 DEF With
  <1>3. x = [f \in Fields |-> x[f]]
    BY <1>2
  <1>4. TaskTyped(x) => x \in TaskRecord
    BY <1>3 DEF TaskTyped, TaskRecord
  <1>5. TaskTyped(s)
    BY DEF TaskTyped, TaskRecord
  <1>6. QED
    BY <1>2, <1>4, <1>5 DEF TaskSet

LEMMA StopFields ==
  ASSUME NEW s \in StopRecord, NEW r, NEW x, x = With(s, r)
  PROVE  StopSet(x, s, r) /\ (StopTyped(x) => x \in StopRecord) /\ StopTyped(s)
  <1> DEFINE Fields == {"pc", "box", "auto"}
  <1>1. DOMAIN s = Fields
    BY DEF StopRecord
  <1>2. x = [f \in Fields |-> IF f \in DOMAIN r THEN r[f] ELSE s[f]]
    BY <1>1 DEF With
  <1>3. x = [f \in Fields |-> x[f]]
    BY <1>2
  <1>4. StopTyped(x) => x \in StopRecord
    BY <1>3 DEF StopTyped, StopRecord
  <1>5. StopTyped(s)
    BY DEF StopTyped, StopRecord
  <1>6. QED
    BY <1>2, <1>4, <1>5 DEF StopSet

LEMMA Chatted ==
  ASSUME Typed, NEW c \in Chats, NEW r, Chat(c, r)
  PROVE  /\ ChatSet(chat'[c], chat[c], r) /\ ChatTyped(chat[c])
         /\ \A d \in Chats : d # c => chat'[d] = chat[d]
         /\ ChatTyped(chat'[c]) => chat' \in [Chats -> ChatRecord]
  <1>1. chat[c] \in ChatRecord /\ chat \in [Chats -> ChatRecord]
    BY DEF Typed
  <1>2. chat' = [chat EXCEPT ![c] = With(chat[c], r)]
    BY DEF Chat
  <1>3. /\ chat'[c] = With(chat[c], r)
        /\ \A d \in Chats : d # c => chat'[d] = chat[d]
    BY <1>1, <1>2
  <1>4. chat'[c] \in ChatRecord => chat' \in [Chats -> ChatRecord]
    BY <1>1, <1>2, <1>3
  <1>5. QED
    BY <1>1, <1>3, <1>4, ChatFields

LEMMA Tasked ==
  ASSUME Typed, NEW c \in Chats, NEW r, Task(c, r)
  PROVE  /\ TaskSet(task'[c], task[c], r) /\ TaskTyped(task[c])
         /\ \A d \in Chats : d # c => task'[d] = task[d]
         /\ TaskTyped(task'[c]) => task' \in [Chats -> TaskRecord]
  <1>1. task[c] \in TaskRecord /\ task \in [Chats -> TaskRecord]
    BY DEF Typed
  <1>2. task' = [task EXCEPT ![c] = With(task[c], r)]
    BY DEF Task
  <1>3. /\ task'[c] = With(task[c], r)
        /\ \A d \in Chats : d # c => task'[d] = task[d]
    BY <1>1, <1>2
  <1>4. task'[c] \in TaskRecord => task' \in [Chats -> TaskRecord]
    BY <1>1, <1>2, <1>3
  <1>5. QED
    BY <1>1, <1>3, <1>4, TaskFields

LEMMA Stopped ==
  ASSUME Typed, NEW c \in Stops, NEW r, Stop(c, r)
  PROVE  /\ StopSet(stop'[c], stop[c], r) /\ StopTyped(stop[c])
         /\ \A d \in Stops : d # c => stop'[d] = stop[d]
         /\ StopTyped(stop'[c]) => stop' \in [Stops -> StopRecord]
  <1>1. stop[c] \in StopRecord /\ stop \in [Stops -> StopRecord]
    BY DEF Typed
  <1>2. stop' = [stop EXCEPT ![c] = With(stop[c], r)]
    BY DEF Stop
  <1>3. /\ stop'[c] = With(stop[c], r)
        /\ \A d \in Stops : d # c => stop'[d] = stop[d]
    BY <1>1, <1>2
  <1>4. stop'[c] \in StopRecord => stop' \in [Stops -> StopRecord]
    BY <1>1, <1>2, <1>3
  <1>5. QED
    BY <1>1, <1>3, <1>4, StopFields

-----------------------------------------------------------------------------
(* The inductive invariant.                                                 *)

\* chats that have not told anybody of their task
Early == {"idle", "arrive", "wait", "bind1", "bind2", "bind3"}

(* What a chat knows where it is.                                           *)
PlacedAt(c) ==
  /\ chat[c].pc \in {"put", "run", "relay", "drain"} => chat[c].task \in Chats
  /\ chat[c].pc \in Early => chat[c].task = None
  /\ chat[c].pc = "bind4" => chat[c].task = c
  /\ chat[c].pc \in Early \cup {"bind4", "put"} => chat[c].seen = 0
  /\ chat[c].pc = "mark" => chat[c].outcome \in {"completed", "failed"}
  /\ chat[c].pc \in {"tear", "write"} => chat[c].outcome \in Terminal \cup {"failing"}

(* The task of a chat comes into being with CreateTask, and nobody refers   *)
(* to it before BindTask.                                                   *)
UnknownTo(c) ==
  /\ doc.task # c /\ warm.copy.task # c
  /\ \A d \in Chats : chat[d].task # c /\ chat[d].copy.task # c

BornAt(c) ==
  /\ chat[c].pc \in Early \ {"bind3"} => task[c].pc = "none" /\ c \notin registered
  /\ chat[c].pc = "bind3" => task[c].pc = "new"
  /\ chat[c].pc \in Early => UnknownTo(c)

(* A chat that is about to start its task has put its message.              *)
FilledAt(c) ==
  chat[c].pc = "run" /\ task[chat[c].task].pc = "new" => task[chat[c].task].in # <<>>

AutoKnown == \A s \in Stops : stop[s].pc = "idle" => ~stop[s].auto

(* A document that says "running" does not stay so: a task at work, a chat  *)
(* that binds or ends, a stop or the warm-up owes it another status.        *)
Owing == {"ready", "init", "top", "begin", "flow", "look", "waiting", "crash", "fail", "end"}

TaskOwes(t) ==
  \/ task[t].pc \in Owing /\ ~task[t].cancel
  \/ task[t].pc = "new" /\ task[t].in # <<>>

ChatOwes(c) ==
  \/ chat[c].pc \in {"bind2", "bind3", "write"}
  \/ /\ chat[c].pc \in {"bind4", "put", "run"}
     /\ chat[c].task = c /\ task[c].pc = "new"
  \/ chat[c].pc = "tear" /\ chat[c].outcome = "failing"

StopOwes(s) == stop[s].pc = "write" \/ (stop[s].pc = "read" /\ ~stop[s].auto)

WarmOwes == warm.pc \in {"start", "read", "save", "end"}

Owed ==
  \/ \E t \in Chats : TaskOwes(t)
  \/ \E c \in Chats : ChatOwes(c)
  \/ \E s \in Stops : StopOwes(s)
  \/ WarmOwes

Pledged == NeverCancelled /\ NeverCut /\ doc.status = "running" => Owed

IInv ==
  /\ TypeOK /\ AutoKnown /\ Pledged
  /\ \A c \in Chats : PlacedAt(c) /\ BornAt(c) /\ FilledAt(c)

(* A step of chat c alone: it may write the document, with a name of a task *)
(* that it knew, and it may cancel a stream.                                *)
SameBut(d) ==
  /\ chat'[d].pc = chat[d].pc /\ chat'[d].task = chat[d].task
  /\ chat'[d].copy = chat[d].copy /\ chat'[d].seen = chat[d].seen
  /\ chat'[d].outcome = chat[d].outcome
  /\ chat[d].cancelled => chat'[d].cancelled

Names(c) == {doc.task, chat[c].task, chat[c].copy.task}

ReadAt(c) == chat[c].seen <= (IF chat[c].task = None THEN 0 ELSE Len(task[chat[c].task].out))

ChatSteps(c) ==
  /\ Typed' /\ UNCHANGED <<registered, task, stop, warm>>
  /\ \A d \in Chats \ {c} : SameBut(d)
  /\ chat[c].cancelled => chat'[c].cancelled
  /\ (Names(c))' \subseteq Names(c) \cup {None} \cup (IF chat'[c].pc \in Early THEN {} ELSE {c})
  /\ chat'[c].pc \in Early =>
       chat[c].pc \in Early /\ (chat'[c].pc = "bind3" <=> chat[c].pc = "bind3")
  /\ PlacedAt(c)' /\ FilledAt(c)' /\ ReadAt(c)'
  /\ NeverCancelled' /\ doc'.status = "running" =>
       \/ doc.status = "running" /\ ~ChatOwes(c)
       \/ ChatOwes(c)' \/ \E t \in Chats : TaskOwes(t)

LEMMA InvParts ==
  /\ IInv <=> /\ Typed /\ AutoKnown /\ Pledged
              /\ \A c \in Chats : PlacedAt(c) /\ BornAt(c) /\ FilledAt(c) /\ ReadAt(c)
  /\ IInv' <=> /\ Typed' /\ AutoKnown' /\ Pledged'
               /\ \A c \in Chats : PlacedAt(c)' /\ BornAt(c)' /\ FilledAt(c)' /\ ReadAt(c)'
  <1>1. (ReadOn <=> \A c \in Chats : ReadAt(c)) /\ (ReadOn' <=> \A c \in Chats : ReadAt(c)')
    BY DEF ReadOn, ReadAt
  <1>2. QED
    BY <1>1, TypeParts DEF IInv

LEMMA ChatStepsKeep ==
  ASSUME IInv, NEW c \in Chats, ChatSteps(c)
  PROVE  IInv'
  <1>1. /\ Typed /\ AutoKnown /\ Pledged
        /\ \A d \in Chats : PlacedAt(d) /\ BornAt(d) /\ FilledAt(d) /\ ReadAt(d)
    BY InvParts
  <1>2. /\ Typed' /\ UNCHANGED <<registered, task, stop, warm>>
        /\ \A d \in Chats \ {c} : SameBut(d)
        /\ chat[c].cancelled => chat'[c].cancelled
        /\ PlacedAt(c)' /\ FilledAt(c)' /\ ReadAt(c)'
    BY DEF ChatSteps
  <1>3. \A d \in Chats \ {c} : PlacedAt(d)' /\ FilledAt(d)' /\ ReadAt(d)'
    BY <1>1, <1>2 DEF SameBut, PlacedAt, FilledAt, ReadAt
  <1>4. \A e \in Chats : UnknownTo(e) /\ (e # c \/ chat'[c].pc \in Early) => UnknownTo(e)'
    <2>1. ASSUME NEW e \in Chats, UnknownTo(e), e # c \/ chat'[c].pc \in Early
          PROVE  e \notin (Names(c))' /\ warm'.copy.task # e
      BY <1>2, <2>1, SessionAssumption DEF ChatSteps, Names, UnknownTo
    <2>2. QED
      BY <1>2, <2>1 DEF Names, UnknownTo, SameBut
  <1>5. \A d \in Chats \ {c} : BornAt(d)'
    BY <1>1, <1>2, <1>4 DEF SameBut, BornAt
  <1>6. BornAt(c)'
    BY <1>1, <1>2, <1>4 DEF ChatSteps, BornAt, Early
  <1>7. Pledged'
    <2>1. SUFFICES ASSUME NeverCancelled', NeverCut', doc'.status = "running"
                   PROVE  Owed'
      BY DEF Pledged
    <2>2. \A t \in Chats : TaskOwes(t) => TaskOwes(t)'
      BY <1>2 DEF TaskOwes
    <2>3. \A d \in Chats \ {c} : ChatOwes(d) => ChatOwes(d)'
      BY <1>2 DEF ChatOwes, SameBut
    <2>4. CASE ChatOwes(c)' \/ \E t \in Chats : TaskOwes(t)
      BY <2>2, <2>4 DEF Owed
    <2>5. CASE doc.status = "running" /\ ~ChatOwes(c)
      <3>1. NeverCancelled /\ NeverCut
        BY <1>2, <2>1 DEF NeverCancelled, NeverCut, SameBut
      <3>2. Owed
        BY <1>1, <2>5, <3>1 DEF Pledged
      <3>3. QED
        BY <1>2, <2>2, <2>3, <2>5, <3>2 DEF Owed, StopOwes, WarmOwes
    <2>6. QED
      BY <2>1, <2>4, <2>5 DEF ChatSteps
  <1>8. AutoKnown'
    BY <1>1, <1>2 DEF AutoKnown
  <1>9. QED
    BY <1>2, <1>3, <1>5, <1>6, <1>7, <1>8, InvParts


(* Each action of a chat that leaves the tasks alone is such a step.        *)
LEMMA ArriveSteps ==
  ASSUME IInv, NEW c \in Chats, Begin(c) \/ Arrive(c) \/ AnswerAtOnce(c)
  PROVE  ChatSteps(c)
  <1>1. Typed /\ PlacedAt(c) /\ BornAt(c) /\ ReadAt(c)
    BY InvParts
  <1>2. CASE Begin(c)
    <2> DEFINE t == 1 + Cardinality({d \in Chats : chat[d].pc # "idle"})
               a == \A d \in Chats : ~Live(d)
    <2>1. t \in Nat
      <3>1. IsFiniteSet({d \in Chats : chat[d].pc # "idle"})
        BY FS_Subset, SessionAssumption
      <3>2. QED
        BY <3>1, FS_CardinalityType
    <2>2. /\ Chat(c, [pc |-> "arrive", turn |-> t, alone |-> a]) /\ chat[c].pc = "idle"
          /\ UNCHANGED <<doc, registered, task, lock, stop, warm, taken, faults>>
          /\ current' = c
      BY <1>2 DEF Begin
    <2>3. a \in BOOLEAN
      OBVIOUS
    <2> HIDE DEF t, a
    <2>4. /\ ChatSet(chat'[c], chat[c], [pc |-> "arrive", turn |-> t, alone |-> a])
          /\ ChatTyped(chat[c]) /\ \A d \in Chats : d # c => chat'[d] = chat[d]
          /\ ChatTyped(chat'[c]) => chat' \in [Chats -> ChatRecord]
      BY <1>1, <2>2, Chatted
    <2>5. ChatTyped(chat'[c])
      BY <2>1, <2>3, <2>4 DEF ChatSet, ChatTyped, InDomain
    <2>6. Typed'
      BY <1>1, <2>2, <2>4, <2>5 DEF Typed
    <2>7. QED
      BY <1>1, <2>2, <2>4, <2>6 DEF ChatSteps, ChatSet, SameBut, Names, PlacedAt, FilledAt,
         ReadAt, Early, ChatOwes
  <1>3. CASE Arrive(c)
    <2> DEFINE r == [pc |-> "wait", lock |-> lock']
    <2>1. /\ ChatSet(chat'[c], chat[c], r)
          /\ ChatTyped(chat[c]) /\ \A d \in Chats : d # c => chat'[d] = chat[d]
          /\ ChatTyped(chat'[c]) => chat' \in [Chats -> ChatRecord]
      BY <1>1, <1>3, Chatted DEF Arrive
    <2>2. lock' \in Chats \cup {None}
      BY <1>1, <1>3 DEF Arrive, Typed
    <2>3. ChatTyped(chat'[c])
      BY <2>1, <2>2 DEF ChatSet, ChatTyped, InDomain
    <2>4. Typed'
      BY <1>1, <1>3, <2>1, <2>2, <2>3 DEF Typed, Arrive
    <2>5. QED
      BY <1>1, <1>3, <2>1, <2>4 DEF Arrive, ChatSteps, ChatSet, SameBut, Names, PlacedAt,
         FilledAt, ReadAt, Early, ChatOwes
  <1>4. CASE AnswerAtOnce(c)
    <2> DEFINE r == [pc |-> Yielded(c, "close"), outcome |-> "answered"]
    <2>1. /\ ChatSet(chat'[c], chat[c], r)
          /\ ChatTyped(chat[c]) /\ \A d \in Chats : d # c => chat'[d] = chat[d]
          /\ ChatTyped(chat'[c]) => chat' \in [Chats -> ChatRecord]
      BY <1>1, <1>4, Chatted DEF AnswerAtOnce
    <2>2. ChatTyped(chat'[c])
      BY <2>1 DEF ChatSet, ChatTyped, Yielded, Outcomes
    <2>3. Typed'
      BY <1>1, <1>4, <2>1, <2>2 DEF Typed, AnswerAtOnce
    <2>4. QED
      BY <1>1, <1>4, <2>1, <2>3 DEF AnswerAtOnce, ChatSteps, ChatSet, SameBut, Names, PlacedAt,
         FilledAt, ReadAt, Early, ChatOwes, Yielded
  <1>5. QED
    BY <1>2, <1>3, <1>4


LEMMA BlankFault ==
  /\ Blank \in Documents /\ Blank.task = None /\ Blank.status # "running"
  /\ Typed /\ Fault => faults' \in 0 .. MaxFaults
  BY SessionAssumption DEF Blank, Documents, Statuses, Typed, Fault

LEMMA BindingSteps ==
  ASSUME IInv, NEW c \in Chats, BindSandbox(c) \/ BindTask(c) \/ CreationFails(c)
  PROVE  ChatSteps(c)
  <1>1. Typed /\ PlacedAt(c) /\ BornAt(c) /\ FilledAt(c) /\ ReadAt(c)
    BY InvParts
  <1>2. CASE BindSandbox(c)
    <2> DEFINE r == [pc |-> "bind2", copy |-> [chat[c].copy EXCEPT !.box = TRUE]]
    <2>1. /\ ChatSet(chat'[c], chat[c], r) /\ ChatTyped(chat[c])
          /\ \A d \in Chats : d # c => chat'[d] = chat[d]
          /\ ChatTyped(chat'[c]) => chat' \in [Chats -> ChatRecord]
      BY <1>1, <1>2, Chatted DEF BindSandbox
    <2>2. /\ doc' \in Documents /\ doc'.task = chat[c].copy.task
          /\ chat[c].pc = "bind1"
          /\ UNCHANGED <<registered, task, current, lock, stop, warm, taken, faults>>
          /\ ChatSet(chat'[c], chat[c], [pc |-> "bind2", copy |-> doc'])
      BY <1>2, <2>1 DEF BindSandbox, ChatTyped, Documents
    <2> HIDE DEF r
    <2>3. ChatTyped(chat'[c])
      BY <2>1, <2>2 DEF ChatSet, ChatTyped, InDomain, Creating
    <2>4. Typed'
      BY <1>1, <2>1, <2>2, <2>3 DEF Typed
    <2>5. QED
      BY <1>1, <2>1, <2>2, <2>4 DEF ChatSteps, ChatSet, SameBut, Names, PlacedAt,
         FilledAt, ReadAt, Early, ChatOwes
  <1>3. CASE BindTask(c)
    <2> DEFINE r == [pc |-> "bind4", task |-> c]
    <2>1. /\ ChatSet(chat'[c], chat[c], r) /\ ChatTyped(chat[c])
          /\ \A d \in Chats : d # c => chat'[d] = chat[d]
          /\ ChatTyped(chat'[c]) => chat' \in [Chats -> ChatRecord]
      BY <1>1, <1>3, Chatted DEF BindTask
    <2>2. /\ doc' \in Documents /\ doc'.task = c
          /\ chat[c].pc = "bind3"
          /\ UNCHANGED <<registered, task, current, lock, stop, warm, taken, faults>>
      BY <1>3, <2>1 DEF BindTask, ChatTyped, Documents
    <2>3. ChatTyped(chat'[c])
      BY <2>1, <2>2 DEF ChatSet, ChatTyped, InDomain, Creating
    <2>4. Typed'
      BY <1>1, <2>1, <2>2, <2>3 DEF Typed
    <2>5. QED
      BY <1>1, <2>1, <2>2, <2>4, SessionAssumption DEF ChatSteps, ChatSet, SameBut, Names,
         PlacedAt, BornAt, FilledAt, ReadAt, Early, ChatOwes
  <1>4. CASE CreationFails(c)
    <2> DEFINE r == [pc |-> "tear", lock |-> None, outcome |-> "failing", copy |-> Blank]
    <2>1. /\ ChatSet(chat'[c], chat[c], r) /\ ChatTyped(chat[c])
          /\ \A d \in Chats : d # c => chat'[d] = chat[d]
          /\ ChatTyped(chat'[c]) => chat' \in [Chats -> ChatRecord]
      BY <1>1, <1>4, Chatted DEF CreationFails
    <2>2. Blank \in Documents /\ Blank.task = None /\ faults' \in 0 .. MaxFaults
      BY <1>1, <1>4, BlankFault DEF CreationFails
    <2>3. ChatTyped(chat'[c])
      BY <2>1, <2>2 DEF ChatSet, ChatTyped, InDomain, Outcomes
    <2>4. Typed'
      BY <1>1, <1>4, <2>1, <2>2, <2>3 DEF CreationFails, Typed
    <2>5. ReadAt(c)' /\ chat[c].pc \in Creating
      BY <1>1, <1>4, <2>1 DEF CreationFails, ChatSet, ReadAt
    <2>6. chat'[c].pc = "tear" /\ chat'[c].outcome = "failing" /\ chat'[c].task = chat[c].task
          /\ chat'[c].copy = Blank /\ chat'[c].cancelled = chat[c].cancelled
      BY <2>1 DEF ChatSet
    <2>7. UNCHANGED <<doc, registered, task, stop, warm>>
      BY <1>4 DEF CreationFails
    <2>8. QED
      BY <1>1, <2>1, <2>2, <2>4, <2>5, <2>6, <2>7 DEF ChatSteps, SameBut, Names,
         PlacedAt, FilledAt, Early, ChatOwes
  <1>5. QED
    BY <1>2, <1>3, <1>4


LEMMA RecheckSteps ==
  ASSUME IInv, NEW c \in Chats, Recheck(c)
  PROVE  ChatSteps(c)
  <1> DEFINE t == Lookup(doc.task)
             pc == IF doc.box THEN "bind2" ELSE "bind1"
  <1>1. Typed /\ PlacedAt(c) /\ BornAt(c) /\ FilledAt(c) /\ ReadAt(c)
    BY InvParts
  <1>2. /\ chat[c].pc = "wait"
        /\ UNCHANGED <<doc, registered, task, current, lock, stop, warm, taken, faults>>
    BY DEF Recheck
  <1>3. /\ t \in Chats \cup {None} /\ t \in {None, doc.task} /\ pc \in {"bind1", "bind2"}
        /\ doc \in Documents
    BY <1>1 DEF Typed, Lookup
  <1>4. \/ t # None /\ Chat(c, [pc |-> "put", lock |-> None, task |-> t])
        \/ Chat(c, [pc |-> "close", lock |-> None])
        \/ Chat(c, [pc |-> pc, copy |-> doc])
    BY DEF Recheck
  <1> HIDE DEF t, pc
  <1>5. CASE t # None /\ Chat(c, [pc |-> "put", lock |-> None, task |-> t])
    <2>1. /\ ChatSet(chat'[c], chat[c], [pc |-> "put", lock |-> None, task |-> t])
          /\ ChatTyped(chat[c])
          /\ \A d \in Chats : d # c => chat'[d] = chat[d]
          /\ ChatTyped(chat'[c]) => chat' \in [Chats -> ChatRecord]
      BY <1>1, <1>5, Chatted
    <2>2. ChatTyped(chat'[c])
      BY <1>3, <2>1 DEF ChatSet, ChatTyped, InDomain
    <2>3. Typed'
      BY <1>1, <1>2, <2>1, <2>2 DEF Typed
    <2>4. ReadAt(c)'
      <3>1. chat'[c].task = t /\ chat'[c].seen = 0 /\ t \in Chats
        BY <1>1, <1>2, <1>3, <1>5, <2>1 DEF ChatSet, PlacedAt, Early
      <3>2. Len(task'[t].out) \in Nat
        BY <3>1, <2>3 DEF Typed, TaskRecord
      <3>3. QED
        BY <3>1, <3>2 DEF ReadAt
    <2>5. QED
      BY <1>1, <1>2, <1>3, <1>5, <2>1, <2>3, <2>4 DEF ChatSteps, ChatSet, SameBut, Names,
         PlacedAt, FilledAt, Early, ChatOwes
  <1>6. CASE Chat(c, [pc |-> "close", lock |-> None])
    <2>1. /\ ChatSet(chat'[c], chat[c], [pc |-> "close", lock |-> None])
          /\ ChatTyped(chat[c])
          /\ \A d \in Chats : d # c => chat'[d] = chat[d]
          /\ ChatTyped(chat'[c]) => chat' \in [Chats -> ChatRecord]
      BY <1>1, <1>6, Chatted
    <2>2. ChatTyped(chat'[c])
      BY <2>1 DEF ChatSet, ChatTyped
    <2>3. Typed'
      BY <1>1, <1>2, <2>1, <2>2 DEF Typed
    <2>4. QED
      BY <1>1, <1>2, <2>1, <2>3 DEF ChatSteps, ChatSet, SameBut, Names,
         PlacedAt, FilledAt, ReadAt, Early, ChatOwes
  <1>7. CASE Chat(c, [pc |-> pc, copy |-> doc])
    <2>1. /\ ChatSet(chat'[c], chat[c], [pc |-> pc, copy |-> doc])
          /\ ChatTyped(chat[c])
          /\ \A d \in Chats : d # c => chat'[d] = chat[d]
          /\ ChatTyped(chat'[c]) => chat' \in [Chats -> ChatRecord]
      BY <1>1, <1>7, Chatted
    <2>2. ChatTyped(chat'[c])
      BY <1>3, <2>1 DEF ChatSet, ChatTyped, InDomain, Creating
    <2>3. Typed'
      BY <1>1, <1>2, <2>1, <2>2 DEF Typed
    <2>4. QED
      BY <1>1, <1>2, <1>3, <2>1, <2>3 DEF ChatSteps, ChatSet, SameBut, Names,
         PlacedAt, FilledAt, ReadAt, Early, ChatOwes
  <1>8. QED
    BY <1>4, <1>5, <1>6, <1>7

\* the outcomes that a chat has read or that it writes
LEMMA EndingSteps ==
  ASSUME IInv, NEW c \in Chats, Mark(c) \/ TeardownWrites(c)
  PROVE  ChatSteps(c)
  <1>1. Typed /\ PlacedAt(c) /\ BornAt(c) /\ FilledAt(c) /\ ReadAt(c)
    BY InvParts
  <1>2. CASE Mark(c)
    <2>1. /\ ChatSet(chat'[c], chat[c], [pc |-> Yielded(c, "tear")]) /\ ChatTyped(chat[c])
          /\ \A d \in Chats : d # c => chat'[d] = chat[d]
          /\ ChatTyped(chat'[c]) => chat' \in [Chats -> ChatRecord]
      BY <1>1, <1>2, Chatted DEF Mark
    <2>2. /\ chat[c].pc = "mark" /\ chat[c].outcome \in {"completed", "failed"}
          /\ UNCHANGED <<registered, task, current, lock, stop, warm, taken, faults>>
      BY <1>1, <1>2 DEF Mark, PlacedAt
    <2>3. doc' \in Documents /\ doc'.task = doc.task /\ doc'.status # "running"
      BY <1>1, <1>2, <2>2 DEF Mark, Typed, Documents, Statuses
    <2>4. ChatTyped(chat'[c])
      BY <2>1 DEF ChatSet, ChatTyped, InDomain, Yielded
    <2>5. Typed'
      BY <1>1, <2>1, <2>2, <2>3, <2>4 DEF Typed
    <2>6. QED
      BY <1>1, <2>1, <2>2, <2>3, <2>5 DEF ChatSteps, ChatSet, SameBut, Names,
         PlacedAt, FilledAt, ReadAt, Early, ChatOwes, Yielded, Terminal
  <1>3. CASE TeardownWrites(c)
    <2> DEFINE outcome == IF chat[c].outcome = "failing" THEN "failed" ELSE chat[c].outcome
    <2>1. /\ ChatSet(chat'[c], chat[c], [pc |-> "close", outcome |-> outcome])
          /\ ChatTyped(chat[c])
          /\ \A d \in Chats : d # c => chat'[d] = chat[d]
          /\ ChatTyped(chat'[c]) => chat' \in [Chats -> ChatRecord]
      BY <1>1, <1>3, Chatted DEF TeardownWrites
    <2>2. /\ chat[c].pc = "write" /\ outcome \in Terminal /\ lock' = None
          /\ UNCHANGED <<registered, task, current, stop, warm, taken, faults>>
          /\ doc' = [doc EXCEPT !.task = None, !.status = outcome]
      BY <1>1, <1>3 DEF TeardownWrites, PlacedAt, Terminal
    <2> HIDE DEF outcome
    <2>3. doc' \in Documents /\ doc'.task = None /\ doc'.status # "running"
      BY <1>1, <2>2 DEF Typed, Documents, Statuses, Terminal
    <2>4. ChatTyped(chat'[c])
      BY <2>1, <2>2 DEF ChatSet, ChatTyped, Outcomes
    <2>5. Typed'
      BY <1>1, <2>1, <2>2, <2>3, <2>4 DEF Typed
    <2>6. QED
      BY <1>1, <2>1, <2>2, <2>3, <2>5 DEF ChatSteps, ChatSet, SameBut, Names,
         PlacedAt, FilledAt, ReadAt, Early
  <1>4. QED
    BY <1>2, <1>3


\* a chat that reads the next event of its task
LEMMA ReadSteps ==
  ASSUME IInv, NEW c \in Chats, chat[c].pc \in {"relay", "drain"}, More(c),
         NEW outcome \in Outcomes, NEW pc \in {"relay", "drain", "close", "over", "mark"},
         pc = "mark" => outcome \in {"completed", "failed"},
         Read(c, outcome, pc),
         UNCHANGED <<doc, registered, task, current, lock, stop, warm, taken, faults>>
  PROVE  ChatSteps(c)
  <1>1. Typed /\ PlacedAt(c) /\ BornAt(c) /\ FilledAt(c) /\ ReadAt(c)
    BY InvParts
  <1> DEFINE n == chat[c].seen + 1
  <1>2. Chat(c, [seen |-> n, got |-> TRUE, outcome |-> outcome, pc |-> pc])
    BY DEF Read
  <1>3. /\ ChatSet(chat'[c], chat[c], [seen |-> n, got |-> TRUE, outcome |-> outcome, pc |-> pc])
        /\ ChatTyped(chat[c])
        /\ \A d \in Chats : d # c => chat'[d] = chat[d]
        /\ ChatTyped(chat'[c]) => chat' \in [Chats -> ChatRecord]
    BY <1>1, <1>2, Chatted
  <1>4. n \in Nat
    BY <1>3 DEF ChatTyped
  <1>5. /\ chat'[c].pc = pc /\ chat'[c].outcome = outcome /\ chat'[c].task = chat[c].task
        /\ chat'[c].copy = chat[c].copy /\ chat'[c].seen = n
        /\ chat'[c].cancelled = chat[c].cancelled
    BY <1>3 DEF ChatSet
  <1>6. ChatTyped(chat'[c])
    BY <1>3, <1>4 DEF ChatSet, ChatTyped, InDomain
  <1>7. Typed'
    BY <1>1, <1>3, <1>6 DEF Typed
  <1>8. ReadAt(c)'
    <2>1. chat[c].task \in Chats /\ chat[c].seen < Len(task[chat[c].task].out)
      BY <1>1 DEF PlacedAt, More
    <2>2. Len(task[chat[c].task].out) \in Nat
      BY <1>1, <2>1 DEF Typed, TaskRecord
    <2>3. QED
      BY <1>3, <1>5, <2>1, <2>2, SessionAssumption DEF ReadAt, ChatTyped
  <1> HIDE DEF n
  <1>9. QED
    BY <1>1, <1>3, <1>5, <1>7, <1>8 DEF ChatSteps, SameBut, Names, PlacedAt, FilledAt,
       Early, ChatOwes

LEMMA NextEventTyped ==
  ASSUME Typed, NEW c \in Chats, PlacedAt(c), chat[c].pc \in {"relay", "drain"}, More(c)
  PROVE  NextEvent(c) \in Events
  <1>1. chat[c].task \in Chats /\ chat[c].seen \in Nat
    BY DEF PlacedAt, Typed, ChatRecord
  <1>2. task[chat[c].task].out \in Seq(Events)
    BY <1>1 DEF Typed, TaskRecord
  <1>3. QED
    BY <1>1, <1>2 DEF NextEvent, More

LEMMA RelayingSteps ==
  ASSUME IInv, NEW c \in Chats, Relay(c) \/ Drain(c)
  PROVE  ChatSteps(c)
  <1>1. Typed /\ PlacedAt(c)
    BY InvParts
  <1>2. /\ chat[c].pc \in {"relay", "drain"} /\ More(c)
        /\ UNCHANGED <<doc, registered, task, current, lock, stop, warm, taken, faults>>
    BY DEF Relay, Drain
  <1>3. NextEvent(c) \in {"event", "wait", "done", "error"}
    BY <1>1, <1>2, NextEventTyped DEF Events
  <1>4. \/ \E pc \in {"relay", "drain", "over"} : Read(c, None, pc)
        \/ \E pc \in {"close", "over"} : Read(c, "waiting", pc)
        \/ \E outcome \in {"completed", "failed"} : Read(c, outcome, "mark")
    <2>1. CASE Relay(c)
      <3>1. /\ NextEvent(c) = "event" => Read(c, None, Yielded(c, "relay"))
            /\ NextEvent(c) = "wait"  => Read(c, "waiting", Yielded(c, "close"))
            /\ NextEvent(c) = "done"  => Read(c, "completed", "mark")
            /\ NextEvent(c) = "error" => Read(c, "failed", "mark")
        BY <2>1 DEF Relay
      <3>2. QED
        BY <1>3, <3>1 DEF Yielded
    <2>2. CASE Drain(c)
      <3>1. /\ NextEvent(c) \in {"event", "wait"} => Read(c, None, Yielded(c, "drain"))
            /\ NextEvent(c) = "done"  => Read(c, "completed", "mark")
            /\ NextEvent(c) = "error" => Read(c, "failed", "mark")
        BY <2>2 DEF Drain
      <3>2. QED
        BY <1>3, <3>1 DEF Yielded
    <2>3. QED
      BY <2>1, <2>2
  <1>5. QED
    BY <1>2, <1>4, ReadSteps DEF Outcomes, Terminal

\* a chat that goes on or ends without a word to its task
LEMMA LeavingSteps ==
  ASSUME IInv, NEW c \in Chats,
         TaskOver(c) \/ Drained(c) \/ Abort(c) \/ ClosedAtYield(c)
  PROVE  ChatSteps(c)
  <1>1. Typed /\ PlacedAt(c) /\ BornAt(c) /\ FilledAt(c) /\ ReadAt(c)
    BY InvParts
  <1>2. UNCHANGED <<doc, registered, task, current, lock, stop, warm, taken, faults>>
    BY DEF TaskOver, Drained, Abort, ClosedAtYield
  <1>3. CASE TaskOver(c)
    <2>1. /\ ChatSet(chat'[c], chat[c], [pc |-> "drain"]) /\ ChatTyped(chat[c])
          /\ \A d \in Chats : d # c => chat'[d] = chat[d]
          /\ ChatTyped(chat'[c]) => chat' \in [Chats -> ChatRecord]
      BY <1>1, <1>3, Chatted DEF TaskOver
    <2>2. Typed'
      <3>1. ChatTyped(chat'[c])
        BY <2>1 DEF ChatSet, ChatTyped, InDomain
      <3>2. QED
        BY <1>1, <1>2, <2>1, <3>1 DEF Typed
    <2>3. QED
      BY <1>1, <1>2, <1>3, <2>1, <2>2 DEF TaskOver, ChatSteps, ChatSet, SameBut, Names,
         PlacedAt, FilledAt, ReadAt, Early, ChatOwes
  <1>4. CASE Drained(c)
    <2>1. /\ chat[c].pc = "drain"
          /\ \/ \E pc \in {"tear", "over"}, outcome \in {"completed", "cancelled"} :
                   Chat(c, [pc |-> pc, outcome |-> outcome])
             \/ Chat(c, [pc |-> "close"])
      BY <1>4 DEF Drained, Yielded
    <2>2. ASSUME NEW pc \in {"tear", "over"}, NEW outcome \in {"completed", "cancelled"},
                 Chat(c, [pc |-> pc, outcome |-> outcome])
          PROVE  ChatSteps(c)
      <3>1. /\ ChatSet(chat'[c], chat[c], [pc |-> pc, outcome |-> outcome])
            /\ ChatTyped(chat[c])
            /\ \A d \in Chats : d # c => chat'[d] = chat[d]
            /\ ChatTyped(chat'[c]) => chat' \in [Chats -> ChatRecord]
        BY <1>1, <2>2, Chatted
      <3>2. Typed'
        <4>1. ChatTyped(chat'[c])
          BY <3>1 DEF ChatSet, ChatTyped, InDomain, Outcomes, Terminal
        <4>2. QED
          BY <1>1, <1>2, <3>1, <4>1 DEF Typed
      <3>3. QED
        BY <1>1, <1>2, <2>1, <3>1, <3>2 DEF ChatSteps, ChatSet, SameBut, Names,
           PlacedAt, FilledAt, ReadAt, Early, ChatOwes, Terminal
    <2>3. CASE Chat(c, [pc |-> "close"])
      <3>1. /\ ChatSet(chat'[c], chat[c], [pc |-> "close"]) /\ ChatTyped(chat[c])
            /\ \A d \in Chats : d # c => chat'[d] = chat[d]
            /\ ChatTyped(chat'[c]) => chat' \in [Chats -> ChatRecord]
        BY <1>1, <2>3, Chatted
      <3>2. Typed'
        <4>1. ChatTyped(chat'[c])
          BY <3>1 DEF ChatSet, ChatTyped
        <4>2. QED
          BY <1>1, <1>2, <3>1, <4>1 DEF Typed
      <3>3. QED
        BY <1>1, <1>2, <2>1, <3>1, <3>2 DEF ChatSteps, ChatSet, SameBut, Names,
           PlacedAt, FilledAt, ReadAt, Early, ChatOwes
    <2>4. QED
      BY <2>1, <2>2, <2>3
  <1>5. CASE Abort(c)
    <2>1. /\ ChatSet(chat'[c], chat[c], [pc |-> "close", lock |-> None, copy |-> Blank])
          /\ ChatTyped(chat[c])
          /\ \A d \in Chats : d # c => chat'[d] = chat[d]
          /\ ChatTyped(chat'[c]) => chat' \in [Chats -> ChatRecord]
      BY <1>1, <1>5, Chatted DEF Abort
    <2>2. Typed'
      <3>1. ChatTyped(chat'[c])
        BY <2>1, BlankFault DEF ChatSet, ChatTyped
      <3>2. QED
        BY <1>1, <1>2, <2>1, <3>1 DEF Typed
    <2>3. chat[c].cancelled /\ ~NeverCancelled'
      BY <1>5, <2>1 DEF Abort, ChatSet, NeverCancelled
    <2>4. QED
      BY <1>1, <1>2, <2>1, <2>2, <2>3, BlankFault DEF ChatSteps, ChatSet, SameBut,
         Names, PlacedAt, FilledAt, ReadAt, Early
  <1>6. CASE ClosedAtYield(c)
    <2>1. /\ ChatSet(chat'[c], chat[c], [pc |-> "over", got |-> FALSE, lock |-> None])
          /\ ChatTyped(chat[c])
          /\ \A d \in Chats : d # c => chat'[d] = chat[d]
          /\ ChatTyped(chat'[c]) => chat' \in [Chats -> ChatRecord]
      BY <1>1, <1>6, Chatted DEF ClosedAtYield
    <2>2. Typed'
      <3>1. ChatTyped(chat'[c])
        BY <2>1 DEF ChatSet, ChatTyped
      <3>2. QED
        BY <1>1, <1>2, <2>1, <3>1 DEF Typed
    <2>3. ChatOwes(c) => TaskOwes(c)
      BY <1>1, <1>6 DEF ClosedAtYield, ChatOwes, FilledAt, TaskOwes
    <2>4. QED
      BY <1>1, <1>2, <1>6, <2>1, <2>2, <2>3 DEF ClosedAtYield, ChatSteps, ChatSet, SameBut,
         Names, PlacedAt, FilledAt, ReadAt, Early
  <1>7. QED
    BY <1>3, <1>4, <1>5, <1>6

\* one field of one chat
LEMMA OneField ==
  ASSUME NEW h \in [Chats -> ChatRecord], NEW c \in Chats
  PROVE  /\ [h EXCEPT ![c].pc = "over"] \in [Chats -> ChatRecord]
         /\ [h EXCEPT ![c].got = FALSE] \in [Chats -> ChatRecord]
         /\ [h EXCEPT ![c].lock = None] \in [Chats -> ChatRecord]
         /\ [h EXCEPT ![c].cancelled = TRUE] \in [Chats -> ChatRecord]
  <1>1. h[c] \in ChatRecord
    OBVIOUS
  <1>2. /\ [h[c] EXCEPT !.pc = "over"] \in ChatRecord
        /\ [h[c] EXCEPT !.got = FALSE] \in ChatRecord
        /\ [h[c] EXCEPT !.lock = None] \in ChatRecord
        /\ [h[c] EXCEPT !.cancelled = TRUE] \in ChatRecord
    BY <1>1 DEF ChatRecord
  <1>3. QED
    BY <1>2

\* the ends of streams, and what users do to a chat
LEMMA ClosingSteps ==
  ASSUME IInv, NEW c \in Chats, Close(c) \/ Disconnect(c)
  PROVE  ChatSteps(c)
  <1>1. Typed /\ PlacedAt(c) /\ BornAt(c) /\ FilledAt(c) /\ ReadAt(c)
    BY InvParts
  <1>2. chat \in [Chats -> ChatRecord] /\ \A d \in Chats : chat[d] \in ChatRecord
    BY <1>1 DEF Typed
  <1>3. CASE Close(c)
    <2>1. /\ chat[c].pc = "close" /\ current' \in Chats \cup {None}
          /\ UNCHANGED <<doc, registered, task, lock, stop, warm, taken, faults>>
      BY <1>1, <1>3 DEF Close, Typed
    <2> DEFINE over == [chat EXCEPT ![c].pc = "over", ![c].got = FALSE, ![c].lock = None]
    <2>2. chat' = over \/ (current' \in Chats /\ chat' = [over EXCEPT ![current'].cancelled = TRUE])
      BY <1>3, <2>1 DEF Close, CancelCurrent
    <2>3. /\ over \in [Chats -> ChatRecord]
          /\ over[c].pc = "over" /\ over[c].task = chat[c].task /\ over[c].copy = chat[c].copy
          /\ over[c].seen = chat[c].seen /\ over[c].outcome = chat[c].outcome
          /\ over[c].cancelled = chat[c].cancelled
          /\ \A d \in Chats \ {c} : over[d] = chat[d]
      <3> DEFINE pc  == [chat EXCEPT ![c].pc = "over"]
                 got == [pc EXCEPT ![c].got = FALSE]
      <3>1. pc \in [Chats -> ChatRecord]
        BY <1>2, OneField
      <3>2. got \in [Chats -> ChatRecord]
        BY <3>1, OneField
      <3>3. [got EXCEPT ![c].lock = None] \in [Chats -> ChatRecord]
        BY <3>2, OneField
      <3>4. over = [got EXCEPT ![c].lock = None]
        OBVIOUS
      <3>5. over[c] = [chat[c] EXCEPT !.pc = "over", !.got = FALSE, !.lock = None]
        BY <1>2 DEF ChatRecord
      <3>6. \A d \in Chats \ {c} : over[d] = chat[d]
        BY <1>2
      <3>7. QED
        BY <1>2, <3>3, <3>4, <3>5, <3>6 DEF ChatRecord
    <2> HIDE DEF over
    <2>4. /\ chat' \in [Chats -> ChatRecord]
          /\ \A d \in Chats :
               /\ chat'[d].pc = over[d].pc /\ chat'[d].task = over[d].task
               /\ chat'[d].copy = over[d].copy /\ chat'[d].seen = over[d].seen
               /\ chat'[d].outcome = over[d].outcome
               /\ over[d].cancelled => chat'[d].cancelled
      <3>1. CASE chat' = over
        BY <2>3, <3>1
      <3>2. CASE current' \in Chats /\ chat' = [over EXCEPT ![current'].cancelled = TRUE]
        <4>1. chat' \in [Chats -> ChatRecord]
          BY <2>3, <3>2, OneField
        <4>2. \A d \in Chats : over[d] \in ChatRecord
          BY <2>3
        <4>3. QED
          BY <2>3, <3>2, <4>1, <4>2 DEF ChatRecord
      <3>3. QED
        BY <2>2, <3>1, <3>2
    <2>5. Typed'
      BY <1>1, <2>1, <2>4 DEF Typed
    <2>6. /\ \A d \in Chats \ {c} : SameBut(d)
          /\ chat'[c].pc = "over" /\ chat'[c].task = chat[c].task
          /\ chat'[c].copy = chat[c].copy /\ chat'[c].seen = chat[c].seen
          /\ chat[c].cancelled => chat'[c].cancelled
      BY <2>3, <2>4 DEF SameBut
    <2>7. QED
      BY <1>1, <2>1, <2>5, <2>6 DEF ChatSteps, Names, PlacedAt, FilledAt, ReadAt, Early, ChatOwes
  <1>4. CASE Disconnect(c)
    <2>1. /\ ChatSet(chat'[c], chat[c], [gone |-> TRUE]) /\ ChatTyped(chat[c])
          /\ \A d \in Chats : d # c => chat'[d] = chat[d]
          /\ ChatTyped(chat'[c]) => chat' \in [Chats -> ChatRecord]
      BY <1>1, <1>4, Chatted DEF Disconnect
    <2>2. /\ UNCHANGED <<doc, registered, task, lock, stop, warm, taken>>
          /\ current' \in Chats \cup {None} /\ faults' \in 0 .. MaxFaults
      BY <1>1, <1>4, BlankFault DEF Disconnect, Typed
    <2>3. Typed'
      <3>1. ChatTyped(chat'[c])
        BY <2>1 DEF ChatSet, ChatTyped
      <3>2. QED
        BY <1>1, <2>1, <2>2, <3>1 DEF Typed
    <2>4. QED
      BY <1>1, <2>1, <2>2, <2>3 DEF ChatSteps, ChatSet, SameBut, Names,
         PlacedAt, FilledAt, ReadAt, Early, ChatOwes
  <1>5. QED
    BY <1>3, <1>4

LEMMA CancelSteps ==
  ASSUME IInv, UserCancels
  PROVE  current \in Chats /\ ChatSteps(current)
  <1>1. /\ Typed /\ current \in Chats /\ PlacedAt(current) /\ BornAt(current)
        /\ FilledAt(current) /\ ReadAt(current)
    BY InvParts DEF UserCancels, Typed
  <1>2. /\ UNCHANGED <<doc, registered, task, current, lock, stop, warm, taken>>
        /\ faults' \in 0 .. MaxFaults
        /\ chat' = [chat EXCEPT ![current].cancelled = TRUE]
    BY <1>1, BlankFault DEF UserCancels, CancelCurrent
  <1>3. chat \in [Chats -> ChatRecord] /\ \A d \in Chats : chat[d] \in ChatRecord
    BY <1>1 DEF Typed
  <1>4. /\ chat' \in [Chats -> ChatRecord]
        /\ \A d \in Chats : SameBut(d)
        /\ chat'[current].cancelled
    <2>1. chat' \in [Chats -> ChatRecord]
      BY <1>1, <1>2, <1>3, OneField
    <2>2. chat'[current] = [chat[current] EXCEPT !.cancelled = TRUE]
      BY <1>1, <1>2, <1>3
    <2>3. \A d \in Chats \ {current} : chat'[d] = chat[d]
      BY <1>1, <1>2, <1>3
    <2>4. /\ chat'[current].cancelled /\ chat'[current].pc = chat[current].pc
          /\ chat'[current].task = chat[current].task /\ chat'[current].copy = chat[current].copy
          /\ chat'[current].seen = chat[current].seen
          /\ chat'[current].outcome = chat[current].outcome
      BY <1>1, <1>3, <2>2 DEF ChatRecord
    <2>5. QED
      BY <2>1, <2>3, <2>4 DEF SameBut
  <1>5. Typed'
    BY <1>1, <1>2, <1>4 DEF Typed
  <1>6. ~NeverCancelled'
    BY <1>1, <1>4 DEF NeverCancelled
  <1>7. QED
    BY <1>1, <1>2, <1>4, <1>5, <1>6 DEF ChatSteps, SameBut, Names, PlacedAt, FilledAt,
       ReadAt, Early


-----------------------------------------------------------------------------
(* The actions of a chat that its task or another feels.                    *)

\* the task only has its flag set, or only leaves the registry
LEMMA CancelDoes ==
  ASSUME Typed, NEW t \in Chats, Cancel(t)
  PROVE  /\ task' \in [Chats -> TaskRecord] /\ registered' \subseteq registered
         /\ \A u \in Chats : /\ task'[u].pc = task[u].pc /\ task'[u].in = task[u].in
                             /\ task'[u].out = task[u].out
  <1>1. CASE Live(t)
    <2>1. Task(t, [cancel |-> TRUE]) /\ registered' = registered
      BY <1>1 DEF Cancel
    <2>2. /\ TaskSet(task'[t], task[t], [cancel |-> TRUE]) /\ TaskTyped(task[t])
          /\ \A d \in Chats : d # t => task'[d] = task[d]
          /\ TaskTyped(task'[t]) => task' \in [Chats -> TaskRecord]
      BY <2>1, Tasked
    <2>3. TaskTyped(task'[t])
      BY <2>2 DEF TaskSet, TaskTyped
    <2>4. QED
      BY <2>1, <2>2, <2>3 DEF TaskSet
  <1>2. CASE ~Live(t)
    <2>1. task' = task /\ registered' = registered \ {t}
      BY <1>2 DEF Cancel
    <2>2. QED
      BY <2>1 DEF Typed
  <1>3. QED
    BY <1>1, <1>2

LEMMA CancelRegisteredDoes ==
  ASSUME Typed, CancelRegistered(doc.task)
  PROVE  /\ task' \in [Chats -> TaskRecord] /\ registered' \subseteq registered
         /\ \A u \in Chats : /\ task'[u].pc = task[u].pc /\ task'[u].in = task[u].in
                             /\ task'[u].out = task[u].out
  <1>1. CASE Lookup(doc.task) = None
    <2>1. UNCHANGED <<task, registered>>
      BY <1>1 DEF CancelRegistered
    <2>2. QED
      BY <2>1 DEF Typed
  <1>2. CASE Lookup(doc.task) # None
    <2>1. doc.task \in Chats /\ Cancel(doc.task)
      BY <1>2 DEF CancelRegistered, Lookup, Typed
    <2>2. QED
      BY <2>1, CancelDoes
  <1>3. QED
    BY <1>1, <1>2

\* a chat that ends and cancels tasks, and owes the document what it says now
ChatCancels(c) ==
  /\ Typed' /\ UNCHANGED <<doc, stop, warm>> /\ registered' \subseteq registered
  /\ \A u \in Chats : task'[u].pc = task[u].pc /\ task'[u].in = task[u].in
                      /\ task'[u].out = task[u].out
  /\ \A d \in Chats \ {c} : SameBut(d)
  /\ chat'[c].task = chat[c].task /\ chat'[c].copy = chat[c].copy
  /\ chat'[c].seen = chat[c].seen
  /\ chat'[c].pc \in {"write", "close", "tear"}
  /\ chat'[c].pc \in {"write", "tear"} => chat'[c].outcome \in Terminal \cup {"failing"}
  /\ NeverCancelled' /\ doc'.status = "running" => chat'[c].pc = "write"

LEMMA ChatCancelsKeep ==
  ASSUME IInv, NEW c \in Chats, ChatCancels(c)
  PROVE  IInv'
  <1>1. /\ Typed /\ AutoKnown /\ Pledged
        /\ \A d \in Chats : PlacedAt(d) /\ BornAt(d) /\ FilledAt(d) /\ ReadAt(d)
    BY InvParts
  <1>2. \A d \in Chats \ {c} : PlacedAt(d)'
    BY <1>1 DEF ChatCancels, SameBut, PlacedAt
  <1>3. PlacedAt(c)'
    BY <1>1 DEF ChatCancels, PlacedAt, Early
  <1>4. \A d \in Chats : FilledAt(d)'
    <2>1. \A d \in Chats : chat'[d].pc = "run" => PlacedAt(d) /\ chat[d].pc = "run"
                                                  /\ chat'[d].task = chat[d].task
      BY <1>1 DEF ChatCancels, SameBut
    <2>2. QED
      BY <1>1, <2>1 DEF ChatCancels, FilledAt, PlacedAt
  <1>5. \A d \in Chats : ReadAt(d)'
    <2>1. \A d \in Chats : /\ chat'[d].seen = chat[d].seen /\ chat'[d].task = chat[d].task
                           /\ chat[d].task \in Chats \cup {None}
      BY <1>1 DEF ChatCancels, SameBut, Typed, ChatRecord
    <2>2. QED
      BY <1>1, <2>1 DEF ChatCancels, ReadAt
  <1>6. \A e \in Chats : UnknownTo(e) => UnknownTo(e)'
    BY DEF ChatCancels, UnknownTo, SameBut
  <1>7. \A d \in Chats : BornAt(d)'
    BY <1>1, <1>6 DEF ChatCancels, SameBut, BornAt, Early
  <1>8. Pledged'
    BY DEF ChatCancels, Pledged, Owed, ChatOwes
  <1>9. AutoKnown'
    BY <1>1 DEF AutoKnown, ChatCancels
  <1>10. QED
    BY <1>2, <1>3, <1>4, <1>5, <1>7, <1>8, <1>9, InvParts DEF ChatCancels

LEMMA CancellingSteps ==
  ASSUME IInv, NEW c \in Chats, ArriveCancelled(c) \/ RelayCancelled(c) \/ Teardown(c)
  PROVE  ChatCancels(c)
  <1>1. Typed /\ PlacedAt(c)
    BY InvParts
  <1>2. CASE ArriveCancelled(c)
    <2> DEFINE r == IF Live(Lookup(doc.task)) /\ ~Torn
                    THEN [pc |-> "write", outcome |-> "cancelled"] ELSE [pc |-> "close"]
    <2>1. /\ chat[c].cancelled /\ UNCHANGED <<doc, current, stop, warm, taken, faults>>
          /\ Chat(c, r) /\ lock' \in {None, lock}
      BY <1>2 DEF ArriveCancelled
    <2>2. \/ Chat(c, [pc |-> "write", outcome |-> "cancelled"])
          \/ Chat(c, [pc |-> "close"])
      BY <2>1
    <2>3. /\ task' \in [Chats -> TaskRecord] /\ registered' \subseteq registered
          /\ \A u \in Chats : /\ task'[u].pc = task[u].pc /\ task'[u].in = task[u].in
                              /\ task'[u].out = task[u].out
      <3>1. CASE Live(Lookup(doc.task))
        <4>1. doc.task \in Chats /\ Cancel(doc.task)
          BY <1>1, <1>2, <3>1 DEF ArriveCancelled, Live, Lookup, Typed
        <4>2. QED
          BY <1>1, <4>1, CancelDoes
      <3>2. CASE ~Live(Lookup(doc.task))
        BY <1>1, <1>2, <3>2 DEF ArriveCancelled, Typed
      <3>3. QED
        BY <3>1, <3>2
    <2> HIDE DEF r
    <2>4. /\ chat' \in [Chats -> ChatRecord] /\ \A d \in Chats : d # c => chat'[d] = chat[d]
          /\ chat'[c].cancelled /\ chat'[c].pc \in {"write", "close"}
          /\ chat'[c].pc = "write" => chat'[c].outcome = "cancelled"
          /\ chat'[c].task = chat[c].task /\ chat'[c].copy = chat[c].copy
          /\ chat'[c].seen = chat[c].seen
      <3>1. CASE Chat(c, [pc |-> "write", outcome |-> "cancelled"])
        <4>1. /\ ChatSet(chat'[c], chat[c], [pc |-> "write", outcome |-> "cancelled"])
              /\ ChatTyped(chat[c]) /\ \A d \in Chats : d # c => chat'[d] = chat[d]
              /\ ChatTyped(chat'[c]) => chat' \in [Chats -> ChatRecord]
          BY <1>1, <3>1, Chatted
        <4>2. ChatTyped(chat'[c])
          BY <4>1 DEF ChatSet, ChatTyped, InDomain, Outcomes, Terminal
        <4>3. QED
          BY <2>1, <4>1, <4>2 DEF ChatSet
      <3>2. CASE Chat(c, [pc |-> "close"])
        <4>1. /\ ChatSet(chat'[c], chat[c], [pc |-> "close"])
              /\ ChatTyped(chat[c]) /\ \A d \in Chats : d # c => chat'[d] = chat[d]
              /\ ChatTyped(chat'[c]) => chat' \in [Chats -> ChatRecord]
          BY <1>1, <3>2, Chatted
        <4>2. ChatTyped(chat'[c])
          BY <4>1 DEF ChatSet, ChatTyped
        <4>3. QED
          BY <2>1, <4>1, <4>2 DEF ChatSet
      <3>3. QED
        BY <2>2, <3>1, <3>2
    <2>5. Typed'
      BY <1>1, <2>1, <2>3, <2>4 DEF Typed
    <2>6. ~NeverCancelled'
      BY <2>4 DEF NeverCancelled
    <2>7. QED
      BY <2>1, <2>3, <2>4, <2>5, <2>6 DEF ChatCancels, SameBut, Terminal
  <1>3. CASE RelayCancelled(c)
    <2>1. /\ chat[c].cancelled /\ UNCHANGED <<doc, current, lock, stop, warm, taken, faults>>
          /\ Chat(c, [pc |-> "tear", outcome |-> "cancelled"])
          /\ chat[c].task \in Chats /\ Cancel(chat[c].task)
      BY <1>1, <1>3 DEF RelayCancelled, PlacedAt
    <2>2. /\ task' \in [Chats -> TaskRecord] /\ registered' \subseteq registered
          /\ \A u \in Chats : /\ task'[u].pc = task[u].pc /\ task'[u].in = task[u].in
                              /\ task'[u].out = task[u].out
      BY <1>1, <2>1, CancelDoes
    <2>3. /\ ChatSet(chat'[c], chat[c], [pc |-> "tear", outcome |-> "cancelled"])
          /\ ChatTyped(chat[c]) /\ \A d \in Chats : d # c => chat'[d] = chat[d]
          /\ ChatTyped(chat'[c]) => chat' \in [Chats -> ChatRecord]
      BY <1>1, <2>1, Chatted
    <2>4. ChatTyped(chat'[c])
      BY <2>3 DEF ChatSet, ChatTyped, InDomain, Outcomes, Terminal
    <2>5. Typed'
      BY <1>1, <2>1, <2>2, <2>3, <2>4 DEF Typed
    <2>6. ~NeverCancelled'
      BY <2>1, <2>3 DEF NeverCancelled, ChatSet
    <2>7. QED
      BY <2>1, <2>2, <2>3, <2>5, <2>6 DEF ChatCancels, ChatSet, SameBut, Terminal
  <1>4. CASE Teardown(c)
    <2> DEFINE pc == IF Torn THEN "close" ELSE "write"
    <2>1. /\ chat[c].pc = "tear" /\ chat[c].outcome \in Terminal \cup {"failing"}
          /\ UNCHANGED <<doc, current, stop, warm, taken, faults>>
          /\ Chat(c, [pc |-> pc]) /\ lock' \in {lock, None}
          /\ UNCHANGED <<task, registered>> \/ CancelRegistered(doc.task)
      BY <1>1, <1>4 DEF Teardown, PlacedAt
    <2>2. pc \in {"close", "write"} /\ (doc.status = "running" => pc = "write")
      BY DEF Torn, Terminal
    <2> HIDE DEF pc
    <2>3. /\ task' \in [Chats -> TaskRecord] /\ registered' \subseteq registered
          /\ \A u \in Chats : /\ task'[u].pc = task[u].pc /\ task'[u].in = task[u].in
                              /\ task'[u].out = task[u].out
      <3>1. CASE UNCHANGED <<task, registered>>
        BY <1>1, <3>1 DEF Typed
      <3>2. CASE CancelRegistered(doc.task)
        BY <1>1, <3>2, CancelRegisteredDoes
      <3>3. QED
        BY <2>1, <3>1, <3>2
    <2>4. /\ ChatSet(chat'[c], chat[c], [pc |-> pc])
          /\ ChatTyped(chat[c]) /\ \A d \in Chats : d # c => chat'[d] = chat[d]
          /\ ChatTyped(chat'[c]) => chat' \in [Chats -> ChatRecord]
      BY <1>1, <2>1, Chatted
    <2>5. ChatTyped(chat'[c])
      BY <2>2, <2>4 DEF ChatSet, ChatTyped, InDomain
    <2>6. Typed'
      BY <1>1, <2>1, <2>3, <2>4, <2>5 DEF Typed
    <2>7. QED
      BY <2>1, <2>2, <2>3, <2>4, <2>6 DEF ChatCancels, ChatSet, SameBut
  <1>5. QED
    BY <1>2, <1>3, <1>4


\* a chat that creates, tells or starts task t
ChatTasks(c, t) ==
  /\ Typed' /\ UNCHANGED <<stop, warm>> /\ registered' \subseteq registered \cup {c}
  /\ t \in Chats /\ t \in {c, chat[c].task}
  /\ \A d \in Chats \ {c} : SameBut(d)
  /\ chat[c].cancelled => chat'[c].cancelled
  /\ (Names(c))' \subseteq Names(c) \cup {None}
  /\ \A u \in Chats \ {t} : task'[u] = task[u]
  /\ task'[t].out = task[t].out
  /\ task[t].in # <<>> => task'[t].in # <<>>
  /\ task'[t].pc = "new" => task[t].pc = "new" \/ (t = c /\ chat'[c].pc = "bind3")
  /\ task[t].pc = "new" /\ task'[t].pc # "new" => TaskOwes(t)'
  /\ TaskOwes(t) => TaskOwes(t)'
  /\ chat'[c].pc \in Early =>
       t = c /\ chat[c].pc \in Early /\ chat'[c].pc = "bind3" /\ task'[c].pc = "new"
  /\ PlacedAt(c)' /\ FilledAt(c)' /\ ReadAt(c)'
  /\ doc'.status = "running" =>
       (doc.status = "running" /\ ~ChatOwes(c)) \/ ChatOwes(c)' \/ TaskOwes(t)'

LEMMA ChatTasksKeep ==
  ASSUME IInv, NEW c \in Chats, NEW t, ChatTasks(c, t)
  PROVE  IInv'
  <1>1. /\ Typed /\ AutoKnown /\ Pledged
        /\ \A d \in Chats : PlacedAt(d) /\ BornAt(d) /\ FilledAt(d) /\ ReadAt(d)
    BY InvParts
  <1>2. /\ Typed' /\ UNCHANGED <<stop, warm>> /\ t \in Chats
        /\ \A d \in Chats \ {c} : SameBut(d)
        /\ \A u \in Chats \ {t} : task'[u] = task[u]
        /\ task'[t].out = task[t].out
        /\ PlacedAt(c)' /\ FilledAt(c)' /\ ReadAt(c)'
    BY DEF ChatTasks
  <1>3. \A d \in Chats \ {c} : PlacedAt(d)'
    BY <1>1, <1>2 DEF SameBut, PlacedAt
  <1>4. \A d \in Chats \ {c} : FilledAt(d)'
    <2>1. SUFFICES ASSUME NEW d \in Chats \ {c}, chat[d].pc = "run", task'[chat[d].task].pc = "new"
                   PROVE  task'[chat[d].task].in # <<>>
      BY <1>2 DEF FilledAt, SameBut
    <2>2. chat[d].task \in Chats
      BY <1>1, <2>1 DEF PlacedAt
    <2>3. CASE chat[d].task # t
      BY <1>1, <1>2, <2>1, <2>2, <2>3 DEF FilledAt
    <2>4. CASE chat[d].task = t
      <3>1. ~(t = c /\ chat'[c].pc = "bind3")
        BY <1>1, <2>1, <2>4 DEF ChatTasks, BornAt, UnknownTo, Early
      <3>2. QED
        BY <1>1, <2>1, <2>4, <3>1 DEF ChatTasks, FilledAt
    <2>5. QED
      BY <2>3, <2>4
  <1>5. \A d \in Chats \ {c} : ReadAt(d)'
    <2>1. ASSUME NEW d \in Chats \ {c} PROVE ReadAt(d)'
      <3>1. /\ chat'[d].task = chat[d].task /\ chat'[d].seen = chat[d].seen
            /\ chat[d].task \in Chats \cup {None} /\ ReadAt(d)
        BY <1>1, <1>2 DEF SameBut, Typed, ChatRecord
      <3>2. chat[d].task \in Chats => task'[chat[d].task].out = task[chat[d].task].out
        BY <1>2
      <3>3. QED
        BY <3>1, <3>2 DEF ReadAt
    <2>2. QED
      BY <2>1
  <1>6. \A e \in Chats : UnknownTo(e) => UnknownTo(e)'
    <2>1. ASSUME NEW e \in Chats, UnknownTo(e) PROVE UnknownTo(e)'
      <3>1. e \notin (Names(c))'
        BY <2>1, SessionAssumption DEF ChatTasks, Names, UnknownTo
      <3>2. QED
        BY <1>2, <2>1, <3>1 DEF Names, UnknownTo, SameBut
    <2>2. QED
      BY <2>1
  <1>7. \A d \in Chats \ {c} : BornAt(d)'
    <2>1. ASSUME NEW d \in Chats \ {c}, chat[d].pc \in Early PROVE d # t
      BY <1>1, <2>1 DEF BornAt, UnknownTo, ChatTasks
    <2>2. QED
      BY <1>1, <1>2, <1>6, <2>1 DEF ChatTasks, SameBut, BornAt, Early
  <1>8. BornAt(c)'
    BY <1>1, <1>6 DEF ChatTasks, BornAt, Early
  <1>9. Pledged'
    <2>1. SUFFICES ASSUME NeverCancelled', NeverCut', doc'.status = "running"
                   PROVE  Owed'
      BY DEF Pledged
    <2>2. \A u \in Chats : TaskOwes(u) => TaskOwes(u)'
      BY <1>2 DEF TaskOwes, ChatTasks
    <2>3. \A d \in Chats \ {c} : ChatOwes(d) => ChatOwes(d)' \/ TaskOwes(t)'
      <3>1. ASSUME NEW d \in Chats \ {c}, ChatOwes(d), ~TaskOwes(t)' PROVE ChatOwes(d)'
        <4>1. d # t => task'[d] = task[d]
          BY <1>2
        <4>2. d = t /\ task[d].pc = "new" => task'[d].pc = "new"
          BY <3>1 DEF ChatTasks
        <4>3. QED
          BY <1>2, <3>1, <4>1, <4>2 DEF ChatOwes, SameBut
      <3>2. QED
        BY <3>1
    <2>4. CASE ChatOwes(c)' \/ TaskOwes(t)'
      BY <1>2, <2>4 DEF Owed
    <2>5. CASE doc.status = "running" /\ ~ChatOwes(c)
      <3>1. NeverCancelled /\ NeverCut
        BY <1>2, <2>1 DEF ChatTasks, NeverCancelled, NeverCut, SameBut
      <3>2. Owed
        BY <1>1, <2>5, <3>1 DEF Pledged
      <3>3. QED
        BY <1>2, <2>2, <2>3, <2>5, <3>2 DEF Owed, StopOwes, WarmOwes
    <2>6. QED
      BY <2>1, <2>4, <2>5 DEF ChatTasks
  <1>10. AutoKnown'
    BY <1>1, <1>2 DEF AutoKnown
  <1>11. QED
    BY <1>2, <1>3, <1>4, <1>5, <1>7, <1>8, <1>9, <1>10, InvParts


LEMMA CreateTaskSteps ==
  ASSUME IInv, NEW c \in Chats, CreateTask(c)
  PROVE  ChatTasks(c, c)
  <1>1. Typed /\ PlacedAt(c) /\ BornAt(c) /\ ReadAt(c)
    BY InvParts
  <1>2. /\ chat[c].pc = "bind2" /\ doc' = chat[c].copy /\ registered' = registered \cup {c}
        /\ Task(c, [pc |-> "new"]) /\ Chat(c, [pc |-> "bind3"])
        /\ UNCHANGED <<current, lock, stop, warm, taken, faults>>
    BY DEF CreateTask
  <1>3. /\ ChatSet(chat'[c], chat[c], [pc |-> "bind3"])
        /\ ChatTyped(chat[c]) /\ \A d \in Chats : d # c => chat'[d] = chat[d]
        /\ ChatTyped(chat'[c]) => chat' \in [Chats -> ChatRecord]
    BY <1>1, <1>2, Chatted
  <1>4. /\ TaskSet(task'[c], task[c], [pc |-> "new"])
        /\ TaskTyped(task[c]) /\ \A d \in Chats : d # c => task'[d] = task[d]
        /\ TaskTyped(task'[c]) => task' \in [Chats -> TaskRecord]
    BY <1>1, <1>2, Tasked
  <1>5. Typed'
    <2>1. ChatTyped(chat'[c])
      BY <1>3 DEF ChatSet, ChatTyped, InDomain, Creating
    <2>2. TaskTyped(task'[c])
      BY <1>4 DEF TaskSet, TaskTyped, TaskPlaces
    <2>3. doc' \in Documents
      BY <1>2, <1>3 DEF ChatTyped
    <2>4. QED
      BY <1>1, <1>2, <1>3, <1>4, <2>1, <2>2, <2>3 DEF Typed
  <1>6. task[c].pc = "none" /\ chat[c].task = None /\ chat[c].seen = 0
    BY <1>1, <1>2 DEF BornAt, PlacedAt, Early
  <1>7. /\ chat'[c].pc = "bind3" /\ chat'[c].task = None /\ chat'[c].seen = 0
        /\ chat'[c].copy = chat[c].copy /\ chat'[c].cancelled = chat[c].cancelled
        /\ task'[c].pc = "new" /\ task'[c].in = task[c].in /\ task'[c].out = task[c].out
    BY <1>3, <1>4, <1>6 DEF ChatSet, TaskSet
  <1>8. QED
    BY <1>1, <1>2, <1>3, <1>4, <1>5, <1>6, <1>7 DEF ChatTasks, SameBut, Names, PlacedAt,
       FilledAt, ReadAt, Early, TaskOwes, Owing, ChatOwes

LEMMA OutLength ==
  ASSUME NEW s \in Seq(Events)
  PROVE  Len(s) \in Nat
  OBVIOUS

LEMMA ReactivateSteps ==
  ASSUME IInv, NEW c \in Chats, Reactivate(c)
  PROVE  ChatTasks(c, c)
  <1>1. Typed /\ PlacedAt(c) /\ BornAt(c) /\ ReadAt(c)
    BY InvParts
  <1>2. /\ chat[c].pc = "bind4"
        /\ task' = task \/ Task(c, [in |-> <<"context">>])
        /\ Chat(c, [pc |-> "put", lock |-> None, copy |-> Blank])
        /\ UNCHANGED <<doc, registered, current, lock, stop, warm, taken, faults>>
    BY DEF Reactivate
  <1>3. /\ ChatSet(chat'[c], chat[c], [pc |-> "put", lock |-> None, copy |-> Blank])
        /\ ChatTyped(chat[c]) /\ \A d \in Chats : d # c => chat'[d] = chat[d]
        /\ ChatTyped(chat'[c]) => chat' \in [Chats -> ChatRecord]
    BY <1>1, <1>2, Chatted
  <1>4. /\ task' \in [Chats -> TaskRecord] /\ \A d \in Chats : d # c => task'[d] = task[d]
        /\ task'[c].pc = task[c].pc /\ task'[c].out = task[c].out
        /\ task'[c].cancel = task[c].cancel
        /\ task[c].in # <<>> => task'[c].in # <<>>
    <2>1. CASE task' = task
      BY <1>1, <2>1 DEF Typed
    <2>2. CASE Task(c, [in |-> <<"context">>])
      <3>1. /\ TaskSet(task'[c], task[c], [in |-> <<"context">>])
            /\ TaskTyped(task[c]) /\ \A d \in Chats : d # c => task'[d] = task[d]
            /\ TaskTyped(task'[c]) => task' \in [Chats -> TaskRecord]
        BY <1>1, <2>2, Tasked
      <3>2. <<"context">> \in Seq(Chats \cup {"context"}) /\ <<"context">> # <<>>
        OBVIOUS
      <3>3. TaskTyped(task'[c])
        BY <3>1, <3>2 DEF TaskSet, TaskTyped
      <3>4. QED
        BY <3>1, <3>2, <3>3 DEF TaskSet
    <2>3. QED
      BY <1>2, <2>1, <2>2
  <1>5. Typed'
    <2>1. ChatTyped(chat'[c])
      BY <1>3, BlankFault DEF ChatSet, ChatTyped, InDomain
    <2>2. QED
      BY <1>1, <1>2, <1>3, <1>4, <2>1 DEF Typed
  <1>6. chat[c].task = c /\ chat[c].seen = 0
    BY <1>1, <1>2 DEF PlacedAt
  <1>7. /\ chat'[c].pc = "put" /\ chat'[c].task = c /\ chat'[c].seen = 0
        /\ chat'[c].copy = Blank /\ chat'[c].cancelled = chat[c].cancelled
    BY <1>3, <1>6 DEF ChatSet
  <1>8. (Names(c))' \subseteq Names(c) \cup {None}
    BY <1>2, <1>6, <1>7, BlankFault DEF Names
  <1>9. ReadAt(c)' /\ PlacedAt(c)' /\ FilledAt(c)'
    <2>1. c # None /\ task'[c].out \in Seq(Events)
      BY <1>5, SessionAssumption DEF Typed, TaskRecord
    <2>2. QED
      BY <1>7, <2>1, OutLength DEF ReadAt, PlacedAt, FilledAt, Early
  <1>10. (TaskOwes(c) => TaskOwes(c)') /\ (ChatOwes(c) => ChatOwes(c)')
    <2>1. /\ task'[c].pc = task[c].pc /\ task'[c].cancel = task[c].cancel
          /\ task[c].in # <<>> => task'[c].in # <<>>
      BY <1>4
    <2>2. TaskOwes(c) => TaskOwes(c)'
      BY <2>1 DEF TaskOwes
    <2>3. ChatOwes(c) => ChatOwes(c)'
      BY <1>2, <1>6, <1>7, <2>1 DEF ChatOwes
    <2>4. QED
      BY <2>2, <2>3
  <1>11. QED
    BY <1>1, <1>2, <1>3, <1>4, <1>5, <1>6, <1>7, <1>8, <1>9, <1>10 DEF ChatTasks, SameBut, Early

LEMMA PutSteps ==
  ASSUME IInv, NEW c \in Chats, Put(c)
  PROVE  ChatTasks(c, chat[c].task)
  <1> DEFINE t == chat[c].task
             in == Append(task[t].in, c)
  <1>1. Typed /\ PlacedAt(c) /\ \A d \in Chats : ReadAt(d)
    BY InvParts
  <1>2. PICK seen \in {0} \cup {chat[d].seen : d \in {e \in Chats : chat[e].task = t}} :
          Chat(c, [pc |-> Yielded(c, "run"), seen |-> seen])
    BY DEF Put
  <1>3. /\ chat[c].pc = "put" /\ Task(t, [in |-> in]) /\ t \in Chats
        /\ UNCHANGED <<doc, registered, current, lock, stop, warm, taken, faults>>
    <2>1. chat[c].pc = "put" /\ Task(t, [in |-> in])
          /\ UNCHANGED <<doc, registered, current, lock, stop, warm, taken, faults>>
      BY DEF Put
    <2>2. QED
      BY <1>1, <2>1 DEF PlacedAt
  <1>4. task[t].in \in Seq(Chats \cup {"context"}) /\ Len(task[t].out) \in Nat
    <2>1. task[t].in \in Seq(Chats \cup {"context"}) /\ task[t].out \in Seq(Events)
      BY <1>1, <1>3 DEF Typed, TaskRecord
    <2>2. QED
      BY <2>1
  <1>5. in \in Seq(Chats \cup {"context"}) /\ in # <<>>
    BY <1>4
  <1>6. seen \in Nat /\ seen <= Len(task[t].out)
    <2>1. CASE seen = 0
      BY <1>4, <2>1
    <2>2. ASSUME NEW d \in Chats, chat[d].task = t, seen = chat[d].seen
          PROVE  seen \in Nat /\ seen <= Len(task[t].out)
      BY <1>1, <1>3, <2>2, SessionAssumption DEF ReadAt, Typed, ChatRecord
    <2>3. QED
      BY <2>1, <2>2
  <1>7. /\ ChatSet(chat'[c], chat[c], [pc |-> Yielded(c, "run"), seen |-> seen])
        /\ ChatTyped(chat[c]) /\ \A d \in Chats : d # c => chat'[d] = chat[d]
        /\ ChatTyped(chat'[c]) => chat' \in [Chats -> ChatRecord]
    BY <1>1, <1>2, Chatted
  <1> HIDE DEF in
  <1>8. /\ TaskSet(task'[t], task[t], [in |-> in])
        /\ TaskTyped(task[t]) /\ \A d \in Chats : d # t => task'[d] = task[d]
        /\ TaskTyped(task'[t]) => task' \in [Chats -> TaskRecord]
    BY <1>1, <1>3, Tasked
  <1>9. Typed'
    <2>1. ChatTyped(chat'[c])
      BY <1>6, <1>7 DEF ChatSet, ChatTyped, InDomain, Yielded
    <2>2. TaskTyped(task'[t])
      BY <1>5, <1>8 DEF TaskSet, TaskTyped
    <2>3. QED
      BY <1>1, <1>3, <1>7, <1>8, <2>1, <2>2 DEF Typed
  <1>10. /\ chat'[c].pc \in {"run", "over"} /\ chat'[c].task = t /\ chat'[c].seen = seen
         /\ chat'[c].copy = chat[c].copy /\ chat'[c].cancelled = chat[c].cancelled
         /\ task'[t].pc = task[t].pc /\ task'[t].out = task[t].out /\ task'[t].in # <<>>
         /\ task'[t].cancel = task[t].cancel
    BY <1>5, <1>7, <1>8 DEF ChatSet, TaskSet, Yielded
  <1>11. ReadAt(c)' /\ PlacedAt(c)' /\ FilledAt(c)'
    BY <1>3, <1>6, <1>10, SessionAssumption DEF ReadAt, PlacedAt, FilledAt, Early
  <1>12. /\ (TaskOwes(t) => TaskOwes(t)') /\ (ChatOwes(c) => TaskOwes(t)')
         /\ (Names(c))' \subseteq Names(c)
    BY <1>3, <1>10 DEF TaskOwes, ChatOwes, Names
  <1>13. QED
    BY <1>3, <1>7, <1>8, <1>9, <1>10, <1>11, <1>12 DEF ChatTasks, SameBut, Early

LEMMA RunSteps ==
  ASSUME IInv, NEW c \in Chats, Run(c)
  PROVE  ChatTasks(c, chat[c].task)
  <1> DEFINE t == chat[c].task
  <1>1. Typed /\ PlacedAt(c) /\ ReadAt(c)
    BY InvParts
  <1>2. /\ chat[c].pc = "run" /\ t \in Chats /\ Chat(c, [pc |-> "relay"])
        /\ \/ Live(t) /\ task' = task
           \/ ~Live(t) /\ Task(t, [pc |-> "ready", fresh |-> TRUE, cancel |-> FALSE])
        /\ UNCHANGED <<doc, registered, current, lock, stop, warm, taken, faults>>
    BY <1>1 DEF Run, PlacedAt
  <1>3. /\ ChatSet(chat'[c], chat[c], [pc |-> "relay"])
        /\ ChatTyped(chat[c]) /\ \A d \in Chats : d # c => chat'[d] = chat[d]
        /\ ChatTyped(chat'[c]) => chat' \in [Chats -> ChatRecord]
    BY <1>1, <1>2, Chatted
  <1>4. /\ task' \in [Chats -> TaskRecord] /\ \A d \in Chats : d # t => task'[d] = task[d]
        /\ task'[t].out = task[t].out /\ task'[t].in = task[t].in
        /\ \/ task[t].pc # "new" /\ task'[t] = task[t]
           \/ task'[t].pc = "ready" /\ ~task'[t].cancel
    <2>1. CASE Live(t) /\ task' = task
      BY <1>1, <2>1 DEF Typed, Live
    <2>2. CASE Task(t, [pc |-> "ready", fresh |-> TRUE, cancel |-> FALSE])
      <3>1. /\ TaskSet(task'[t], task[t], [pc |-> "ready", fresh |-> TRUE, cancel |-> FALSE])
            /\ TaskTyped(task[t]) /\ \A d \in Chats : d # t => task'[d] = task[d]
            /\ TaskTyped(task'[t]) => task' \in [Chats -> TaskRecord]
        BY <1>1, <1>2, <2>2, Tasked
      <3>2. TaskTyped(task'[t])
        BY <3>1 DEF TaskSet, TaskTyped, TaskPlaces
      <3>3. QED
        BY <3>1, <3>2 DEF TaskSet
    <2>3. QED
      BY <1>2, <2>1, <2>2
  <1>5. Typed'
    <2>1. ChatTyped(chat'[c])
      BY <1>3 DEF ChatSet, ChatTyped, InDomain
    <2>2. QED
      BY <1>1, <1>2, <1>3, <1>4, <2>1 DEF Typed
  <1>6. /\ chat'[c].pc = "relay" /\ chat'[c].task = t /\ chat'[c].seen = chat[c].seen
        /\ chat'[c].copy = chat[c].copy /\ chat'[c].cancelled = chat[c].cancelled
    BY <1>3 DEF ChatSet
  <1>7. ReadAt(c)' /\ PlacedAt(c)' /\ FilledAt(c)'
    BY <1>1, <1>2, <1>4, <1>6, SessionAssumption DEF ReadAt, PlacedAt, FilledAt, Early
  <1>8. /\ (TaskOwes(t) => TaskOwes(t)') /\ (ChatOwes(c) => TaskOwes(t)')
        /\ (task[t].pc = "new" => TaskOwes(t)')
        /\ (Names(c))' \subseteq Names(c)
    BY <1>2, <1>4, <1>6 DEF TaskOwes, Owing, ChatOwes, Names
  <1>9. QED
    BY <1>2, <1>3, <1>4, <1>5, <1>6, <1>7, <1>8 DEF ChatTasks, SameBut, Early


-----------------------------------------------------------------------------
(* The actions of a task.                                                   *)

TaskSteps(t) ==
  /\ Typed' /\ UNCHANGED <<chat, current, lock, stop, warm>> /\ registered' \subseteq registered
  /\ {task[t].pc, task'[t].pc} \cap {"none", "new"} = {}
  /\ \A u \in Chats \ {t} : task'[u] = task[u]
  /\ Len(task[t].out) <= Len(task'[t].out)
  /\ doc'.task = doc.task
  /\ doc'.status = "running" => TaskOwes(t)' \/ (doc.status = "running" /\ ~TaskOwes(t))

LEMMA TaskStepsKeep ==
  ASSUME IInv, NEW t \in Chats, TaskSteps(t)
  PROVE  IInv'
  <1>1. /\ Typed /\ AutoKnown /\ Pledged
        /\ \A d \in Chats : PlacedAt(d) /\ BornAt(d) /\ FilledAt(d) /\ ReadAt(d)
    BY InvParts
  <1>2. /\ Typed' /\ UNCHANGED <<chat, stop, warm>> /\ registered' \subseteq registered
        /\ \A u \in Chats \ {t} : task'[u] = task[u]
        /\ task[t].pc \notin {"none", "new"} /\ task'[t].pc \notin {"none", "new"}
    BY DEF TaskSteps
  <1>3. \A d \in Chats : PlacedAt(d)'
    BY <1>1, <1>2 DEF PlacedAt
  <1>4. \A d \in Chats : FilledAt(d)'
    BY <1>1, <1>2 DEF FilledAt, PlacedAt
  <1>5. \A d \in Chats : ReadAt(d)'
    <2>1. ASSUME NEW d \in Chats PROVE ReadAt(d)'
      <3>1. /\ chat'[d] = chat[d] /\ ReadAt(d) /\ chat[d].seen \in Nat
            /\ chat[d].task \in Chats \cup {None}
        BY <1>1, <1>2 DEF Typed, ChatRecord
      <3>2. \A u \in Chats : task[u].out \in Seq(Events) /\ task'[u].out \in Seq(Events)
        BY <1>1, <1>2 DEF Typed, TaskRecord
      <3>3. \A u \in Chats : Len(task[u].out) \in Nat /\ Len(task'[u].out) \in Nat
        BY <3>2, OutLength
      <3>4. \A u \in Chats : Len(task[u].out) <= Len(task'[u].out)
        BY <1>2, <3>3 DEF TaskSteps
      <3>5. CASE chat[d].task = None
        BY <3>1, <3>5 DEF ReadAt
      <3>6. CASE chat[d].task \in Chats
        <4> DEFINE u == chat[d].task
                   m == Len(task[u].out)
                   n == Len(task'[u].out)
        <4>1. u # None
          BY <3>6, SessionAssumption
        <4>2. chat[d].seen <= m
          BY <3>1, <4>1 DEF ReadAt
        <4>3. m \in Nat /\ n \in Nat /\ m <= n
          BY <3>3, <3>4, <3>6
        <4> HIDE DEF m, n
        <4>4. chat[d].seen <= n
          BY <3>1, <4>2, <4>3
        <4>5. QED
          BY <3>1, <4>1, <4>4 DEF ReadAt, n
      <3>7. QED
        BY <3>1, <3>5, <3>6
    <2>2. QED
      BY <2>1
  <1>6. \A d \in Chats : BornAt(d)'
    BY <1>1, <1>2 DEF TaskSteps, BornAt, UnknownTo, Early
  <1>7. Pledged'
    <2>1. SUFFICES ASSUME NeverCancelled', NeverCut', doc'.status = "running"
                   PROVE  Owed'
      BY DEF Pledged
    <2>2. CASE TaskOwes(t)'
      BY <2>2 DEF Owed
    <2>3. CASE doc.status = "running" /\ ~TaskOwes(t)
      <3>1. Owed
        BY <1>1, <1>2, <2>1, <2>3 DEF Pledged, NeverCancelled, NeverCut
      <3>2. \A u \in Chats : TaskOwes(u) => TaskOwes(u)'
        BY <1>2, <2>3 DEF TaskOwes
      <3>3. \A d \in Chats : ChatOwes(d) => ChatOwes(d)'
        BY <1>2 DEF ChatOwes
      <3>4. QED
        BY <1>2, <3>1, <3>2, <3>3 DEF Owed, StopOwes, WarmOwes
    <2>4. QED
      BY <2>1, <2>2, <2>3 DEF TaskSteps
  <1>8. AutoKnown'
    BY <1>1, <1>2 DEF AutoKnown
  <1>9. QED
    BY <1>2, <1>3, <1>4, <1>5, <1>6, <1>7, <1>8, InvParts

LEMMA StatusTyped ==
  ASSUME Typed, NEW s \in Statuses
  PROVE  /\ [doc EXCEPT !.status = s] \in Documents
         /\ [doc EXCEPT !.status = s].task = doc.task
         /\ [doc EXCEPT !.status = s].status = s
         /\ [doc EXCEPT !.status = s].box = doc.box
  BY DEF Typed, Documents

\* from one place to another, with a word to the session
LEMMA GoesSteps ==
  ASSUME IInv, NEW t \in Chats, NEW from \in TaskPlaces \ {"none", "new"},
         NEW to \in TaskPlaces \ {"none", "new"},
         Goes(t, from, to), taken' = taken, faults' \in 0 .. MaxFaults,
         doc' \in Documents, doc'.task = doc.task,
         doc'.status = "running" => to \in Owing \/ (doc.status = "running" /\ from \notin Owing)
  PROVE  TaskSteps(t)
  <1>1. Typed
    BY InvParts
  <1>2. /\ TaskSet(task'[t], task[t], [pc |-> to])
        /\ TaskTyped(task[t]) /\ \A d \in Chats : d # t => task'[d] = task[d]
        /\ TaskTyped(task'[t]) => task' \in [Chats -> TaskRecord]
    BY <1>1, Tasked DEF Goes
  <1>3. TaskTyped(task'[t])
    BY <1>2 DEF TaskSet, TaskTyped
  <1>4. /\ task[t].pc = from /\ ~task[t].cancel
        /\ UNCHANGED <<registered, chat, current, lock, stop, warm>>
    BY DEF Goes
  <1>5. Typed'
    BY <1>1, <1>2, <1>3, <1>4 DEF Typed
  <1>6. /\ task'[t].pc = to /\ task'[t].cancel = task[t].cancel /\ task'[t].out = task[t].out
    BY <1>2 DEF TaskSet
  <1>7. Len(task[t].out) <= Len(task'[t].out)
    <2>1. Len(task[t].out) \in Nat
      BY <1>2, OutLength DEF TaskTyped
    <2>2. QED
      BY <1>6, <2>1
  <1>8. doc'.status = "running" => TaskOwes(t)' \/ (doc.status = "running" /\ ~TaskOwes(t))
    BY <1>4, <1>6 DEF TaskOwes
  <1>9. QED
    BY <1>2, <1>4, <1>5, <1>6, <1>7, <1>8 DEF TaskSteps


LEMMA GoingSteps ==
  ASSUME IInv, NEW t \in Chats,
         \/ Begins(t) \/ NoMessage(t) \/ FlowBegins(t) \/ Waits(t) \/ Looks(t)
         \/ FlowEnds(t) \/ RunFails(t) \/ Fails(t) \/ Ends(t)
  PROVE  TaskSteps(t)
  <1>1. Typed
    BY InvParts
  <1>2. /\ doc \in Documents /\ doc.status \in Statuses /\ faults \in 0 .. MaxFaults
        /\ \A s \in Statuses : /\ [doc EXCEPT !.status = s] \in Documents
                               /\ [doc EXCEPT !.status = s].task = doc.task
                               /\ [doc EXCEPT !.status = s].status = s
    BY <1>1, StatusTyped DEF Typed, Documents
  <1>3. CASE Begins(t)
    BY <1>2, <1>3, GoesSteps DEF Begins, TaskPlaces, Owing
  <1>4. CASE NoMessage(t)
    <2>1. PICK to \in {"crash", "end"} : Goes(t, "top", to)
      BY <1>4 DEF NoMessage
    <2>2. doc' = doc /\ taken' = taken /\ faults' = faults
      BY <1>4 DEF NoMessage
    <2>3. QED
      BY <1>2, <2>1, <2>2, GoesSteps DEF TaskPlaces, Owing
  <1>5. CASE FlowBegins(t)
    <2>1. Goes(t, "begin", "flow") /\ taken' = taken /\ faults' = faults
      BY <1>5 DEF FlowBegins
    <2>2. doc' \in Documents /\ doc'.task = doc.task
      BY <1>2, <1>5 DEF FlowBegins, Statuses
    <2>3. QED
      BY <1>2, <2>1, <2>2, GoesSteps DEF TaskPlaces, Owing
  <1>6. CASE Waits(t)
    <2>1. Goes(t, "waiting", "final") /\ taken' = taken /\ faults' = faults
      BY <1>6 DEF Waits
    <2>2. doc' \in Documents /\ doc'.task = doc.task /\ doc'.status # "running"
      BY <1>2, <1>6 DEF Waits, Statuses
    <2>3. QED
      BY <1>2, <2>1, <2>2, GoesSteps DEF TaskPlaces, Owing
  <1>7. CASE Looks(t)
    <2>1. PICK to \in {"flow", "top"} : Goes(t, "look", to)
      BY <1>7 DEF Looks
    <2>2. doc' = doc /\ taken' = taken /\ faults' = faults
      BY <1>7 DEF Looks
    <2>3. QED
      BY <1>2, <2>1, <2>2, GoesSteps DEF TaskPlaces, Owing
  <1>8. CASE FlowEnds(t)
    <2>1. Goes(t, "flow", "top") /\ taken' = taken /\ faults' = faults
      BY <1>8 DEF FlowEnds
    <2>2. doc' \in Documents /\ doc'.task = doc.task
      <3>1. doc' = doc \/ \E s \in {"pending", "completed"} : doc' = [doc EXCEPT !.status = s]
        BY <1>8 DEF FlowEnds
      <3>2. {"pending", "completed"} \subseteq Statuses
        BY DEF Statuses
      <3>3. ASSUME NEW s \in {"pending", "completed"}, doc' = [doc EXCEPT !.status = s]
            PROVE  doc' \in Documents /\ doc'.task = doc.task
        BY <1>2, <3>2, <3>3
      <3>4. QED
        BY <1>2, <3>1, <3>3
    <2>3. QED
      BY <1>2, <2>1, <2>2, GoesSteps DEF TaskPlaces, Owing
  <1>9. CASE RunFails(t)
    <2>1. PICK from \in {"init", "top", "begin", "flow"} : Goes(t, from, "crash")
      BY <1>9 DEF RunFails
    <2>2. doc' = doc /\ taken' = taken /\ faults' \in 0 .. MaxFaults
      BY <1>1, <1>9, BlankFault DEF RunFails
    <2>3. QED
      BY <1>2, <2>1, <2>2, GoesSteps DEF TaskPlaces, Owing
  <1>10. CASE Fails(t)
    <2>1. Goes(t, "fail", "final") /\ taken' = taken /\ faults' = faults
      BY <1>10 DEF Fails
    <2>2. doc' \in Documents /\ doc'.task = doc.task /\ doc'.status # "running"
      BY <1>2, <1>10 DEF Fails, Statuses
    <2>3. QED
      BY <1>2, <2>1, <2>2, GoesSteps DEF TaskPlaces, Owing
  <1>11. CASE Ends(t)
    <2>1. PICK to \in {"final", "say"} : Goes(t, "end", to)
      BY <1>11 DEF Ends
    <2>2. taken' = taken /\ faults' = faults
      BY <1>11 DEF Ends
    <2>3. PICK s \in {"failed", "completed"} : doc' = [doc EXCEPT !.status = s]
      BY <1>11 DEF Ends
    <2>4. doc' \in Documents /\ doc'.task = doc.task /\ doc'.status # "running"
      BY <1>2, <2>3 DEF Statuses
    <2>5. QED
      BY <1>2, <2>1, <2>2, <2>4, GoesSteps DEF TaskPlaces, Owing
  <1>12. QED
    BY <1>3, <1>4, <1>5, <1>6, <1>7, <1>8, <1>9, <1>10, <1>11

\* one that says something
LEMMA SayingSteps ==
  ASSUME IInv, NEW t \in Chats, NEW event \in Events,
         task'[t].out = Append(task[t].out, event),
         TaskTyped(task'[t]) => task' \in [Chats -> TaskRecord],
         \A u \in Chats : u # t => task'[u] = task[u],
         task'[t].in = task[t].in, task'[t].fresh = task[t].fresh,
         task'[t].cancel = task[t].cancel, ~task[t].cancel,
         task'[t].err \in BOOLEAN, task'[t].said \in BOOLEAN, task'[t].n \in 0 .. MaxEvents,
         NEW from \in TaskPlaces \ {"none", "new"}, task[t].pc = from,
         NEW to \in TaskPlaces \ {"none", "new"}, task'[t].pc = to,
         to \in Owing \/ from \notin Owing,
         UNCHANGED <<doc, registered, chat, current, lock, stop, warm, taken, faults>>
  PROVE  TaskSteps(t)
  <1>1. Typed
    BY InvParts
  <1>2. task[t].out \in Seq(Events) /\ TaskTyped(task[t])
    BY <1>1, TaskFields DEF Typed, TaskRecord, TaskTyped
  <1>3. /\ task'[t].out \in Seq(Events)
        /\ Len(task[t].out) <= Len(task'[t].out)
    BY <1>2
  <1>4. TaskTyped(task'[t])
    BY <1>2, <1>3 DEF TaskTyped
  <1>5. Typed'
    BY <1>1, <1>4 DEF Typed
  <1>6. doc.status = "running" => TaskOwes(t)' \/ (doc.status = "running" /\ ~TaskOwes(t))
    BY DEF TaskOwes
  <1>7. QED
    BY <1>3, <1>5, <1>6 DEF TaskSteps

LEMMA TalkingSteps ==
  ASSUME IInv, NEW t \in Chats,
         \/ Announces(t) \/ Crashes(t) \/ SaysDone(t)
         \/ \E event \in Events : FlowYields(t, event)
  PROVE  TaskSteps(t)
  <1>1. Typed /\ TaskTyped(task[t])
    BY InvParts, TaskFields DEF Typed, TaskTyped, TaskRecord
  <1>2. CASE Announces(t)
    <2> DEFINE out == Say(t, "event")
    <2>1. /\ task[t].pc = "init" /\ ~task[t].cancel /\ Task(t, [pc |-> "top", out |-> out])
          /\ UNCHANGED <<doc, registered, chat, current, lock, stop, warm, taken, faults>>
      BY <1>2 DEF Announces
    <2>2. /\ TaskSet(task'[t], task[t], [pc |-> "top", out |-> out])
          /\ \A d \in Chats : d # t => task'[d] = task[d]
          /\ TaskTyped(task'[t]) => task' \in [Chats -> TaskRecord]
      BY <1>1, <2>1, Tasked
    <2>3. QED
      BY <1>1, <2>1, <2>2, SayingSteps DEF TaskSet, TaskTyped, Say, Events, TaskPlaces, Owing
  <1>3. CASE Crashes(t)
    <2> DEFINE out == Say(t, "error")
    <2>1. /\ task[t].pc = "crash" /\ ~task[t].cancel /\ Task(t, [pc |-> "fail", out |-> out])
          /\ UNCHANGED <<doc, registered, chat, current, lock, stop, warm, taken, faults>>
      BY <1>3 DEF Crashes
    <2>2. /\ TaskSet(task'[t], task[t], [pc |-> "fail", out |-> out])
          /\ \A d \in Chats : d # t => task'[d] = task[d]
          /\ TaskTyped(task'[t]) => task' \in [Chats -> TaskRecord]
      BY <1>1, <2>1, Tasked
    <2>3. QED
      BY <1>1, <2>1, <2>2, SayingSteps DEF TaskSet, TaskTyped, Say, Events, TaskPlaces, Owing
  <1>4. CASE SaysDone(t)
    <2> DEFINE out == Say(t, "done")
    <2>1. /\ task[t].pc = "say" /\ ~task[t].cancel /\ Task(t, [pc |-> "final", out |-> out])
          /\ UNCHANGED <<doc, registered, chat, current, lock, stop, warm, taken, faults>>
      BY <1>4 DEF SaysDone
    <2>2. /\ TaskSet(task'[t], task[t], [pc |-> "final", out |-> out])
          /\ \A d \in Chats : d # t => task'[d] = task[d]
          /\ TaskTyped(task'[t]) => task' \in [Chats -> TaskRecord]
      BY <1>1, <2>1, Tasked
    <2>3. QED
      BY <1>1, <2>1, <2>2, SayingSteps DEF TaskSet, TaskTyped, Say, Events, TaskPlaces, Owing
  <1>5. ASSUME NEW event \in Events, FlowYields(t, event) PROVE TaskSteps(t)
    <2> DEFINE out  == Say(t, event)
               n    == task[t].n + (IF event \in {"event", "error"} THEN 1 ELSE 0)
               err  == event = "error"
               said == event = "done"
               pc   == IF event = "wait" THEN "waiting" ELSE "look"
               r    == [out |-> out, n |-> n, err |-> err, said |-> said, pc |-> pc]
    <2>1. /\ task[t].pc = "flow" /\ ~task[t].cancel /\ Task(t, r)
          /\ event \in {"event", "error"} => task[t].n < MaxEvents
          /\ UNCHANGED <<doc, registered, chat, current, lock, stop, warm, taken, faults>>
      BY <1>5 DEF FlowYields
    <2>2. n \in 0 .. MaxEvents
      BY <1>1, <2>1, SessionAssumption DEF TaskTyped
    <2>3. /\ pc \in {"waiting", "look"} /\ err \in BOOLEAN /\ said \in BOOLEAN
          /\ out = Append(task[t].out, event)
      BY DEF Say
    <2> HIDE DEF out, n, err, said, pc
    <2>4. /\ TaskSet(task'[t], task[t], r)
          /\ \A d \in Chats : d # t => task'[d] = task[d]
          /\ TaskTyped(task'[t]) => task' \in [Chats -> TaskRecord]
      BY <1>1, <2>1, Tasked
    <2>5. /\ task'[t].out = out /\ task'[t].n = n /\ task'[t].err = err /\ task'[t].said = said
          /\ task'[t].pc = pc /\ task'[t].in = task[t].in /\ task'[t].fresh = task[t].fresh
          /\ task'[t].cancel = task[t].cancel
      BY <2>4 DEF TaskSet
    <2>6. QED
      BY <1>1, <2>1, <2>2, <2>3, <2>4, <2>5, SayingSteps DEF TaskPlaces, Owing
  <1>6. QED
    BY <1>2, <1>3, <1>4, <1>5

LEMMA WorkingSteps ==
  ASSUME IInv, NEW t \in Chats, TakesMessage(t) \/ Unregisters(t) \/ IsCancelled(t)
  PROVE  TaskSteps(t)
  <1>1. Typed /\ TaskTyped(task[t]) /\ Len(task[t].out) \in Nat
    BY InvParts, TaskFields, OutLength DEF Typed, TaskTyped, TaskRecord
  <1>2. 0 \in 0 .. MaxEvents
    BY SessionAssumption
  <1>3. CASE TakesMessage(t)
    <2> DEFINE in == Tail(task[t].in)
    <2>1. /\ task[t].pc = "top" /\ ~task[t].cancel /\ task[t].in # <<>>
          /\ taken' = taken \cup ({Head(task[t].in)} \cap Chats)
          /\ Task(t, [pc |-> "begin", in |-> in, fresh |-> FALSE,
                      err |-> FALSE, said |-> FALSE, n |-> 0])
          /\ UNCHANGED <<doc, registered, chat, current, lock, stop, warm, faults>>
      BY <1>3 DEF TakesMessage
    <2>2. in \in Seq(Chats \cup {"context"})
      BY <1>1, <2>1 DEF TaskTyped
    <2> HIDE DEF in
    <2>3. /\ TaskSet(task'[t], task[t], [pc |-> "begin", in |-> in, fresh |-> FALSE,
                                         err |-> FALSE, said |-> FALSE, n |-> 0])
          /\ \A d \in Chats : d # t => task'[d] = task[d]
          /\ TaskTyped(task'[t]) => task' \in [Chats -> TaskRecord]
      BY <1>1, <2>1, Tasked
    <2>4. TaskTyped(task'[t])
      BY <1>1, <1>2, <2>2, <2>3 DEF TaskSet, TaskTyped, TaskPlaces
    <2>5. Typed'
      BY <1>1, <2>1, <2>3, <2>4 DEF Typed
    <2>6. task'[t].pc = "begin" /\ task'[t].out = task[t].out /\ task'[t].cancel = task[t].cancel
      BY <2>3 DEF TaskSet
    <2>7. QED
      BY <1>1, <2>1, <2>3, <2>5, <2>6 DEF TaskSteps, TaskOwes, Owing
  <1>4. CASE Unregisters(t)
    <2> DEFINE r == [pc |-> "done", fresh |-> FALSE, err |-> FALSE, said |-> FALSE, n |-> 0]
    <2>1. /\ task[t].pc = "final" /\ Task(t, r) /\ registered' = registered \ {t}
          /\ UNCHANGED <<doc, chat, current, lock, stop, warm, taken, faults>>
      BY <1>4 DEF Unregisters
    <2>2. /\ TaskSet(task'[t], task[t], r)
          /\ \A d \in Chats : d # t => task'[d] = task[d]
          /\ TaskTyped(task'[t]) => task' \in [Chats -> TaskRecord]
      BY <1>1, <2>1, Tasked
    <2>3. TaskTyped(task'[t])
      BY <1>1, <1>2, <2>2 DEF TaskSet, TaskTyped, TaskPlaces
    <2>4. Typed'
      BY <1>1, <2>1, <2>2, <2>3 DEF Typed
    <2>5. task'[t].pc = "done" /\ task'[t].out = task[t].out
      BY <2>2 DEF TaskSet
    <2>6. QED
      BY <1>1, <2>1, <2>2, <2>4, <2>5 DEF TaskSteps, TaskOwes, Owing
  <1>5. CASE IsCancelled(t)
    <2> DEFINE pc == IF task[t].pc \in {"ready", "final"} THEN "done" ELSE "final"
               r == [pc |-> pc, cancel |-> FALSE, fresh |-> FALSE, err |-> FALSE,
                     said |-> FALSE, n |-> 0]
    <2>1. /\ task[t].pc \notin {"none", "new"} /\ task[t].cancel /\ Task(t, r)
          /\ UNCHANGED <<doc, registered, chat, current, lock, stop, warm, taken, faults>>
      BY <1>5 DEF IsCancelled, Live
    <2>2. pc \in {"done", "final"}
      OBVIOUS
    <2> HIDE DEF pc
    <2>3. /\ TaskSet(task'[t], task[t], r)
          /\ \A d \in Chats : d # t => task'[d] = task[d]
          /\ TaskTyped(task'[t]) => task' \in [Chats -> TaskRecord]
      BY <1>1, <2>1, Tasked
    <2>4. TaskTyped(task'[t])
      BY <1>1, <1>2, <2>2, <2>3 DEF TaskSet, TaskTyped, TaskPlaces
    <2>5. Typed'
      BY <1>1, <2>1, <2>3, <2>4 DEF Typed
    <2>6. task'[t].pc = pc /\ task'[t].out = task[t].out
      BY <2>3 DEF TaskSet
    <2>7. QED
      BY <1>1, <2>1, <2>2, <2>3, <2>5, <2>6 DEF TaskSteps, TaskOwes
  <1>6. QED
    BY <1>3, <1>4, <1>5


-----------------------------------------------------------------------------
(* Stops and the warm-up.                                                   *)

AsideSteps ==
  /\ Typed' /\ AutoKnown' /\ UNCHANGED chat /\ registered' \subseteq registered
  /\ \A u \in Chats : task'[u].pc = task[u].pc /\ task'[u].in = task[u].in
                      /\ task'[u].out = task[u].out
  /\ {doc'.task, warm'.copy.task} \subseteq {doc.task, warm.copy.task, None}
  /\ NeverCut' /\ doc'.status = "running" =>
       \/ (\E s \in Stops : StopOwes(s)') \/ WarmOwes'
       \/ /\ doc.status = "running" /\ NeverCut /\ task' = task
          /\ \A s \in Stops : StopOwes(s) => StopOwes(s)'
          /\ WarmOwes => WarmOwes'

LEMMA AsideStepsKeep ==
  ASSUME IInv, AsideSteps
  PROVE  IInv'
  <1>1. /\ Typed /\ Pledged
        /\ \A d \in Chats : PlacedAt(d) /\ BornAt(d) /\ FilledAt(d) /\ ReadAt(d)
    BY InvParts
  <1>2. /\ chat' = chat
        /\ \A u \in Chats : task'[u].pc = task[u].pc /\ task'[u].in = task[u].in
                            /\ task'[u].out = task[u].out
    BY DEF AsideSteps
  <1>3. \A d \in Chats : PlacedAt(d)'
    BY <1>1, <1>2 DEF PlacedAt
  <1>4. \A d \in Chats : FilledAt(d)'
    BY <1>1, <1>2 DEF FilledAt, PlacedAt
  <1>5. \A d \in Chats : ReadAt(d)'
    <2>1. \A d \in Chats : chat[d].task \in Chats \cup {None}
      BY <1>1 DEF Typed, ChatRecord
    <2>2. QED
      BY <1>1, <1>2, <2>1 DEF ReadAt
  <1>6. \A d \in Chats : UnknownTo(d) => UnknownTo(d)'
    BY <1>2, SessionAssumption DEF AsideSteps, UnknownTo
  <1>7. \A d \in Chats : BornAt(d)'
    BY <1>1, <1>2, <1>6 DEF AsideSteps, BornAt
  <1>8. Pledged'
    <2>1. SUFFICES ASSUME NeverCancelled', NeverCut', doc'.status = "running"
                   PROVE  Owed'
      BY DEF Pledged
    <2>2. CASE (\E s \in Stops : StopOwes(s)') \/ WarmOwes'
      BY <2>2 DEF Owed
    <2>3. CASE /\ doc.status = "running" /\ NeverCut /\ task' = task
               /\ \A s \in Stops : StopOwes(s) => StopOwes(s)'
               /\ WarmOwes => WarmOwes'
      <3>1. Owed
        BY <1>1, <1>2, <2>1, <2>3 DEF Pledged, NeverCancelled
      <3>2. QED
        BY <1>2, <2>3, <3>1 DEF Owed, TaskOwes, ChatOwes
    <2>4. QED
      BY <2>1, <2>2, <2>3 DEF AsideSteps
  <1>9. QED
    BY <1>3, <1>4, <1>5, <1>7, <1>8, InvParts DEF AsideSteps

LEMMA StopBeginningSteps ==
  ASSUME IInv, NEW s \in Stops, StopBegins(s) \/ AutoStopBegins(s) \/ AutoStopCut(s)
  PROVE  AsideSteps
  <1>1. Typed /\ AutoKnown
    BY InvParts
  <1>2. UNCHANGED <<doc, registered, task, chat, current, lock, taken>>
    BY DEF StopBegins, AutoStopBegins, AutoStopCut
  <1>3. CASE StopBegins(s)
    <2>1. /\ stop[s].pc = "idle" /\ Stop(s, [pc |-> "read"]) /\ faults' \in 0 .. MaxFaults
          /\ warm' = [pc |-> "over", copy |-> Blank]
      BY <1>1, <1>3, BlankFault DEF StopBegins
    <2>2. /\ StopSet(stop'[s], stop[s], [pc |-> "read"]) /\ StopTyped(stop[s])
          /\ \A d \in Stops : d # s => stop'[d] = stop[d]
          /\ StopTyped(stop'[s]) => stop' \in [Stops -> StopRecord]
      BY <1>1, <2>1, Stopped
    <2>3. StopTyped(stop'[s])
      BY <2>2 DEF StopSet, StopTyped
    <2>4. warm' \in WarmRecord /\ warm'.copy.task = None
      BY <2>1, BlankFault DEF WarmRecord
    <2>5. Typed'
      BY <1>1, <1>2, <2>1, <2>2, <2>3, <2>4 DEF Typed
    <2>6. AutoKnown' /\ StopOwes(s)'
      BY <1>1, <2>1, <2>2 DEF AutoKnown, StopOwes, StopSet
    <2>7. QED
      BY <1>2, <2>4, <2>5, <2>6 DEF AsideSteps
  <1>4. CASE AutoStopBegins(s)
    <2>1. /\ stop[s].pc = "idle" /\ Stop(s, [pc |-> "read", auto |-> TRUE])
          /\ faults' \in 0 .. MaxFaults /\ warm' = warm
      BY <1>1, <1>4, BlankFault DEF AutoStopBegins
    <2>2. /\ StopSet(stop'[s], stop[s], [pc |-> "read", auto |-> TRUE]) /\ StopTyped(stop[s])
          /\ \A d \in Stops : d # s => stop'[d] = stop[d]
          /\ StopTyped(stop'[s]) => stop' \in [Stops -> StopRecord]
      BY <1>1, <2>1, Stopped
    <2>3. StopTyped(stop'[s])
      BY <2>2 DEF StopSet, StopTyped
    <2>4. Typed'
      BY <1>1, <1>2, <2>1, <2>2, <2>3 DEF Typed
    <2>5. /\ AutoKnown' /\ (NeverCut' => NeverCut)
          /\ \A d \in Stops : StopOwes(d) => StopOwes(d)'
      BY <1>1, <2>1, <2>2 DEF AutoKnown, StopOwes, StopSet, NeverCut
    <2>6. QED
      BY <1>2, <2>1, <2>4, <2>5 DEF AsideSteps, WarmOwes
  <1>5. CASE AutoStopCut(s)
    <2> DEFINE pc == IF stop[s].pc = "write" THEN "cut" ELSE "left"
    <2>1. /\ stop[s].auto /\ stop[s].pc \in {"read", "write", "save"}
          /\ Stop(s, [pc |-> pc, box |-> FALSE]) /\ UNCHANGED <<warm, faults>>
      BY <1>5 DEF AutoStopCut
    <2>2. pc \in {"cut", "left"} /\ (stop[s].pc = "write" => pc = "cut")
      OBVIOUS
    <2> HIDE DEF pc
    <2>3. /\ StopSet(stop'[s], stop[s], [pc |-> pc, box |-> FALSE]) /\ StopTyped(stop[s])
          /\ \A d \in Stops : d # s => stop'[d] = stop[d]
          /\ StopTyped(stop'[s]) => stop' \in [Stops -> StopRecord]
      BY <1>1, <2>1, Stopped
    <2>4. StopTyped(stop'[s])
      BY <2>2, <2>3 DEF StopSet, StopTyped, StopRests
    <2>5. Typed'
      BY <1>1, <1>2, <2>1, <2>3, <2>4 DEF Typed
    <2>6. AutoKnown' /\ (NeverCut' => NeverCut)
      BY <1>1, <2>1, <2>2, <2>3 DEF AutoKnown, StopSet, NeverCut
    <2>7. NeverCut' => \A d \in Stops : StopOwes(d) => StopOwes(d)'
      BY <2>1, <2>2, <2>3 DEF StopOwes, StopSet, NeverCut
    <2>8. QED
      BY <1>2, <2>1, <2>5, <2>6, <2>7 DEF AsideSteps, WarmOwes
  <1>6. QED
    BY <1>3, <1>4, <1>5

LEMMA StoppingSteps ==
  ASSUME IInv, NEW s \in Stops, StopGoes(s)
  PROVE  AsideSteps
  <1>1. Typed /\ AutoKnown
    BY InvParts
  <1>2. CASE StopReads(s)
    <2>1. /\ stop[s].pc = "read" /\ UNCHANGED <<doc, chat, current, warm, taken, faults>>
          /\ \/ Torn /\ Stop(s, [pc |-> "over"])
             \/ Stop(s, [pc |-> "write", box |-> doc.box])
          /\ lock' \in {lock, None}
          /\ UNCHANGED <<task, registered>> \/ CancelRegistered(doc.task)
      BY <1>2 DEF StopReads
    <2>2. /\ task' \in [Chats -> TaskRecord] /\ registered' \subseteq registered
          /\ \A u \in Chats : /\ task'[u].pc = task[u].pc /\ task'[u].in = task[u].in
                              /\ task'[u].out = task[u].out
      <3>1. CASE UNCHANGED <<task, registered>>
        BY <1>1, <3>1 DEF Typed
      <3>2. CASE CancelRegistered(doc.task)
        BY <1>1, <3>2, CancelRegisteredDoes
      <3>3. QED
        BY <2>1, <3>1, <3>2
    <2>3. /\ stop' \in [Stops -> StopRecord] /\ AutoKnown'
          /\ doc.status = "running" => StopOwes(s)'
      <3>1. CASE Torn /\ Stop(s, [pc |-> "over"])
        <4>1. /\ StopSet(stop'[s], stop[s], [pc |-> "over"]) /\ StopTyped(stop[s])
              /\ \A d \in Stops : d # s => stop'[d] = stop[d]
              /\ StopTyped(stop'[s]) => stop' \in [Stops -> StopRecord]
          BY <1>1, <3>1, Stopped
        <4>2. StopTyped(stop'[s])
          BY <4>1 DEF StopSet, StopTyped, StopRests
        <4>3. AutoKnown'
          BY <1>1, <4>1 DEF StopSet, AutoKnown
        <4>4. QED
          BY <3>1, <4>1, <4>2, <4>3 DEF Torn, Terminal
      <3>2. CASE Stop(s, [pc |-> "write", box |-> doc.box])
        <4>1. /\ StopSet(stop'[s], stop[s], [pc |-> "write", box |-> doc.box])
              /\ StopTyped(stop[s])
              /\ \A d \in Stops : d # s => stop'[d] = stop[d]
              /\ StopTyped(stop'[s]) => stop' \in [Stops -> StopRecord]
          BY <1>1, <3>2, Stopped
        <4>2. doc.box \in BOOLEAN
          BY <1>1 DEF Typed, Documents
        <4>3. StopTyped(stop'[s])
          BY <4>1, <4>2 DEF StopSet, StopTyped
        <4>4. AutoKnown' /\ StopOwes(s)'
          BY <1>1, <4>1 DEF StopSet, AutoKnown, StopOwes
        <4>5. QED
          BY <4>1, <4>3, <4>4
      <3>3. QED
        BY <2>1, <3>1, <3>2
    <2>4. Typed'
      BY <1>1, <2>1, <2>2, <2>3 DEF Typed
    <2>5. QED
      BY <2>1, <2>2, <2>3, <2>4 DEF AsideSteps
  <1>3. CASE StopWrites(s)
    <2> DEFINE pc == IF stop[s].box THEN "save" ELSE "over"
    <2>1. /\ doc' = [doc EXCEPT !.task = None, !.status = "cancelled"]
          /\ Stop(s, [pc |-> pc]) /\ lock' \in {lock, None} /\ pc \in {"save", "over"}
          /\ UNCHANGED <<registered, task, chat, current, warm, taken, faults>>
      BY <1>3 DEF StopWrites
    <2> HIDE DEF pc
    <2>2. doc' \in Documents /\ doc'.task = None /\ doc'.status # "running"
      BY <1>1, <2>1 DEF Typed, Documents, Statuses
    <2>3. /\ StopSet(stop'[s], stop[s], [pc |-> pc]) /\ StopTyped(stop[s])
          /\ \A d \in Stops : d # s => stop'[d] = stop[d]
          /\ StopTyped(stop'[s]) => stop' \in [Stops -> StopRecord]
      BY <1>1, <2>1, Stopped
    <2>4. StopTyped(stop'[s])
      BY <2>1, <2>3 DEF StopSet, StopTyped, StopRests
    <2>5. AutoKnown'
      BY <1>1, <2>1, <2>3 DEF AutoKnown, StopSet
    <2>6. Typed'
      BY <1>1, <2>1, <2>2, <2>3, <2>4 DEF Typed
    <2>7. QED
      BY <2>1, <2>2, <2>5, <2>6 DEF AsideSteps
  <1>4. CASE StopSaves(s)
    <2>1. /\ doc' = [status |-> "cancelled", task |-> None, box |-> FALSE]
          /\ Stop(s, [pc |-> "over", box |-> FALSE]) /\ lock' = None
          /\ UNCHANGED <<registered, task, chat, current, warm, taken, faults>>
      BY <1>4 DEF StopSaves
    <2>2. doc' \in Documents /\ doc'.task = None /\ doc'.status # "running"
      BY <2>1 DEF Documents, Statuses
    <2>3. /\ StopSet(stop'[s], stop[s], [pc |-> "over", box |-> FALSE]) /\ StopTyped(stop[s])
          /\ \A d \in Stops : d # s => stop'[d] = stop[d]
          /\ StopTyped(stop'[s]) => stop' \in [Stops -> StopRecord]
      BY <1>1, <2>1, Stopped
    <2>4. StopTyped(stop'[s])
      BY <2>3 DEF StopSet, StopTyped, StopRests
    <2>5. AutoKnown'
      BY <1>1, <2>3 DEF AutoKnown, StopSet
    <2>6. Typed'
      BY <1>1, <2>1, <2>2, <2>3, <2>4 DEF Typed
    <2>7. QED
      BY <2>1, <2>2, <2>5, <2>6 DEF AsideSteps
  <1>5. QED
    BY <1>2, <1>3, <1>4 DEF StopGoes

LEMMA WarmingSteps ==
  ASSUME IInv, WarmGoes
  PROVE  AsideSteps
  <1>1. /\ Typed /\ AutoKnown /\ doc \in Documents /\ warm \in WarmRecord
        /\ warm.copy \in Documents
    BY InvParts DEF Typed, WarmRecord
  <1>2. UNCHANGED <<registered, task, chat, current, lock, stop, taken, faults>>
    BY DEF WarmGoes, WarmBegins, WarmReads, WarmSaves, WarmEnds
  <1>3. AutoKnown'
    BY <1>1, <1>2 DEF AutoKnown
  <1>4. ASSUME doc' \in Documents, warm' \in WarmRecord,
               {doc'.task, warm'.copy.task} \subseteq {doc.task, warm.copy.task, None},
               doc'.status = "running" => WarmOwes'
        PROVE  AsideSteps
    BY <1>1, <1>2, <1>3, <1>4 DEF AsideSteps, Typed
  <1>5. CASE WarmBegins
    <2>1. doc' \in Documents /\ doc'.task = doc.task /\ doc'.status # "running"
      BY <1>1, <1>5 DEF WarmBegins, Documents, Statuses
    <2>2. warm' \in WarmRecord /\ warm'.copy = warm.copy
      BY <1>1, <1>5 DEF WarmBegins, WarmRecord
    <2>3. QED
      BY <1>4, <2>1, <2>2
  <1>6. CASE WarmReads
    <2>1. doc' = doc /\ warm' \in WarmRecord /\ warm'.copy \in {doc, warm.copy} /\ WarmOwes'
      BY <1>1, <1>6 DEF WarmReads, WarmRecord, WarmOwes
    <2>2. QED
      BY <1>1, <1>4, <2>1
  <1>7. CASE WarmSaves
    <2>1. doc' \in Documents /\ doc'.task = warm.copy.task
      BY <1>1, <1>7 DEF WarmSaves, Documents
    <2>2. warm' \in WarmRecord /\ warm'.copy = Blank /\ WarmOwes'
      BY <1>1, <1>7, BlankFault DEF WarmSaves, WarmRecord, WarmOwes
    <2>3. QED
      BY <1>4, <2>1, <2>2, BlankFault
  <1>8. CASE WarmEnds
    <2>1. doc' \in Documents /\ doc'.task = doc.task /\ doc'.status # "running"
      BY <1>1, <1>8 DEF WarmEnds, Documents, Statuses
    <2>2. warm' \in WarmRecord /\ warm'.copy = Blank
      BY <1>1, <1>8, BlankFault DEF WarmEnds, WarmRecord
    <2>3. QED
      BY <1>4, <2>1, <2>2, BlankFault
  <1>9. QED
    BY <1>5, <1>6, <1>7, <1>8 DEF WarmGoes


-----------------------------------------------------------------------------
LEMMA Stutters ==
  ASSUME IInv, UNCHANGED vars
  PROVE  IInv'
  BY DEF vars, IInv, TypeOK, AutoKnown, Pledged, NeverCancelled, NeverCut, Owed, TaskOwes,
     ChatOwes, StopOwes, WarmOwes, PlacedAt, BornAt, UnknownTo, FilledAt

(* The initial states satisfy the invariant.                                *)
THEOREM InitEstablishes == Init => IInv
  <1>1. SUFFICES ASSUME Init PROVE IInv
    OBVIOUS
  <1>2. Blank \in Documents /\ Blank.task = None /\ Blank.status # "running"
    BY BlankFault
  <1>3. Typed
    <2>1. task \in [Chats -> TaskRecord]
      BY <1>1, SessionAssumption DEF Init, TaskRecord, TaskPlaces
    <2>2. chat \in [Chats -> ChatRecord]
      BY <1>1, <1>2 DEF Init, ChatRecord, Outcomes
    <2>3. stop \in [Stops -> StopRecord]
      BY <1>1 DEF Init, StopRecord, StopRests
    <2>4. warm \in WarmRecord
      BY <1>1, <1>2 DEF Init, WarmRecord
    <2>5. faults \in 0 .. MaxFaults
      BY <1>1, SessionAssumption DEF Init
    <2>6. QED
      BY <1>1, <1>2, <2>1, <2>2, <2>3, <2>4, <2>5 DEF Init, Typed
  <1>4. /\ doc = Blank /\ registered = {} /\ warm.copy = Blank
        /\ \A c \in Chats : /\ chat[c].pc = "idle" /\ chat[c].task = None /\ chat[c].copy = Blank
                            /\ chat[c].seen = 0 /\ task[c].pc = "none"
        /\ \A s \in Stops : ~stop[s].auto
    BY <1>1 DEF Init
  <1>5. AutoKnown /\ Pledged
    BY <1>2, <1>4 DEF AutoKnown, Pledged
  <1>6. \A c \in Chats : PlacedAt(c) /\ FilledAt(c) /\ ReadAt(c)
    BY <1>4 DEF PlacedAt, FilledAt, ReadAt, Early
  <1>7. \A c \in Chats : BornAt(c)
    BY <1>2, <1>4, SessionAssumption DEF BornAt, UnknownTo, Early
  <1>8. QED
    BY <1>3, <1>5, <1>6, <1>7, InvParts

(* No step of a chat, a task, a stop, the warm-up or a user breaks it.      *)
THEOREM StepPreserves == IInv /\ [Next]_vars => IInv'
  <1>1. SUFFICES ASSUME IInv, [Next]_vars PROVE IInv'
    OBVIOUS
  <1>2. ASSUME NEW c \in Chats, Begin(c) PROVE IInv'
    BY <1>1, <1>2, ArriveSteps, ChatStepsKeep
  <1>3. ASSUME NEW c \in Chats, ChatGoes(c) PROVE IInv'
    <2>1. CASE Arrive(c) \/ AnswerAtOnce(c)
      BY <1>1, <2>1, ArriveSteps, ChatStepsKeep
    <2>2. CASE Recheck(c)
      BY <1>1, <2>2, RecheckSteps, ChatStepsKeep
    <2>3. CASE BindSandbox(c) \/ BindTask(c) \/ CreationFails(c)
      BY <1>1, <2>3, BindingSteps, ChatStepsKeep
    <2>4. CASE CreateTask(c)
      BY <1>1, <2>4, CreateTaskSteps, ChatTasksKeep
    <2>5. CASE Reactivate(c)
      BY <1>1, <2>5, ReactivateSteps, ChatTasksKeep
    <2>6. CASE Put(c)
      BY <1>1, <2>6, PutSteps, ChatTasksKeep
    <2>7. CASE Run(c)
      BY <1>1, <2>7, RunSteps, ChatTasksKeep
    <2>8. CASE ArriveCancelled(c) \/ RelayCancelled(c) \/ Teardown(c)
      BY <1>1, <2>8, CancellingSteps, ChatCancelsKeep
    <2>9. CASE Relay(c) \/ Drain(c)
      BY <1>1, <2>9, RelayingSteps, ChatStepsKeep
    <2>10. CASE TaskOver(c) \/ Drained(c) \/ Abort(c) \/ ClosedAtYield(c)
      BY <1>1, <2>10, LeavingSteps, ChatStepsKeep
    <2>11. CASE Mark(c) \/ TeardownWrites(c)
      BY <1>1, <2>11, EndingSteps, ChatStepsKeep
    <2>12. CASE Close(c)
      BY <1>1, <2>12, ClosingSteps, ChatStepsKeep
    <2>13. QED
      BY <1>3, <2>1, <2>2, <2>3, <2>4, <2>5, <2>6, <2>7, <2>8, <2>9, <2>10, <2>11, <2>12
         DEF ChatGoes
  <1>4. ASSUME NEW c \in Chats, Disconnect(c) PROVE IInv'
    BY <1>1, <1>4, ClosingSteps, ChatStepsKeep
  <1>5. CASE UserCancels
    BY <1>1, <1>5, CancelSteps, ChatStepsKeep
  <1>6. ASSUME NEW s \in Stops, StopBegins(s) \/ AutoStopBegins(s) \/ AutoStopCut(s) PROVE IInv'
    BY <1>1, <1>6, StopBeginningSteps, AsideStepsKeep
  <1>7. ASSUME NEW s \in Stops, StopGoes(s) PROVE IInv'
    BY <1>1, <1>7, StoppingSteps, AsideStepsKeep
  <1>8. CASE WarmGoes
    BY <1>1, <1>8, WarmingSteps, AsideStepsKeep
  <1>9. ASSUME NEW t \in Chats, TaskGoes(t) PROVE IInv'
    <2>1. CASE \/ Begins(t) \/ NoMessage(t) \/ FlowBegins(t) \/ Waits(t) \/ Looks(t)
               \/ FlowEnds(t) \/ RunFails(t) \/ Fails(t) \/ Ends(t)
      BY <1>1, <2>1, GoingSteps, TaskStepsKeep
    <2>2. CASE \/ Announces(t) \/ Crashes(t) \/ SaysDone(t)
               \/ \E event \in Events : FlowYields(t, event)
      BY <1>1, <2>2, TalkingSteps, TaskStepsKeep
    <2>3. CASE TakesMessage(t) \/ Unregisters(t) \/ IsCancelled(t)
      BY <1>1, <2>3, WorkingSteps, TaskStepsKeep
    <2>4. QED
      BY <1>9, <2>1, <2>2, <2>3 DEF TaskGoes, Events
  <1>10. CASE UNCHANGED vars
    BY <1>1, <1>10, Stutters
  <1>11. QED
    BY <1>1, <1>2, <1>3, <1>4, <1>5, <1>6, <1>7, <1>8, <1>9, <1>10 DEF Next

(* The inductive invariant holds in every state that is reached.            *)
THEOREM Invariance == Spec => []IInv
  BY InitEstablishes, StepPreserves, PTL DEF Spec

(* Every variable keeps its type, and no chat reads past its task's output. *)
THEOREM TypeCorrect == Spec => []TypeOK
  <1>1. IInv => TypeOK
    BY DEF IInv
  <1>2. QED
    BY <1>1, Invariance, PTL

(* When nobody works on a session any more, it does not say that it runs,   *)
(* whatever chats overlapped, however many were stopped or failed.          *)
THEOREM SettlesDown == Spec => []Settled
  <1>1. IInv => Settled
    <2>1. SUFFICES ASSUME IInv, Quiet, NeverCancelled, NeverCut, NoneStranded,
                          doc.status = "running"
                   PROVE  FALSE
      BY DEF Settled
    <2>2. Owed /\ \A c \in Chats : task[c].pc \in TaskPlaces
      BY <2>1, InvParts DEF IInv, Pledged, Typed, TaskRecord
    <2>3. \A t \in Chats : ~TaskOwes(t)
      <3>1. \A t \in Chats : ~Live(t)
        BY <2>1 DEF Quiet, Executing
      <3>2. \A t \in Chats : task[t].pc \in {"none", "new", "done"}
        BY <3>1, SessionAssumption DEF Live
      <3>3. QED
        BY <2>1, <3>2 DEF TaskOwes, Owing, NoneStranded
    <2>4. \A c \in Chats : ~ChatOwes(c)
      BY <2>1 DEF Quiet, ChatOwes
    <2>5. \A s \in Stops : ~StopOwes(s)
      BY <2>1 DEF Quiet, StopOwes, StopRests
    <2>6. ~WarmOwes
      BY <2>1 DEF Quiet, WarmOwes
    <2>7. QED
      BY <2>2, <2>3, <2>4, <2>5, <2>6 DEF Owed
  <1>2. QED
    BY <1>1, Invariance, PTL
-----------------------------------------------------------------------------
(***************************************************************************)
(* Streams that follow each other: from here on a chat begins when the     *)
(* streams of the others have ended, while their tasks may go on.          *)
(***************************************************************************)
Rests(c) == chat[c].pc \in {"idle", "over"}

\* before it has started its task
Opening == Creating \cup {"arrive", "wait", "put", "run"}

\* its own task is there, and not started
Launching(c) ==
  \/ chat[c].pc \in {"bind3", "bind4"}
  \/ chat[c].pc \in {"put", "run"} /\ chat[c].task = c

Sequential == \A c, d \in Chats : c = d \/ Rests(c) \/ Rests(d)

Launched ==
  NeverStopped => \A c \in Chats : Launching(c) => task[c].pc = "new" /\ c \in registered

(* Beside a chat that began alone nothing executes but the task it started. *)
AloneAt(c) ==
  chat[c].alone /\ ~Rests(c) =>
    \A t \in Chats : Live(t) => chat[c].task = t /\ chat[c].pc \notin Opening

\* a document without a sandbox has no task
Boxed(d) == ~d.box => d.task = None

CopyAt(c) ==
  /\ chat[c].pc \in {"bind2", "bind3", "bind4"} => chat[c].copy.box
  /\ chat[c].pc \notin Creating => chat[c].copy.task = None
  /\ Boxed(chat[c].copy)
  /\ chat[c].pc \in Opening \cup {"idle", "relay", "drain"} => chat[c].outcome = None

(* A task that does not execute.                                            *)
BareAt(t) ==
  /\ task[t].cancel => Live(t)
  /\ task[t].pc = "none" => t \notin registered
  /\ task[t].pc \in {"none", "new"} => task[t].out = <<>>

(* What was told to stop, or has, and is still registered: no document and  *)
(* no copy names it, but in a teardown.                                     *)
Dead(t) == task[t].cancel \/ (task[t].pc = "done" /\ t \in registered)

Forgotten ==
  \/ \E c \in Chats : chat[c].pc = "write"
  \/ \A t \in Chats : Dead(t) => doc.task # t /\ \A c \in Chats : chat[c].copy.task # t

(* Where the message of chat c is: in the input of task t, which has not    *)
(* said that it is done and will not before it looks there, or taken.       *)
Holds(t, c) ==
  \/ c \in taken /\ task[t].in = <<>>
  \/ /\ task[t].in # <<>> /\ task[t].in[Len(task[t].in)] = c
     /\ \A i \in 1 .. Len(task[t].out) : task[t].out[i] # "done"
     /\ task[t].pc \notin {"end", "say"}
     /\ task[t].pc \in {"begin", "flow"} => task[t].n = 0

\* a run that ends has said something
Speaks(t) == task[t].out = <<>> => task[t].pc \in {"ready", "init", "crash"}

HeardAt(c) ==
  chat[c].alone =>
    /\ chat[c].pc \in {"put", "run"} => task[chat[c].task].pc = "new"
    /\ chat[c].pc \in {"run", "relay", "drain"} =>
         /\ Holds(chat[c].task, c) /\ ~task[chat[c].task].cancel
         /\ ~chat[c].got => chat[c].seen = 0
    /\ chat[c].pc \in {"relay", "drain"} => Speaks(chat[c].task)
    /\ chat[c].pc = "drain" => task[chat[c].task].out # <<>>
    /\ chat[c].outcome = "completed" => c \in taken

Undisturbed == NeverCancelled /\ NeverStopped

Successive ==
  /\ Sequential /\ Launched /\ Registered
  /\ Boxed(doc) /\ warm.copy.task = None
  /\ \A c \in Chats : AloneAt(c) /\ CopyAt(c) /\ BareAt(c)
  /\ Undisturbed => Forgotten /\ \A c \in Chats : HeardAt(c)

(* A step of a chat c that has begun: what it leaves of the others, and     *)
(* of itself.                                                               *)
Kept(d) ==
  /\ chat'[d].pc = chat[d].pc /\ chat'[d].alone = chat[d].alone
  /\ chat'[d].task = chat[d].task /\ chat'[d].copy = chat[d].copy
  /\ chat'[d].outcome = chat[d].outcome
  /\ chat[d].cancelled => chat'[d].cancelled

Acts(c) ==
  /\ \A d \in Chats \ {c} : Kept(d)
  /\ chat[c].cancelled => chat'[c].cancelled
  /\ ~Rests(c) /\ chat'[c].pc # "idle" /\ chat'[c].alone = chat[c].alone
  /\ chat'[c].pc \in Opening => chat[c].pc \in Opening
  /\ chat'[c].task = chat[c].task \/ (chat[c].task = None /\ chat[c].pc \in Opening)
  /\ taken \subseteq taken' /\ stop' = stop /\ warm' = warm

\* what the document and the copy name afterwards
Forgets(c) ==
  \/ chat'[c].pc = "write"
  \/ doc'.task = None /\ chat'[c].copy.task = None
  \/ /\ chat[c].pc # "write"
     /\ {doc'.task, chat'[c].copy.task} \subseteq
          {None, doc.task, chat[c].copy.task} \cup (IF chat[c].pc = "bind3" THEN {c} ELSE {})

LEMMA ActsKeep ==
  ASSUME IInv, Successive, NEW c \in Chats, Acts(c)
  PROVE  /\ Sequential'
         /\ Undisturbed' => Undisturbed
         /\ NeverStopped' => NeverStopped
         /\ \A d \in Chats \ {c} :
              /\ AloneAt(d)' /\ CopyAt(d)' /\ ~Launching(d)'
              /\ Undisturbed' => HeardAt(d)'
              /\ chat'[d].copy.task = None
              /\ chat'[d].pc # "write"
  <1>1. \A d \in Chats \ {c} : Rests(d) /\ chat'[d].pc = chat[d].pc
    BY DEF Successive, Sequential, Acts, Kept
  <1>2. \A d \in Chats \ {c} : Rests(d)' /\ chat[d].copy.task = None /\ chat'[d].copy.task = None
    BY <1>1 DEF Rests, Acts, Kept, Successive, CopyAt, Creating
  <1>3. Sequential'
    BY <1>2 DEF Sequential
  <1>4. (NeverStopped' => NeverStopped) /\ (NeverCancelled' => NeverCancelled)
    BY DEF Acts, Kept, NeverStopped, NeverCancelled
  <1>5. \A d \in Chats \ {c} : AloneAt(d)' /\ ~Launching(d)' /\ chat'[d].pc # "write"
    BY <1>2 DEF AloneAt, Launching, Rests
  <1>6. \A d \in Chats \ {c} : CopyAt(d)'
    BY DEF Successive, CopyAt, Acts, Kept
  <1>7. ASSUME Undisturbed', NEW d \in Chats \ {c} PROVE HeardAt(d)'
    <2>1. HeardAt(d) /\ chat'[d].alone = chat[d].alone /\ chat'[d].outcome = chat[d].outcome
      BY <1>4, <1>7 DEF Successive, Undisturbed, Acts, Kept
    <2>2. Rests(d)' /\ taken \subseteq taken'
      BY <1>2 DEF Acts
    <2>3. QED
      BY <2>1, <2>2 DEF HeardAt, Rests
  <1>8. QED
    BY <1>2, <1>3, <1>4, <1>5, <1>6, <1>7 DEF Undisturbed

\* a task that executes is registered, or another chat has it
LEMMA RegisteredStays ==
  ASSUME Registered, NeverStopped' => NeverStopped,
         \A d \in Chats : chat[d].task \in Chats => chat'[d].task = chat[d].task,
         \A t \in Chats : NeverStopped' /\ Live(t)' =>
           \/ Live(t) /\ (t \in registered => t \in registered')
           \/ \E d \in Chats \ {t} : chat'[d].task = t
           \/ t \in registered'
  PROVE  Registered'
  BY DEF Registered, Executing

\* a step that ends no task, and creates, tells or starts task t only
Works(c, t) ==
  /\ Acts(c) /\ t \in Chats
  /\ \A u \in Chats \ {t} : task'[u] = task[u]
  /\ registered \subseteq registered' /\ registered' \subseteq registered \cup {t}
  /\ BareAt(t)' /\ (Dead(t)' => Dead(t))
  /\ NeverStopped' =>
       /\ Live(t)' => Live(t) \/ t \in registered' \/ \E d \in Chats \ {t} : chat'[d].task = t
       /\ Launching(c)' => task'[c].pc = "new" /\ c \in registered'
  /\ AloneAt(c)' /\ CopyAt(c)' /\ Boxed(doc)'
  /\ Undisturbed' => Forgets(c) /\ HeardAt(c)'

LEMMA WorksKeeps ==
  ASSUME IInv, Successive, NEW c \in Chats, NEW t, Works(c, t)
  PROVE  Successive'
  <1>1. /\ Acts(c) /\ t \in Chats /\ \A u \in Chats \ {t} : task'[u] = task[u]
        /\ registered \subseteq registered' /\ registered' \subseteq registered \cup {t}
        /\ BareAt(t)' /\ (Dead(t)' => Dead(t)) /\ AloneAt(c)' /\ CopyAt(c)' /\ Boxed(doc)'
    BY DEF Works
  <1>2. /\ Sequential' /\ (Undisturbed' => Undisturbed) /\ (NeverStopped' => NeverStopped)
        /\ \A d \in Chats \ {c} :
             /\ AloneAt(d)' /\ CopyAt(d)' /\ ~Launching(d)'
             /\ Undisturbed' => HeardAt(d)'
             /\ chat'[d].copy.task = None /\ chat'[d].pc # "write"
    BY <1>1, ActsKeep
  <1>3. \A u \in Chats \ {t} : /\ (Live(u)' <=> Live(u)) /\ (Dead(u)' <=> Dead(u))
                               /\ (BareAt(u)' <=> BareAt(u))
    BY <1>1 DEF Live, Dead, BareAt
  <1>4. Launched'
    BY <1>2 DEF Works, Launched
  <1>5. \A d \in Chats : chat[d].task \in Chats => chat'[d].task = chat[d].task
    BY <1>1, SessionAssumption DEF Acts, Kept
  <1>6. Registered'
    <2>1. \A u \in Chats : NeverStopped' /\ Live(u)' =>
            \/ Live(u) /\ (u \in registered => u \in registered')
            \/ \E d \in Chats \ {u} : chat'[d].task = u
            \/ u \in registered'
      BY <1>1, <1>3 DEF Works
    <2>2. QED
      BY <1>2, <1>5, <2>1, RegisteredStays DEF Successive
  <1>7. \A u \in Chats : BareAt(u)' /\ (Dead(u)' => Dead(u))
    BY <1>1, <1>3 DEF Successive
  <1>8. Undisturbed' => Forgotten'
    <2>1. SUFFICES ASSUME Undisturbed' PROVE Forgotten'
      OBVIOUS
    <2>2. Forgets(c) /\ Forgotten
      BY <1>2, <2>1 DEF Works, Successive
    <2>3. CASE chat'[c].pc = "write"
      BY <2>3 DEF Forgotten
    <2>4. CASE doc'.task = None /\ chat'[c].copy.task = None
      BY <1>2, <2>4, SessionAssumption DEF Forgotten
    <2>5. CASE /\ chat[c].pc # "write"
               /\ {doc'.task, chat'[c].copy.task} \subseteq
                    {None, doc.task, chat[c].copy.task} \cup (IF chat[c].pc = "bind3" THEN {c} ELSE {})
      <3>1. \A d \in Chats : chat[d].pc # "write"
        BY <1>1, <1>2, <2>5 DEF Acts, Kept
      <3>2. chat[c].pc = "bind3" => ~Dead(c)
        <4>1. chat[c].pc = "bind3" => task[c].pc = "new"
          BY <1>2, <2>1 DEF Successive, Launched, Launching, Undisturbed
        <4>2. QED
          BY <4>1 DEF Successive, BareAt, Dead, Live
      <3>3. QED
        BY <1>2, <1>7, <2>2, <2>5, <3>1, <3>2, SessionAssumption DEF Forgotten
    <2>6. QED
      BY <2>2, <2>3, <2>4, <2>5 DEF Forgets
  <1>9. warm'.copy.task = None
    BY <1>1 DEF Acts, Successive
  <1>10. QED
    BY <1>1, <1>2, <1>4, <1>6, <1>7, <1>8, <1>9 DEF Works, Successive

\* a step that leaves the tasks alone
Alters(c) ==
  /\ Acts(c) /\ UNCHANGED <<task, registered>>
  /\ Launching(c)' => Launching(c)
  /\ CopyAt(c)' /\ Boxed(doc)'
  /\ Undisturbed' => Forgets(c) /\ HeardAt(c)'

LEMMA AltersKeeps ==
  ASSUME IInv, Successive, NEW c \in Chats, Alters(c)
  PROVE  Successive'
  <1>1. Acts(c) /\ UNCHANGED <<task, registered>>
    BY DEF Alters
  <1>2. \A t \in Chats : (Live(t)' <=> Live(t)) /\ (Dead(t)' <=> Dead(t))
    BY <1>1 DEF Live, Dead
  <1>3. AloneAt(c)'
    BY <1>1, <1>2, SessionAssumption DEF Successive, AloneAt, Acts, Rests
  <1>4. BareAt(c)'
    BY <1>1, <1>2 DEF Successive, BareAt
  <1>5. NeverStopped' => (Launching(c)' => task'[c].pc = "new" /\ c \in registered')
    BY <1>1, ActsKeep DEF Alters, Successive, Launched
  <1>6. Works(c, c)
    BY <1>1, <1>2, <1>3, <1>4, <1>5 DEF Alters, Works
  <1>7. QED
    BY <1>6, WorksKeeps

LEMMA Onward ==
  ASSUME IInv, Successive, NEW c \in Chats
  PROVE  /\ Typed /\ PlacedAt(c) /\ BornAt(c) /\ ReadAt(c) /\ ChatTyped(chat[c])
         /\ AloneAt(c) /\ CopyAt(c) /\ BareAt(c) /\ Boxed(doc)
         /\ NeverStopped => (Launching(c) => task[c].pc = "new" /\ c \in registered)
         /\ Undisturbed => Forgotten /\ HeardAt(c)
  <1>1. Typed /\ PlacedAt(c) /\ BornAt(c) /\ ReadAt(c)
    BY InvParts
  <1>2. ChatTyped(chat[c])
    BY <1>1 DEF Typed, ChatRecord, ChatTyped
  <1>3. QED
    BY <1>1, <1>2 DEF Successive, Launched

\* the actions of a chat before it has a task
LEMMA EarlyAlters ==
  ASSUME IInv, Successive, NEW c \in Chats,
         \/ Arrive(c) \/ AnswerAtOnce(c) \/ BindSandbox(c) \/ BindTask(c) \/ CreationFails(c)
  PROVE  Alters(c)
  <1>1. /\ Typed /\ PlacedAt(c) /\ CopyAt(c) /\ Boxed(doc) /\ ChatTyped(chat[c])
        /\ Undisturbed => HeardAt(c)
    BY Onward
  <1>2. Blank.task = None /\ Boxed(Blank)
    BY DEF Blank, Boxed
  <1>3. CASE Arrive(c)
    <2> DEFINE r == [pc |-> "wait", lock |-> lock']
    <2>1. ChatSet(chat'[c], chat[c], r) /\ \A d \in Chats : d # c => chat'[d] = chat[d]
      BY <1>1, <1>3, Chatted DEF Arrive
    <2>2. /\ chat'[c].pc = "wait" /\ chat'[c].task = chat[c].task /\ chat'[c].copy = chat[c].copy
          /\ chat'[c].outcome = chat[c].outcome /\ chat'[c].alone = chat[c].alone
          /\ chat'[c].cancelled = chat[c].cancelled
      BY <2>1 DEF ChatSet
    <2>3. chat[c].pc = "arrive" /\ UNCHANGED <<doc, registered, task, stop, warm, taken>>
      BY <1>3 DEF Arrive
    <2>4. Acts(c)
      BY <2>1, <2>2, <2>3 DEF Acts, Kept, Rests, Opening
    <2>5. QED
      BY <1>1, <2>2, <2>3, <2>4, ActsKeep
         DEF Alters, Launching, CopyAt, Creating, Opening, Forgets, HeardAt
  <1>4. CASE AnswerAtOnce(c)
    <2> DEFINE r == [pc |-> Yielded(c, "close"), outcome |-> "answered"]
    <2>1. ChatSet(chat'[c], chat[c], r) /\ \A d \in Chats : d # c => chat'[d] = chat[d]
      BY <1>1, <1>4, Chatted DEF AnswerAtOnce
    <2>2. /\ chat'[c].pc \in {"close", "over"} /\ chat'[c].task = chat[c].task
          /\ chat'[c].copy = chat[c].copy /\ chat'[c].outcome = "answered"
          /\ chat'[c].alone = chat[c].alone /\ chat'[c].cancelled = chat[c].cancelled
      BY <2>1 DEF ChatSet, Yielded
    <2>3. chat[c].pc = "arrive" /\ UNCHANGED <<doc, registered, task, stop, warm>>
          /\ taken \subseteq taken'
      BY <1>4 DEF AnswerAtOnce
    <2>4. Acts(c)
      BY <2>1, <2>2, <2>3 DEF Acts, Kept, Rests, Opening, Creating
    <2>5. QED
      BY <1>1, <2>2, <2>3, <2>4 DEF Alters, Launching, CopyAt, Creating, Opening, Forgets, HeardAt
  <1>5. CASE BindSandbox(c)
    <2> DEFINE r == [pc |-> "bind2", copy |-> [chat[c].copy EXCEPT !.box = TRUE]]
    <2>1. ChatSet(chat'[c], chat[c], r) /\ \A d \in Chats : d # c => chat'[d] = chat[d]
      BY <1>1, <1>5, Chatted DEF BindSandbox
    <2>2. /\ doc'.task = chat[c].copy.task /\ doc'.box /\ chat[c].pc = "bind1"
          /\ UNCHANGED <<registered, task, stop, warm, taken>>
          /\ chat'[c].copy = doc'
      BY <1>1, <1>5, <2>1 DEF BindSandbox, ChatTyped, Documents, ChatSet
    <2>3. /\ chat'[c].pc = "bind2" /\ chat'[c].task = chat[c].task
          /\ chat'[c].outcome = chat[c].outcome
          /\ chat'[c].alone = chat[c].alone /\ chat'[c].cancelled = chat[c].cancelled
      BY <2>1 DEF ChatSet
    <2> HIDE DEF r
    <2>4. Acts(c)
      BY <2>1, <2>2, <2>3 DEF Acts, Kept, Rests, Opening, Creating
    <2>5. CopyAt(c)' /\ Boxed(doc)' /\ Forgets(c) /\ (Launching(c)' => Launching(c))
      BY <1>1, <2>2, <2>3 DEF Launching, CopyAt, Creating, Opening, Forgets, Boxed
    <2>6. Undisturbed' => HeardAt(c)'
      BY <1>1, <2>2, <2>3, <2>4, ActsKeep DEF HeardAt
    <2>7. QED
      BY <2>2, <2>4, <2>5, <2>6 DEF Alters
  <1>6. CASE BindTask(c)
    <2> DEFINE r == [pc |-> "bind4", task |-> c]
    <2>1. ChatSet(chat'[c], chat[c], r) /\ \A d \in Chats : d # c => chat'[d] = chat[d]
      BY <1>1, <1>6, Chatted DEF BindTask
    <2>2. /\ doc'.task = c /\ doc'.box /\ chat[c].pc = "bind3" /\ chat[c].task = None
          /\ UNCHANGED <<registered, task, stop, warm, taken>>
      BY <1>1, <1>6 DEF BindTask, ChatTyped, Documents, CopyAt, PlacedAt, Early
    <2>3. /\ chat'[c].pc = "bind4" /\ chat'[c].task = c /\ chat'[c].copy = chat[c].copy
          /\ chat'[c].outcome = chat[c].outcome
          /\ chat'[c].alone = chat[c].alone /\ chat'[c].cancelled = chat[c].cancelled
      BY <2>1 DEF ChatSet
    <2>4. Acts(c)
      BY <2>1, <2>2, <2>3 DEF Acts, Kept, Rests, Opening, Creating
    <2>5. CopyAt(c)' /\ Boxed(doc)' /\ Forgets(c) /\ (Launching(c)' => Launching(c))
      BY <1>1, <2>2, <2>3 DEF Launching, CopyAt, Creating, Opening, Forgets, Boxed
    <2>6. Undisturbed' => HeardAt(c)'
      BY <1>1, <2>2, <2>3, <2>4, ActsKeep DEF HeardAt
    <2>7. QED
      BY <2>2, <2>4, <2>5, <2>6 DEF Alters
  <1>7. CASE CreationFails(c)
    <2> DEFINE r == [pc |-> "tear", lock |-> None, outcome |-> "failing", copy |-> Blank]
    <2>1. ChatSet(chat'[c], chat[c], r) /\ \A d \in Chats : d # c => chat'[d] = chat[d]
      BY <1>1, <1>7, Chatted DEF CreationFails
    <2>2. chat[c].pc \in Creating /\ UNCHANGED <<doc, registered, task, stop, warm, taken>>
      BY <1>7 DEF CreationFails
    <2>3. /\ chat'[c].pc = "tear" /\ chat'[c].task = chat[c].task /\ chat'[c].copy = Blank
          /\ chat'[c].outcome = "failing"
          /\ chat'[c].alone = chat[c].alone /\ chat'[c].cancelled = chat[c].cancelled
      BY <2>1 DEF ChatSet
    <2>4. Acts(c)
      BY <2>1, <2>2, <2>3 DEF Acts, Kept, Rests, Opening, Creating
    <2>5. QED
      BY <1>1, <1>2, <2>2, <2>3, <2>4
         DEF Alters, Launching, CopyAt, Creating, Opening, Forgets, HeardAt
  <1>8. QED
    BY <1>3, <1>4, <1>5, <1>6, <1>7

(* A chat that finds a task registered and began alone finds one that has   *)
(* not started: what has ended is not in the document any more.             *)
LEMMA RecheckAlters ==
  ASSUME IInv, Successive, NEW c \in Chats, Recheck(c)
  PROVE  Alters(c)
  <1> DEFINE t == Lookup(doc.task)
             pc == IF doc.box THEN "bind2" ELSE "bind1"
  <1>1. /\ Typed /\ PlacedAt(c) /\ BornAt(c) /\ CopyAt(c) /\ Boxed(doc) /\ ChatTyped(chat[c])
        /\ AloneAt(c) /\ (Undisturbed => HeardAt(c))
    BY Onward
  <1>2. chat[c].pc = "wait" /\ UNCHANGED <<doc, registered, task, stop, warm, taken>>
    BY DEF Recheck
  <1>3. /\ t # None => t \in Chats /\ t = doc.task /\ t \in registered
        /\ pc \in {"bind1", "bind2"} /\ (pc = "bind2" => doc.box)
    BY <1>1 DEF Typed, Lookup
  <1>4. \/ t # None /\ Chat(c, [pc |-> "put", lock |-> None, task |-> t])
        \/ Chat(c, [pc |-> "close", lock |-> None])
        \/ Chat(c, [pc |-> pc, copy |-> doc])
    BY DEF Recheck
  <1>5. Undisturbed /\ t # None /\ chat[c].alone => task[t].pc = "new"
    <2>1. SUFFICES ASSUME Undisturbed, t # None, chat[c].alone PROVE task[t].pc = "new"
      OBVIOUS
    <2>2. \A d \in Chats : chat[d].pc # "write"
      BY <1>2 DEF Successive, Sequential, Rests
    <2>3. ~Dead(t)
      BY <1>3, <2>1, <2>2 DEF Successive, Forgotten
    <2>4. ~Live(t)
      BY <1>1, <1>2, <1>3, <2>1 DEF AloneAt, Rests, Opening
    <2>5. task[t].pc \in TaskPlaces /\ task[t].pc # "none"
      BY <1>1, <1>3, <2>1 DEF Typed, TaskRecord, Successive, BareAt
    <2>6. QED
      BY <1>3, <2>1, <2>3, <2>4, <2>5 DEF Dead, Live
  <1> HIDE DEF t, pc
  <1>6. CASE t # None /\ Chat(c, [pc |-> "put", lock |-> None, task |-> t])
    <2>1. /\ ChatSet(chat'[c], chat[c], [pc |-> "put", lock |-> None, task |-> t])
          /\ \A d \in Chats : d # c => chat'[d] = chat[d]
      BY <1>1, <1>6, Chatted
    <2>2. /\ chat'[c].pc = "put" /\ chat'[c].task = t /\ chat'[c].copy = chat[c].copy
          /\ chat'[c].outcome = chat[c].outcome
          /\ chat'[c].alone = chat[c].alone /\ chat'[c].cancelled = chat[c].cancelled
      BY <2>1 DEF ChatSet
    <2>3. chat[c].task = None /\ doc.task # c /\ chat[c].outcome = None
      BY <1>1, <1>2 DEF PlacedAt, BornAt, UnknownTo, Early, CopyAt, Opening
    <2>4. Acts(c)
      BY <1>2, <2>1, <2>2, <2>3 DEF Acts, Kept, Rests, Opening, Creating
    <2>5. Undisturbed' => HeardAt(c)'
      <3>1. Undisturbed' => Undisturbed
        BY <2>4, ActsKeep
      <3>2. QED
        BY <1>1, <1>2, <1>5, <1>6, <2>2, <2>3, <3>1 DEF HeardAt
    <2>6. QED
      BY <1>1, <1>2, <1>3, <1>6, <2>2, <2>3, <2>4, <2>5
         DEF Alters, Launching, CopyAt, Creating, Opening, Forgets
  <1>7. CASE Chat(c, [pc |-> "close", lock |-> None])
    <2>1. /\ ChatSet(chat'[c], chat[c], [pc |-> "close", lock |-> None])
          /\ \A d \in Chats : d # c => chat'[d] = chat[d]
      BY <1>1, <1>7, Chatted
    <2>2. /\ chat'[c].pc = "close" /\ chat'[c].task = chat[c].task /\ chat'[c].copy = chat[c].copy
          /\ chat'[c].outcome = chat[c].outcome
          /\ chat'[c].alone = chat[c].alone /\ chat'[c].cancelled = chat[c].cancelled
      BY <2>1 DEF ChatSet
    <2>3. Acts(c)
      BY <1>2, <2>1, <2>2 DEF Acts, Kept, Rests, Opening, Creating
    <2>4. QED
      BY <1>1, <1>2, <2>2, <2>3, ActsKeep
         DEF Alters, Launching, CopyAt, Creating, Opening, Forgets, HeardAt
  <1>8. CASE Chat(c, [pc |-> pc, copy |-> doc])
    <2>1. /\ ChatSet(chat'[c], chat[c], [pc |-> pc, copy |-> doc])
          /\ \A d \in Chats : d # c => chat'[d] = chat[d]
      BY <1>1, <1>8, Chatted
    <2>2. /\ chat'[c].pc = pc /\ chat'[c].task = chat[c].task /\ chat'[c].copy = doc
          /\ chat'[c].outcome = chat[c].outcome
          /\ chat'[c].alone = chat[c].alone /\ chat'[c].cancelled = chat[c].cancelled
      BY <2>1 DEF ChatSet
    <2>3. Acts(c)
      BY <1>2, <1>3, <2>1, <2>2 DEF Acts, Kept, Rests, Opening, Creating
    <2>4. QED
      BY <1>1, <1>2, <1>3, <2>2, <2>3, ActsKeep
         DEF Alters, Launching, CopyAt, Creating, Opening, Forgets, HeardAt
  <1>9. QED
    BY <1>4, <1>6, <1>7, <1>8

\* a chat that reads, and one that has read all there is
LEMMA ReadAlters ==
  ASSUME IInv, Successive, NEW c \in Chats, chat[c].pc \in {"relay", "drain"}, More(c),
         NEW outcome, NEW pc \in {"relay", "drain", "close", "over", "mark"},
         pc \in {"relay", "drain"} => outcome = None /\ pc = chat[c].pc,
         outcome = "completed" => NextEvent(c) = "done" \/ outcome = None,
         Read(c, outcome, pc),
         UNCHANGED <<doc, registered, task, stop, warm, taken>>
  PROVE  Alters(c)
  <1> DEFINE n == chat[c].seen + 1
  <1>0. PICK t : t = chat[c].task
    OBVIOUS
  <1>1. /\ Typed /\ PlacedAt(c) /\ CopyAt(c) /\ Boxed(doc) /\ ChatTyped(chat[c])
        /\ Undisturbed => HeardAt(c)
    BY Onward
  <1>2. /\ ChatSet(chat'[c], chat[c], [seen |-> n, got |-> TRUE, outcome |-> outcome, pc |-> pc])
        /\ \A d \in Chats : d # c => chat'[d] = chat[d]
    BY <1>1, Chatted DEF Read
  <1>3. /\ chat'[c].pc = pc /\ chat'[c].outcome = outcome /\ chat'[c].task = t
        /\ chat'[c].copy = chat[c].copy /\ chat'[c].got = TRUE
        /\ chat'[c].alone = chat[c].alone /\ chat'[c].cancelled = chat[c].cancelled
    BY <1>0, <1>2 DEF ChatSet
  <1>4. t \in Chats /\ NextEvent(c) = task[t].out[n] /\ chat[c].outcome = None
    BY <1>0, <1>1 DEF PlacedAt, NextEvent, CopyAt
  <1>5. n \in 1 .. Len(task[t].out)
    <2>1. /\ chat[c].seen < Len(task[t].out) /\ chat[c].seen \in Nat
          /\ Len(task[t].out) \in Nat
      BY <1>0, <1>1, <1>4 DEF More, Typed, TaskRecord, ChatTyped
    <2>2. QED
      BY <2>1
  <1>6. Acts(c)
    BY <1>0, <1>2, <1>3 DEF Acts, Kept, Rests, Opening, Creating
  <1> HIDE DEF n
  <1>7. Undisturbed' => HeardAt(c)'
    <2>1. SUFFICES ASSUME Undisturbed', chat[c].alone PROVE HeardAt(c)'
      BY <1>3 DEF HeardAt
    <2>2. Undisturbed
      BY <1>6, <2>1, ActsKeep
    <2>3. /\ Holds(t, c) /\ ~task[t].cancel /\ Speaks(t)
          /\ chat[c].pc = "drain" => task[t].out # <<>>
          /\ chat[c].outcome = "completed" => c \in taken
      BY <1>0, <1>1, <2>1, <2>2 DEF HeardAt
    <2>4. outcome = "completed" => c \in taken
      BY <1>4, <1>5, <2>3 DEF Holds
    <2>5. Holds(t, c)' /\ Speaks(t)'
      BY <2>3 DEF Holds, Speaks
    <2>6. task' = task /\ taken' = taken
      OBVIOUS
    <2>7. QED
      BY <1>3, <2>3, <2>4, <2>5, <2>6 DEF HeardAt
  <1>8. QED
    BY <1>0, <1>1, <1>3, <1>6, <1>7
       DEF Alters, Launching, CopyAt, Creating, Opening, Forgets

LEMMA RelayingAlters ==
  ASSUME IInv, Successive, NEW c \in Chats, Relay(c) \/ Drain(c)
  PROVE  Alters(c)
  <1>1. Typed /\ PlacedAt(c)
    BY Onward
  <1>2. /\ chat[c].pc \in {"relay", "drain"} /\ More(c)
        /\ UNCHANGED <<doc, registered, task, stop, warm, taken>>
    BY DEF Relay, Drain
  <1>3. NextEvent(c) \in {"event", "wait", "done", "error"}
    BY <1>1, <1>2, NextEventTyped DEF Events
  <1>4. \/ \E pc \in {chat[c].pc, "over"} : Read(c, None, pc)
        \/ \E pc \in {"close", "over"} : Read(c, "waiting", pc)
        \/ NextEvent(c) = "done" /\ Read(c, "completed", "mark")
        \/ Read(c, "failed", "mark")
    <2>1. CASE Relay(c)
      <3>1. /\ NextEvent(c) = "event" => Read(c, None, Yielded(c, "relay"))
            /\ NextEvent(c) = "wait"  => Read(c, "waiting", Yielded(c, "close"))
            /\ NextEvent(c) = "done"  => Read(c, "completed", "mark")
            /\ NextEvent(c) = "error" => Read(c, "failed", "mark")
            /\ chat[c].pc = "relay"
        BY <2>1 DEF Relay
      <3>2. QED
        BY <1>3, <3>1 DEF Yielded
    <2>2. CASE Drain(c)
      <3>1. /\ NextEvent(c) \in {"event", "wait"} => Read(c, None, Yielded(c, "drain"))
            /\ NextEvent(c) = "done"  => Read(c, "completed", "mark")
            /\ NextEvent(c) = "error" => Read(c, "failed", "mark")
            /\ chat[c].pc = "drain"
        BY <2>2 DEF Drain
      <3>2. QED
        BY <1>3, <3>1 DEF Yielded
    <2>3. QED
      BY <2>1, <2>2
  <1>5. QED
    BY <1>2, <1>4, ReadAlters

LEMMA OutSays ==
  ASSUME Typed, NEW t \in Chats, task[t].out # <<>>
  PROVE  Len(task[t].out) > 0
  <1>1. task[t].out \in Seq(Events)
    BY DEF Typed, TaskRecord
  <1>2. QED
    BY <1>1

\* a chat that found no event when its task was over was told nothing true
LEMMA LeavingAlters ==
  ASSUME IInv, Successive, NEW c \in Chats,
         TaskOver(c) \/ Drained(c) \/ Abort(c) \/ ClosedAtYield(c)
  PROVE  Alters(c)
  <1>0. PICK t : t = chat[c].task
    OBVIOUS
  <1>1. /\ Typed /\ PlacedAt(c) /\ CopyAt(c) /\ Boxed(doc) /\ ChatTyped(chat[c])
        /\ Undisturbed => HeardAt(c)
    BY Onward
  <1>2. UNCHANGED <<doc, registered, task, stop, warm, taken>>
    BY DEF TaskOver, Drained, Abort, ClosedAtYield
  <1>3. CASE TaskOver(c)
    <2>1. /\ ChatSet(chat'[c], chat[c], [pc |-> "drain"])
          /\ \A d \in Chats : d # c => chat'[d] = chat[d]
      BY <1>1, <1>3, Chatted DEF TaskOver
    <2>2. /\ chat'[c].pc = "drain" /\ chat'[c].outcome = chat[c].outcome /\ chat'[c].task = t
          /\ chat'[c].copy = chat[c].copy /\ chat'[c].got = chat[c].got
          /\ chat'[c].seen = chat[c].seen
          /\ chat'[c].alone = chat[c].alone /\ chat'[c].cancelled = chat[c].cancelled
      BY <1>0, <2>1 DEF ChatSet
    <2>3. chat[c].pc = "relay" /\ ~Live(t) /\ t \in Chats
      BY <1>0, <1>1, <1>3 DEF TaskOver, PlacedAt
    <2>4. Acts(c)
      BY <1>0, <1>2, <2>1, <2>2, <2>3 DEF Acts, Kept, Rests, Opening, Creating
    <2>5. Undisturbed' => HeardAt(c)'
      <3>1. SUFFICES ASSUME Undisturbed', chat[c].alone PROVE HeardAt(c)'
        BY <2>2 DEF HeardAt
      <3>2. /\ Holds(t, c) /\ ~task[t].cancel /\ Speaks(t)
            /\ chat[c].outcome = "completed" => c \in taken
            /\ ~chat[c].got => chat[c].seen = 0
        BY <1>0, <1>1, <2>3, <2>4, <3>1, ActsKeep DEF HeardAt
      <3>3. task[t].out # <<>>
        BY <2>3, <3>2, SessionAssumption DEF Speaks, Live
      <3>4. Holds(t, c)' /\ Speaks(t)'
        BY <1>2, <3>2 DEF Holds, Speaks
      <3>5. QED
        BY <1>2, <2>2, <3>2, <3>3, <3>4 DEF HeardAt
    <2>6. QED
      BY <1>0, <1>1, <1>2, <2>2, <2>3, <2>4, <2>5
         DEF Alters, Launching, CopyAt, Creating, Opening, Forgets
  <1>4. CASE Drained(c)
    <2>1. chat[c].pc = "drain" /\ ~More(c) /\ t \in Chats
      BY <1>0, <1>1, <1>4 DEF Drained, PlacedAt
    <2>2. \/ \E pc \in {"tear", "over"} : ~chat[c].got /\ Chat(c, [pc |-> pc, outcome |-> "completed"])
          \/ \E pc \in {"tear", "over"} : Chat(c, [pc |-> pc, outcome |-> "cancelled"])
          \/ Chat(c, [pc |-> "close"])
      BY <1>4 DEF Drained, Yielded
    <2>3. Undisturbed /\ chat[c].alone => chat[c].got
      <3>1. SUFFICES ASSUME Undisturbed, chat[c].alone, ~chat[c].got PROVE FALSE
        BY <1>1 DEF ChatTyped
      <3>2. chat[c].seen = 0 /\ task[t].out # <<>>
        BY <1>0, <1>1, <2>1, <3>1 DEF HeardAt
      <3>3. QED
        BY <1>0, <1>1, <2>1, <3>2, OutSays DEF More
    <2>4. ASSUME NEW pc \in {"tear", "over", "close"}, NEW outcome,
                 outcome = "completed" => ~chat[c].got \/ outcome = chat[c].outcome,
                 /\ chat'[c].pc = pc /\ chat'[c].outcome = outcome /\ chat'[c].task = t
                 /\ chat'[c].copy = chat[c].copy
                 /\ chat'[c].alone = chat[c].alone /\ chat'[c].cancelled = chat[c].cancelled
                 /\ \A d \in Chats : d # c => chat'[d] = chat[d]
          PROVE  Alters(c)
      <3>1. Acts(c)
        BY <1>0, <1>2, <2>1, <2>4 DEF Acts, Kept, Rests, Opening, Creating
      <3>2. Undisturbed' => HeardAt(c)'
        BY <1>0, <1>1, <1>2, <2>3, <2>4, <3>1, ActsKeep DEF HeardAt
      <3>3. QED
        BY <1>0, <1>1, <1>2, <2>1, <2>4, <3>1, <3>2
           DEF Alters, Launching, CopyAt, Creating, Opening, Forgets
    <2>5. ASSUME NEW pc \in {"tear", "over"}, NEW outcome,
                 outcome = "completed" => ~chat[c].got,
                 Chat(c, [pc |-> pc, outcome |-> outcome])
          PROVE  Alters(c)
      <3>1. ChatSet(chat'[c], chat[c], [pc |-> pc, outcome |-> outcome])
            /\ \A d \in Chats : d # c => chat'[d] = chat[d]
        BY <1>1, <2>5, Chatted
      <3>2. QED
        BY <1>0, <2>4, <2>5, <3>1 DEF ChatSet
    <2>6. CASE Chat(c, [pc |-> "close"])
      <3>1. ChatSet(chat'[c], chat[c], [pc |-> "close"])
            /\ \A d \in Chats : d # c => chat'[d] = chat[d]
        BY <1>1, <2>6, Chatted
      <3>2. QED
        BY <1>0, <2>4, <3>1 DEF ChatSet
    <2>7. QED
      BY <2>2, <2>5, <2>6
  <1>5. CASE Abort(c)
    <2>1. /\ ChatSet(chat'[c], chat[c], [pc |-> "close", lock |-> None, copy |-> Blank])
          /\ \A d \in Chats : d # c => chat'[d] = chat[d]
      BY <1>1, <1>5, Chatted DEF Abort
    <2>2. /\ chat'[c].pc = "close" /\ chat'[c].outcome = chat[c].outcome /\ chat'[c].task = t
          /\ chat'[c].copy = Blank
          /\ chat'[c].alone = chat[c].alone /\ chat'[c].cancelled = chat[c].cancelled
      BY <1>0, <2>1 DEF ChatSet
    <2>3. chat[c].pc \in InDomain /\ ~NeverCancelled'
      BY <1>5, <2>2 DEF Abort, NeverCancelled
    <2>4. Acts(c)
      BY <1>0, <1>2, <2>1, <2>2, <2>3 DEF Acts, Kept, Rests, Opening, Creating, InDomain
    <2>5. Boxed(Blank) /\ Blank.task = None
      BY DEF Boxed, Blank
    <2>6. QED
      BY <1>0, <1>1, <1>2, <2>2, <2>3, <2>4, <2>5
         DEF Alters, Launching, CopyAt, Creating, Opening, Undisturbed
  <1>6. CASE ClosedAtYield(c)
    <2>1. /\ ChatSet(chat'[c], chat[c], [pc |-> "over", got |-> FALSE, lock |-> None])
          /\ \A d \in Chats : d # c => chat'[d] = chat[d]
      BY <1>1, <1>6, Chatted DEF ClosedAtYield
    <2>2. /\ chat'[c].pc = "over" /\ chat'[c].outcome = chat[c].outcome /\ chat'[c].task = t
          /\ chat'[c].copy = chat[c].copy
          /\ chat'[c].alone = chat[c].alone /\ chat'[c].cancelled = chat[c].cancelled
      BY <1>0, <2>1 DEF ChatSet
    <2>3. chat[c].pc \in {"run", "relay", "drain", "tear"}
      BY <1>6 DEF ClosedAtYield
    <2>4. Acts(c)
      BY <1>0, <1>2, <2>1, <2>2, <2>3 DEF Acts, Kept, Rests, Opening, Creating
    <2>5. QED
      BY <1>0, <1>1, <1>2, <2>2, <2>3, <2>4, ActsKeep
         DEF Alters, Launching, CopyAt, Creating, Opening, Forgets, HeardAt
  <1>7. QED
    BY <1>3, <1>4, <1>5, <1>6


\* a chat that writes its end, or has it read by nobody
LEMMA EndingAlters ==
  ASSUME IInv, Successive, NEW c \in Chats, Mark(c) \/ TeardownWrites(c) \/ Disconnect(c)
  PROVE  Alters(c)
  <1>1. /\ Typed /\ PlacedAt(c) /\ CopyAt(c) /\ Boxed(doc) /\ ChatTyped(chat[c])
        /\ Undisturbed => HeardAt(c)
    BY Onward
  <1>2. UNCHANGED <<registered, task, stop, warm, taken>>
    BY DEF Mark, TeardownWrites, Disconnect
  <1>3. CASE Mark(c)
    <2>1. /\ ChatSet(chat'[c], chat[c], [pc |-> Yielded(c, "tear")])
          /\ \A d \in Chats : d # c => chat'[d] = chat[d]
      BY <1>1, <1>3, Chatted DEF Mark
    <2>2. /\ chat'[c].pc \in {"tear", "over"} /\ chat'[c].outcome = chat[c].outcome
          /\ chat'[c].task = chat[c].task /\ chat'[c].copy = chat[c].copy
          /\ chat'[c].alone = chat[c].alone /\ chat'[c].cancelled = chat[c].cancelled
      BY <2>1 DEF ChatSet, Yielded
    <2>3. chat[c].pc = "mark" /\ doc'.task = doc.task /\ doc'.box = doc.box
      BY <1>1, <1>3 DEF Mark, Typed, Documents
    <2>4. Acts(c)
      BY <1>2, <2>1, <2>2, <2>3 DEF Acts, Kept, Rests, Opening, Creating
    <2>5. CopyAt(c)' /\ Boxed(doc)' /\ Forgets(c) /\ (Launching(c)' => Launching(c))
      BY <1>1, <2>2, <2>3 DEF Launching, CopyAt, Creating, Opening, Forgets, Boxed
    <2>6. Undisturbed' => HeardAt(c)'
      BY <1>1, <1>2, <2>2, <2>3, <2>4, ActsKeep DEF HeardAt
    <2>7. QED
      BY <1>2, <2>4, <2>5, <2>6 DEF Alters
  <1>4. CASE TeardownWrites(c)
    <2> DEFINE outcome == IF chat[c].outcome = "failing" THEN "failed" ELSE chat[c].outcome
    <2>1. /\ ChatSet(chat'[c], chat[c], [pc |-> "close", outcome |-> outcome])
          /\ \A d \in Chats : d # c => chat'[d] = chat[d]
      BY <1>1, <1>4, Chatted DEF TeardownWrites
    <2>2. /\ chat'[c].pc = "close" /\ chat'[c].outcome = outcome
          /\ chat'[c].task = chat[c].task /\ chat'[c].copy = chat[c].copy
          /\ chat'[c].alone = chat[c].alone /\ chat'[c].cancelled = chat[c].cancelled
      BY <2>1 DEF ChatSet
    <2>3. chat[c].pc = "write" /\ doc'.task = None
      BY <1>1, <1>4 DEF TeardownWrites, Typed, Documents
    <2>4. Acts(c)
      BY <1>2, <2>1, <2>2, <2>3 DEF Acts, Kept, Rests, Opening, Creating
    <2>5. CopyAt(c)' /\ Boxed(doc)' /\ Forgets(c) /\ (Launching(c)' => Launching(c))
      BY <1>1, <2>2, <2>3 DEF Launching, CopyAt, Creating, Opening, Forgets, Boxed
    <2>6. Undisturbed' => HeardAt(c)'
      BY <1>1, <1>2, <2>2, <2>3, <2>4, ActsKeep DEF HeardAt
    <2>7. QED
      BY <1>2, <2>4, <2>5, <2>6 DEF Alters
  <1>5. CASE Disconnect(c)
    <2>1. /\ ChatSet(chat'[c], chat[c], [gone |-> TRUE])
          /\ \A d \in Chats : d # c => chat'[d] = chat[d]
      BY <1>1, <1>5, Chatted DEF Disconnect
    <2>2. /\ chat'[c].pc = chat[c].pc /\ chat'[c].outcome = chat[c].outcome
          /\ chat'[c].task = chat[c].task /\ chat'[c].copy = chat[c].copy
          /\ chat'[c].got = chat[c].got /\ chat'[c].seen = chat[c].seen
          /\ chat'[c].alone = chat[c].alone /\ chat'[c].cancelled = chat[c].cancelled
      BY <2>1 DEF ChatSet
    <2>3. chat[c].pc \in InDomain /\ doc' = doc
      BY <1>5 DEF Disconnect
    <2>4. Acts(c)
      BY <1>2, <2>1, <2>2, <2>3 DEF Acts, Kept, Rests, InDomain, Creating
    <2>5. CopyAt(c)' /\ Boxed(doc)' /\ Forgets(c) /\ (Launching(c)' => Launching(c))
      BY <1>1, <1>2, <2>2, <2>3 DEF Launching, CopyAt, Forgets
    <2>6. Undisturbed' => HeardAt(c)'
      <3>1. Undisturbed' => Undisturbed
        BY <2>4, ActsKeep
      <3>2. HeardAt(c) => HeardAt(c)'
        BY <1>2, <2>2 DEF HeardAt, Holds, Speaks
      <3>3. QED
        BY <1>1, <3>1, <3>2
    <2>7. QED
      BY <1>2, <2>4, <2>5, <2>6 DEF Alters
  <1>6. QED
    BY <1>3, <1>4, <1>5

LEMMA ClosingAlters ==
  ASSUME IInv, Successive, NEW c \in Chats, Close(c)
  PROVE  Alters(c)
  <1>1. /\ Typed /\ CopyAt(c) /\ Boxed(doc) /\ (Undisturbed => HeardAt(c))
    BY Onward
  <1>2. chat \in [Chats -> ChatRecord] /\ \A d \in Chats : chat[d] \in ChatRecord
    BY <1>1 DEF Typed
  <1>3. chat[c].pc = "close" /\ UNCHANGED <<doc, registered, task, stop, warm, taken>>
    BY DEF Close
  <1> DEFINE over == [chat EXCEPT ![c].pc = "over", ![c].got = FALSE, ![c].lock = None]
  <1>4. chat' = over \/ chat' = [over EXCEPT ![current'].cancelled = TRUE]
    BY DEF Close, CancelCurrent
  <1>5. /\ over[c].pc = "over" /\ over[c].task = chat[c].task /\ over[c].copy = chat[c].copy
        /\ over[c].outcome = chat[c].outcome /\ over[c].alone = chat[c].alone
        /\ over[c].cancelled = chat[c].cancelled
        /\ \A d \in Chats \ {c} : over[d] = chat[d]
        /\ DOMAIN over = Chats /\ \A d \in Chats : DOMAIN over[d] = DOMAIN chat[d]
    <2>1. over[c] = [chat[c] EXCEPT !.pc = "over", !.got = FALSE, !.lock = None]
      BY <1>2 DEF ChatRecord
    <2>2. DOMAIN over = Chats /\ \A d \in Chats \ {c} : over[d] = chat[d]
      BY <1>2
    <2>3. QED
      BY <1>2, <2>1, <2>2 DEF ChatRecord
  <1> HIDE DEF over
  <1>6. \A d \in Chats :
          /\ chat'[d].pc = over[d].pc /\ chat'[d].task = over[d].task
          /\ chat'[d].copy = over[d].copy /\ chat'[d].alone = over[d].alone
          /\ chat'[d].outcome = over[d].outcome
          /\ over[d].cancelled => chat'[d].cancelled
    <2>1. CASE chat' = over
      BY <2>1
    <2>2. CASE chat' = [over EXCEPT ![current'].cancelled = TRUE]
      <3>1. \A d \in Chats : DOMAIN over[d] = {"pc", "turn", "alone", "lock", "copy", "task",
                                 "seen", "got", "outcome", "gone", "cancelled"}
        BY <1>2, <1>5 DEF ChatRecord
      <3>2. QED
        BY <1>5, <2>2, <3>1
    <2>3. QED
      BY <1>4, <2>1, <2>2
  <1>7. /\ \A d \in Chats \ {c} : Kept(d)
        /\ chat'[c].pc = "over" /\ chat'[c].task = chat[c].task
        /\ chat'[c].copy = chat[c].copy /\ chat'[c].alone = chat[c].alone
        /\ chat'[c].outcome = chat[c].outcome
        /\ chat[c].cancelled => chat'[c].cancelled
    BY <1>5, <1>6 DEF Kept
  <1>8. Acts(c)
    BY <1>3, <1>7 DEF Acts, Rests, Opening, Creating
  <1>9. CopyAt(c)' /\ Boxed(doc)' /\ Forgets(c) /\ (Launching(c)' => Launching(c))
    BY <1>1, <1>3, <1>7 DEF Launching, CopyAt, Creating, Opening, Forgets
  <1>10. Undisturbed' => HeardAt(c)'
    BY <1>1, <1>3, <1>7, <1>8, ActsKeep DEF HeardAt
  <1>11. QED
    BY <1>3, <1>8, <1>9, <1>10 DEF Alters

-----------------------------------------------------------------------------
(* Streams that begin, and streams that users cancel.                       *)
LEMMA BeginKeeps ==
  ASSUME IInv, Successive, Overlap = "none", NEW c \in Chats, Begin(c)
  PROVE  Successive'
  <1>1. /\ Typed /\ PlacedAt(c) /\ CopyAt(c) /\ (Undisturbed => HeardAt(c))
        /\ \A d \in Chats : AloneAt(d) /\ CopyAt(d) /\ BareAt(d)
    BY Onward
  <1> DEFINE a == \A t \in Chats : ~Live(t)
             n == 1 + Cardinality({d \in Chats : chat[d].pc # "idle"})
  <1>2. /\ chat[c].pc = "idle" /\ UNCHANGED <<doc, registered, task, stop, warm, taken>>
        /\ \A d \in Chats \ {c} : Rests(d)
        /\ Chat(c, [pc |-> "arrive", turn |-> n, alone |-> a])
    BY DEF Begin, MayBegin, Rests
  <1>3. a \in BOOLEAN /\ (a => \A t \in Chats : ~Live(t))
    OBVIOUS
  <1> HIDE DEF a, n
  <1>4. /\ ChatSet(chat'[c], chat[c], [pc |-> "arrive", turn |-> n, alone |-> a])
        /\ \A d \in Chats : d # c => chat'[d] = chat[d]
    BY <1>1, <1>2, Chatted
  <1>5. /\ chat'[c].pc = "arrive" /\ chat'[c].alone = a /\ chat'[c].task = None
        /\ chat'[c].copy = chat[c].copy /\ chat'[c].outcome = None
        /\ chat'[c].cancelled = chat[c].cancelled
    BY <1>1, <1>2, <1>4 DEF ChatSet, PlacedAt, Early, CopyAt
  <1>6. \A t \in Chats : (Live(t)' <=> Live(t)) /\ (Dead(t)' <=> Dead(t))
    BY <1>2 DEF Live, Dead
  <1>7. Sequential'
    BY <1>2, <1>4 DEF Sequential, Rests
  <1>8. Launched'
    <2>1. \A d \in Chats : ~Launching(d)'
      BY <1>2, <1>4, <1>5 DEF Launching, Rests
    <2>2. QED
      BY <2>1 DEF Launched
  <1>9. Registered'
    <2>1. NeverStopped' => NeverStopped
      BY <1>2 DEF NeverStopped
    <2>2. \A d \in Chats : chat'[d].task = chat[d].task
      BY <1>1, <1>2, <1>4, <1>5 DEF PlacedAt, Early
    <2>3. QED
      BY <1>2, <1>6, <2>1, <2>2, RegisteredStays DEF Successive
  <1>10. \A d \in Chats : AloneAt(d)'
    BY <1>2, <1>3, <1>4, <1>5, <1>6 DEF AloneAt, Rests
  <1>11. \A d \in Chats : CopyAt(d)'
    BY <1>1, <1>2, <1>4, <1>5 DEF CopyAt, Creating, Opening
  <1>12. \A t \in Chats : BareAt(t)'
    BY <1>1, <1>2, <1>6 DEF BareAt
  <1>13. Boxed(doc)' /\ warm'.copy.task = None
    BY <1>2 DEF Successive
  <1>14. ASSUME Undisturbed' PROVE Forgotten' /\ \A d \in Chats : HeardAt(d)'
    <2>1. Undisturbed
      BY <1>2, <1>4, <1>5, <1>14 DEF Undisturbed, NeverCancelled, NeverStopped
    <2>2. Forgotten /\ \A d \in Chats : HeardAt(d)
      BY <2>1 DEF Successive
    <2>3. \A d \in Chats : chat[d].pc # "write" /\ chat'[d].copy = chat[d].copy
      BY <1>2, <1>4, <1>5 DEF Rests
    <2>4. Forgotten'
      BY <1>2, <1>6, <2>2, <2>3 DEF Forgotten
    <2>5. \A d \in Chats \ {c} : HeardAt(d)'
      BY <1>2, <1>4, <2>2 DEF HeardAt, Rests
    <2>6. HeardAt(c)'
      BY <1>5, SessionAssumption DEF HeardAt
    <2>7. QED
      BY <2>4, <2>5, <2>6
  <1>15. QED
    BY <1>7, <1>8, <1>9, <1>10, <1>11, <1>12, <1>13, <1>14 DEF Successive

LEMMA UserCancelsKeeps ==
  ASSUME IInv, Successive, UserCancels
  PROVE  Successive'
  <1>1. Typed /\ current \in Chats
    BY InvParts DEF UserCancels, Typed
  <1>2. /\ UNCHANGED <<doc, registered, task, stop, warm>>
        /\ chat' = [chat EXCEPT ![current].cancelled = TRUE]
    BY <1>1, SessionAssumption DEF UserCancels, CancelCurrent
  <1>3. chat \in [Chats -> ChatRecord] /\ \A d \in Chats : chat[d] \in ChatRecord
    BY <1>1 DEF Typed
  <1>4. /\ chat'[current].cancelled
        /\ \A d \in Chats :
             /\ chat'[d].pc = chat[d].pc /\ chat'[d].alone = chat[d].alone
             /\ chat'[d].task = chat[d].task /\ chat'[d].copy = chat[d].copy
             /\ chat'[d].outcome = chat[d].outcome
    BY <1>1, <1>2, <1>3 DEF ChatRecord
  <1>5. ~Undisturbed' /\ (NeverStopped' <=> NeverStopped)
    BY <1>1, <1>2, <1>4 DEF Undisturbed, NeverCancelled, NeverStopped
  <1>6. /\ \A t \in Chats : Live(t)' <=> Live(t)
        /\ \A d \in Chats : (Rests(d)' <=> Rests(d)) /\ (Launching(d)' <=> Launching(d))
    BY <1>2, <1>4 DEF Live, Rests, Launching
  <1>7. Sequential' /\ Launched'
    BY <1>2, <1>5, <1>6 DEF Successive, Sequential, Launched
  <1>8. Registered'
    BY <1>2, <1>4, <1>5, <1>6, RegisteredStays DEF Successive
  <1>9. \A d \in Chats : AloneAt(d)' /\ CopyAt(d)' /\ BareAt(d)'
    BY <1>2, <1>4, <1>6 DEF Successive, AloneAt, CopyAt, BareAt
  <1>10. Boxed(doc)' /\ warm'.copy.task = None
    BY <1>2 DEF Successive
  <1>11. QED
    BY <1>5, <1>7, <1>8, <1>9, <1>10 DEF Successive

-----------------------------------------------------------------------------
(* A chat that creates, tells or starts a task.                             *)
LEMMA CreateTaskWorks ==
  ASSUME IInv, Successive, NEW c \in Chats, CreateTask(c)
  PROVE  Works(c, c)
  <1>1. /\ Typed /\ PlacedAt(c) /\ BornAt(c) /\ ChatTyped(chat[c])
        /\ AloneAt(c) /\ CopyAt(c) /\ BareAt(c)
        /\ Undisturbed => HeardAt(c)
    BY Onward
  <1>2. /\ chat[c].pc = "bind2" /\ doc' = chat[c].copy /\ registered' = registered \cup {c}
        /\ Task(c, [pc |-> "new"]) /\ Chat(c, [pc |-> "bind3"])
        /\ UNCHANGED <<stop, warm, taken>>
    BY DEF CreateTask
  <1>3. /\ ChatSet(chat'[c], chat[c], [pc |-> "bind3"])
        /\ \A d \in Chats : d # c => chat'[d] = chat[d]
    BY <1>1, <1>2, Chatted
  <1>4. /\ TaskSet(task'[c], task[c], [pc |-> "new"])
        /\ \A d \in Chats : d # c => task'[d] = task[d]
    BY <1>1, <1>2, Tasked
  <1>5. /\ chat'[c].pc = "bind3" /\ chat'[c].task = None
        /\ chat'[c].copy = chat[c].copy /\ chat'[c].outcome = chat[c].outcome
        /\ chat'[c].alone = chat[c].alone /\ chat'[c].cancelled = chat[c].cancelled
        /\ chat[c].task = None
    BY <1>1, <1>2, <1>3 DEF ChatSet, PlacedAt, Early
  <1>6. /\ task[c].pc = "none" /\ task'[c].pc = "new" /\ ~task'[c].cancel
        /\ task'[c].out = <<>>
    BY <1>1, <1>2, <1>4 DEF TaskSet, BornAt, BareAt, Live, Early
  <1>7. Acts(c)
    BY <1>2, <1>3, <1>5 DEF Acts, Kept, Rests, Opening, Creating
  <1>8. ~Live(c)' /\ ~Dead(c)' /\ BareAt(c)'
    BY <1>2, <1>6 DEF Live, Dead, BareAt
  <1>9. AloneAt(c)'
    <2>1. chat[c].alone => \A t \in Chats : ~Live(t)
      BY <1>1, <1>2 DEF AloneAt, Rests, Opening, Creating
    <2>2. \A t \in Chats : Live(t)' => Live(t)
      BY <1>4, <1>8 DEF Live
    <2>3. QED
      BY <1>5, <2>1, <2>2 DEF AloneAt
  <1>10. CopyAt(c)' /\ Boxed(doc)' /\ Forgets(c)
    BY <1>1, <1>2, <1>5 DEF CopyAt, Creating, Opening, Boxed, Forgets
  <1>11. Undisturbed' => HeardAt(c)'
    BY <1>1, <1>2, <1>5, <1>7, ActsKeep DEF HeardAt
  <1>12. QED
    BY <1>2, <1>4, <1>6, <1>7, <1>8, <1>9, <1>10, <1>11 DEF Works

LEMMA ReactivateWorks ==
  ASSUME IInv, Successive, NEW c \in Chats, Reactivate(c)
  PROVE  Works(c, c)
  <1>1. /\ Typed /\ PlacedAt(c) /\ AloneAt(c) /\ CopyAt(c) /\ BareAt(c) /\ Boxed(doc)
        /\ NeverStopped => (Launching(c) => task[c].pc = "new" /\ c \in registered)
        /\ Undisturbed => HeardAt(c)
    BY Onward
  <1>2. /\ chat[c].pc = "bind4" /\ chat[c].task = c
        /\ task' = task \/ Task(c, [in |-> <<"context">>])
        /\ Chat(c, [pc |-> "put", lock |-> None, copy |-> Blank])
        /\ UNCHANGED <<doc, registered, stop, warm, taken>>
    BY <1>1 DEF Reactivate, PlacedAt
  <1>3. /\ ChatSet(chat'[c], chat[c], [pc |-> "put", lock |-> None, copy |-> Blank])
        /\ \A d \in Chats : d # c => chat'[d] = chat[d]
    BY <1>1, <1>2, Chatted
  <1>4. /\ \A d \in Chats : d # c => task'[d] = task[d]
        /\ task'[c].pc = task[c].pc /\ task'[c].out = task[c].out
        /\ task'[c].cancel = task[c].cancel
    <2>1. CASE task' = task
      BY <2>1
    <2>2. CASE Task(c, [in |-> <<"context">>])
      <3>1. /\ TaskSet(task'[c], task[c], [in |-> <<"context">>])
            /\ \A d \in Chats : d # c => task'[d] = task[d]
        BY <1>1, <2>2, Tasked
      <3>2. QED
        BY <3>1 DEF TaskSet
    <2>3. QED
      BY <1>2, <2>1, <2>2
  <1>5. /\ chat'[c].pc = "put" /\ chat'[c].task = c
        /\ chat'[c].copy = Blank /\ chat'[c].outcome = chat[c].outcome
        /\ chat'[c].alone = chat[c].alone /\ chat'[c].cancelled = chat[c].cancelled
    BY <1>2, <1>3 DEF ChatSet
  <1>6. Acts(c) /\ Launching(c)
    BY <1>2, <1>3, <1>5 DEF Acts, Kept, Rests, Opening, Creating, Launching
  <1>7. \A t \in Chats : (Live(t)' <=> Live(t)) /\ (Dead(t)' <=> Dead(t))
    BY <1>2, <1>4 DEF Live, Dead
  <1>8. BareAt(c)'
    BY <1>1, <1>2, <1>4, <1>7 DEF BareAt
  <1>9. AloneAt(c)'
    BY <1>1, <1>2, <1>5, <1>7 DEF AloneAt, Rests, Opening, Creating
  <1>10. Blank.task = None /\ Boxed(Blank)
    BY DEF Blank, Boxed
  <1>11. CopyAt(c)' /\ Forgets(c)
    BY <1>1, <1>2, <1>5, <1>10 DEF CopyAt, Creating, Opening, Forgets
  <1>12. NeverStopped' => task'[c].pc = "new" /\ c \in registered'
    BY <1>1, <1>2, <1>4, <1>6, ActsKeep
  <1>13. Undisturbed' => HeardAt(c)'
    <2>1. Undisturbed' => Undisturbed /\ task'[c].pc = "new"
      BY <1>6, <1>12, ActsKeep DEF Undisturbed
    <2>2. QED
      BY <1>1, <1>2, <1>5, <2>1 DEF HeardAt
  <1>14. QED
    BY <1>1, <1>2, <1>4, <1>6, <1>7, <1>8, <1>9, <1>11, <1>12, <1>13 DEF Works, Boxed

\* the message is the last of a task that has not started and said nothing
LEMMA PutWorks ==
  ASSUME IInv, Successive, NEW c \in Chats, Put(c)
  PROVE  Works(c, chat[c].task)
  <1>0. PICK t : t = chat[c].task
    OBVIOUS
  <1> DEFINE in == Append(task[t].in, c)
  <1>1. /\ Typed /\ PlacedAt(c) /\ AloneAt(c) /\ CopyAt(c) /\ Boxed(doc)
        /\ NeverStopped => (Launching(c) => task[c].pc = "new" /\ c \in registered)
        /\ Undisturbed => HeardAt(c)
        /\ \A d \in Chats : ReadAt(d)
    BY Onward, InvParts
  <1>2. /\ chat[c].pc = "put" /\ Task(t, [in |-> in])
        /\ UNCHANGED <<doc, registered, stop, warm, taken>>
    BY <1>0 DEF Put
  <1>3. t \in Chats /\ BareAt(t)
    BY <1>0, <1>1, <1>2 DEF PlacedAt, Successive
  <1>4. PICK seen \in {0} \cup {chat[d].seen : d \in {e \in Chats : chat[e].task = t}} :
          Chat(c, [pc |-> Yielded(c, "run"), seen |-> seen])
    BY <1>0 DEF Put
  <1>5. task[t].out = <<>> => seen = 0
    <2>1. ASSUME NEW d \in Chats, chat[d].task = t, task[t].out = <<>> PROVE chat[d].seen = 0
      <3>1. chat[d].seen <= Len(<<>>) /\ chat[d].seen \in Nat
        BY <1>1, <1>3, <2>1, SessionAssumption DEF ReadAt, Typed, ChatRecord
      <3>2. QED
        BY <3>1
    <2>2. QED
      BY <2>1
  <1>6. in # <<>> /\ in[Len(in)] = c
    <2>1. task[t].in \in Seq(Chats \cup {"context"})
      BY <1>1, <1>3 DEF Typed, TaskRecord
    <2>2. QED
      BY <2>1
  <1> HIDE DEF in
  <1>7. /\ ChatSet(chat'[c], chat[c], [pc |-> Yielded(c, "run"), seen |-> seen])
        /\ \A d \in Chats : d # c => chat'[d] = chat[d]
    BY <1>1, <1>4, Chatted
  <1>8. /\ TaskSet(task'[t], task[t], [in |-> in])
        /\ \A d \in Chats : d # t => task'[d] = task[d]
    BY <1>1, <1>2, <1>3, Tasked
  <1>9. /\ chat'[c].pc \in {"run", "over"} /\ chat'[c].task = t /\ chat'[c].seen = seen
        /\ chat'[c].copy = chat[c].copy /\ chat'[c].outcome = chat[c].outcome
        /\ chat'[c].alone = chat[c].alone /\ chat'[c].cancelled = chat[c].cancelled
    BY <1>0, <1>7 DEF ChatSet, Yielded
  <1>10. /\ task'[t].pc = task[t].pc /\ task'[t].out = task[t].out /\ task'[t].in = in
         /\ task'[t].cancel = task[t].cancel
    BY <1>8 DEF TaskSet
  <1>11. Acts(c) /\ (Launching(c)' => Launching(c))
    BY <1>0, <1>2, <1>7, <1>9 DEF Acts, Kept, Rests, Opening, Creating, Launching
  <1>12. \A u \in Chats : (Live(u)' <=> Live(u)) /\ (Dead(u)' <=> Dead(u))
    BY <1>2, <1>8, <1>10 DEF Live, Dead
  <1>13. BareAt(t)'
    BY <1>2, <1>3, <1>10, <1>12 DEF BareAt
  <1>14. AloneAt(c)'
    BY <1>1, <1>2, <1>9, <1>12 DEF AloneAt, Rests, Opening
  <1>15. CopyAt(c)' /\ Forgets(c)
    BY <1>1, <1>2, <1>9 DEF CopyAt, Creating, Opening, Forgets
  <1>16. NeverStopped' => (Launching(c)' => task'[c].pc = "new" /\ c \in registered')
    BY <1>1, <1>2, <1>8, <1>10, <1>11, ActsKeep
  <1>17. Undisturbed' => HeardAt(c)'
    <2>1. SUFFICES ASSUME Undisturbed', chat[c].alone PROVE HeardAt(c)'
      BY <1>9 DEF HeardAt
    <2>2. task[t].pc = "new" /\ (chat[c].outcome = "completed" => c \in taken)
      BY <1>0, <1>1, <1>2, <1>11, <2>1, ActsKeep DEF HeardAt
    <2>3. task[t].out = <<>> /\ ~task[t].cancel
      BY <1>3, <2>2 DEF BareAt, Live
    <2>4. Holds(t, c)'
      <3>1. \A i \in 1 .. Len(task'[t].out) : task'[t].out[i] # "done"
        BY <1>10, <2>3
      <3>2. QED
        BY <1>6, <1>10, <2>2, <3>1 DEF Holds
    <2>5. QED
      BY <1>2, <1>5, <1>9, <1>10, <2>2, <2>3, <2>4 DEF HeardAt
  <1>18. registered' = registered /\ Boxed(doc)' /\ (Live(t)' => Live(t)) /\ (Dead(t)' => Dead(t))
    BY <1>1, <1>2, <1>3, <1>12 DEF Boxed
  <1>19. Works(c, t)
    BY <1>3, <1>8, <1>11, <1>13, <1>14, <1>15, <1>16, <1>17, <1>18 DEF Works
  <1>20. QED
    BY <1>0, <1>19

LEMMA RunWorks ==
  ASSUME IInv, Successive, NEW c \in Chats, Run(c)
  PROVE  Works(c, chat[c].task)
  <1>0. PICK t : t = chat[c].task
    OBVIOUS
  <1>1. /\ Typed /\ PlacedAt(c) /\ AloneAt(c) /\ CopyAt(c) /\ Boxed(doc)
        /\ NeverStopped => (Launching(c) => task[c].pc = "new" /\ c \in registered)
        /\ Undisturbed => HeardAt(c)
    BY Onward
  <1>2. /\ chat[c].pc = "run" /\ Chat(c, [pc |-> "relay"])
        /\ \/ Live(t) /\ task' = task
           \/ ~Live(t) /\ Task(t, [pc |-> "ready", fresh |-> TRUE, cancel |-> FALSE])
        /\ UNCHANGED <<doc, registered, stop, warm, taken>>
    BY <1>0 DEF Run
  <1>3. t \in Chats /\ BareAt(t)
    BY <1>0, <1>1, <1>2 DEF PlacedAt, Successive
  <1>4. /\ ChatSet(chat'[c], chat[c], [pc |-> "relay"])
        /\ \A d \in Chats : d # c => chat'[d] = chat[d]
    BY <1>1, <1>2, Chatted
  <1>5. /\ \A d \in Chats : d # t => task'[d] = task[d]
        /\ \/ Live(t) /\ task'[t] = task[t]
           \/ /\ task'[t].pc = "ready" /\ ~task'[t].cancel
              /\ task'[t].out = task[t].out /\ task'[t].in = task[t].in
    <2>1. CASE Live(t) /\ task' = task
      BY <2>1
    <2>2. CASE Task(t, [pc |-> "ready", fresh |-> TRUE, cancel |-> FALSE])
      <3>1. /\ TaskSet(task'[t], task[t], [pc |-> "ready", fresh |-> TRUE, cancel |-> FALSE])
            /\ \A d \in Chats : d # t => task'[d] = task[d]
        BY <1>1, <1>3, <2>2, Tasked
      <3>2. QED
        BY <3>1 DEF TaskSet
    <2>3. QED
      BY <1>2, <2>1, <2>2
  <1>6. /\ chat'[c].pc = "relay" /\ chat'[c].task = t /\ chat'[c].seen = chat[c].seen
        /\ chat'[c].got = chat[c].got
        /\ chat'[c].copy = chat[c].copy /\ chat'[c].outcome = chat[c].outcome
        /\ chat'[c].alone = chat[c].alone /\ chat'[c].cancelled = chat[c].cancelled
    BY <1>0, <1>4 DEF ChatSet
  <1>7. Acts(c) /\ ~Launching(c)'
    BY <1>0, <1>2, <1>4, <1>6 DEF Acts, Kept, Rests, Opening, Creating, Launching
  <1>8. BareAt(t)' /\ (Dead(t)' => Dead(t))
    BY <1>2, <1>3, <1>5 DEF BareAt, Dead, Live
  <1>9. AloneAt(c)'
    <2>1. chat[c].alone => \A u \in Chats : ~Live(u)
      BY <1>1, <1>2 DEF AloneAt, Rests, Opening
    <2>2. \A u \in Chats : Live(u)' => Live(u) \/ u = t
      BY <1>5 DEF Live
    <2>3. QED
      BY <1>6, <2>1, <2>2 DEF AloneAt, Opening, Creating
  <1>10. CopyAt(c)' /\ Forgets(c)
    BY <1>1, <1>2, <1>6 DEF CopyAt, Creating, Opening, Forgets
  <1>11. NeverStopped' => t \in registered' \/ \E d \in Chats \ {t} : chat'[d].task = t
    <2>1. CASE t = c
      BY <1>0, <1>1, <1>2, <1>7, <2>1, ActsKeep DEF Launching
    <2>2. CASE t # c
      BY <1>6, <2>2
    <2>3. QED
      BY <2>1, <2>2
  <1>12. Undisturbed' => HeardAt(c)'
    <2>1. SUFFICES ASSUME Undisturbed', chat[c].alone PROVE HeardAt(c)'
      BY <1>6 DEF HeardAt
    <2>2. /\ task[t].pc = "new" /\ (chat[c].outcome = "completed" => c \in taken)
          /\ Holds(t, c) /\ (~chat[c].got => chat[c].seen = 0)
      BY <1>0, <1>1, <1>2, <1>7, <2>1, ActsKeep DEF HeardAt
    <2>3. /\ task'[t].pc = "ready" /\ ~task'[t].cancel
          /\ task'[t].out = task[t].out /\ task'[t].in = task[t].in
      BY <1>5, <2>2 DEF Live
    <2>4. Holds(t, c)' /\ Speaks(t)'
      BY <1>2, <2>2, <2>3 DEF Holds, Speaks
    <2>5. QED
      BY <1>2, <1>6, <2>2, <2>3, <2>4 DEF HeardAt
  <1>13. registered' = registered /\ Boxed(doc)'
    BY <1>1, <1>2 DEF Boxed
  <1>14. Works(c, t)
    BY <1>3, <1>5, <1>7, <1>8, <1>9, <1>10, <1>11, <1>12, <1>13 DEF Works
  <1>15. QED
    BY <1>0, <1>14

-----------------------------------------------------------------------------
(* A chat that ends and cancels a task.                                     *)

\* only what executes is told, and only what does not leaves the registry
Tells ==
  /\ registered' \subseteq registered
  /\ \A u \in Chats :
       /\ task'[u].pc = task[u].pc /\ task'[u].in = task[u].in /\ task'[u].out = task[u].out
       /\ task'[u].cancel => task[u].cancel \/ Live(u)
       /\ Live(u) /\ u \in registered => u \in registered'

LEMMA CancelTells ==
  ASSUME Typed, NEW t \in Chats, Cancel(t)
  PROVE  Tells
  <1>1. CASE Live(t)
    <2>1. Task(t, [cancel |-> TRUE]) /\ registered' = registered
      BY <1>1 DEF Cancel
    <2>2. /\ TaskSet(task'[t], task[t], [cancel |-> TRUE])
          /\ \A d \in Chats : d # t => task'[d] = task[d]
      BY <2>1, Tasked
    <2>3. QED
      BY <1>1, <2>1, <2>2 DEF TaskSet, Tells
  <1>2. CASE ~Live(t)
    BY <1>2 DEF Cancel, Tells
  <1>3. QED
    BY <1>1, <1>2

LEMMA CancelRegisteredTells ==
  ASSUME Typed, CancelRegistered(doc.task)
  PROVE  Tells
  <1>1. CASE Lookup(doc.task) = None
    BY <1>1 DEF CancelRegistered, Tells
  <1>2. CASE Lookup(doc.task) # None
    <2>1. doc.task \in Chats /\ Cancel(doc.task)
      BY <1>2 DEF CancelRegistered, Lookup, Typed
    <2>2. QED
      BY <2>1, CancelTells
  <1>3. QED
    BY <1>1, <1>2

LEMMA TellsKeeps ==
  ASSUME Tells, \A u \in Chats : BareAt(u)
  PROVE  \A u \in Chats : BareAt(u)' /\ (Live(u)' <=> Live(u))
  <1>1. \A u \in Chats : Live(u)' <=> Live(u)
    BY DEF Tells, Live
  <1>2. QED
    BY <1>1 DEF Tells, BareAt

\* nobody cancels undisturbed but a chat whose teardown is to forget the task
Cancels(c) ==
  /\ Acts(c) /\ Tells /\ UNCHANGED doc
  /\ chat'[c].pc \in {"write", "close", "tear"} /\ CopyAt(c)'
  /\ Undisturbed' => chat'[c].pc = "write" /\ HeardAt(c)'

LEMMA CancelsKeeps ==
  ASSUME IInv, Successive, NEW c \in Chats, Cancels(c)
  PROVE  Successive'
  <1>1. Acts(c) /\ Tells /\ doc' = doc /\ chat'[c].pc \in {"write", "close", "tear"}
    BY DEF Cancels
  <1>2. /\ Sequential' /\ (Undisturbed' => Undisturbed) /\ (NeverStopped' => NeverStopped)
        /\ \A d \in Chats \ {c} :
             /\ AloneAt(d)' /\ CopyAt(d)' /\ ~Launching(d)'
             /\ Undisturbed' => HeardAt(d)'
    BY <1>1, ActsKeep
  <1>3. \A u \in Chats : BareAt(u)' /\ (Live(u)' <=> Live(u))
    BY <1>1, TellsKeeps DEF Successive
  <1>4. Launched'
    BY <1>1, <1>2 DEF Launched, Launching
  <1>5. \A d \in Chats : chat[d].task \in Chats => chat'[d].task = chat[d].task
    BY <1>1, SessionAssumption DEF Acts, Kept
  <1>6. Registered'
    <2>1. \A t \in Chats : Live(t)' => Live(t) /\ (t \in registered => t \in registered')
      BY <1>1, <1>3 DEF Tells
    <2>2. QED
      BY <1>2, <1>5, <2>1, RegisteredStays DEF Successive
  <1>7. AloneAt(c)'
    BY <1>1, <1>3, SessionAssumption DEF Successive, AloneAt, Acts, Rests
  <1>8. Boxed(doc)' /\ warm'.copy.task = None
    BY <1>1 DEF Acts, Boxed, Successive
  <1>9. Undisturbed' => Forgotten' /\ HeardAt(c)'
    BY DEF Cancels, Forgotten
  <1>10. QED
    BY <1>2, <1>3, <1>4, <1>6, <1>7, <1>8, <1>9 DEF Cancels, Successive

LEMMA CancelledCancels ==
  ASSUME IInv, Successive, NEW c \in Chats, ArriveCancelled(c) \/ RelayCancelled(c)
  PROVE  Cancels(c)
  <1>1. Typed /\ PlacedAt(c) /\ CopyAt(c) /\ ChatTyped(chat[c])
    BY Onward
  <1>2. chat[c].cancelled /\ UNCHANGED <<doc, stop, warm, taken>>
    BY DEF ArriveCancelled, RelayCancelled
  <1>3. CASE ArriveCancelled(c)
    <2> DEFINE live == Live(Lookup(doc.task))
    <2>1. /\ chat[c].pc = "arrive"
          /\ \/ Chat(c, [pc |-> "write", outcome |-> "cancelled"])
             \/ Chat(c, [pc |-> "close"])
      BY <1>3 DEF ArriveCancelled
    <2>2. Tells
      <3>1. CASE live
        <4>1. doc.task \in Chats /\ Cancel(doc.task)
          BY <1>1, <1>3, <3>1 DEF ArriveCancelled, Live, Lookup, Typed
        <4>2. QED
          BY <1>1, <4>1, CancelTells
      <3>2. CASE ~live
        BY <1>3, <3>2 DEF ArriveCancelled, Tells
      <3>3. QED
        BY <3>1, <3>2
    <2>3. /\ \A d \in Chats : d # c => chat'[d] = chat[d]
          /\ chat'[c].cancelled /\ chat'[c].pc \in {"write", "close"}
          /\ chat'[c].task = chat[c].task /\ chat'[c].copy = chat[c].copy
          /\ chat'[c].alone = chat[c].alone
      <3>1. CASE Chat(c, [pc |-> "write", outcome |-> "cancelled"])
        <4>1. /\ ChatSet(chat'[c], chat[c], [pc |-> "write", outcome |-> "cancelled"])
              /\ \A d \in Chats : d # c => chat'[d] = chat[d]
          BY <1>1, <3>1, Chatted
        <4>2. QED
          BY <1>2, <4>1 DEF ChatSet
      <3>2. CASE Chat(c, [pc |-> "close"])
        <4>1. /\ ChatSet(chat'[c], chat[c], [pc |-> "close"])
              /\ \A d \in Chats : d # c => chat'[d] = chat[d]
          BY <1>1, <3>2, Chatted
        <4>2. QED
          BY <1>2, <4>1 DEF ChatSet
      <3>3. QED
        BY <2>1, <3>1, <3>2
    <2>4. Acts(c)
      BY <1>2, <2>1, <2>3 DEF Acts, Kept, Rests, Opening, Creating
    <2>5. CopyAt(c)' /\ ~Undisturbed'
      BY <1>1, <2>1, <2>3 DEF CopyAt, Creating, Opening, Undisturbed, NeverCancelled
    <2>6. QED
      BY <1>2, <2>2, <2>3, <2>4, <2>5 DEF Cancels
  <1>4. CASE RelayCancelled(c)
    <2>1. /\ chat[c].pc = "relay" /\ chat[c].task \in Chats /\ Cancel(chat[c].task)
          /\ Chat(c, [pc |-> "tear", outcome |-> "cancelled"])
      BY <1>1, <1>4 DEF RelayCancelled, PlacedAt
    <2>2. Tells
      BY <1>1, <2>1, CancelTells
    <2>3. /\ ChatSet(chat'[c], chat[c], [pc |-> "tear", outcome |-> "cancelled"])
          /\ \A d \in Chats : d # c => chat'[d] = chat[d]
      BY <1>1, <2>1, Chatted
    <2>4. /\ chat'[c].cancelled /\ chat'[c].pc = "tear"
          /\ chat'[c].task = chat[c].task /\ chat'[c].copy = chat[c].copy
          /\ chat'[c].alone = chat[c].alone
      BY <1>2, <2>3 DEF ChatSet
    <2>5. Acts(c)
      BY <1>2, <2>1, <2>3, <2>4 DEF Acts, Kept, Rests, Opening, Creating
    <2>6. CopyAt(c)' /\ ~Undisturbed'
      BY <1>1, <2>1, <2>4 DEF CopyAt, Creating, Opening, Undisturbed, NeverCancelled
    <2>7. QED
      BY <1>2, <2>2, <2>4, <2>5, <2>6 DEF Cancels
  <1>5. QED
    BY <1>3, <1>4

LEMMA TeardownKeeps ==
  ASSUME IInv, Successive, NEW c \in Chats, Teardown(c)
  PROVE  Successive'
  <1> DEFINE pc == IF Torn THEN "close" ELSE "write"
  <1>1. /\ Typed /\ PlacedAt(c) /\ CopyAt(c) /\ Boxed(doc) /\ ChatTyped(chat[c])
        /\ Undisturbed => HeardAt(c)
    BY Onward
  <1>2. /\ chat[c].pc = "tear" /\ Chat(c, [pc |-> pc])
        /\ UNCHANGED <<doc, stop, warm, taken>>
        /\ UNCHANGED <<task, registered>> \/ (CancelRegistered(doc.task) /\ pc = "write")
    BY DEF Teardown
  <1>3. pc \in {"close", "write"}
    OBVIOUS
  <1> HIDE DEF pc
  <1>4. /\ ChatSet(chat'[c], chat[c], [pc |-> pc])
        /\ \A d \in Chats : d # c => chat'[d] = chat[d]
    BY <1>1, <1>2, Chatted
  <1>5. /\ chat'[c].pc = pc /\ chat'[c].outcome = chat[c].outcome
        /\ chat'[c].task = chat[c].task /\ chat'[c].copy = chat[c].copy
        /\ chat'[c].alone = chat[c].alone /\ chat'[c].cancelled = chat[c].cancelled
    BY <1>4 DEF ChatSet
  <1>6. Acts(c)
    BY <1>2, <1>3, <1>4, <1>5 DEF Acts, Kept, Rests, Opening, Creating
  <1>7. CopyAt(c)' /\ Forgets(c) /\ ~Launching(c)'
    BY <1>1, <1>2, <1>3, <1>5 DEF CopyAt, Creating, Opening, Forgets, Launching
  <1>8. Undisturbed' => HeardAt(c)'
    BY <1>1, <1>2, <1>3, <1>5, <1>6, ActsKeep DEF HeardAt
  <1>9. CASE UNCHANGED <<task, registered>>
    <2>1. Alters(c)
      BY <1>1, <1>2, <1>6, <1>7, <1>8, <1>9 DEF Alters, Boxed
    <2>2. QED
      BY <2>1, AltersKeeps
  <1>10. CASE CancelRegistered(doc.task) /\ pc = "write"
    <2>1. Tells
      BY <1>1, <1>10, CancelRegisteredTells
    <2>2. Cancels(c)
      BY <1>2, <1>5, <1>6, <1>7, <1>8, <1>10, <2>1 DEF Cancels
    <2>3. QED
      BY <2>2, CancelsKeeps
  <1>11. QED
    BY <1>2, <1>9, <1>10

-----------------------------------------------------------------------------
(* Stops and the warm-up.                                                   *)
Aside ==
  /\ UNCHANGED <<chat, taken>> /\ Tells
  /\ Boxed(doc)' /\ warm'.copy.task = None
  /\ NeverStopped' =>
       UNCHANGED <<stop, task, registered>> /\ doc'.task \in {None, doc.task}

LEMMA AsideKeeps ==
  ASSUME IInv, Successive, Aside
  PROVE  Successive'
  <1>1. UNCHANGED <<chat, taken>> /\ Tells /\ (NeverStopped' => stop' = stop)
    BY DEF Aside
  <1>2. /\ \A u \in Chats : BareAt(u)' /\ (Live(u)' <=> Live(u))
        /\ NeverStopped' => NeverStopped
    BY <1>1, TellsKeeps DEF Successive, NeverStopped
  <1>3. Sequential' /\ \A d \in Chats : AloneAt(d)' /\ CopyAt(d)'
    BY <1>1, <1>2 DEF Successive, Sequential, Rests, AloneAt, CopyAt
  <1>4. Launched'
    BY <1>1, <1>2 DEF Aside, Successive, Launched, Launching
  <1>5. Registered'
    <2>1. \A t \in Chats : Live(t)' => Live(t) /\ (t \in registered => t \in registered')
      BY <1>1, <1>2 DEF Tells
    <2>2. QED
      BY <1>1, <1>2, <2>1, RegisteredStays DEF Successive
  <1>6. ASSUME Undisturbed' PROVE Forgotten' /\ \A d \in Chats : HeardAt(d)'
    <2>1. /\ Undisturbed /\ UNCHANGED <<task, registered>> /\ doc'.task \in {None, doc.task}
      BY <1>1, <1>2, <1>6 DEF Aside, Undisturbed, NeverCancelled
    <2>2. Forgotten /\ \A d \in Chats : HeardAt(d)
      BY <2>1 DEF Successive
    <2>3. Forgotten'
      BY <1>1, <2>1, <2>2, SessionAssumption DEF Forgotten, Dead
    <2>4. \A d \in Chats : HeardAt(d)'
      BY <1>1, <2>1, <2>2 DEF HeardAt, Holds, Speaks
    <2>5. QED
      BY <2>3, <2>4
  <1>7. QED
    BY <1>2, <1>3, <1>4, <1>5, <1>6 DEF Aside, Successive

LEMMA StopsAside ==
  ASSUME IInv, Successive, NEW s \in Stops,
         StopBegins(s) \/ AutoStopBegins(s) \/ AutoStopCut(s) \/ StopGoes(s)
  PROVE  Aside
  <1>1. Typed /\ Boxed(doc) /\ warm.copy.task = None
    BY InvParts DEF Successive
  <1>2. Blank.task = None
    BY DEF Blank
  <1>3. UNCHANGED <<chat, taken>>
    BY DEF StopBegins, AutoStopBegins, AutoStopCut, StopGoes, StopReads, StopWrites, StopSaves
  <1>4. ASSUME NEW r, Stop(s, r), "pc" \in DOMAIN r, r.pc # "idle" PROVE ~NeverStopped'
    <2>1. StopSet(stop'[s], stop[s], r)
      BY <1>1, <1>4, Stopped
    <2>2. QED
      BY <1>4, <2>1 DEF StopSet, NeverStopped
  <1>5. CASE StopBegins(s)
    <2>1. Stop(s, [pc |-> "read"]) /\ UNCHANGED <<doc, task, registered>> /\ warm'.copy = Blank
      BY <1>5 DEF StopBegins
    <2>2. ~NeverStopped'
      BY <1>4, <2>1
    <2>3. QED
      BY <1>1, <1>2, <1>3, <2>1, <2>2 DEF Aside, Tells, Boxed
  <1>6. CASE AutoStopBegins(s)
    <2>1. Stop(s, [pc |-> "read", auto |-> TRUE]) /\ UNCHANGED <<doc, task, registered, warm>>
      BY <1>6 DEF AutoStopBegins
    <2>2. ~NeverStopped'
      BY <1>4, <2>1
    <2>3. QED
      BY <1>1, <1>3, <2>1, <2>2 DEF Aside, Tells, Boxed
  <1>7. CASE AutoStopCut(s)
    <2> DEFINE pc == IF stop[s].pc = "write" THEN "cut" ELSE "left"
    <2>1. Stop(s, [pc |-> pc, box |-> FALSE]) /\ UNCHANGED <<doc, task, registered, warm>>
      BY <1>7 DEF AutoStopCut
    <2>2. ~NeverStopped'
      BY <1>4, <2>1
    <2>3. QED
      BY <1>1, <1>3, <2>1, <2>2 DEF Aside, Tells, Boxed
  <1>8. CASE StopReads(s)
    <2>1. /\ Stop(s, [pc |-> "over"]) \/ Stop(s, [pc |-> "write", box |-> doc.box])
          /\ UNCHANGED <<task, registered>> \/ CancelRegistered(doc.task)
          /\ UNCHANGED <<doc, warm>>
      BY <1>8 DEF StopReads
    <2>2. ~NeverStopped'
      BY <1>4, <2>1
    <2>3. Tells
      <3>1. CASE UNCHANGED <<task, registered>>
        BY <3>1 DEF Tells
      <3>2. CASE CancelRegistered(doc.task)
        BY <1>1, <3>2, CancelRegisteredTells
      <3>3. QED
        BY <2>1, <3>1, <3>2
    <2>4. QED
      BY <1>1, <1>3, <2>1, <2>2, <2>3 DEF Aside, Boxed
  <1>9. CASE StopWrites(s)
    <2> DEFINE pc == IF stop[s].box THEN "save" ELSE "over"
    <2>1. Stop(s, [pc |-> pc]) /\ UNCHANGED <<task, registered, warm>>
      BY <1>9 DEF StopWrites
    <2>2. doc'.task = None
      BY <1>1, <1>9 DEF StopWrites, Typed, Documents
    <2>3. ~NeverStopped'
      BY <1>4, <2>1
    <2>4. QED
      BY <1>1, <1>3, <2>1, <2>2, <2>3 DEF Aside, Tells, Boxed
  <1>10. CASE StopSaves(s)
    <2>1. /\ Stop(s, [pc |-> "over", box |-> FALSE]) /\ UNCHANGED <<task, registered, warm>>
          /\ doc'.task = None
      BY <1>10 DEF StopSaves
    <2>2. ~NeverStopped'
      BY <1>4, <2>1
    <2>3. QED
      BY <1>1, <1>3, <2>1, <2>2 DEF Aside, Tells, Boxed
  <1>11. QED
    BY <1>5, <1>6, <1>7, <1>8, <1>9, <1>10 DEF StopGoes

\* a copy without a sandbox names no task either
LEMMA WarmsAside ==
  ASSUME IInv, Successive, WarmGoes
  PROVE  Aside
  <1>1. /\ doc \in Documents /\ warm \in WarmRecord /\ warm.copy \in Documents
        /\ Boxed(doc) /\ warm.copy.task = None
    BY InvParts DEF Successive, Typed, WarmRecord
  <1>2. UNCHANGED <<registered, task, chat, stop, taken>>
    BY DEF WarmGoes, WarmBegins, WarmReads, WarmSaves, WarmEnds
  <1>3. Blank.task = None
    BY DEF Blank
  <1>4. CASE WarmBegins
    <2>1. doc'.task = doc.task /\ doc'.box = doc.box /\ warm'.copy = warm.copy
      BY <1>1, <1>4 DEF WarmBegins, Documents, WarmRecord
    <2>2. QED
      BY <1>1, <1>2, <2>1 DEF Aside, Tells, Boxed
  <1>5. CASE WarmReads
    <2>1. doc' = doc /\ (warm'.copy = warm.copy \/ (~doc.box /\ warm'.copy = doc))
      BY <1>1, <1>5 DEF WarmReads, WarmRecord
    <2>2. QED
      BY <1>1, <1>2, <2>1 DEF Aside, Tells, Boxed
  <1>6. CASE WarmSaves
    <2>1. doc'.task = None /\ warm'.copy = Blank
      BY <1>1, <1>6 DEF WarmSaves, Documents
    <2>2. QED
      BY <1>2, <1>3, <2>1 DEF Aside, Tells, Boxed
  <1>7. CASE WarmEnds
    <2>1. doc'.task = doc.task /\ doc'.box = doc.box /\ warm'.copy = Blank
      BY <1>1, <1>7 DEF WarmEnds, Documents
    <2>2. QED
      BY <1>1, <1>2, <1>3, <2>1 DEF Aside, Tells, Boxed
  <1>8. QED
    BY <1>4, <1>5, <1>6, <1>7 DEF WarmGoes

-----------------------------------------------------------------------------
(* Tasks. One that is not cancelled keeps what it holds and what it said.   *)
Toils(t) ==
  /\ UNCHANGED <<chat, stop, warm>> /\ taken \subseteq taken'
  /\ doc'.task = doc.task /\ doc'.box = doc.box
  /\ \A u \in Chats \ {t} : task'[u] = task[u]
  /\ Live(t) /\ task'[t].pc \notin {"none", "new"} /\ ~task'[t].cancel
  /\ registered' = registered \/ (registered' = registered \ {t} /\ task'[t].pc = "done")
  /\ task'[t].pc = "done" => t \notin registered' \/ task[t].cancel
  /\ ~task[t].cancel =>
       /\ \A c \in Chats : Holds(t, c) => Holds(t, c)'
       /\ Speaks(t) => Speaks(t)'
       /\ task[t].out # <<>> => task'[t].out # <<>>

LEMMA ToilsKeeps ==
  ASSUME IInv, Successive, NEW t \in Chats, Toils(t)
  PROVE  Successive'
  <1>1. /\ UNCHANGED <<chat, stop, warm>> /\ taken \subseteq taken'
        /\ doc'.task = doc.task /\ doc'.box = doc.box
        /\ \A u \in Chats \ {t} : task'[u] = task[u]
        /\ Live(t) /\ task[t].pc \notin {"none", "new"}
        /\ task'[t].pc \notin {"none", "new"} /\ ~task'[t].cancel
        /\ registered' = registered \/ (registered' = registered \ {t} /\ task'[t].pc = "done")
    BY DEF Toils, Live
  <1>2. \A u \in Chats : (Live(u)' => Live(u)) /\ (Dead(u)' => Dead(u)) /\ BareAt(u)'
    BY <1>1 DEF Toils, Live, Dead, Successive, BareAt
  <1>3. Sequential' /\ \A d \in Chats : AloneAt(d)' /\ CopyAt(d)'
    BY <1>1, <1>2 DEF Successive, Sequential, Rests, AloneAt, CopyAt
  <1>4. Launched'
    <2>1. SUFFICES ASSUME NeverStopped', NEW c \in Chats, Launching(c)'
                   PROVE  task'[c].pc = "new" /\ c \in registered'
      BY DEF Launched
    <2>2. task[c].pc = "new" /\ c \in registered
      BY <1>1, <2>1 DEF Successive, Launched, NeverStopped, Launching
    <2>3. QED
      BY <1>1, <2>2
  <1>5. Registered'
    <2>1. \A u \in Chats : Live(u)' => Live(u) /\ (u \in registered => u \in registered')
      BY <1>1, <1>2 DEF Live
    <2>2. (NeverStopped' => NeverStopped) /\ \A d \in Chats : chat'[d].task = chat[d].task
      BY <1>1 DEF NeverStopped
    <2>3. QED
      BY <2>1, <2>2, RegisteredStays DEF Successive
  <1>6. Boxed(doc)' /\ warm'.copy.task = None
    BY <1>1 DEF Successive, Boxed
  <1>7. ASSUME Undisturbed' PROVE Forgotten' /\ \A d \in Chats : HeardAt(d)'
    <2>1. Undisturbed
      BY <1>1, <1>7 DEF Undisturbed, NeverCancelled, NeverStopped
    <2>2. Forgotten /\ \A d \in Chats : HeardAt(d)
      BY <2>1 DEF Successive
    <2>3. Forgotten'
      BY <1>1, <1>2, <2>2 DEF Forgotten
    <2>4. ASSUME NEW d \in Chats, chat[d].alone PROVE HeardAt(d)'
      <3>1. PICK u : u = chat[d].task
        OBVIOUS
      <3>2. /\ chat[d].pc \in {"put", "run"} => task[u].pc = "new"
            /\ chat[d].pc \in {"run", "relay", "drain"} =>
                 /\ Holds(u, d) /\ ~task[u].cancel
                 /\ ~chat[d].got => chat[d].seen = 0
            /\ chat[d].pc \in {"relay", "drain"} => Speaks(u)
            /\ chat[d].pc = "drain" => task[u].out # <<>>
            /\ chat[d].outcome = "completed" => d \in taken
        BY <2>2, <2>4, <3>1 DEF HeardAt
      <3>3. chat'[d] = chat[d] /\ chat'[d].task = u
        BY <1>1, <3>1
      <3>4. chat[d].pc \in {"run", "relay", "drain"} => u \in Chats
        BY <3>1, InvParts DEF PlacedAt
      <3>5. chat[d].pc \in {"put", "run"} => task'[u].pc = "new"
        <4>1. chat[d].pc = "put" => u \in Chats
          BY <3>1, InvParts DEF PlacedAt
        <4>2. QED
          BY <1>1, <3>2, <3>4, <4>1
      <3>6. chat[d].pc \in {"run", "relay", "drain"} => Holds(u, d)' /\ ~task'[u].cancel
        <4>1. CASE u = t
          BY <1>1, <3>2, <4>1 DEF Toils
        <4>2. CASE u # t
          BY <1>1, <3>2, <3>4, <4>2 DEF Holds
        <4>3. QED
          BY <4>1, <4>2
      <3>7. /\ chat[d].pc \in {"relay", "drain"} => Speaks(u)'
            /\ chat[d].pc = "drain" => task'[u].out # <<>>
        <4>1. CASE u = t
          BY <3>2, <4>1 DEF Toils
        <4>2. CASE u # t
          BY <1>1, <3>2, <3>4, <4>2 DEF Speaks
        <4>3. QED
          BY <4>1, <4>2
      <3>8. QED
        BY <1>1, <3>2, <3>3, <3>5, <3>6, <3>7 DEF HeardAt
    <2>5. QED
      BY <1>1, <2>3, <2>4 DEF HeardAt
  <1>8. QED
    BY <1>2, <1>3, <1>4, <1>5, <1>6, <1>7 DEF Successive

\* from one place to another
LEMMA GoesToils ==
  ASSUME IInv, NEW t \in Chats, NEW from \in TaskPlaces \ {"none", "new", "done"},
         NEW to \in TaskPlaces \ {"none", "new", "done"}, Goes(t, from, to),
         taken' = taken, doc'.task = doc.task, doc'.box = doc.box,
         to \in {"end", "say"} => task[t].in = <<>> \/ from = "end",
         to \in {"begin", "flow"} => task[t].in = <<>> \/ from = "begin",
         from \in {"ready", "init", "crash"} => to \in {"ready", "init", "crash"}
  PROVE  Toils(t)
  <1>1. Typed
    BY InvParts
  <1>2. /\ TaskSet(task'[t], task[t], [pc |-> to])
        /\ \A d \in Chats : d # t => task'[d] = task[d]
    BY <1>1, Tasked DEF Goes
  <1>3. /\ task'[t].pc = to /\ task'[t].cancel = task[t].cancel /\ task'[t].n = task[t].n
        /\ task'[t].in = task[t].in /\ task'[t].out = task[t].out
    BY <1>2 DEF TaskSet
  <1>4. /\ task[t].pc = from /\ ~task[t].cancel /\ UNCHANGED <<registered, chat, stop, warm>>
    BY DEF Goes
  <1>5. Live(t)
    BY <1>4, SessionAssumption DEF Live
  <1>6. /\ \A c \in Chats : Holds(t, c) => Holds(t, c)'
        /\ Speaks(t) => Speaks(t)'
    BY <1>3, <1>4 DEF Holds, Speaks
  <1>7. QED
    BY <1>2, <1>3, <1>4, <1>5, <1>6 DEF Toils

LEMMA GoingToils ==
  ASSUME IInv, NEW t \in Chats,
         \/ Begins(t) \/ NoMessage(t) \/ FlowBegins(t) \/ Waits(t) \/ Looks(t)
         \/ FlowEnds(t) \/ RunFails(t) \/ Fails(t) \/ Ends(t)
  PROVE  Toils(t)
  <1>1. doc \in Documents
    BY InvParts DEF Typed
  <1>2. \A s : [doc EXCEPT !.status = s].task = doc.task /\ [doc EXCEPT !.status = s].box = doc.box
    BY <1>1 DEF Documents
  <1>3. /\ taken' = taken
        /\ doc' = doc \/ \E s \in Statuses : doc' = [doc EXCEPT !.status = s]
    BY DEF Begins, NoMessage, FlowBegins, Waits, Looks, FlowEnds, RunFails, Fails, Ends, Statuses
  <1>4. doc'.task = doc.task /\ doc'.box = doc.box
    BY <1>2, <1>3
  <1>5. CASE Begins(t)
    BY <1>3, <1>4, <1>5, GoesToils DEF Begins, TaskPlaces
  <1>6. CASE NoMessage(t)
    <2>1. PICK to \in {"crash", "end"} : Goes(t, "top", to)
      BY <1>6 DEF NoMessage
    <2>2. QED
      BY <1>3, <1>4, <1>6, <2>1, GoesToils DEF NoMessage, TaskPlaces
  <1>7. CASE FlowBegins(t)
    BY <1>3, <1>4, <1>7, GoesToils DEF FlowBegins, TaskPlaces
  <1>8. CASE Waits(t)
    BY <1>3, <1>4, <1>8, GoesToils DEF Waits, TaskPlaces
  <1>9. CASE Looks(t)
    <2>1. PICK to \in {"flow", "top"} : Goes(t, "look", to) /\ (to = "flow" => task[t].in = <<>>)
      BY <1>9 DEF Looks
    <2>2. QED
      BY <1>3, <1>4, <2>1, GoesToils DEF TaskPlaces
  <1>10. CASE FlowEnds(t)
    BY <1>3, <1>4, <1>10, GoesToils DEF FlowEnds, TaskPlaces
  <1>11. CASE RunFails(t)
    <2>1. PICK from \in {"init", "top", "begin", "flow"} : Goes(t, from, "crash")
      BY <1>11 DEF RunFails
    <2>2. QED
      BY <1>3, <1>4, <2>1, GoesToils DEF TaskPlaces
  <1>12. CASE Fails(t)
    BY <1>3, <1>4, <1>12, GoesToils DEF Fails, TaskPlaces
  <1>13. CASE Ends(t)
    <2>1. PICK to \in {"final", "say"} : Goes(t, "end", to)
      BY <1>13 DEF Ends
    <2>2. QED
      BY <1>3, <1>4, <2>1, GoesToils DEF TaskPlaces
  <1>14. QED
    BY <1>5, <1>6, <1>7, <1>8, <1>9, <1>10, <1>11, <1>12, <1>13

LEMMA SaidMore ==
  ASSUME NEW s \in Seq(Events), NEW event \in Events
  PROVE  /\ Append(s, event) # <<>>
         /\ (\A i \in 1 .. Len(s) : s[i] # "done") /\ event # "done" =>
              \A i \in 1 .. Len(Append(s, event)) : Append(s, event)[i] # "done"
  OBVIOUS

\* one that says something, and it is not done before it has looked
LEMMA SayingToils ==
  ASSUME IInv, NEW t \in Chats, NEW event \in Events,
         task'[t].out = Append(task[t].out, event),
         \A u \in Chats : u # t => task'[u] = task[u],
         task'[t].in = task[t].in, ~task[t].cancel, ~task'[t].cancel,
         task[t].pc \notin {"none", "new", "done"},
         task'[t].pc \in {"top", "fail", "final", "waiting", "look"},
         event = "done" => task[t].pc = "say" \/ (task[t].pc = "flow" /\ task[t].n # 0),
         UNCHANGED <<doc, registered, chat, stop, warm, taken>>
  PROVE  Toils(t)
  <1>1. task[t].out \in Seq(Events)
    BY InvParts DEF Typed, TaskRecord
  <1>2. /\ task'[t].out # <<>>
        /\ (\A i \in 1 .. Len(task[t].out) : task[t].out[i] # "done") /\ event # "done" =>
             \A i \in 1 .. Len(task'[t].out) : task'[t].out[i] # "done"
    BY <1>1, SaidMore
  <1>3. Live(t)
    BY SessionAssumption DEF Live
  <1>4. \A c \in Chats : Holds(t, c) => Holds(t, c)'
    BY <1>2 DEF Holds
  <1>5. Speaks(t)'
    BY <1>2 DEF Speaks
  <1>6. QED
    BY <1>2, <1>3, <1>4, <1>5 DEF Toils

LEMMA TalkingToils ==
  ASSUME IInv, NEW t \in Chats,
         \/ Announces(t) \/ Crashes(t) \/ SaysDone(t)
         \/ \E event \in Events : FlowYields(t, event)
  PROVE  Toils(t)
  <1>1. Typed
    BY InvParts
  <1>2. ASSUME NEW event \in Events, NEW pc \in {"top", "fail", "final"},
               Task(t, [pc |-> pc, out |-> Say(t, event)]), ~task[t].cancel,
               task[t].pc \in {"init", "crash", "say"}, event = "done" => task[t].pc = "say",
               UNCHANGED <<doc, registered, chat, stop, warm, taken>>
        PROVE  Toils(t)
    <2>1. /\ TaskSet(task'[t], task[t], [pc |-> pc, out |-> Say(t, event)])
          /\ \A d \in Chats : d # t => task'[d] = task[d]
      BY <1>1, <1>2, Tasked
    <2>2. /\ task'[t].pc = pc /\ task'[t].out = Append(task[t].out, event)
          /\ task'[t].in = task[t].in /\ task'[t].cancel = task[t].cancel
      BY <2>1 DEF TaskSet, Say
    <2>3. QED
      BY <1>2, <2>1, <2>2, SayingToils
  <1>3. CASE Announces(t)
    BY <1>2, <1>3 DEF Announces, Events
  <1>4. CASE Crashes(t)
    BY <1>2, <1>4 DEF Crashes, Events
  <1>5. CASE SaysDone(t)
    BY <1>2, <1>5 DEF SaysDone, Events
  <1>6. ASSUME NEW event \in Events, FlowYields(t, event) PROVE Toils(t)
    <2> DEFINE out  == Say(t, event)
               n    == task[t].n + (IF event \in {"event", "error"} THEN 1 ELSE 0)
               err  == event = "error"
               said == event = "done"
               pc   == IF event = "wait" THEN "waiting" ELSE "look"
               r    == [out |-> out, n |-> n, err |-> err, said |-> said, pc |-> pc]
    <2>1. /\ task[t].pc = "flow" /\ ~task[t].cancel /\ Task(t, r)
          /\ event = "done" => task[t].n # 0
          /\ UNCHANGED <<doc, registered, chat, stop, warm, taken>>
      <3>1. task[t].n \in Nat
        BY <1>1, SessionAssumption DEF Typed, TaskRecord
      <3>2. QED
        BY <1>6, <3>1 DEF FlowYields
    <2>2. pc \in {"waiting", "look"} /\ out = Append(task[t].out, event)
      BY DEF Say
    <2> HIDE DEF out, n, err, said, pc
    <2>3. /\ TaskSet(task'[t], task[t], r) /\ \A d \in Chats : d # t => task'[d] = task[d]
      BY <1>1, <2>1, Tasked
    <2>4. /\ task'[t].out = out /\ task'[t].pc = pc /\ task'[t].in = task[t].in
          /\ task'[t].cancel = task[t].cancel
      BY <2>3 DEF TaskSet
    <2>5. QED
      BY <2>1, <2>2, <2>3, <2>4, SayingToils
  <1>7. QED
    BY <1>3, <1>4, <1>5, <1>6

LEMMA LastOfTail ==
  ASSUME NEW S, NEW s \in Seq(S), s # <<>>
  PROVE  IF Tail(s) = <<>> THEN Head(s) = s[Len(s)] ELSE Tail(s)[Len(Tail(s))] = s[Len(s)]
  <1>1. PICK u, n, h : u = Tail(s) /\ n = Len(s) /\ h = Head(s)
    OBVIOUS
  <1>2. n \in Nat /\ n > 0 /\ u \in Seq(S) /\ Len(u) = n - 1 /\ h = s[1]
    BY <1>1
  <1>3. \A i \in 1 .. n - 1 : u[i] = s[i + 1]
    BY <1>1
  <1>4. u = <<>> <=> Len(u) = 0
    BY <1>2
  <1>5. IF u = <<>> THEN h = s[n] ELSE u[Len(u)] = s[n]
    BY <1>2, <1>3, <1>4
  <1>6. QED
    BY <1>1, <1>5

\* the last message is taken when its input is empty
LEMMA WorkingToils ==
  ASSUME IInv, NEW t \in Chats, TakesMessage(t) \/ Unregisters(t) \/ IsCancelled(t)
  PROVE  Toils(t)
  <1>1. Typed /\ task[t].in \in Seq(Chats \cup {"context"})
    BY InvParts DEF Typed, TaskRecord
  <1>2. CASE TakesMessage(t)
    <2> DEFINE in == Tail(task[t].in)
               h  == Head(task[t].in)
    <2>1. /\ task[t].pc = "top" /\ ~task[t].cancel /\ task[t].in # <<>>
          /\ taken' = taken \cup ({h} \cap Chats)
          /\ Task(t, [pc |-> "begin", in |-> in, fresh |-> FALSE,
                      err |-> FALSE, said |-> FALSE, n |-> 0])
          /\ UNCHANGED <<doc, registered, chat, stop, warm>>
      BY <1>2 DEF TakesMessage
    <2>2. IF in = <<>> THEN h = task[t].in[Len(task[t].in)]
                       ELSE in[Len(in)] = task[t].in[Len(task[t].in)]
      BY <1>1, <2>1, LastOfTail
    <2> HIDE DEF in, h
    <2>3. /\ TaskSet(task'[t], task[t], [pc |-> "begin", in |-> in, fresh |-> FALSE,
                                         err |-> FALSE, said |-> FALSE, n |-> 0])
          /\ \A d \in Chats : d # t => task'[d] = task[d]
      BY <1>1, <2>1, Tasked
    <2>4. /\ task'[t].pc = "begin" /\ task'[t].out = task[t].out /\ task'[t].in = in
          /\ task'[t].n = 0 /\ task'[t].cancel = task[t].cancel
      BY <2>3 DEF TaskSet
    <2>5. Live(t)
      BY <2>1, SessionAssumption DEF Live
    <2>6. \A c \in Chats : Holds(t, c) => Holds(t, c)'
      BY <2>1, <2>2, <2>4 DEF Holds
    <2>7. Speaks(t) => Speaks(t)'
      BY <2>1, <2>4 DEF Speaks
    <2>8. QED
      BY <2>1, <2>3, <2>4, <2>5, <2>6, <2>7 DEF Toils
  <1>3. CASE Unregisters(t)
    <2> DEFINE r == [pc |-> "done", fresh |-> FALSE, err |-> FALSE, said |-> FALSE, n |-> 0]
    <2>1. /\ task[t].pc = "final" /\ ~task[t].cancel /\ Task(t, r)
          /\ registered' = registered \ {t}
          /\ UNCHANGED <<doc, chat, stop, warm, taken>>
      BY <1>3 DEF Unregisters
    <2>2. /\ TaskSet(task'[t], task[t], r) /\ \A d \in Chats : d # t => task'[d] = task[d]
      BY <1>1, <2>1, Tasked
    <2>3. /\ task'[t].pc = "done" /\ task'[t].out = task[t].out /\ task'[t].in = task[t].in
          /\ task'[t].cancel = task[t].cancel
      BY <2>2 DEF TaskSet
    <2>4. Live(t)
      BY <2>1, SessionAssumption DEF Live
    <2>5. /\ \A c \in Chats : Holds(t, c) => Holds(t, c)'
          /\ Speaks(t) => Speaks(t)'
      BY <2>1, <2>3 DEF Holds, Speaks
    <2>6. QED
      BY <2>1, <2>2, <2>3, <2>4, <2>5 DEF Toils
  <1>4. CASE IsCancelled(t)
    <2> DEFINE pc == IF task[t].pc \in {"ready", "final"} THEN "done" ELSE "final"
               r  == [pc |-> pc, cancel |-> FALSE, fresh |-> FALSE, err |-> FALSE,
                      said |-> FALSE, n |-> 0]
    <2>1. /\ Live(t) /\ task[t].cancel /\ Task(t, r)
          /\ UNCHANGED <<doc, registered, chat, stop, warm, taken>>
      BY <1>4 DEF IsCancelled
    <2>2. pc \in {"done", "final"}
      OBVIOUS
    <2> HIDE DEF pc
    <2>3. /\ TaskSet(task'[t], task[t], r) /\ \A d \in Chats : d # t => task'[d] = task[d]
      BY <1>1, <2>1, Tasked
    <2>4. task'[t].pc = pc /\ ~task'[t].cancel
      BY <2>3 DEF TaskSet
    <2>5. QED
      BY <2>1, <2>2, <2>3, <2>4 DEF Toils
  <1>5. QED
    BY <1>2, <1>3, <1>4

-----------------------------------------------------------------------------
LEMMA InitSuccessive == Init => Successive
  <1>1. SUFFICES ASSUME Init PROVE Successive
    OBVIOUS
  <1>2. /\ doc = Blank /\ registered = {} /\ warm.copy = Blank
        /\ \A c \in Chats :
             /\ chat[c].pc = "idle" /\ chat[c].task = None /\ chat[c].copy = Blank
             /\ chat[c].outcome = None /\ ~chat[c].alone /\ ~chat[c].cancelled
             /\ task[c].pc = "none" /\ ~task[c].cancel /\ task[c].out = <<>>
    BY <1>1 DEF Init
  <1>3. Blank.task = None /\ Boxed(Blank)
    BY DEF Blank, Boxed
  <1>4. Sequential /\ Launched
    BY <1>2 DEF Sequential, Launched, Rests, Launching
  <1>5. Registered
    BY <1>2 DEF Registered, Executing, Live
  <1>6. \A c \in Chats : AloneAt(c) /\ CopyAt(c) /\ BareAt(c) /\ HeardAt(c)
    BY <1>2, <1>3 DEF AloneAt, CopyAt, BareAt, HeardAt, Creating
  <1>7. Forgotten
    BY <1>2 DEF Forgotten, Dead
  <1>8. QED
    BY <1>2, <1>3, <1>4, <1>5, <1>6, <1>7 DEF Successive

LEMMA StepSuccessive ==
  ASSUME Overlap = "none", IInv, Successive, [Next]_vars
  PROVE  Successive'
  <1>1. ASSUME NEW c \in Chats, Begin(c) PROVE Successive'
    BY <1>1, BeginKeeps
  <1>2. ASSUME NEW c \in Chats, ChatGoes(c) PROVE Successive'
    <2>1. CASE Arrive(c) \/ AnswerAtOnce(c) \/ BindSandbox(c) \/ BindTask(c) \/ CreationFails(c)
      BY <2>1, EarlyAlters, AltersKeeps
    <2>2. CASE Recheck(c)
      BY <2>2, RecheckAlters, AltersKeeps
    <2>3. CASE CreateTask(c)
      BY <2>3, CreateTaskWorks, WorksKeeps
    <2>4. CASE Reactivate(c)
      BY <2>4, ReactivateWorks, WorksKeeps
    <2>5. CASE Put(c)
      BY <2>5, PutWorks, WorksKeeps
    <2>6. CASE Run(c)
      BY <2>6, RunWorks, WorksKeeps
    <2>7. CASE ArriveCancelled(c) \/ RelayCancelled(c)
      BY <2>7, CancelledCancels, CancelsKeeps
    <2>8. CASE Teardown(c)
      BY <2>8, TeardownKeeps
    <2>9. CASE Relay(c) \/ Drain(c)
      BY <2>9, RelayingAlters, AltersKeeps
    <2>10. CASE TaskOver(c) \/ Drained(c) \/ Abort(c) \/ ClosedAtYield(c)
      BY <2>10, LeavingAlters, AltersKeeps
    <2>11. CASE Mark(c) \/ TeardownWrites(c)
      BY <2>11, EndingAlters, AltersKeeps
    <2>12. CASE Close(c)
      BY <2>12, ClosingAlters, AltersKeeps
    <2>13. QED
      BY <1>2, <2>1, <2>2, <2>3, <2>4, <2>5, <2>6, <2>7, <2>8, <2>9, <2>10, <2>11, <2>12
         DEF ChatGoes
  <1>3. ASSUME NEW c \in Chats, Disconnect(c) PROVE Successive'
    BY <1>3, EndingAlters, AltersKeeps
  <1>4. CASE UserCancels
    BY <1>4, UserCancelsKeeps
  <1>5. ASSUME NEW s \in Stops,
               StopBegins(s) \/ AutoStopBegins(s) \/ AutoStopCut(s) \/ StopGoes(s)
        PROVE  Successive'
    BY <1>5, StopsAside, AsideKeeps
  <1>6. CASE WarmGoes
    BY <1>6, WarmsAside, AsideKeeps
  <1>7. ASSUME NEW t \in Chats, TaskGoes(t) PROVE Successive'
    <2>1. CASE \/ Begins(t) \/ NoMessage(t) \/ FlowBegins(t) \/ Waits(t) \/ Looks(t)
               \/ FlowEnds(t) \/ RunFails(t) \/ Fails(t) \/ Ends(t)
      BY <2>1, GoingToils, ToilsKeeps
    <2>2. CASE \/ Announces(t) \/ Crashes(t) \/ SaysDone(t)
               \/ \E event \in Events : FlowYields(t, event)
      BY <2>2, TalkingToils, ToilsKeeps
    <2>3. CASE TakesMessage(t) \/ Unregisters(t) \/ IsCancelled(t)
      BY <2>3, WorkingToils, ToilsKeeps
    <2>4. QED
      BY <1>7, <2>1, <2>2, <2>3 DEF TaskGoes, Events
  <1>8. CASE UNCHANGED vars
    <2>1. UNCHANGED <<chat, taken, task, registered, stop, doc, warm>>
      BY <1>8 DEF vars
    <2>2. Aside
      BY <2>1 DEF Successive, Aside, Tells, Boxed
    <2>3. QED
      BY <2>2, AsideKeeps
  <1>9. QED
    BY <1>1, <1>2, <1>3, <1>4, <1>5, <1>6, <1>7, <1>8 DEF Next

(* When streams follow each other, the invariant about them holds in every  *)
(* state that is reached.                                                   *)
THEOREM Succession ==
  ASSUME Overlap = "none"
  PROVE  Spec => []Successive
  <1>1. IInv /\ Successive /\ [Next]_vars => Successive'
    BY StepSuccessive
  <1>2. QED
    BY <1>1, InitSuccessive, Invariance, PTL DEF Spec

(* When streams follow each other and nobody stops the session, a task that *)
(* executes for its own chat only is in the registry, where a cancel or a   *)
(* teardown finds it: RedisStreamTask.cancel() leaves it there until it has *)
(* stopped.                                                                 *)
THEOREM FoundInRegistry ==
  ASSUME Overlap = "none"
  PROVE  Spec => []Registered
  <1>1. Successive => Registered
    BY DEF Successive
  <1>2. QED
    BY <1>1, Succession, PTL

(* When streams follow each other, a user who is told "completed" had the   *)
(* message taken by a task, unless something was cancelled or stopped, or   *)
(* an older task was at work when it came.                                  *)
THEOREM ToldTheTruth ==
  ASSUME Overlap = "none"
  PROVE  Spec => []Answered
  <1>1. Successive => Answered
    BY DEF Successive, Answered, Undisturbed, HeardAt
  <1>2. QED
    BY <1>1, Succession, PTL

-----------------------------------------------------------------------------
(***************************************************************************)
(* The last word: what the chat that began last was told.                  *)
(***************************************************************************)
Begun == {c \in Chats : chat[c].pc # "idle"}

Latest(c) == chat[c].pc # "idle" /\ \A d \in Chats : chat[d].turn <= chat[c].turn

\* the one whose stream is open began last
Ordered == \A c \in Chats :
  /\ chat[c].turn <= Cardinality(Begun)
  /\ ~Rests(c) => \A d \in Chats \ {c} : chat[d].turn < chat[c].turn

Calm == Undisturbed /\ warm.pc = "none"

(* A task that has said that it is done, and has nothing left to read: what *)
(* it does from here is to write that the session is completed.             *)
Said(t) == \E i \in 1 .. Len(task[t].out) : task[t].out[i] = "done"

Finishing(t) ==
  /\ task[t].pc \in {"look", "flow", "top", "end"}
  /\ task[t].said /\ ~task[t].cancel /\ ~task[t].err /\ ~task[t].fresh /\ task[t].in = <<>>

Finished(t) == Finishing(t) \/ task[t].pc \in {"final", "done"}

\* one that writes no status any more
Quenched(t) == Live(t) => task[t].cancel \/ task[t].pc = "final"

\* a run that has taken a message knows what it looks at next
LookedAt(t) == task[t].pc \in {"begin", "flow", "look"} => ~task[t].fresh

\* the document names the task of the chat until it is torn down
NamedAt(c) ==
  \/ chat[c].pc \in {"bind4", "put", "run", "relay", "drain", "mark"}
  \/ chat[c].pc = "tear" /\ chat[c].outcome # "failing"
  => chat[c].task \in Chats /\ doc.task = chat[c].task

(* What chat c was told, its task t, and the document. A chat that was told *)
(* "completed" leaves a task at work that will say so; any other leaves one *)
(* that writes nothing any more.                                            *)
ToldBy(c, t) ==
  /\ chat[c].pc \in {"put", "run"} => t \in registered
  /\ chat[c].pc \in {"relay", "drain", "mark", "tear"} /\ Live(t) => t \in registered
  /\ chat[c].pc \in {"relay", "drain"} /\ Said(t) => Finished(t)
  /\ chat[c].outcome = "completed" => t \in Chats /\ Finished(t)
  /\ \/ chat[c].pc = "tear" /\ chat[c].outcome \in {"cancelled", "failing"}
     \/ /\ chat[c].pc \in {"write", "close", "over"}
        /\ chat[c].outcome \in {"failed", "cancelled", "failing"}
     => Quenched(t)
  /\ chat[c].pc \in {"close", "over"} /\ chat[c].outcome \in Terminal =>
       doc.status = chat[c].outcome \/ (chat[c].outcome = "completed" /\ Finishing(t))

\* the chats LastWord speaks of
Speaking(c) == chat[c].alone /\ ~chat[c].gone /\ Latest(c)

OnlyOwn(c) == \A u \in Chats : Live(u) => u = chat[c].task

Worded ==
  /\ Ordered /\ \A t \in Chats : LookedAt(t)
  /\ Calm => \A c \in Chats :
       /\ NamedAt(c)
       /\ Speaking(c) => OnlyOwn(c) /\ ToldBy(c, chat[c].task)

(* A step of a chat c that has begun.                                       *)
Takes(c) ==
  /\ ~Rests(c) /\ chat'[c].pc # "idle" /\ UNCHANGED <<stop, warm>>
  /\ \A d \in Chats \ {c} : chat'[d].pc = chat[d].pc
  /\ \A d \in Chats : /\ chat'[d].turn = chat[d].turn
                      /\ chat[d].cancelled => chat'[d].cancelled
  /\ chat'[c].alone = chat[c].alone /\ (chat[c].gone => chat'[c].gone)

Proceeds(c) ==
  /\ Takes(c) /\ \A t \in Chats : LookedAt(t)'
  /\ Calm' => /\ NamedAt(c)'
              /\ Speaking(c)' => /\ ToldBy(c, chat[c].task)'
                                 /\ chat'[c].pc = "over" => OnlyOwn(c)'

LEMMA TakesOne ==
  ASSUME Typed, NEW c \in Chats, NEW r, Chat(c, r), ~Rests(c), UNCHANGED <<stop, warm>>,
         DOMAIN r \cap {"turn", "alone", "cancelled"} = {},
         "gone" \in DOMAIN r => r.gone = TRUE, "pc" \in DOMAIN r => r.pc # "idle"
  PROVE  /\ Takes(c) /\ ChatSet(chat'[c], chat[c], r)
         /\ \A d \in Chats : d # c => chat'[d] = chat[d]
  <1>1. ChatSet(chat'[c], chat[c], r) /\ \A d \in Chats : d # c => chat'[d] = chat[d]
    BY Chatted
  <1>2. chat'[c].pc # "idle"
    BY <1>1 DEF ChatSet, Rests
  <1>3. /\ chat'[c].turn = chat[c].turn /\ chat'[c].alone = chat[c].alone
        /\ chat'[c].cancelled = chat[c].cancelled
    <2>1. "turn" \notin DOMAIN r /\ "alone" \notin DOMAIN r /\ "cancelled" \notin DOMAIN r
      OBVIOUS
    <2>2. QED
      BY <1>1, <2>1 DEF ChatSet
  <1>4. chat[c].gone => chat'[c].gone
    BY <1>1 DEF ChatSet
  <1>5. QED
    BY <1>1, <1>2, <1>3, <1>4 DEF Takes

\* what is known of the chat before its step
LEMMA TakesFrom ==
  ASSUME IInv, Successive, Worded, NEW c \in Chats, Takes(c), Calm'
  PROVE  /\ Calm /\ NamedAt(c) /\ HeardAt(c)
         /\ Speaking(c)' => /\ chat[c].alone /\ ~chat[c].gone /\ OnlyOwn(c)
                            /\ ToldBy(c, chat[c].task)
  <1>1. Calm
    BY DEF Takes, Calm, Undisturbed, NeverCancelled, NeverStopped
  <1>2. HeardAt(c) /\ NamedAt(c)
    BY <1>1 DEF Calm, Successive, Worded
  <1>3. Speaking(c)' => Speaking(c)
    BY DEF Speaking, Latest, Takes, Rests
  <1>4. QED
    BY <1>1, <1>2, <1>3 DEF Worded, Speaking

LEMMA ProceedsKeeps ==
  ASSUME IInv, Successive, Successive', Worded, NEW c \in Chats, Proceeds(c)
  PROVE  Worded'
  <1>1. Takes(c) /\ \A d \in Chats \ {c} : Rests(d) /\ Rests(d)'
    BY DEF Proceeds, Takes, Successive, Sequential, Rests
  <1>2. Begun' = Begun
    BY <1>1 DEF Begun, Takes, Rests
  <1>3. Ordered'
    BY <1>1, <1>2 DEF Worded, Ordered, Takes
  <1>4. \A d \in Chats \ {c} : ~Latest(d)'
    <2>1. \A d \in Chats : chat[d].turn \in Nat
      BY InvParts DEF Typed, ChatRecord
    <2>2. \A d \in Chats \ {c} : chat'[d].turn < chat'[c].turn /\ chat'[c].turn \in Nat
      BY <1>1, <2>1 DEF Worded, Ordered, Takes
    <2>3. QED
      BY <1>1, <2>1, <2>2 DEF Latest, Takes
  <1>5. ASSUME Calm', NEW d \in Chats \ {c} PROVE NamedAt(d)' /\ ~Speaking(d)'
    BY <1>1, <1>4 DEF NamedAt, Rests, Speaking
  <1>6. ASSUME Calm', Speaking(c)' PROVE OnlyOwn(c)'
    <2>1. CASE chat'[c].pc = "over"
      BY <1>6, <2>1 DEF Proceeds
    <2>2. CASE chat'[c].pc # "over"
      <3>1. AloneAt(c)' /\ ~Rests(c)'
        BY <1>1, <2>2 DEF Successive, Takes, Rests
      <3>2. QED
        BY <1>6, <3>1 DEF AloneAt, OnlyOwn, Speaking
    <2>3. QED
      BY <2>1, <2>2
  <1>7. Calm' => \A d \in Chats : /\ NamedAt(d)'
                                  /\ Speaking(d)' => OnlyOwn(d)' /\ ToldBy(d, chat[d].task)'
    BY <1>5, <1>6 DEF Proceeds
  <1>8. QED
    BY <1>3, <1>7 DEF Proceeds, Worded

\* what is told: nothing yet, and nothing of the session's
LEMMA SaysNothingNext ==
  ASSUME NEW c \in Chats, chat'[c].outcome \notin Terminal \cup {"failing"},
         chat'[c].pc \notin {"put", "run", "relay", "drain", "mark", "tear"}
  PROVE  ToldBy(c, chat[c].task)'
  BY DEF ToldBy, Terminal

LEMMA EarlyProceeds ==
  ASSUME IInv, Successive, Worded, NEW c \in Chats,
         \/ Arrive(c) \/ AnswerAtOnce(c) \/ BindSandbox(c) \/ BindTask(c) \/ CreationFails(c)
  PROVE  Proceeds(c)
  <1>1. Typed /\ PlacedAt(c) /\ CopyAt(c) /\ AloneAt(c)
    BY Onward
  <1>2. UNCHANGED <<registered, task, stop, warm>> /\ \A t \in Chats : LookedAt(t)'
    <2>1. UNCHANGED <<registered, task, stop, warm>>
      BY DEF Arrive, AnswerAtOnce, BindSandbox, BindTask, CreationFails
    <2>2. QED
      BY <2>1 DEF Worded, LookedAt
  <1>3. chat[c].pc \in Creating \cup {"arrive"} /\ ~Rests(c) /\ chat[c].outcome = None
    BY <1>1 DEF Arrive, AnswerAtOnce, BindSandbox, BindTask, CreationFails, Creating, Rests,
                CopyAt, Opening
  <1>4. CASE Arrive(c)
    <2> DEFINE r == [pc |-> "wait", lock |-> lock']
    <2>1. Takes(c) /\ ChatSet(chat'[c], chat[c], r)
      BY <1>1, <1>2, <1>3, <1>4, TakesOne DEF Arrive
    <2>2. chat'[c].pc = "wait" /\ chat'[c].outcome = None
      BY <1>3, <2>1 DEF ChatSet
    <2>3. ToldBy(c, chat[c].task)' /\ NamedAt(c)'
      BY <2>2, SaysNothingNext, SessionAssumption DEF NamedAt, Terminal
    <2>4. QED
      BY <1>2, <2>1, <2>2, <2>3 DEF Proceeds
  <1>5. CASE AnswerAtOnce(c)
    <2> DEFINE pc == Yielded(c, "close")
               r  == [pc |-> pc, outcome |-> "answered"]
    <2>1. pc \in {"close", "over"} /\ (pc = "over" => chat[c].gone)
      BY DEF Yielded
    <2>2. Chat(c, r)
      BY <1>5 DEF AnswerAtOnce
    <2> HIDE DEF pc
    <2>3. Takes(c) /\ ChatSet(chat'[c], chat[c], r)
      BY <1>1, <1>2, <1>3, <2>1, <2>2, TakesOne
    <2>4. chat'[c].pc = pc /\ chat'[c].outcome = "answered" /\ chat'[c].gone = chat[c].gone
      BY <2>3 DEF ChatSet
    <2>5. ToldBy(c, chat[c].task)' /\ NamedAt(c)'
      BY <2>1, <2>4, SaysNothingNext DEF NamedAt, Terminal
    <2>6. QED
      BY <1>2, <2>1, <2>3, <2>4, <2>5 DEF Proceeds, Speaking
  <1>6. CASE BindSandbox(c)
    <2> DEFINE copy == [chat[c].copy EXCEPT !.box = TRUE]
               r    == [pc |-> "bind2", copy |-> copy]
    <2>1. Chat(c, r)
      BY <1>6 DEF BindSandbox
    <2> HIDE DEF copy
    <2>2. Takes(c) /\ ChatSet(chat'[c], chat[c], r)
      BY <1>1, <1>2, <1>3, <2>1, TakesOne
    <2>3. chat'[c].pc = "bind2" /\ chat'[c].outcome = None
      BY <1>3, <2>2 DEF ChatSet
    <2>4. ToldBy(c, chat[c].task)' /\ NamedAt(c)'
      BY <2>3, SaysNothingNext, SessionAssumption DEF NamedAt, Terminal
    <2>5. QED
      BY <1>2, <2>2, <2>3, <2>4 DEF Proceeds
  <1>7. CASE BindTask(c)
    <2>1. Takes(c) /\ ChatSet(chat'[c], chat[c], [pc |-> "bind4", task |-> c])
      BY <1>1, <1>2, <1>3, <1>7, TakesOne DEF BindTask
    <2>2. chat'[c].pc = "bind4" /\ chat'[c].outcome = None /\ chat'[c].task = c
      BY <1>3, <2>1 DEF ChatSet
    <2>3. doc'.task = c
      BY <1>1, <1>7 DEF BindTask, Typed, ChatRecord, Documents
    <2>4. ToldBy(c, chat[c].task)' /\ NamedAt(c)'
      BY <2>2, <2>3, SaysNothingNext, SessionAssumption DEF NamedAt, Terminal
    <2>5. QED
      BY <1>2, <2>1, <2>2, <2>4 DEF Proceeds
  <1>8. CASE CreationFails(c)
    <2> DEFINE r == [pc |-> "tear", lock |-> None, outcome |-> "failing", copy |-> Blank]
    <2>1. Takes(c) /\ ChatSet(chat'[c], chat[c], r)
      BY <1>1, <1>2, <1>3, <1>8, TakesOne DEF CreationFails
    <2>2. /\ chat'[c].pc = "tear" /\ chat'[c].outcome = "failing"
          /\ chat'[c].task = chat[c].task /\ chat'[c].alone = chat[c].alone
      BY <2>1 DEF ChatSet
    <2>3. chat[c].alone => ~Live(chat[c].task)
      <3>1. chat[c].pc \in Creating /\ chat[c].task \in Chats \cup {None}
        BY <1>1, <1>8 DEF CreationFails, Typed, ChatRecord
      <3>2. QED
        BY <1>1, <1>3, <3>1 DEF AloneAt, Opening, Live
    <2>4. NamedAt(c)' /\ (chat[c].alone => ToldBy(c, chat[c].task)')
      BY <1>2, <2>2, <2>3 DEF NamedAt, ToldBy, Quenched, Live, Terminal
    <2>5. QED
      BY <1>2, <2>1, <2>2, <2>4 DEF Proceeds, Speaking
  <1>9. QED
    BY <1>4, <1>5, <1>6, <1>7, <1>8

LEMMA RecheckProceeds ==
  ASSUME IInv, Successive, Worded, NEW c \in Chats, Recheck(c)
  PROVE  Proceeds(c)
  <1> DEFINE t  == Lookup(doc.task)
             pc == IF doc.box THEN "bind2" ELSE "bind1"
  <1>1. Typed /\ CopyAt(c)
    BY Onward
  <1>2. /\ chat[c].pc = "wait" /\ ~Rests(c) /\ chat[c].outcome = None
        /\ UNCHANGED <<doc, registered, task, stop, warm>>
    BY <1>1 DEF Recheck, Rests, CopyAt, Opening
  <1>3. \A u \in Chats : LookedAt(u)'
    BY <1>2 DEF Worded, LookedAt
  <1>4. /\ t # None => t \in Chats /\ t = doc.task /\ t \in registered
        /\ pc \in {"bind1", "bind2"}
    BY <1>1 DEF Typed, Lookup
  <1>5. \/ t # None /\ Chat(c, [pc |-> "put", lock |-> None, task |-> t])
        \/ Chat(c, [pc |-> "close", lock |-> None])
        \/ Chat(c, [pc |-> pc, copy |-> doc])
    BY DEF Recheck
  <1> HIDE DEF t, pc
  <1>6. CASE t # None /\ Chat(c, [pc |-> "put", lock |-> None, task |-> t])
    <2>1. Takes(c) /\ ChatSet(chat'[c], chat[c], [pc |-> "put", lock |-> None, task |-> t])
      BY <1>1, <1>2, <1>6, TakesOne
    <2>2. chat'[c].pc = "put" /\ chat'[c].task = t /\ chat'[c].outcome = None
      BY <1>2, <2>1 DEF ChatSet
    <2>3. NamedAt(c)' /\ ToldBy(c, chat[c].task)'
      BY <1>2, <1>4, <1>6, <2>2, SessionAssumption DEF NamedAt, ToldBy, Terminal
    <2>4. QED
      BY <1>3, <2>1, <2>2, <2>3 DEF Proceeds
  <1>7. ASSUME NEW to \in {"close", "bind1", "bind2"}, NEW r, Chat(c, r), r.pc = to,
               DOMAIN r = {"pc", "lock"} \/ DOMAIN r = {"pc", "copy"}
        PROVE  Proceeds(c)
    <2>1. Takes(c) /\ ChatSet(chat'[c], chat[c], r)
      BY <1>1, <1>2, <1>7, TakesOne
    <2>2. chat'[c].pc = to /\ chat'[c].outcome = None
      BY <1>2, <1>7, <2>1 DEF ChatSet
    <2>3. NamedAt(c)' /\ ToldBy(c, chat[c].task)'
      BY <2>2, SaysNothingNext, SessionAssumption DEF NamedAt, Terminal
    <2>4. QED
      BY <1>3, <2>1, <2>2, <2>3 DEF Proceeds
  <1>8. QED
    BY <1>4, <1>5, <1>6, <1>7

\* a stream that is cancelled
LEMMA CancelledProceeds ==
  ASSUME IInv, Successive, Worded, NEW c \in Chats, ~Rests(c), chat[c].cancelled,
         NEW r, Chat(c, r), UNCHANGED <<stop, warm>>, \A t \in Chats : LookedAt(t)',
         DOMAIN r \cap {"turn", "alone", "cancelled", "gone"} = {},
         "pc" \in DOMAIN r => r.pc # "idle"
  PROVE  Proceeds(c)
  <1>1. Takes(c)
    BY TakesOne, Onward
  <1>2. ~Calm'
    BY <1>1 DEF Takes, Calm, Undisturbed, NeverCancelled
  <1>3. QED
    BY <1>1, <1>2 DEF Proceeds

\* cancelling sets a flag that stays, and changes nothing else of the tasks
LEMMA CancelFlags ==
  ASSUME Typed, NEW t \in Chats, Cancel(t)
  PROVE  /\ \A u \in Chats : /\ task'[u].pc = task[u].pc /\ task'[u].fresh = task[u].fresh
                             /\ task[u].cancel => task'[u].cancel
         /\ Live(t) => task'[t].cancel
  <1>1. CASE Live(t)
    <2>1. Task(t, [cancel |-> TRUE])
      BY <1>1 DEF Cancel
    <2>2. /\ TaskSet(task'[t], task[t], [cancel |-> TRUE])
          /\ \A u \in Chats : u # t => task'[u] = task[u]
      BY <2>1, Tasked
    <2>3. QED
      BY <2>2 DEF TaskSet
  <1>2. CASE ~Live(t)
    BY <1>2 DEF Cancel
  <1>3. QED
    BY <1>1, <1>2

LEMMA CancelRegisteredFlags ==
  ASSUME Typed, CancelRegistered(doc.task)
  PROVE  /\ \A u \in Chats : /\ task'[u].pc = task[u].pc /\ task'[u].fresh = task[u].fresh
                             /\ task[u].cancel => task'[u].cancel
         /\ doc.task \in Chats /\ Live(doc.task) /\ doc.task \in registered =>
              task'[doc.task].cancel
  <1>1. CASE Lookup(doc.task) = None
    BY <1>1, SessionAssumption DEF CancelRegistered, Lookup
  <1>2. CASE Lookup(doc.task) # None
    <2>1. doc.task \in Chats /\ Cancel(doc.task)
      BY <1>2 DEF CancelRegistered, Lookup, Typed
    <2>2. QED
      BY <2>1, CancelFlags
  <1>3. QED
    BY <1>1, <1>2

LEMMA CancellingProceeds ==
  ASSUME IInv, Successive, Worded, NEW c \in Chats,
         ArriveCancelled(c) \/ RelayCancelled(c) \/ Abort(c)
  PROVE  Proceeds(c)
  <1>1. Typed /\ PlacedAt(c)
    BY Onward
  <1>2. chat[c].cancelled /\ ~Rests(c) /\ UNCHANGED <<stop, warm>>
    BY DEF ArriveCancelled, RelayCancelled, Abort, Rests, InDomain, Creating
  <1>3. UNCHANGED task \/ \E t \in Chats : Cancel(t)
    BY <1>1 DEF ArriveCancelled, RelayCancelled, Abort, Live, Lookup, Typed, PlacedAt
  <1>4. \A u \in Chats : LookedAt(u)'
    BY <1>1, <1>3, CancelFlags DEF Worded, LookedAt
  <1>5. \/ Chat(c, [pc |-> "write", outcome |-> "cancelled"])
        \/ Chat(c, [pc |-> "close"])
        \/ Chat(c, [pc |-> "tear", outcome |-> "cancelled"])
        \/ Chat(c, [pc |-> "close", lock |-> None, copy |-> Blank])
    BY DEF ArriveCancelled, RelayCancelled, Abort
  <1>6. CASE Chat(c, [pc |-> "write", outcome |-> "cancelled"])
    BY <1>2, <1>4, <1>6, CancelledProceeds
  <1>7. CASE Chat(c, [pc |-> "close"])
    BY <1>2, <1>4, <1>7, CancelledProceeds
  <1>8. CASE Chat(c, [pc |-> "tear", outcome |-> "cancelled"])
    BY <1>2, <1>4, <1>8, CancelledProceeds
  <1>9. CASE Chat(c, [pc |-> "close", lock |-> None, copy |-> Blank])
    BY <1>2, <1>4, <1>9, CancelledProceeds
  <1>10. QED
    BY <1>5, <1>6, <1>7, <1>8, <1>9

\* a chat that creates, tells or starts its task
LEMMA StartingProceeds ==
  ASSUME IInv, Successive, Worded, NEW c \in Chats, CreateTask(c) \/ Reactivate(c)
  PROVE  Proceeds(c)
  <1>1. /\ Typed /\ PlacedAt(c) /\ CopyAt(c)
        /\ NeverStopped => (Launching(c) => task[c].pc = "new" /\ c \in registered)
    BY Onward
  <1>2. /\ chat[c].pc \in {"bind2", "bind4"} /\ ~Rests(c) /\ chat[c].outcome = None
        /\ UNCHANGED <<stop, warm>>
    BY <1>1 DEF CreateTask, Reactivate, Rests, CopyAt, Opening, Creating
  <1>3. ASSUME NEW r, Task(c, r), "fresh" \notin DOMAIN r,
               "pc" \in DOMAIN r => r.pc = "new"
        PROVE  \A t \in Chats : LookedAt(t)'
    <2>1. /\ TaskSet(task'[c], task[c], r)
          /\ \A t \in Chats : t # c => task'[t] = task[t]
      BY <1>1, <1>3, Tasked
    <2>2. QED
      BY <1>3, <2>1 DEF TaskSet, Worded, LookedAt
  <1>4. CASE CreateTask(c)
    <2>1. Takes(c) /\ ChatSet(chat'[c], chat[c], [pc |-> "bind3"])
      BY <1>1, <1>2, <1>4, TakesOne DEF CreateTask
    <2>2. chat'[c].pc = "bind3" /\ chat'[c].outcome = None
      BY <1>2, <2>1 DEF ChatSet
    <2>3. NamedAt(c)' /\ ToldBy(c, chat[c].task)'
      BY <2>2, SaysNothingNext, SessionAssumption DEF NamedAt, Terminal
    <2>4. \A t \in Chats : LookedAt(t)'
      BY <1>3, <1>4 DEF CreateTask
    <2>5. QED
      BY <2>1, <2>2, <2>3, <2>4 DEF Proceeds
  <1>5. CASE Reactivate(c)
    <2> DEFINE r == [pc |-> "put", lock |-> None, copy |-> Blank]
    <2>1. chat[c].pc = "bind4" /\ Chat(c, r) /\ UNCHANGED <<doc, registered>>
      BY <1>5 DEF Reactivate
    <2>2. Takes(c) /\ ChatSet(chat'[c], chat[c], r)
      BY <1>1, <1>2, <2>1, TakesOne
    <2>3. /\ chat'[c].pc = "put" /\ chat'[c].outcome = None /\ chat'[c].task = chat[c].task
      BY <1>2, <2>2 DEF ChatSet
    <2>4. chat[c].task = c /\ (NeverStopped => c \in registered)
      BY <1>1, <2>1 DEF PlacedAt, Launching
    <2>5. \A t \in Chats : LookedAt(t)'
      <3>1. CASE UNCHANGED task
        BY <3>1 DEF Worded, LookedAt
      <3>2. CASE Task(c, [in |-> <<"context">>])
        BY <1>3, <3>2
      <3>3. QED
        BY <1>5, <3>1, <3>2 DEF Reactivate
    <2>6. Calm' => NamedAt(c)' /\ ToldBy(c, chat[c].task)'
      <3>1. SUFFICES ASSUME Calm' PROVE NamedAt(c)' /\ ToldBy(c, chat[c].task)'
        OBVIOUS
      <3>2. NamedAt(c) /\ NeverStopped
        BY <2>2, <3>1, TakesFrom DEF Calm, Undisturbed
      <3>3. QED
        BY <2>1, <2>3, <2>4, <3>2, SessionAssumption DEF NamedAt, ToldBy, Terminal
    <2>7. QED
      BY <2>2, <2>3, <2>5, <2>6 DEF Proceeds
  <1>6. QED
    BY <1>4, <1>5

LEMMA PutProceeds ==
  ASSUME IInv, Successive, Worded, NEW c \in Chats, Put(c)
  PROVE  Proceeds(c)
  <1>0. PICK t : t = chat[c].task
    OBVIOUS
  <1> DEFINE pc == Yielded(c, "run")
             in == Append(task[t].in, c)
  <1>1. Typed /\ PlacedAt(c) /\ CopyAt(c)
    BY Onward
  <1>2. /\ chat[c].pc = "put" /\ ~Rests(c) /\ chat[c].outcome = None /\ t \in Chats
        /\ Task(t, [in |-> in]) /\ UNCHANGED <<doc, registered, stop, warm>>
    BY <1>0, <1>1 DEF Put, Rests, CopyAt, PlacedAt, Opening
  <1>3. PICK seen : Chat(c, [pc |-> pc, seen |-> seen])
    BY DEF Put
  <1>4. pc \in {"run", "over"} /\ (pc = "over" => chat[c].gone)
    BY DEF Yielded
  <1> HIDE DEF pc, in
  <1>5. Takes(c) /\ ChatSet(chat'[c], chat[c], [pc |-> pc, seen |-> seen])
    BY <1>1, <1>2, <1>3, <1>4, TakesOne
  <1>6. /\ chat'[c].pc = pc /\ chat'[c].task = t /\ chat'[c].outcome = None
        /\ chat'[c].gone = chat[c].gone
    BY <1>0, <1>2, <1>5 DEF ChatSet
  <1>7. \A u \in Chats : LookedAt(u)'
    <2>1. /\ TaskSet(task'[t], task[t], [in |-> in])
          /\ \A u \in Chats : u # t => task'[u] = task[u]
      BY <1>1, <1>2, Tasked
    <2>2. QED
      BY <2>1 DEF TaskSet, Worded, LookedAt
  <1>8. ASSUME Calm' PROVE NamedAt(c)' /\ (Speaking(c)' => ToldBy(c, chat[c].task)')
    <2>1. /\ NamedAt(c) /\ (Speaking(c)' => ToldBy(c, t) /\ ~chat[c].gone)
      BY <1>0, <1>5, <1>8, TakesFrom
    <2>2. NamedAt(c)'
      BY <1>0, <1>2, <1>4, <1>6, <2>1 DEF NamedAt
    <2>3. Speaking(c)' => ToldBy(c, chat[c].task)'
      BY <1>2, <1>4, <1>6, <2>1, SessionAssumption DEF ToldBy, Terminal
    <2>4. QED
      BY <2>2, <2>3
  <1>9. QED
    BY <1>4, <1>5, <1>6, <1>7, <1>8 DEF Proceeds, Speaking

LEMMA RunProceeds ==
  ASSUME IInv, Successive, Worded, NEW c \in Chats, Run(c)
  PROVE  Proceeds(c)
  <1>0. PICK t : t = chat[c].task
    OBVIOUS
  <1>1. Typed /\ PlacedAt(c) /\ CopyAt(c)
    BY Onward
  <1>2. /\ chat[c].pc = "run" /\ ~Rests(c) /\ chat[c].outcome = None /\ t \in Chats
        /\ Chat(c, [pc |-> "relay"]) /\ UNCHANGED <<doc, registered, stop, warm>>
        /\ task' = task \/ Task(t, [pc |-> "ready", fresh |-> TRUE, cancel |-> FALSE])
    BY <1>0, <1>1 DEF Run, Rests, CopyAt, PlacedAt, Opening
  <1>3. Takes(c) /\ ChatSet(chat'[c], chat[c], [pc |-> "relay"])
    BY <1>1, <1>2, TakesOne
  <1>4. chat'[c].pc = "relay" /\ chat'[c].task = t /\ chat'[c].outcome = None
    BY <1>0, <1>2, <1>3 DEF ChatSet
  <1>5. /\ \A u \in Chats : u # t => task'[u] = task[u]
        /\ \/ task'[t] = task[t]
           \/ task'[t].pc = "ready" /\ task'[t].out = task[t].out
    <2>1. CASE task' = task
      BY <2>1
    <2>2. CASE Task(t, [pc |-> "ready", fresh |-> TRUE, cancel |-> FALSE])
      <3>1. /\ TaskSet(task'[t], task[t], [pc |-> "ready", fresh |-> TRUE, cancel |-> FALSE])
            /\ \A u \in Chats : u # t => task'[u] = task[u]
        BY <1>1, <1>2, <2>2, Tasked
      <3>2. QED
        BY <3>1 DEF TaskSet
    <2>3. QED
      BY <1>2, <2>1, <2>2
  <1>6. \A u \in Chats : LookedAt(u)'
    BY <1>2, <1>5 DEF Worded, LookedAt
  <1>7. ASSUME Calm' PROVE NamedAt(c)' /\ (Speaking(c)' => ToldBy(c, chat[c].task)')
    <2>1. /\ NamedAt(c) /\ HeardAt(c)
          /\ Speaking(c)' => ToldBy(c, t) /\ chat[c].alone
      BY <1>0, <1>3, <1>7, TakesFrom
    <2>2. NamedAt(c)'
      BY <1>0, <1>2, <1>4, <2>1 DEF NamedAt
    <2>3. ASSUME Speaking(c)' PROVE ToldBy(c, chat[c].task)'
      <3>1. t \in registered' /\ ~Said(t)'
        <4>1. task[t].pc = "new" /\ task[t].out = <<>>
          BY <1>0, <1>2, <2>1, <2>3 DEF HeardAt, Successive, BareAt
        <4>2. task'[t].out = <<>>
          BY <1>5, <4>1
        <4>3. QED
          BY <1>2, <2>1, <2>3, <4>2 DEF Said, ToldBy
      <3>2. QED
        BY <1>4, <3>1, SessionAssumption DEF ToldBy, Terminal
    <2>4. QED
      BY <2>2, <2>3
  <1>8. QED
    BY <1>3, <1>4, <1>6, <1>7 DEF Proceeds

\* a chat that reads
LEMMA ReadProceeds ==
  ASSUME IInv, Successive, Worded, NEW c \in Chats, chat[c].pc \in {"relay", "drain"}, More(c),
         NEW outcome, NEW pc,
         \/ pc \in {chat[c].pc, "over"} /\ outcome = None
         \/ pc \in {"close", "over"} /\ outcome = "waiting"
         \/ pc = "mark" /\ outcome = "completed" /\ NextEvent(c) = "done"
         \/ pc = "mark" /\ outcome = "failed",
         pc = "over" => chat[c].gone,
         Read(c, outcome, pc),
         UNCHANGED <<doc, registered, task, stop, warm>>
  PROVE  Proceeds(c)
  <1> DEFINE n == chat[c].seen + 1
  <1>0. PICK t : t = chat[c].task
    OBVIOUS
  <1>1. Typed /\ PlacedAt(c) /\ ~Rests(c) /\ pc # "idle" /\ ChatTyped(chat[c])
    BY Onward DEF Rests
  <1>2. Takes(c)
        /\ ChatSet(chat'[c], chat[c], [seen |-> n, got |-> TRUE, outcome |-> outcome, pc |-> pc])
    BY <1>1, TakesOne DEF Read
  <1>3. /\ chat'[c].pc = pc /\ chat'[c].outcome = outcome /\ chat'[c].task = t
        /\ chat'[c].gone = chat[c].gone
    BY <1>0, <1>2 DEF ChatSet
  <1>4. t \in Chats /\ (NextEvent(c) = "done" => Said(t))
    <2>1. t \in Chats /\ NextEvent(c) = task[t].out[n]
      BY <1>0, <1>1 DEF PlacedAt, NextEvent
    <2>2. n \in 1 .. Len(task[t].out)
      <3>1. /\ chat[c].seen < Len(task[t].out) /\ chat[c].seen \in Nat
            /\ Len(task[t].out) \in Nat
        BY <1>0, <1>1, <2>1 DEF More, Typed, TaskRecord, ChatTyped
      <3>2. QED
        BY <3>1
    <2>3. QED
      BY <2>1, <2>2 DEF Said
  <1>5. \A u \in Chats : LookedAt(u)'
    BY DEF Worded, LookedAt
  <1>6. ASSUME Calm' PROVE NamedAt(c)' /\ (Speaking(c)' => ToldBy(c, chat[c].task)')
    <2>1. NamedAt(c) /\ (Speaking(c)' => ToldBy(c, t) /\ ~chat[c].gone)
      BY <1>0, <1>2, <1>6, TakesFrom
    <2>2. NamedAt(c)'
      BY <1>0, <1>3, <2>1 DEF NamedAt
    <2>3. (Live(t)' <=> Live(t)) /\ (Said(t)' <=> Said(t)) /\ (Finished(t)' <=> Finished(t))
      BY DEF Live, Said, Finished, Finishing
    <2>4. Speaking(c)' => ToldBy(c, chat[c].task)'
      BY <1>3, <1>4, <2>1, <2>3, SessionAssumption DEF ToldBy, Terminal
    <2>5. QED
      BY <2>2, <2>4
  <1>7. QED
    BY <1>2, <1>3, <1>5, <1>6 DEF Proceeds, Speaking

LEMMA RelayingProceeds ==
  ASSUME IInv, Successive, Worded, NEW c \in Chats, Relay(c) \/ Drain(c)
  PROVE  Proceeds(c)
  <1>1. Typed /\ PlacedAt(c)
    BY Onward
  <1>2. /\ chat[c].pc \in {"relay", "drain"} /\ More(c)
        /\ UNCHANGED <<doc, registered, task, stop, warm>>
    BY DEF Relay, Drain
  <1>3. NextEvent(c) \in {"event", "wait", "done", "error"}
    BY <1>1, <1>2, NextEventTyped DEF Events
  <1>4. \A pc : Yielded(c, pc) \in {pc, "over"} /\ (~chat[c].gone => Yielded(c, pc) = pc)
    BY DEF Yielded
  <1>5. \/ NextEvent(c) \in {"event", "wait"} /\ Read(c, None, Yielded(c, chat[c].pc))
        \/ NextEvent(c) = "wait" /\ Read(c, "waiting", Yielded(c, "close"))
        \/ NextEvent(c) = "done" /\ Read(c, "completed", "mark")
        \/ NextEvent(c) = "error" /\ Read(c, "failed", "mark")
    <2>1. CASE Relay(c)
      <3>1. /\ NextEvent(c) = "event" => Read(c, None, Yielded(c, "relay"))
            /\ NextEvent(c) = "wait"  => Read(c, "waiting", Yielded(c, "close"))
            /\ NextEvent(c) = "done"  => Read(c, "completed", "mark")
            /\ NextEvent(c) = "error" => Read(c, "failed", "mark")
            /\ chat[c].pc = "relay"
        BY <2>1 DEF Relay
      <3>2. QED
        BY <1>3, <3>1
    <2>2. CASE Drain(c)
      <3>1. /\ NextEvent(c) \in {"event", "wait"} => Read(c, None, Yielded(c, "drain"))
            /\ NextEvent(c) = "done"  => Read(c, "completed", "mark")
            /\ NextEvent(c) = "error" => Read(c, "failed", "mark")
            /\ chat[c].pc = "drain"
        BY <2>2 DEF Drain
      <3>2. QED
        BY <1>3, <3>1
    <2>3. QED
      BY <2>1, <2>2
  <1>6. CASE Read(c, None, Yielded(c, chat[c].pc))
    BY <1>2, <1>4, <1>6, ReadProceeds
  <1>7. CASE Read(c, "waiting", Yielded(c, "close"))
    BY <1>2, <1>4, <1>7, ReadProceeds
  <1>8. CASE NextEvent(c) = "done" /\ Read(c, "completed", "mark")
    BY <1>2, <1>8, ReadProceeds
  <1>9. CASE Read(c, "failed", "mark")
    BY <1>2, <1>9, ReadProceeds
  <1>10. QED
    BY <1>5, <1>6, <1>7, <1>8, <1>9

\* a chat whose task is over, and one that has read all there is
LEMMA DrainingProceeds ==
  ASSUME IInv, Successive, Worded, NEW c \in Chats, TaskOver(c) \/ Drained(c)
  PROVE  Proceeds(c)
  <1>0. PICK t : t = chat[c].task
    OBVIOUS
  <1>1. Typed /\ PlacedAt(c) /\ CopyAt(c) /\ ChatTyped(chat[c])
    BY Onward
  <1>2. /\ chat[c].pc \in {"relay", "drain"} /\ ~Rests(c) /\ chat[c].outcome = None
        /\ t \in Chats /\ UNCHANGED <<doc, registered, task, stop, warm>>
    BY <1>0, <1>1 DEF TaskOver, Drained, Rests, CopyAt, Opening, PlacedAt
  <1>3. \A u \in Chats : LookedAt(u)'
    BY <1>2 DEF Worded, LookedAt
  <1>4. (Live(t)' <=> Live(t)) /\ (Said(t)' <=> Said(t)) /\ (Finished(t)' <=> Finished(t))
    BY <1>2 DEF Live, Said, Finished, Finishing
  <1>5. ASSUME NEW r, Chat(c, r), "pc" \in DOMAIN r, DOMAIN r \subseteq {"pc", "outcome"},
               NEW outcome, outcome = IF "outcome" \in DOMAIN r THEN r.outcome ELSE None,
               \/ r.pc = "drain" /\ outcome = None
               \/ r.pc = "close" /\ outcome = None
               \/ /\ r.pc = Yielded(c, "tear")
                  /\ \/ outcome = "completed" /\ ~chat[c].got /\ ~More(c) /\ chat[c].pc = "drain"
                     \/ outcome = "cancelled" /\ ~Live(t)
        PROVE  Proceeds(c)
    <2>1. r.pc \in {"drain", "close", "tear", "over"} /\ (r.pc = "over" => chat[c].gone)
      BY <1>5 DEF Yielded
    <2>2. Takes(c) /\ ChatSet(chat'[c], chat[c], r)
      BY <1>1, <1>2, <1>5, <2>1, TakesOne
    <2>3. /\ chat'[c].pc = r.pc /\ chat'[c].task = t /\ chat'[c].outcome = outcome
          /\ chat'[c].gone = chat[c].gone
      BY <1>0, <1>2, <1>5, <2>2 DEF ChatSet
    <2>4. ASSUME Calm' PROVE NamedAt(c)' /\ (Speaking(c)' => ToldBy(c, chat[c].task)')
      <3>1. /\ NamedAt(c) /\ HeardAt(c)
            /\ Speaking(c)' => ToldBy(c, t) /\ chat[c].alone /\ ~chat[c].gone
        BY <1>0, <2>2, <2>4, TakesFrom
      <3>2. NamedAt(c)'
        BY <1>0, <1>2, <2>1, <2>3, <3>1 DEF NamedAt
      <3>3. chat[c].alone /\ chat[c].pc = "drain" /\ ~More(c) => chat[c].got
        <4>1. SUFFICES ASSUME chat[c].alone, chat[c].pc = "drain", ~More(c), ~chat[c].got
                       PROVE  FALSE
          BY <1>1 DEF ChatTyped
        <4>2. chat[c].seen = 0 /\ task[t].out # <<>>
          BY <1>0, <3>1, <4>1 DEF HeardAt
        <4>3. QED
          BY <1>0, <1>1, <1>2, <4>1, <4>2, OutSays DEF More
      <3>4. ASSUME Speaking(c)' PROVE ToldBy(c, chat[c].task)'
        <4>1. ToldBy(c, t) /\ chat[c].alone /\ ~chat[c].gone /\ (Live(t) => t \in registered')
          BY <1>2, <3>1, <3>4 DEF ToldBy
        <4>2. Said(t)' => Finished(t)'
          BY <1>2, <1>4, <4>1 DEF ToldBy
        <4>3. CASE r.pc \in {"drain", "close"} /\ outcome = None
          BY <1>4, <2>3, <4>1, <4>2, <4>3, SessionAssumption DEF ToldBy, Terminal
        <4>4. CASE r.pc = "tear" /\ outcome = "cancelled" /\ ~Live(t)
          BY <1>4, <2>3, <4>1, <4>2, <4>4 DEF ToldBy, Terminal, Quenched
        <4>5. Yielded(c, "tear") = "tear"
          BY <4>1 DEF Yielded
        <4>6. QED
          BY <1>5, <3>3, <4>1, <4>3, <4>4, <4>5
      <3>5. QED
        BY <3>2, <3>4
    <2>5. QED
      BY <1>3, <2>1, <2>2, <2>3, <2>4 DEF Proceeds, Speaking
  <1>6. CASE TaskOver(c)
    BY <1>5, <1>6 DEF TaskOver
  <1>7. CASE Drained(c)
    <2>1. chat[c].pc = "drain" /\ ~More(c)
      BY <1>7 DEF Drained
    <2>2. \/ ~chat[c].got /\ Chat(c, [pc |-> Yielded(c, "tear"), outcome |-> "completed"])
          \/ ~Live(t) /\ Chat(c, [pc |-> Yielded(c, "tear"), outcome |-> "cancelled"])
          \/ Chat(c, [pc |-> "close"])
      BY <1>0, <1>7 DEF Drained
    <2>3. CASE ~chat[c].got /\ Chat(c, [pc |-> Yielded(c, "tear"), outcome |-> "completed"])
      BY <1>5, <2>1, <2>3
    <2>4. CASE ~Live(t) /\ Chat(c, [pc |-> Yielded(c, "tear"), outcome |-> "cancelled"])
      BY <1>5, <2>4
    <2>5. CASE Chat(c, [pc |-> "close"])
      BY <1>5, <2>5
    <2>6. QED
      BY <2>2, <2>3, <2>4, <2>5
  <1>8. QED
    BY <1>6, <1>7

\* a client that leaves: what its chat is told nobody hears
LEMMA GoneProceeds ==
  ASSUME IInv, Successive, Worded, NEW c \in Chats, Disconnect(c) \/ ClosedAtYield(c)
  PROVE  Proceeds(c)
  <1>1. Typed
    BY Onward
  <1>2. UNCHANGED <<doc, registered, task, stop, warm>> /\ ~Rests(c)
    BY DEF Disconnect, ClosedAtYield, Rests, InDomain, Creating
  <1>3. \A u \in Chats : LookedAt(u)'
    BY <1>2 DEF Worded, LookedAt
  <1>4. CASE Disconnect(c)
    <2>1. Takes(c) /\ ChatSet(chat'[c], chat[c], [gone |-> TRUE])
      BY <1>1, <1>2, <1>4, TakesOne DEF Disconnect
    <2>2. /\ chat'[c].gone /\ chat'[c].pc = chat[c].pc /\ chat'[c].outcome = chat[c].outcome
          /\ chat'[c].task = chat[c].task
      BY <2>1 DEF ChatSet
    <2>3. Calm' => NamedAt(c)'
      BY <1>2, <2>1, <2>2, TakesFrom DEF NamedAt
    <2>4. QED
      BY <1>3, <2>1, <2>2, <2>3 DEF Proceeds, Speaking
  <1>5. CASE ClosedAtYield(c)
    <2>1. /\ Takes(c) /\ chat[c].gone
          /\ ChatSet(chat'[c], chat[c], [pc |-> "over", got |-> FALSE, lock |-> None])
      BY <1>1, <1>2, <1>5, TakesOne DEF ClosedAtYield
    <2>2. chat'[c].gone /\ chat'[c].pc = "over"
      BY <2>1 DEF ChatSet
    <2>3. QED
      BY <1>3, <2>1, <2>2 DEF Proceeds, Speaking, NamedAt
  <1>6. QED
    BY <1>4, <1>5

\* the two writes of a chat's end
LEMMA WritingProceeds ==
  ASSUME IInv, Successive, Worded, NEW c \in Chats, Mark(c) \/ TeardownWrites(c)
  PROVE  Proceeds(c)
  <1>0. PICK t : t = chat[c].task
    OBVIOUS
  <1>1. Typed /\ PlacedAt(c)
    BY Onward
  <1>2. UNCHANGED <<registered, task, stop, warm>> /\ ~Rests(c)
    BY DEF Mark, TeardownWrites, Rests
  <1>3. \A u \in Chats : LookedAt(u)'
    BY <1>2 DEF Worded, LookedAt
  <1>4. /\ Live(t)' <=> Live(t)
        /\ Finished(t)' <=> Finished(t)
        /\ Quenched(t)' <=> Quenched(t)
    BY <1>2 DEF Live, Finished, Finishing, Quenched
  <1>5. CASE Mark(c)
    <2> DEFINE pc == Yielded(c, "tear")
    <2>1. pc \in {"tear", "over"} /\ (pc = "over" => chat[c].gone)
      BY DEF Yielded
    <2>2. chat[c].pc = "mark" /\ Chat(c, [pc |-> pc]) /\ doc'.task = doc.task
      BY <1>1, <1>5 DEF Mark, Typed, Documents
    <2> HIDE DEF pc
    <2>3. Takes(c) /\ ChatSet(chat'[c], chat[c], [pc |-> pc])
      BY <1>1, <1>2, <2>1, <2>2, TakesOne
    <2>4. /\ chat'[c].pc = pc /\ chat'[c].task = t /\ chat'[c].outcome = chat[c].outcome
          /\ chat'[c].gone = chat[c].gone /\ chat[c].outcome \in {"completed", "failed"}
      BY <1>0, <1>1, <2>2, <2>3 DEF ChatSet, PlacedAt
    <2>5. ASSUME Calm' PROVE NamedAt(c)' /\ (Speaking(c)' => ToldBy(c, chat[c].task)')
      <3>1. NamedAt(c) /\ (Speaking(c)' => ToldBy(c, t) /\ ~chat[c].gone)
        BY <1>0, <2>3, <2>5, TakesFrom
      <3>2. QED
        BY <1>0, <1>2, <1>4, <2>1, <2>2, <2>4, <3>1 DEF NamedAt, ToldBy, Terminal
    <2>6. QED
      BY <1>3, <2>1, <2>3, <2>4, <2>5 DEF Proceeds, Speaking
  <1>6. CASE TeardownWrites(c)
    <2> DEFINE outcome == IF chat[c].outcome = "failing" THEN "failed" ELSE chat[c].outcome
    <2>1. /\ chat[c].pc = "write" /\ Chat(c, [pc |-> "close", outcome |-> outcome])
          /\ doc'.status = outcome
      BY <1>1, <1>6 DEF TeardownWrites, Typed, Documents
    <2>2. outcome \in Terminal
      BY <1>1, <2>1 DEF PlacedAt, Terminal
    <2>3. /\ outcome = "completed" => chat[c].outcome = "completed"
          /\ outcome \in {"failed", "cancelled", "failing"} =>
               chat[c].outcome \in {"failed", "cancelled", "failing"}
      OBVIOUS
    <2> HIDE DEF outcome
    <2>4. Takes(c) /\ ChatSet(chat'[c], chat[c], [pc |-> "close", outcome |-> outcome])
      BY <1>1, <1>2, <2>1, TakesOne
    <2>5. chat'[c].pc = "close" /\ chat'[c].task = t /\ chat'[c].outcome = outcome
      BY <1>0, <2>4 DEF ChatSet
    <2>6. ASSUME Calm', Speaking(c)' PROVE ToldBy(c, chat[c].task)'
      <3>1. ToldBy(c, t)
        BY <1>0, <2>4, <2>6, TakesFrom
      <3>2. QED
        BY <1>4, <2>1, <2>2, <2>3, <2>5, <3>1 DEF ToldBy
    <2>7. QED
      BY <1>3, <2>4, <2>5, <2>6 DEF Proceeds, NamedAt
  <1>7. QED
    BY <1>5, <1>6

(* A teardown of what failed or was cancelled finds the task in the         *)
(* document and the registry, as long as it executes, and tells it to stop. *)
LEMMA TeardownProceeds ==
  ASSUME IInv, Successive, Worded, NEW c \in Chats, Teardown(c)
  PROVE  Proceeds(c)
  <1> DEFINE pc == IF Torn THEN "close" ELSE "write"
  <1>0. PICK t : t = chat[c].task
    OBVIOUS
  <1>1. Typed /\ PlacedAt(c) /\ Boxed(doc)
    BY Onward
  <1>2. /\ chat[c].pc = "tear" /\ ~Rests(c) /\ Chat(c, [pc |-> pc])
        /\ UNCHANGED <<doc, stop, warm>>
        /\ \/ UNCHANGED <<task, registered>> /\ (Torn \/ chat[c].outcome = "completed")
           \/ ~Torn /\ chat[c].outcome # "completed" /\ CancelRegistered(doc.task)
    BY DEF Teardown, Rests
  <1>3. pc \in {"close", "write"} /\ (pc = "close" => ~doc.box)
    BY DEF Torn
  <1> HIDE DEF pc
  <1>4. Takes(c) /\ ChatSet(chat'[c], chat[c], [pc |-> pc])
    BY <1>1, <1>2, <1>3, TakesOne
  <1>5. /\ chat'[c].pc = pc /\ chat'[c].task = t /\ chat'[c].outcome = chat[c].outcome
        /\ chat[c].outcome \in Terminal \cup {"failing"}
    BY <1>0, <1>1, <1>2, <1>4 DEF ChatSet, PlacedAt
  <1>6. /\ \A u \in Chats : /\ task'[u].pc = task[u].pc /\ task'[u].fresh = task[u].fresh
                            /\ task[u].cancel => task'[u].cancel
        /\ \/ UNCHANGED task /\ (chat[c].outcome = "completed" \/ Torn)
           \/ /\ doc.task \in Chats /\ Live(doc.task) /\ doc.task \in registered =>
                   task'[doc.task].cancel
              /\ chat[c].outcome # "completed"
    BY <1>1, <1>2, CancelRegisteredFlags
  <1>7. \A u \in Chats : LookedAt(u)'
    BY <1>6 DEF Worded, LookedAt
  <1>8. ASSUME Calm', Speaking(c)' PROVE ToldBy(c, chat[c].task)'
    <2>1. NamedAt(c) /\ ToldBy(c, t) /\ t \in Chats \cup {None}
      BY <1>0, <1>1, <1>4, <1>8, TakesFrom DEF Typed, ChatRecord
    <2>2. pc = "close" => chat[c].outcome = "failing"
      BY <1>0, <1>1, <1>2, <1>3, <2>1, SessionAssumption DEF NamedAt, Boxed
    <2>3. chat[c].outcome = "completed" => t \in Chats /\ Finished(t)'
      BY <1>3, <1>6, <2>1, <2>2 DEF ToldBy, Finished, Finishing
    <2>4. ASSUME chat[c].outcome # "completed" PROVE Quenched(t)'
      <3>1. Live(t)' <=> Live(t)
        BY <1>6, <2>1 DEF Live
      <3>2. CASE chat[c].outcome \in {"cancelled", "failing"}
        <4>1. Quenched(t)
          BY <1>2, <2>1, <3>2 DEF ToldBy
        <4>2. QED
          BY <1>6, <2>1, <3>1, <4>1 DEF Quenched, Live
      <3>3. CASE chat[c].outcome = "failed"
        <4>1. t \in Chats /\ doc.task = t /\ (Live(t) => t \in registered) /\ ~Torn
          <5>1. doc.task = t /\ t \in Chats
            BY <1>0, <1>2, <2>1, <3>3 DEF NamedAt
          <5>2. ~Torn
            BY <1>1, <5>1, SessionAssumption DEF Torn, Boxed
          <5>3. QED
            BY <1>2, <2>1, <5>1, <5>2 DEF ToldBy
        <4>2. Live(t) => task'[t].cancel
          BY <1>6, <3>3, <4>1
        <4>3. QED
          BY <3>1, <4>2 DEF Quenched
      <3>4. QED
        BY <1>5, <2>4, <3>2, <3>3 DEF Terminal
    <2>5. QED
      BY <1>3, <1>5, <2>2, <2>3, <2>4 DEF ToldBy, Terminal
  <1>9. NamedAt(c)'
    BY <1>3, <1>5 DEF NamedAt
  <1>10. QED
    BY <1>3, <1>4, <1>5, <1>7, <1>8, <1>9 DEF Proceeds

LEMMA ClosingProceeds ==
  ASSUME IInv, Successive, Worded, NEW c \in Chats, Close(c)
  PROVE  Proceeds(c)
  <1>1. Typed /\ AloneAt(c)
    BY Onward
  <1>2. chat \in [Chats -> ChatRecord] /\ \A d \in Chats : chat[d] \in ChatRecord
    BY <1>1 DEF Typed
  <1>3. chat[c].pc = "close" /\ ~Rests(c) /\ UNCHANGED <<doc, registered, task, stop, warm>>
    BY DEF Close, Rests
  <1> DEFINE over == [chat EXCEPT ![c].pc = "over", ![c].got = FALSE, ![c].lock = None]
  <1>4. chat' = over \/ chat' = [over EXCEPT ![current'].cancelled = TRUE]
    BY DEF Close, CancelCurrent
  <1>5. /\ over[c] = [chat[c] EXCEPT !.pc = "over", !.got = FALSE, !.lock = None]
        /\ DOMAIN over = Chats /\ \A d \in Chats \ {c} : over[d] = chat[d]
    BY <1>2 DEF ChatRecord
  <1>6. /\ over[c].pc = "over" /\ \A d \in Chats \ {c} : over[d].pc = chat[d].pc
        /\ \A d \in Chats :
             /\ over[d].turn = chat[d].turn /\ over[d].alone = chat[d].alone
             /\ over[d].gone = chat[d].gone /\ over[d].task = chat[d].task
             /\ over[d].outcome = chat[d].outcome /\ over[d].cancelled = chat[d].cancelled
    BY <1>2, <1>5 DEF ChatRecord
  <1>7. \A d \in Chats : DOMAIN over[d] = {"pc", "turn", "alone", "lock", "copy", "task",
                                 "seen", "got", "outcome", "gone", "cancelled"}
    BY <1>2, <1>5 DEF ChatRecord
  <1> HIDE DEF over
  <1>8. \A d \in Chats :
          /\ chat'[d].pc = over[d].pc /\ chat'[d].turn = over[d].turn
          /\ chat'[d].alone = over[d].alone /\ chat'[d].gone = over[d].gone
          /\ chat'[d].task = over[d].task /\ chat'[d].outcome = over[d].outcome
          /\ over[d].cancelled => chat'[d].cancelled
    <2>1. CASE chat' = over
      BY <2>1
    <2>2. CASE chat' = [over EXCEPT ![current'].cancelled = TRUE]
      BY <1>5, <1>7, <2>2
    <2>3. QED
      BY <1>4, <2>1, <2>2
  <1>9. Takes(c)
    BY <1>3, <1>6, <1>8 DEF Takes
  <1>10. \A u \in Chats : LookedAt(u)'
    BY <1>3 DEF Worded, LookedAt
  <1>11. ASSUME Calm', Speaking(c)' PROVE ToldBy(c, chat[c].task)' /\ OnlyOwn(c)'
    <2>1. ToldBy(c, chat[c].task) /\ OnlyOwn(c)
      BY <1>9, <1>11, TakesFrom
    <2>2. /\ chat'[c].pc = "over" /\ chat'[c].task = chat[c].task
          /\ chat'[c].outcome = chat[c].outcome
      BY <1>6, <1>8
    <2>3. ToldBy(c, chat[c].task)'
      BY <1>3, <2>1, <2>2 DEF ToldBy, Quenched, Finished, Finishing, Live
    <2>4. OnlyOwn(c)'
      BY <1>3, <2>1, <2>2 DEF OnlyOwn, Live
    <2>5. QED
      BY <2>3, <2>4
  <1>12. NamedAt(c)'
    BY <1>6, <1>8 DEF NamedAt
  <1>13. QED
    BY <1>9, <1>10, <1>11, <1>12 DEF Proceeds

-----------------------------------------------------------------------------
(* A step of task t: one that has said "done" goes on to write so, one that *)
(* has been told to stop writes nothing.                                    *)
Concludes(t) ==
  /\ LookedAt(t)'
  /\ Finished(t) => Finished(t)'
  /\ Quenched(t) => Quenched(t)' /\ doc' = doc
  /\ Finished(t) /\ (doc.status = "completed" \/ Finishing(t)) =>
       doc'.status = "completed" \/ Finishing(t)'
  /\ (\E c \in Chats : Holds(t, c)) /\ Said(t)' => Said(t) \/ Finished(t)'

LEMMA GoesConcludes ==
  ASSUME IInv, NEW t \in Chats, NEW from, NEW to \in TaskPlaces, Goes(t, from, to),
         from \notin {"none", "new", "final", "done"},
         to \in {"begin", "flow", "look"} => ~task[t].fresh,
         Finishing(t) => \/ to \in {"look", "flow", "top", "end"}
                         \/ to = "final" /\ doc'.status = "completed"
  PROVE  Concludes(t)
  <1>1. Typed
    BY InvParts
  <1>2. TaskSet(task'[t], task[t], [pc |-> to])
    BY <1>1, Tasked DEF Goes
  <1>3. /\ task'[t].pc = to /\ task'[t].cancel = task[t].cancel /\ task'[t].fresh = task[t].fresh
        /\ task'[t].err = task[t].err /\ task'[t].said = task[t].said
        /\ task'[t].in = task[t].in /\ task'[t].out = task[t].out
    BY <1>2 DEF TaskSet
  <1>4. task[t].pc = from /\ ~task[t].cancel
    BY DEF Goes
  <1>5. ~Quenched(t) /\ (Finished(t) <=> Finishing(t))
    BY <1>4, SessionAssumption DEF Quenched, Live, Finished
  <1>6. LookedAt(t)' /\ (Said(t)' => Said(t))
    BY <1>3 DEF LookedAt, Said
  <1>7. Finishing(t) => Finishing(t)' \/ (task'[t].pc = "final" /\ doc'.status = "completed")
    BY <1>3 DEF Finishing
  <1>8. QED
    BY <1>5, <1>6, <1>7 DEF Concludes, Finished

LEMMA GoingConcludes ==
  ASSUME IInv, NEW t \in Chats, LookedAt(t),
         \/ Begins(t) \/ NoMessage(t) \/ FlowBegins(t) \/ Waits(t) \/ Looks(t)
         \/ FlowEnds(t) \/ RunFails(t) \/ Fails(t) \/ Ends(t)
  PROVE  Concludes(t)
  <1>1. CASE Begins(t)
    BY <1>1, GoesConcludes DEF Begins, Goes, Finishing, TaskPlaces
  <1>2. CASE NoMessage(t)
    <2>1. PICK to \in {"crash", "end"} : Goes(t, "top", to) /\ (~task[t].fresh => to = "end")
      BY <1>2 DEF NoMessage
    <2>2. QED
      BY <2>1, GoesConcludes DEF Finishing, TaskPlaces
  <1>3. CASE FlowBegins(t)
    <2>1. Goes(t, "begin", "flow") /\ task[t].pc = "begin"
      BY <1>3 DEF FlowBegins, Goes
    <2>2. QED
      BY <2>1, GoesConcludes DEF LookedAt, TaskPlaces
  <1>4. CASE Waits(t)
    BY <1>4, GoesConcludes DEF Waits, Goes, Finishing, TaskPlaces
  <1>5. CASE Looks(t)
    <2>1. PICK to \in {"flow", "top"} : Goes(t, "look", to)
      BY <1>5 DEF Looks
    <2>2. task[t].pc = "look"
      BY <2>1 DEF Goes
    <2>3. QED
      BY <2>1, <2>2, GoesConcludes DEF LookedAt, TaskPlaces
  <1>6. CASE FlowEnds(t)
    BY <1>6, GoesConcludes DEF FlowEnds, TaskPlaces
  <1>7. CASE RunFails(t)
    <2>1. PICK from \in {"init", "top", "begin", "flow"} : Goes(t, from, "crash")
      BY <1>7 DEF RunFails
    <2>2. ~Finishing(t)
      BY <1>7 DEF RunFails, Finishing
    <2>3. QED
      BY <2>1, <2>2, GoesConcludes DEF TaskPlaces
  <1>8. CASE Fails(t)
    BY <1>8, GoesConcludes DEF Fails, Goes, Finishing, TaskPlaces
  <1>9. CASE Ends(t)
    <2>1. PICK to \in {"final", "say"} :
            Goes(t, "end", to) /\ (task[t].said => to = "final")
      BY <1>9 DEF Ends
    <2>2. ~task[t].err => doc'.status = "completed"
      BY <1>9, InvParts DEF Ends, Typed, Documents
    <2>3. QED
      BY <2>1, <2>2, GoesConcludes DEF Finishing, TaskPlaces
  <1>10. QED
    BY <1>1, <1>2, <1>3, <1>4, <1>5, <1>6, <1>7, <1>8, <1>9

\* what is said was said before, or now
LEMMA SaidBefore ==
  ASSUME NEW s \in Seq(Events), NEW event \in Events, NEW i \in 1 .. Len(Append(s, event)),
         Append(s, event)[i] = "done", event # "done"
  PROVE  \E j \in 1 .. Len(s) : s[j] = "done"
  OBVIOUS

LEMMA SayingConcludes ==
  ASSUME IInv, NEW t \in Chats, NEW event \in Events,
         task'[t].out = Append(task[t].out, event),
         Live(t), ~task[t].cancel, task[t].pc # "final", ~Finishing(t), LookedAt(t)',
         event = "done" /\ (\E c \in Chats : Holds(t, c)) => Finished(t)'
  PROVE  Concludes(t)
  <1>1. task[t].out \in Seq(Events)
    BY InvParts DEF Typed, TaskRecord
  <1>2. Said(t)' => Said(t) \/ event = "done"
    BY <1>1, SaidBefore DEF Said
  <1>3. ~Quenched(t) /\ ~Finished(t)
    BY DEF Quenched, Finished, Live
  <1>4. QED
    BY <1>2, <1>3 DEF Concludes

\* a flow is done after it has looked, when nothing was left to take
LEMMA TalkingConcludes ==
  ASSUME IInv, NEW t \in Chats, LookedAt(t),
         \/ Announces(t) \/ Crashes(t) \/ SaysDone(t)
         \/ \E event \in Events : FlowYields(t, event)
  PROVE  Concludes(t)
  <1>1. Typed
    BY InvParts
  <1>2. ASSUME NEW event \in Events, NEW pc \in {"top", "fail", "final"},
               Task(t, [pc |-> pc, out |-> Say(t, event)]), ~task[t].cancel,
               task[t].pc \in {"init", "crash", "say"}, event = "done" => pc = "final"
        PROVE  Concludes(t)
    <2>1. TaskSet(task'[t], task[t], [pc |-> pc, out |-> Say(t, event)])
      BY <1>1, <1>2, Tasked
    <2>2. task'[t].pc = pc /\ task'[t].out = Append(task[t].out, event)
      BY <2>1 DEF TaskSet, Say
    <2>3. Live(t) /\ ~Finishing(t) /\ LookedAt(t)' /\ (event = "done" => Finished(t)')
      BY <1>2, <2>2, SessionAssumption DEF Live, Finishing, LookedAt, Finished
    <2>4. QED
      BY <1>2, <2>2, <2>3, SayingConcludes
  <1>3. CASE Announces(t)
    BY <1>2, <1>3 DEF Announces, Events
  <1>4. CASE Crashes(t)
    BY <1>2, <1>4 DEF Crashes, Events
  <1>5. CASE SaysDone(t)
    BY <1>2, <1>5 DEF SaysDone, Events
  <1>6. ASSUME NEW event \in Events, FlowYields(t, event) PROVE Concludes(t)
    <2> DEFINE out  == Say(t, event)
               n    == task[t].n + (IF event \in {"event", "error"} THEN 1 ELSE 0)
               err  == event = "error"
               said == event = "done"
               pc   == IF event = "wait" THEN "waiting" ELSE "look"
               r    == [out |-> out, n |-> n, err |-> err, said |-> said, pc |-> pc]
    <2>1. /\ task[t].pc = "flow" /\ ~task[t].cancel /\ ~task[t].said /\ Task(t, r)
          /\ event = "done" => task[t].n # 0
      <3>1. task[t].n \in Nat
        BY <1>1, SessionAssumption DEF Typed, TaskRecord
      <3>2. QED
        BY <1>6, <3>1 DEF FlowYields
    <2>2. /\ out = Append(task[t].out, event)
          /\ event = "done" => pc = "look" /\ said /\ ~err
      BY DEF Say
    <2> HIDE DEF out, n, err, said, pc
    <2>3. TaskSet(task'[t], task[t], r)
      BY <1>1, <2>1, Tasked
    <2>4. /\ task'[t].out = out /\ task'[t].pc = pc /\ task'[t].in = task[t].in
          /\ task'[t].cancel = task[t].cancel /\ task'[t].fresh = task[t].fresh
          /\ task'[t].err = err /\ task'[t].said = said
      BY <2>3 DEF TaskSet
    <2>5. Live(t) /\ ~Finishing(t) /\ ~task[t].fresh /\ LookedAt(t)'
      BY <2>1, <2>4, SessionAssumption DEF Live, Finishing, LookedAt
    <2>6. event = "done" /\ (\E c \in Chats : Holds(t, c)) => Finished(t)'
      BY <2>1, <2>2, <2>4, <2>5 DEF Holds, Finished, Finishing
    <2>7. QED
      BY <2>1, <2>2, <2>4, <2>5, <2>6, SayingConcludes
  <1>7. QED
    BY <1>3, <1>4, <1>5, <1>6

LEMMA WorkingConcludes ==
  ASSUME IInv, NEW t \in Chats, TakesMessage(t) \/ Unregisters(t) \/ IsCancelled(t)
  PROVE  Concludes(t)
  <1>1. Typed
    BY InvParts
  <1>2. CASE TakesMessage(t)
    <2> DEFINE in == Tail(task[t].in)
    <2>1. /\ task[t].pc = "top" /\ ~task[t].cancel /\ task[t].in # <<>>
          /\ Task(t, [pc |-> "begin", in |-> in, fresh |-> FALSE,
                      err |-> FALSE, said |-> FALSE, n |-> 0])
      BY <1>2 DEF TakesMessage
    <2> HIDE DEF in
    <2>2. TaskSet(task'[t], task[t], [pc |-> "begin", in |-> in, fresh |-> FALSE,
                                      err |-> FALSE, said |-> FALSE, n |-> 0])
      BY <1>1, <2>1, Tasked
    <2>3. ~task'[t].fresh /\ task'[t].out = task[t].out
      BY <2>2 DEF TaskSet
    <2>4. LookedAt(t)' /\ (Said(t)' => Said(t))
      BY <2>3 DEF LookedAt, Said
    <2>5. ~Quenched(t) /\ ~Finished(t)
      BY <2>1, SessionAssumption DEF Quenched, Live, Finished, Finishing
    <2>6. QED
      BY <2>4, <2>5 DEF Concludes
  <1>3. ASSUME NEW pc \in {"final", "done"}, task'[t].pc = pc, doc' = doc,
               task[t].cancel \/ task[t].pc = "final"
        PROVE  Concludes(t)
    <2>1. LookedAt(t)' /\ Finished(t)' /\ Quenched(t)'
      BY <1>3 DEF LookedAt, Finished, Quenched, Live
    <2>2. ~Finishing(t)
      BY <1>3 DEF Finishing
    <2>3. QED
      BY <1>3, <2>1, <2>2 DEF Concludes
  <1>4. CASE Unregisters(t)
    <2> DEFINE r == [pc |-> "done", fresh |-> FALSE, err |-> FALSE, said |-> FALSE, n |-> 0]
    <2>1. task[t].pc = "final" /\ Task(t, r) /\ doc' = doc
      BY <1>4 DEF Unregisters
    <2>2. TaskSet(task'[t], task[t], r)
      BY <1>1, <2>1, Tasked
    <2>3. task'[t].pc = "done"
      BY <2>2 DEF TaskSet
    <2>4. QED
      BY <1>3, <2>1, <2>3
  <1>5. CASE IsCancelled(t)
    <2> DEFINE pc == IF task[t].pc \in {"ready", "final"} THEN "done" ELSE "final"
               r  == [pc |-> pc, cancel |-> FALSE, fresh |-> FALSE, err |-> FALSE,
                      said |-> FALSE, n |-> 0]
    <2>1. task[t].cancel /\ Task(t, r) /\ doc' = doc
      BY <1>5 DEF IsCancelled
    <2>2. pc \in {"done", "final"}
      OBVIOUS
    <2> HIDE DEF pc
    <2>3. TaskSet(task'[t], task[t], r)
      BY <1>1, <2>1, Tasked
    <2>4. task'[t].pc = pc
      BY <2>3 DEF TaskSet
    <2>5. QED
      BY <1>3, <2>1, <2>2, <2>4
  <1>6. QED
    BY <1>2, <1>4, <1>5

LEMMA ConcludesKeeps ==
  ASSUME IInv, Successive, Worded, NEW t \in Chats, Toils(t), Concludes(t)
  PROVE  Worded'
  <1>1. /\ UNCHANGED <<chat, stop, warm>> /\ doc'.task = doc.task
        /\ \A u \in Chats \ {t} : task'[u] = task[u]
        /\ Live(t) /\ task[t].pc # "new"
        /\ registered' = registered \/ (registered' = registered \ {t} /\ task'[t].pc = "done")
    BY DEF Toils, Live
  <1>2. Ordered'
    BY <1>1 DEF Worded, Ordered, Begun, Rests
  <1>3. \A u \in Chats : LookedAt(u)'
    BY <1>1 DEF Worded, LookedAt, Concludes
  <1>4. ASSUME Calm', NEW c \in Chats
        PROVE  NamedAt(c)' /\ (Speaking(c)' => OnlyOwn(c)' /\ ToldBy(c, chat[c].task)')
    <2>1. Calm /\ Undisturbed
      BY <1>1, <1>4 DEF Calm, Undisturbed, NeverCancelled, NeverStopped
    <2>2. NamedAt(c) /\ HeardAt(c) /\ (Speaking(c) => OnlyOwn(c) /\ ToldBy(c, chat[c].task))
      BY <2>1 DEF Worded, Successive
    <2>3. NamedAt(c)'
      BY <1>1, <2>2 DEF NamedAt
    <2>4. ASSUME Speaking(c)' PROVE OnlyOwn(c)' /\ ToldBy(c, chat[c].task)'
      <3>1. Speaking(c)
        BY <1>1, <2>4 DEF Speaking, Latest
      <3>2. t = chat[c].task /\ ToldBy(c, t) /\ chat[c].alone
        BY <1>1, <2>2, <3>1 DEF OnlyOwn, Speaking
      <3>3. OnlyOwn(c)'
        BY <1>1, <2>2, <3>1, <3>2 DEF OnlyOwn, Live
      <3>4. chat[c].pc \notin {"put", "run"}
        BY <1>1, <2>2, <3>2 DEF HeardAt
      <3>5. chat[c].pc \in {"relay", "drain", "mark", "tear"} /\ Live(t)' => t \in registered'
        BY <1>1, <3>2 DEF ToldBy, Live
      <3>6. chat[c].pc \in {"relay", "drain"} /\ Said(t)' => Finished(t)'
        BY <2>2, <3>2 DEF HeardAt, ToldBy, Concludes
      <3>7. /\ chat[c].outcome = "completed" => Finished(t)'
            /\ \/ chat[c].pc = "tear" /\ chat[c].outcome \in {"cancelled", "failing"}
               \/ /\ chat[c].pc \in {"write", "close", "over"}
                  /\ chat[c].outcome \in {"failed", "cancelled", "failing"}
               => Quenched(t)' /\ doc' = doc
        BY <3>2 DEF ToldBy, Concludes
      <3>8. chat[c].pc \in {"close", "over"} /\ chat[c].outcome \in Terminal =>
              doc'.status = chat[c].outcome \/ (chat[c].outcome = "completed" /\ Finishing(t)')
        <4>1. SUFFICES ASSUME chat[c].pc \in {"close", "over"}, chat[c].outcome \in Terminal
                       PROVE  \/ doc'.status = chat[c].outcome
                              \/ chat[c].outcome = "completed" /\ Finishing(t)'
          OBVIOUS
        <4>2. doc.status = chat[c].outcome \/ (chat[c].outcome = "completed" /\ Finishing(t))
          BY <3>2, <4>1 DEF ToldBy
        <4>3. CASE chat[c].outcome = "completed"
          BY <3>2, <4>2, <4>3 DEF ToldBy, Concludes
        <4>4. CASE chat[c].outcome # "completed"
          BY <3>7, <4>1, <4>2, <4>4 DEF Terminal
        <4>5. QED
          BY <4>3, <4>4
      <3>9. ToldBy(c, t)'
        BY <1>1, <3>4, <3>5, <3>6, <3>7, <3>8 DEF ToldBy
      <3>10. QED
        BY <1>1, <3>2, <3>3, <3>9
    <2>5. QED
      BY <2>3, <2>4
  <1>5. QED
    BY <1>2, <1>3, <1>4 DEF Worded

\* a chat that begins is the last, and has been told nothing
LEMMA BeginWords ==
  ASSUME Overlap = "none", IInv, Successive, Worded, NEW c \in Chats, Begin(c)
  PROVE  Worded'
  <1> DEFINE alone == \A t \in Chats : ~Live(t)
             turn  == 1 + Cardinality(Begun)
             r     == [pc |-> "arrive", turn |-> turn, alone |-> alone]
  <1>1. Typed /\ CopyAt(c)
    BY Onward
  <1>2. /\ chat[c].pc = "idle" /\ chat[c].outcome = None /\ Chat(c, r)
        /\ UNCHANGED <<doc, registered, task, stop, warm>>
    BY <1>1 DEF Begin, CopyAt, Begun
  <1>3. \A d \in Chats : Rests(d)
    BY <1>2 DEF Begin, MayBegin, Rests
  <1>4. \A d \in Chats : chat[d].turn \in Nat /\ chat[d].turn <= Cardinality(Begun)
    BY <1>1 DEF Worded, Ordered, Typed, ChatRecord
  <1>5. Cardinality(Begun) \in Nat /\ turn \in Nat /\ Cardinality(Begun \cup {c}) = turn
    <2>1. IsFiniteSet(Begun) /\ c \notin Begun
      BY <1>2, FS_Subset, SessionAssumption DEF Begun
    <2>2. Cardinality(Begun) \in Nat
      BY <2>1, FS_CardinalityType
    <2>3. Cardinality(Begun \cup {c}) = Cardinality(Begun) + 1
      BY <2>1, FS_AddElement
    <2>4. QED
      BY <2>2, <2>3
  <1> HIDE DEF alone, turn
  <1>6. ChatSet(chat'[c], chat[c], r) /\ \A d \in Chats : d # c => chat'[d] = chat[d]
    BY <1>1, <1>2, Chatted
  <1>7. /\ chat'[c].pc = "arrive" /\ chat'[c].turn = turn /\ chat'[c].alone = alone
        /\ chat'[c].outcome = None /\ chat'[c].cancelled = chat[c].cancelled
    BY <1>2, <1>6 DEF ChatSet
  <1>8. Begun' = Begun \cup {c}
    BY <1>6, <1>7 DEF Begun
  <1>9. \A d \in Chats \ {c} : chat'[d].turn \in Nat /\ chat'[d].turn < turn
    BY <1>4, <1>5, <1>6 DEF turn
  <1>10. Ordered'
    <2>1. \A d \in Chats : chat'[d].turn <= Cardinality(Begun')
      BY <1>5, <1>7, <1>8, <1>9
    <2>2. \A d \in Chats \ {c} : Rests(d)'
      BY <1>3, <1>6 DEF Rests
    <2>3. QED
      BY <1>7, <1>9, <2>1, <2>2 DEF Ordered
  <1>11. \A t \in Chats : LookedAt(t)'
    BY <1>2 DEF Worded, LookedAt
  <1>12. ASSUME NEW d \in Chats \ {c} PROVE NamedAt(d)' /\ ~Speaking(d)'
    <2>1. Rests(d)' /\ ~Latest(d)'
      BY <1>3, <1>5, <1>6, <1>7, <1>9 DEF Rests, Latest
    <2>2. QED
      BY <2>1 DEF NamedAt, Rests, Speaking
  <1>13. NamedAt(c)' /\ ToldBy(c, chat[c].task)'
    BY <1>7, SaysNothingNext, SessionAssumption DEF NamedAt, Terminal
  <1>14. Speaking(c)' => OnlyOwn(c)'
    BY <1>2, <1>7 DEF Speaking, OnlyOwn, Live, alone
  <1>15. QED
    BY <1>10, <1>11, <1>12, <1>13, <1>14 DEF Worded

\* what stops, cancels or warms: nothing is claimed any more
LEMMA DisturbedKeeps ==
  ASSUME Worded, ~Calm',
         \A d \in Chats : chat'[d].pc = chat[d].pc /\ chat'[d].turn = chat[d].turn,
         \A t \in Chats : task'[t].pc = task[t].pc /\ task'[t].fresh = task[t].fresh
  PROVE  Worded'
  <1>1. Ordered'
    BY DEF Worded, Ordered, Begun, Rests
  <1>2. \A t \in Chats : LookedAt(t)'
    BY DEF Worded, LookedAt
  <1>3. QED
    BY <1>1, <1>2 DEF Worded

LEMMA StopsKeepWords ==
  ASSUME IInv, Worded, NEW s \in Stops,
         StopBegins(s) \/ AutoStopBegins(s) \/ AutoStopCut(s) \/ StopGoes(s)
  PROVE  Worded'
  <1>1. Typed
    BY InvParts
  <1>2. ASSUME NEW r, Stop(s, r), "pc" \in DOMAIN r, r.pc # "idle" PROVE ~Calm'
    <2>1. StopSet(stop'[s], stop[s], r)
      BY <1>1, <1>2, Stopped
    <2>2. QED
      BY <1>2, <2>1 DEF StopSet, Calm, Undisturbed, NeverStopped
  <1>3. UNCHANGED chat /\ (UNCHANGED task \/ CancelRegistered(doc.task))
    BY DEF StopBegins, AutoStopBegins, AutoStopCut, StopGoes, StopReads, StopWrites, StopSaves
  <1>4. \A t \in Chats : task'[t].pc = task[t].pc /\ task'[t].fresh = task[t].fresh
    BY <1>1, <1>3, CancelRegisteredFlags
  <1>5. ~Calm'
    <2> DEFINE cut  == IF stop[s].pc = "write" THEN "cut" ELSE "left"
               next == IF stop[s].box THEN "save" ELSE "over"
    <2>1. \/ Stop(s, [pc |-> "read"]) \/ Stop(s, [pc |-> "read", auto |-> TRUE])
          \/ Stop(s, [pc |-> cut, box |-> FALSE])
          \/ Stop(s, [pc |-> "over"]) \/ Stop(s, [pc |-> "write", box |-> doc.box])
          \/ Stop(s, [pc |-> next])
          \/ Stop(s, [pc |-> "over", box |-> FALSE])
      BY DEF StopBegins, AutoStopBegins, AutoStopCut, StopGoes, StopReads, StopWrites, StopSaves
    <2>2. cut # "idle" /\ next # "idle"
      OBVIOUS
    <2> HIDE DEF cut, next
    <2>3. CASE Stop(s, [pc |-> "read"])
      BY <1>2, <2>3
    <2>4. CASE Stop(s, [pc |-> "read", auto |-> TRUE])
      BY <1>2, <2>4
    <2>5. CASE Stop(s, [pc |-> cut, box |-> FALSE])
      BY <1>2, <2>2, <2>5
    <2>6. CASE Stop(s, [pc |-> "over"])
      BY <1>2, <2>6
    <2>7. CASE Stop(s, [pc |-> "write", box |-> doc.box])
      BY <1>2, <2>7
    <2>8. CASE Stop(s, [pc |-> next])
      BY <1>2, <2>2, <2>8
    <2>9. CASE Stop(s, [pc |-> "over", box |-> FALSE])
      BY <1>2, <2>9
    <2>10. QED
      BY <2>1, <2>3, <2>4, <2>5, <2>6, <2>7, <2>8, <2>9
  <1>6. QED
    BY <1>3, <1>4, <1>5, DisturbedKeeps

LEMMA UserCancelsKeepsWords ==
  ASSUME IInv, Worded, UserCancels
  PROVE  Worded'
  <1>1. Typed /\ current \in Chats
    BY InvParts DEF UserCancels, Typed
  <1>2. UNCHANGED task /\ chat' = [chat EXCEPT ![current].cancelled = TRUE]
    BY <1>1, SessionAssumption DEF UserCancels, CancelCurrent
  <1>3. chat \in [Chats -> ChatRecord] /\ \A d \in Chats : chat[d] \in ChatRecord
    BY <1>1 DEF Typed
  <1>4. /\ chat'[current].cancelled
        /\ \A d \in Chats : chat'[d].pc = chat[d].pc /\ chat'[d].turn = chat[d].turn
    BY <1>1, <1>2, <1>3 DEF ChatRecord
  <1>5. ~Calm'
    BY <1>1, <1>4 DEF Calm, Undisturbed, NeverCancelled
  <1>6. QED
    BY <1>2, <1>4, <1>5, DisturbedKeeps

LEMMA WarmKeepsWords ==
  ASSUME IInv, Worded, WarmGoes
  PROVE  Worded'
  <1>1. warm \in WarmRecord
    BY InvParts DEF Typed
  <1>2. warm'.pc # "none" /\ UNCHANGED <<chat, task>>
    BY <1>1 DEF WarmGoes, WarmBegins, WarmReads, WarmSaves, WarmEnds, WarmRecord
  <1>3. QED
    BY <1>2, DisturbedKeeps DEF Calm

LEMMA InitWorded == Init => Worded
  <1>1. SUFFICES ASSUME Init PROVE Worded
    OBVIOUS
  <1>2. \A c \in Chats : /\ chat[c].pc = "idle" /\ chat[c].turn = 0
                         /\ task[c].pc = "none"
    BY <1>1 DEF Init
  <1>3. Begun = {}
    BY <1>2 DEF Begun
  <1>4. Ordered
    BY <1>2, <1>3, FS_EmptySet DEF Ordered, Rests
  <1>5. QED
    BY <1>2, <1>4 DEF Worded, LookedAt, NamedAt, Speaking, Latest

LEMMA StepWorded ==
  ASSUME Overlap = "none", IInv, Successive, Worded, [Next]_vars
  PROVE  Worded'
  <1>1. Successive'
    BY StepSuccessive
  <1>2. ASSUME NEW c \in Chats, Begin(c) PROVE Worded'
    BY <1>2, BeginWords
  <1>3. ASSUME NEW c \in Chats, ChatGoes(c) \/ Disconnect(c) PROVE Worded'
    <2>1. CASE Arrive(c) \/ AnswerAtOnce(c) \/ BindSandbox(c) \/ BindTask(c) \/ CreationFails(c)
      BY <1>1, <2>1, EarlyProceeds, ProceedsKeeps
    <2>2. CASE Recheck(c)
      BY <1>1, <2>2, RecheckProceeds, ProceedsKeeps
    <2>3. CASE CreateTask(c) \/ Reactivate(c)
      BY <1>1, <2>3, StartingProceeds, ProceedsKeeps
    <2>4. CASE Put(c)
      BY <1>1, <2>4, PutProceeds, ProceedsKeeps
    <2>5. CASE Run(c)
      BY <1>1, <2>5, RunProceeds, ProceedsKeeps
    <2>6. CASE ArriveCancelled(c) \/ RelayCancelled(c) \/ Abort(c)
      BY <1>1, <2>6, CancellingProceeds, ProceedsKeeps
    <2>7. CASE Relay(c) \/ Drain(c)
      BY <1>1, <2>7, RelayingProceeds, ProceedsKeeps
    <2>8. CASE TaskOver(c) \/ Drained(c)
      BY <1>1, <2>8, DrainingProceeds, ProceedsKeeps
    <2>9. CASE Disconnect(c) \/ ClosedAtYield(c)
      BY <1>1, <2>9, GoneProceeds, ProceedsKeeps
    <2>10. CASE Mark(c) \/ TeardownWrites(c)
      BY <1>1, <2>10, WritingProceeds, ProceedsKeeps
    <2>11. CASE Teardown(c)
      BY <1>1, <2>11, TeardownProceeds, ProceedsKeeps
    <2>12. CASE Close(c)
      BY <1>1, <2>12, ClosingProceeds, ProceedsKeeps
    <2>13. QED
      BY <1>3, <2>1, <2>2, <2>3, <2>4, <2>5, <2>6, <2>7, <2>8, <2>9, <2>10, <2>11, <2>12
         DEF ChatGoes
  <1>4. CASE UserCancels
    BY <1>4, UserCancelsKeepsWords
  <1>5. ASSUME NEW s \in Stops,
               StopBegins(s) \/ AutoStopBegins(s) \/ AutoStopCut(s) \/ StopGoes(s)
        PROVE  Worded'
    BY <1>5, StopsKeepWords
  <1>6. CASE WarmGoes
    BY <1>6, WarmKeepsWords
  <1>7. ASSUME NEW t \in Chats, TaskGoes(t) PROVE Worded'
    <2>1. LookedAt(t)
      BY DEF Worded
    <2>2. CASE \/ Begins(t) \/ NoMessage(t) \/ FlowBegins(t) \/ Waits(t) \/ Looks(t)
               \/ FlowEnds(t) \/ RunFails(t) \/ Fails(t) \/ Ends(t)
      BY <2>1, <2>2, GoingToils, GoingConcludes, ConcludesKeeps
    <2>3. CASE \/ Announces(t) \/ Crashes(t) \/ SaysDone(t)
               \/ \E event \in Events : FlowYields(t, event)
      BY <2>1, <2>3, TalkingToils, TalkingConcludes, ConcludesKeeps
    <2>4. CASE TakesMessage(t) \/ Unregisters(t) \/ IsCancelled(t)
      BY <2>4, WorkingToils, WorkingConcludes, ConcludesKeeps
    <2>5. QED
      BY <1>7, <2>2, <2>3, <2>4 DEF TaskGoes, Events
  <1>8. CASE UNCHANGED vars
    <2>1. UNCHANGED <<doc, registered, task, chat, stop, warm>>
      BY <1>8 DEF vars
    <2>2. Ordered' /\ \A t \in Chats : LookedAt(t)'
      BY <2>1 DEF Worded, Ordered, Begun, Rests, LookedAt
    <2>3. Calm' => Calm
      BY <2>1 DEF Calm, Undisturbed, NeverCancelled, NeverStopped
    <2>4. \A c \in Chats : /\ NamedAt(c) => NamedAt(c)'
                           /\ Speaking(c)' => Speaking(c)
                           /\ OnlyOwn(c) => OnlyOwn(c)'
      BY <2>1 DEF NamedAt, Speaking, Latest, OnlyOwn, Live
    <2>5. \A t : /\ Live(t)' <=> Live(t)
                 /\ Said(t)' <=> Said(t)
                 /\ Finishing(t)' <=> Finishing(t)
                 /\ Finished(t)' <=> Finished(t)
                 /\ Quenched(t)' <=> Quenched(t)
      BY <2>1 DEF Live, Said, Finishing, Finished, Quenched
    <2>6. \A c \in Chats : ToldBy(c, chat[c].task) => ToldBy(c, chat[c].task)'
      BY <2>1, <2>5 DEF ToldBy
    <2>7. QED
      BY <2>2, <2>3, <2>4, <2>6 DEF Worded
  <1>9. QED
    BY <1>2, <1>3, <1>4, <1>5, <1>6, <1>7, <1>8 DEF Next

(* When streams follow each other, what the last chat was told is what the  *)
(* document says when all is quiet, as long as nobody cancelled or stopped  *)
(* and no warm-up ran: the task that goes on after its chat was told        *)
(* "completed" writes the same, and one that failed or was cancelled for    *)
(* its chat, or that the teardown tells to stop, writes nothing any more.   *)
THEOREM LastWordStands ==
  ASSUME Overlap = "none"
  PROVE  Spec => []LastWord
  <1>1. IInv /\ Successive /\ Worded /\ [Next]_vars => Worded'
    BY StepWorded
  <1>2. Successive /\ Worded => LastWord
    <2>1. SUFFICES ASSUME Successive, Worded, Quiet, NeverCancelled, NeverStopped,
                          warm.pc = "none", NEW c \in Chats,
                          chat[c].alone, ~chat[c].gone, chat[c].outcome \in Terminal,
                          \A d \in Chats : chat[d].turn <= chat[c].turn
                   PROVE  doc.status = chat[c].outcome
      BY DEF LastWord
    <2>2. chat[c].pc = "over"
      BY <2>1, SessionAssumption DEF Quiet, Successive, CopyAt, Terminal
    <2>3. ToldBy(c, chat[c].task)
      BY <2>1, <2>2 DEF Worded, Calm, Undisturbed, Speaking, Latest
    <2>4. chat[c].outcome = "completed" => ~Finishing(chat[c].task)
      <3>1. chat[c].outcome = "completed" => chat[c].task \in Chats
        BY <2>3 DEF ToldBy
      <3>2. \A t \in Chats : ~Finishing(t)
        BY <2>1, SessionAssumption DEF Quiet, Executing, Live, Finishing
      <3>3. QED
        BY <3>1, <3>2
    <2>5. QED
      BY <2>1, <2>2, <2>3, <2>4 DEF ToldBy
  <1>3. QED
    BY <1>1, <1>2, InitWorded, Succession, Invariance, PTL DEF Spec
=============================================================================
