--------------------------- MODULE ResponderProofs ---------------------------
(***************************************************************************)
(* Theorems about Responder, for any set of requests, peers, commands and   *)
(* handlers and any bounds, in four parts: types; the inductive invariant    *)
(* Safe and what follows from it; the refinement of Consent; the answer       *)
(* cache and the retried send.                                               *)
(***************************************************************************)
EXTENDS Responder, FiniteSetTheorems, TLAPS

-----------------------------------------------------------------------------
(* Types. *)

LEMMA ProcFacts ==
  /\ Worker = Question
  /\ Cli \subseteq Proc /\ Handler \subseteq Proc /\ Worker \subseteq Proc
  BY DEF Proc, Worker

LEMMA RecordTypes == NoRecord \in Record /\ NotFinished \in Finished
  BY DEF NoRecord, Record, State, NotFinished, Finished

LEMMA IdleType == Idle \in Task /\ AtWork(Idle)
  BY RecordTypes DEF Idle, Task, Pc, Op, Mode, AtWork

LEMMA RecordUpdates ==
  ASSUME NEW r \in Record
  PROVE  /\ Undrafted(r) \in Record
         /\ \A s \in State : [r EXCEPT !.state = s] \in Record
         /\ \A d \in Nat : [r EXCEPT !.draft = d] \in Record
         /\ \A b \in BOOLEAN : [r EXCEPT !.autoError = b] \in Record
  BY DEF Record, Undrafted, State

(* One process moves, the others stay. *)
LEMMA BecomeType ==
  ASSUME TasksOK, NEW p \in Proc, NEW t \in Task, AtWork(t), Become(p, t)
  PROVE  /\ TasksOK'
         /\ task'[p] = t
         /\ \A r \in Proc : r # p => task'[r] = task[r]
  BY DEF TasksOK, Become

LEMMA GotoType ==
  ASSUME TasksOK, NEW p \in Proc, NEW pc \in Pc, AtWork([task[p] EXCEPT !.pc = pc]), Goto(p, pc)
  PROVE  TasksOK'
<1>1. [task[p] EXCEPT !.pc = pc] \in Task
  BY DEF TasksOK, Task
<1> QED BY <1>1, BecomeType DEF Goto

LEMMA ExitType ==
  ASSUME TasksOK, NEW p \in Proc, Exit(p)
  PROVE  TasksOK'
  BY IdleType, BecomeType DEF Exit

(* A step that moves a task and touches nothing else. *)
LEMMA TaskStepType ==
  ASSUME TypeOK, TasksOK', UNCHANGED <<store, daemon, bounds, history>>
  PROVE  TypeOK'
<1>1. StoreOK'
  BY DEF TypeOK, StoreOK, store
<1>2. DaemonOK'
  BY DEF TypeOK, DaemonOK, daemon
<1>3. BoundsOK'
  BY DEF TypeOK, BoundsOK, bounds
<1>4. HistoryOK'
  BY DEF TypeOK, HistoryOK, history
<1> QED BY <1>1, <1>2, <1>3, <1>4 DEF TypeOK

(* A process that works on a request, and where it may go from there. *)
LEMMA Working ==
  ASSUME TypeOK, NEW p \in Proc, task[p].pc \notin {"idle", "list", "next"}
  PROVE  /\ task[p] \in Task /\ task[p].q \in Question /\ task[p].rec \in Record
         /\ task[p].env \in Envelope \union {NoEnvelope, Foreign}
         /\ task[p].mode \in Mode /\ task[p].threaded \in BOOLEAN
  BY DEF TypeOK, TasksOK, AtWork, Task

LEMMA Moves ==
  ASSUME NEW t \in Task, t.q \in Question, NEW pc \in Pc
  PROVE  /\ [t EXCEPT !.pc = pc] \in Task /\ AtWork([t EXCEPT !.pc = pc])
         /\ \A r \in Record : LET u == [t EXCEPT !.rec = r, !.pc = pc] IN u \in Task /\ AtWork(u)
         /\ \A b \in BOOLEAN : LET u == [t EXCEPT !.threaded = b, !.pc = pc] IN u \in Task /\ AtWork(u)
         /\ \A b \in BOOLEAN : LET u == [t EXCEPT !.pc = pc, !.threaded = b] IN u \in Task /\ AtWork(u)
         /\ \A e \in Envelope \union {NoEnvelope, Foreign} :
              LET u == [t EXCEPT !.env = e, !.pc = pc] IN u \in Task /\ AtWork(u)
  BY DEF Task, AtWork

LEMMA InitType == ASSUME Init PROVE TypeOK
<1>1. StoreOK
  BY RecordTypes DEF Init, StoreOK
<1>2. DaemonOK
  BY ResponderAssumption DEF Init, DaemonOK
<1>3. TasksOK
  BY IdleType DEF Init, TasksOK
<1>4. BoundsOK
  BY DEF Init, BoundsOK
<1>5. HistoryOK
  BY DEF Init, HistoryOK
<1> QED BY <1>1, <1>2, <1>3, <1>4, <1>5 DEF TypeOK

-----------------------------------------------------------------------------
(* Types, the handlers. *)

LEMMA PostType ==
  ASSUME TypeOK, NEW h \in Handler, NEW q \in Question, Post(h, q)
  PROVE  TypeOK'
<1> DEFINE m == policy[From[q]]
           looksUp == Kind[q] = "question" /\ q \notin Snippet /\ ThreadOf[q] # NoThread
           pc == IF looksUp THEN "threadDone" ELSE AfterAdmission(q, m, q \in Snippet)
<1>1. m \in Mode
  BY ResponderAssumption DEF TypeOK, DaemonOK
<1>2. pc \in Pc
  BY DEF AfterAdmission, Pc
<1>3. \A c \in Pc, b \in BOOLEAN :
        LET u == [Idle EXCEPT !.op = "post", !.q = q, !.mode = m, !.threaded = b, !.pc = c]
        IN u \in Task /\ AtWork(u)
  BY <1>1, IdleType DEF Task, Op, AtWork, Idle
<1>4. \E b \in BOOLEAN, c \in Pc :
        Become(h, [Idle EXCEPT !.op = "post", !.q = q, !.mode = m, !.threaded = b, !.pc = c])
  <2>0. (q \in Snippet) \in BOOLEAN
    OBVIOUS
  <2>1. PICK b \in BOOLEAN : b = (q \in Snippet)
    BY <2>0
  <2>2. Become(h, [Idle EXCEPT !.op = "post", !.q = q, !.mode = m, !.threaded = b, !.pc = pc])
    BY <2>1 DEF Post
  <2> HIDE DEF pc, m
  <2> QED BY <1>2, <2>2
<1>5. TasksOK'
  BY <1>3, <1>4, BecomeType, ProcFacts DEF TypeOK
<1>6. BoundsOK'
  BY DEF Post, TypeOK, BoundsOK
<1> QED
  BY <1>5, <1>6 DEF Post, TypeOK, StoreOK, DaemonOK, HistoryOK, store, daemon, history

LEMMA PostThreadType ==
  ASSUME TypeOK, NEW h \in Handler, PostThreadDone(h) \/ PostThreadInbox(h)
  PROVE  TypeOK'
<1>1. task[h] \in Task /\ task[h].q \in Question
  BY Working, ProcFacts DEF PostThreadDone, PostThreadInbox, At
<1>2. \A b \in BOOLEAN : AfterAdmission(task[h].q, task[h].mode, b) \in Pc
  BY DEF AfterAdmission, Pc
<1>3. "threadInbox" \in Pc /\ HeldInDone(task[h].q) \in BOOLEAN
      /\ \A S : HeldIn(task[h].q, S) \in BOOLEAN
  BY DEF HeldIn, HeldInDone, Pc
<1>4. \E b \in BOOLEAN, c \in Pc : Become(h, [task[h] EXCEPT !.threaded = b, !.pc = c])
  <2>1. CASE PostThreadDone(h)
    <3>1. PICK b \in BOOLEAN : b = HeldInDone(task[h].q)
      BY <1>3
    <3> QED BY <1>2, <1>3, <2>1, <3>1 DEF PostThreadDone
  <2>2. CASE PostThreadInbox(h)
    <3>1. PICK b \in BOOLEAN : b = HeldIn(task[h].q, InboxIds)
      BY <1>3
    <3> QED BY <1>2, <2>2, <3>1 DEF PostThreadInbox
  <2> QED BY <2>1, <2>2
<1>5. TasksOK'
  BY <1>1, <1>4, Moves, BecomeType, ProcFacts DEF TypeOK
<1> QED BY <1>5, TaskStepType DEF PostThreadDone, PostThreadInbox

LEMMA CacheGetType ==
  ASSUME TypeOK, NEW h \in Handler, CacheGet(h)
  PROVE  TypeOK'
<1> DEFINE t == task[h]
           e == cache[HashOf[t.q]]
<1>1. t \in Task /\ t.q \in Question
  BY Working, ProcFacts DEF CacheGet, At
<1>2. e \in Envelope \union {NoEnvelope, Foreign}
  BY <1>1, ResponderAssumption DEF TypeOK, StoreOK
<1>3. {"spool", "remember"} \subseteq Pc
  BY DEF Pc
<1>4. TasksOK'
  <2>1. CASE Goto(h, "spool")
    BY <1>1, <1>3, <2>1, Moves, BecomeType, ProcFacts DEF TypeOK, Goto
  <2>2. CASE Become(h, [t EXCEPT !.env = e, !.pc = "remember"])
    BY <1>1, <1>2, <1>3, <2>2, Moves, BecomeType, ProcFacts DEF TypeOK
  <2> QED BY <2>1, <2>2 DEF CacheGet
<1>5. HistoryOK'
  <2>1. hits' = hits \/ hits' = hits \union {<<t.q, e>>}
    BY DEF CacheGet
  <2> HIDE DEF t, e
  <2>2. hits' \subseteq Question \X (Envelope \union {NoEnvelope, Foreign})
    BY <1>1, <1>2, <2>1 DEF TypeOK, HistoryOK
  <2> QED BY <2>2 DEF CacheGet, TypeOK, HistoryOK
<1> QED
  BY <1>4, <1>5 DEF CacheGet, TypeOK, StoreOK, DaemonOK, BoundsOK, store, daemon, bounds

LEMMA SpoolType ==
  ASSUME TypeOK, NEW h \in Handler, Spool(h)
  PROVE  TypeOK'
<1>1. task[h] \in Task /\ task[h].q \in Question
  BY Working, ProcFacts DEF Spool, At
<1>2. [NoRecord EXCEPT !.state = RecordState(task[h].q, task[h].mode)] \in Record
  BY RecordTypes, RecordUpdates DEF RecordState, State
<1>3. StoreOK'
  BY <1>1, <1>2 DEF Spool, PutInbox, TypeOK, StoreOK
<1>4. TasksOK'
  BY <1>1, Moves, BecomeType, ProcFacts DEF Spool, Goto, TypeOK, Pc
<1>5. HistoryOK'
  BY <1>1 DEF Spool, TypeOK, HistoryOK
<1> QED BY <1>3, <1>4, <1>5 DEF Spool, TypeOK, DaemonOK, BoundsOK, daemon, bounds

LEMMA RememberType ==
  ASSUME TypeOK, NEW h \in Handler, Remember(h)
  PROVE  TypeOK'
<1>1. task[h].q \in Question
  BY Working, ProcFacts DEF Remember, At
<1>2. TasksOK'
  BY ExitType, ProcFacts DEF Remember, TypeOK
<1>3. DaemonOK'
  BY <1>1 DEF Remember, TypeOK, DaemonOK
<1> QED
  BY <1>2, <1>3 DEF Remember, TypeOK, StoreOK, BoundsOK, HistoryOK, store, bounds, history

LEMMA A2aStateType ==
  ASSUME NEW s
  PROVE  A2aState(s) \in {"open", "completed", "declined", "missing"}
  BY DEF A2aState, State

LEMMA PollType ==
  ASSUME TypeOK, NEW h \in Handler, NEW q \in Question, Poll(h, q)
  PROVE  TypeOK'
<1> DEFINE t == [Idle EXCEPT !.op = "poll", !.q = q, !.pc = "taskOutbox"]
<1>1. t \in Task /\ AtWork(t)
  BY IdleType DEF Task, Idle, Op, Pc, AtWork
<1>2. TasksOK'
  <2>1. task' = task \/ Become(h, t)
    BY DEF Poll
  <2> QED BY <1>1, <2>1, BecomeType, ProcFacts DEF TypeOK, TasksOK
<1>3. HistoryOK'
  BY A2aStateType DEF Poll, Answer, TypeOK, HistoryOK
<1> QED
  BY <1>2, <1>3 DEF Poll, TypeOK, StoreOK, DaemonOK, BoundsOK, store, daemon, bounds

LEMMA PollOutboxType ==
  ASSUME TypeOK, NEW h \in Handler, PollOutbox(h)
  PROVE  TypeOK'
<1>1. task[h] \in Task /\ task[h].q \in Question
  BY Working, ProcFacts DEF PollOutbox, At
<1>2. TasksOK'
  <2>1. Goto(h, "taskDone") \/ Exit(h)
    BY DEF PollOutbox
  <2> QED BY <1>1, <2>1, Moves, BecomeType, ExitType, ProcFacts DEF Goto, TypeOK, Pc
<1>3. HistoryOK'
  BY DEF PollOutbox, Answer, TypeOK, HistoryOK
<1> QED
  BY <1>2, <1>3 DEF PollOutbox, TypeOK, StoreOK, DaemonOK, BoundsOK, store, daemon, bounds

LEMMA PollDoneType ==
  ASSUME TypeOK, NEW h \in Handler, PollDone(h)
  PROVE  TypeOK'
<1>1. TasksOK'
  BY ExitType, ProcFacts DEF PollDone, TypeOK
<1>2. HistoryOK'
  BY A2aStateType DEF PollDone, Answer, TypeOK, HistoryOK
<1> QED
  BY <1>1, <1>2 DEF PollDone, TypeOK, StoreOK, DaemonOK, BoundsOK, store, daemon, bounds

LEMMA HandlerFailsType ==
  ASSUME TypeOK, NEW h \in Handler, HandlerFails(h)
  PROVE  TypeOK'
<1>1. TasksOK'
  BY ExitType, ProcFacts DEF HandlerFails, TypeOK
<1>2. DaemonOK'
  <2>1. At(h, "remember") => task[h].q \in Question
    BY Working, ProcFacts DEF At
  <2> QED BY <2>1 DEF HandlerFails, TypeOK, DaemonOK
<1>3. BoundsOK'
  BY DEF HandlerFails, TypeOK, BoundsOK
<1> QED
  BY <1>1, <1>2, <1>3 DEF HandlerFails, TypeOK, StoreOK, HistoryOK, store, history

LEMMA DaemonStepType ==
  ASSUME TypeOK, Ack \/ Expire \/ Scan \/ Restart \/ \E hash \in Hash : StoreAnswer(hash)
  PROVE  TypeOK'
<1>1. CASE Ack \/ Expire
  <2>1. StoreOK' /\ HistoryOK'
    BY <1>1 DEF Ack, Expire, Archive, TypeOK, StoreOK, HistoryOK, history
  <2> QED BY <1>1, <2>1
        DEF Ack, Expire, TypeOK, TasksOK, DaemonOK, BoundsOK, daemon, bounds
<1>2. CASE Scan
  <2>1. DaemonOK'
    BY <1>2 DEF Scan, TypeOK, DaemonOK
  <2> QED BY <1>2, <2>1
        DEF Scan, TypeOK, TasksOK, StoreOK, BoundsOK, HistoryOK, store, bounds, history
<1>3. CASE Restart
  <2>1. TasksOK'
    BY <1>3, IdleType DEF Restart, TypeOK, TasksOK
  <2>2. DaemonOK' /\ BoundsOK'
    BY <1>3 DEF Restart, TypeOK, DaemonOK, BoundsOK
  <2> QED BY <1>3, <2>1, <2>2
        DEF Restart, TypeOK, StoreOK, HistoryOK, store, history
<1>4. CASE \E hash \in Hash : StoreAnswer(hash)
  <2>1. StoreOK'
    BY <1>4 DEF StoreAnswer, TypeOK, StoreOK
  <2> QED BY <1>4, <2>1
        DEF StoreAnswer, TypeOK, TasksOK, DaemonOK, BoundsOK, HistoryOK, daemon, bounds, history
<1> QED BY <1>1, <1>2, <1>3, <1>4

-----------------------------------------------------------------------------
(* Types, the auto-accept workers. *)

LEMMA ClaimType ==
  ASSUME TypeOK, NEW w \in Worker, Claim(w)
  PROVE  TypeOK'
<1> DEFINE t == [Idle EXCEPT !.op = "auto", !.q = w, !.pc = "read"]
<1>1. t \in Task /\ AtWork(t)
  BY IdleType DEF Task, Idle, Op, Pc, AtWork, Worker
<1>2. TasksOK'
  <2>1. task' = task \/ Become(w, t)
    BY DEF Claim
  <2> QED BY <1>1, <2>1, BecomeType, ProcFacts DEF TypeOK, TasksOK
<1>3. DaemonOK'
  BY DEF Claim, TypeOK, DaemonOK
<1> QED
  BY <1>2, <1>3 DEF Claim, TypeOK, StoreOK, BoundsOK, HistoryOK, store, bounds, history

(* The steps of a worker that only move it. *)
WorkerMoves(w) ==
  AutoRead(w) \/ DraftFail(w) \/ Recover(w) \/ RecoverExisting(w)

LEMMA WorkerMovesType ==
  ASSUME TypeOK, NEW w \in Worker, WorkerMoves(w)
  PROVE  TypeOK'
<1>1. task[w] \in Task /\ task[w].q \in Question /\ task[w].rec \in Record /\ inbox[w] \in Record
  BY Working, ProcFacts
     DEF WorkerMoves, AutoRead, DraftFail, Recover, RecoverExisting, At, TypeOK, StoreOK
<1>2. Exit(w) \/ \E r \in Record, pc \in Pc : Become(w, [task[w] EXCEPT !.rec = r, !.pc = pc])
  <2>1. {"drafting", "giveUp", "recoverExisting"} \subseteq Pc
    BY DEF Pc
  <2>2. CASE AutoRead(w)
    BY <1>1, <2>1, <2>2 DEF AutoRead
  <2>3. CASE DraftFail(w)
    BY <1>1, <2>1, <2>3, RecordUpdates DEF DraftFail
  <2>4. CASE Recover(w)
    BY <1>1, <2>1, <2>4 DEF Recover
  <2>5. CASE RecoverExisting(w)
    BY <1>1, <2>1, <2>5, RecordUpdates DEF RecoverExisting
  <2> QED BY <2>2, <2>3, <2>4, <2>5 DEF WorkerMoves
<1>3. TasksOK'
  BY <1>1, <1>2, Moves, BecomeType, ExitType, ProcFacts DEF TypeOK
<1> QED
  BY <1>3, TaskStepType DEF WorkerMoves, AutoRead, DraftFail, Recover, RecoverExisting

LEMMA GiveUpType ==
  ASSUME TypeOK, NEW w \in Worker, GiveUp(w)
  PROVE  TypeOK'
<1>1. [task[w].rec EXCEPT !.autoError = TRUE] \in Record
  BY Working, RecordUpdates, ProcFacts DEF GiveUp, At
<1>2. StoreOK'
  BY <1>1 DEF GiveUp, PutInbox, TypeOK, StoreOK
<1>3. TasksOK'
  BY ExitType, ProcFacts DEF GiveUp, TypeOK
<1> QED
  BY <1>2, <1>3 DEF GiveUp, TypeOK, DaemonOK, BoundsOK, HistoryOK, daemon, bounds, history

LEMMA IoFailureType ==
  ASSUME TypeOK, NEW w \in Worker, IoFailure(w)
  PROVE  TypeOK'
<1>1. task[w].pc \in SendPc => task[w] \in Task /\ task[w].q \in Question
  BY Working, ProcFacts DEF SendPc
<1>2. TasksOK'
  BY <1>1, Moves, BecomeType, ExitType, ProcFacts DEF IoFailure, Goto, TypeOK, Pc
<1>3. BoundsOK'
  BY DEF IoFailure, TypeOK, BoundsOK
<1> QED
  BY <1>2, <1>3 DEF IoFailure, TypeOK, StoreOK, DaemonOK, HistoryOK, store, daemon, history

-----------------------------------------------------------------------------
(* Types, the owner's commands. *)

LEMMA LoadType ==
  ASSUME TypeOK, NEW c \in Cli, NEW op \in Op, NEW q \in Question, NEW pc \in Pc,
         Load(c, op, q, pc)
  PROVE  TypeOK'
<1>1. (op = "send" /\ q \in Snippet) \in BOOLEAN
  OBVIOUS
<1>2. PICK b \in BOOLEAN : b = (op = "send" /\ q \in Snippet)
  BY <1>1
<1> DEFINE t == [Idle EXCEPT !.op = op, !.q = q, !.rec = inbox[q], !.pc = pc, !.threaded = b]
<1>3. Become(c, t)
  BY <1>2 DEF Load
<1>4. inbox[q] \in Record
  BY DEF TypeOK, StoreOK
<1>5. t \in Task /\ AtWork(t)
  BY <1>4, IdleType DEF Task, Idle, AtWork
<1>6. TasksOK'
  BY <1>3, <1>5, BecomeType, ProcFacts DEF TypeOK
<1> QED BY <1>6, TaskStepType DEF Load

LEMMA CommandType ==
  ASSUME TypeOK, NEW c \in Cli, NEW q \in Question,
         Draft(c, q) \/ Edit(c, q) \/ Send(c, q) \/ Reject(c, q) \/ Seen(c, q)
  PROVE  TypeOK'
<1>1. \E op \in Op, pc \in Pc : Load(c, op, q, pc)
  BY DEF Draft, Edit, Send, Reject, Seen, BeforeSend, Op, Pc
<1> QED BY <1>1, LoadType

LEMMA OwnerPolicyType ==
  ASSUME TypeOK, NEW c \in Cli, NEW peer \in Peer,
         Deny(c, peer) \/ \E mode \in Policies : Allow(c, peer, mode)
  PROVE  TypeOK'
<1>1. \E op \in Op :
        Become(c, [Idle EXCEPT !.op = op, !.todo = OfPeer(peer), !.pc = "list"])
  BY DEF Deny, Allow, Op
<1>2. \A op \in Op : LET t == [Idle EXCEPT !.op = op, !.todo = OfPeer(peer), !.pc = "list"]
                      IN t \in Task /\ AtWork(t)
  BY IdleType DEF Task, Idle, Pc, AtWork, OfPeer
<1>3. TasksOK'
  BY <1>1, <1>2, BecomeType, ProcFacts DEF TypeOK
<1>4. DaemonOK'
  <2>1. policy' \in [Peer -> Mode]
    BY ResponderAssumption DEF Deny, Allow, TypeOK, DaemonOK, Mode
  <2> QED BY <2>1 DEF Deny, Allow, TypeOK, DaemonOK
<1> QED
  BY <1>3, <1>4 DEF Deny, Allow, TypeOK, StoreOK, BoundsOK, HistoryOK, store, bounds, history

LEMMA ListType ==
  ASSUME TypeOK, NEW c \in Cli, List(c)
  PROVE  TypeOK'
<1> DEFINE held == {q \in task[c].todo : Held(q)}
           t == [task[c] EXCEPT !.todo = held, !.pc = "next"]
<1>1. task[c] \in Task /\ held \subseteq Question
  BY ProcFacts DEF TypeOK, TasksOK, Task
<1>2. Become(c, t)
  BY DEF List
<1> HIDE DEF held
<1>3. t \in Task /\ AtWork(t)
  BY <1>1 DEF Task, Pc, AtWork
<1>4. TasksOK'
  BY <1>2, <1>3, BecomeType, ProcFacts DEF TypeOK
<1> QED BY <1>4, TaskStepType DEF List

LEMMA TakeNextType ==
  ASSUME TypeOK, NEW c \in Cli, TakeNext(c)
  PROVE  TypeOK'
<1> DEFINE t == task[c]
           take(q) == [t EXCEPT !.q = q, !.todo = @ \ {q}]
<1>1. t \in Task
  BY ProcFacts DEF TypeOK, TasksOK
<1>2. \A q \in Question : take(q) \in Task /\ take(q).q = q
  BY <1>1 DEF Task
<1>3. \A q \in Question : [inbox[q] EXCEPT !.state = "pending"] \in Record
  BY RecordUpdates DEF TypeOK, StoreOK, State
<1>4. \/ Exit(c)
      \/ \E q \in t.todo : Become(c, [take(q) EXCEPT !.pc = "finish"])
      \/ \E q \in t.todo : Become(c, [take(q) EXCEPT !.rec = [inbox[q] EXCEPT !.state = "pending"],
                                       !.pc = "put"])
  BY DEF TakeNext
<1>5. t.todo \subseteq Question /\ {"finish", "put"} \subseteq Pc
  BY <1>1 DEF Task, Pc
<1>6. CASE Exit(c)
  BY <1>6, ExitType, TaskStepType, ProcFacts DEF TakeNext, TypeOK
<1>7. ASSUME NEW q \in t.todo, Become(c, [take(q) EXCEPT !.pc = "finish"])
      PROVE  TypeOK'
  <2> HIDE DEF t, take
  <2>1. take(q) \in Task /\ take(q).q \in Question
    BY <1>2, <1>5, <1>7
  <2>2. TasksOK'
    BY <1>5, <1>7, <2>1, Moves, BecomeType, ProcFacts DEF TypeOK
  <2> QED BY <2>2, TaskStepType DEF TakeNext
<1>8. ASSUME NEW q \in t.todo,
             Become(c, [take(q) EXCEPT !.rec = [inbox[q] EXCEPT !.state = "pending"], !.pc = "put"])
      PROVE  TypeOK'
  <2> HIDE DEF t, take
  <2>1. take(q) \in Task /\ take(q).q \in Question
    BY <1>2, <1>5, <1>8
  <2>2. TasksOK'
    BY <1>3, <1>5, <1>8, <2>1, Moves, BecomeType, ProcFacts DEF TypeOK
  <2> QED BY <2>2, TaskStepType DEF TakeNext
<1> QED BY <1>4, <1>6, <1>7, <1>8

LEMMA CliExitType ==
  ASSUME TypeOK, NEW c \in Cli, CliExit(c)
  PROVE  TypeOK'
<1>1. TasksOK'
  BY ExitType, ProcFacts DEF CliExit, TypeOK
<1>2. BoundsOK'
  BY DEF CliExit, TypeOK, BoundsOK
<1> QED
  BY <1>1, <1>2 DEF CliExit, TypeOK, StoreOK, DaemonOK, HistoryOK, store, daemon, history

-----------------------------------------------------------------------------
(* Types, drafting and sending. *)

LEMMA DraftedType ==
  ASSUME TypeOK, NEW p \in Proc, Drafted(p)
  PROVE  TypeOK'
<1> DEFINE t == task[p]
           r == IF t.op = "edit" THEN [t.rec EXCEPT !.draft = texts + 1]
                ELSE [state |-> "drafted", draft |-> texts + 1, autoError |-> FALSE]
<1>1. t \in Task /\ t.q \in Question /\ t.rec \in Record
  BY Working DEF Drafted, At
<1>2. texts + 1 \in Nat
  BY DEF TypeOK, BoundsOK
<1>3. r \in Record
  BY <1>1, <1>2, RecordUpdates DEF Record, State
<1>4. TasksOK'
  BY <1>1, <1>3, Moves, BecomeType DEF Drafted, TypeOK, Pc
<1>5. BoundsOK'
  BY <1>2 DEF Drafted, TypeOK, BoundsOK
<1> QED
  BY <1>4, <1>5 DEF Drafted, TypeOK, StoreOK, DaemonOK, HistoryOK, store, daemon, history

LEMMA PutType ==
  ASSUME TypeOK, NEW p \in Proc, Put(p)
  PROVE  TypeOK'
<1> DEFINE t == task[p]
<1>1. t \in Task /\ t.q \in Question /\ t.rec \in Record
  BY Working DEF Put, At
<1>2. StoreOK'
  BY <1>1 DEF Put, PutInbox, TypeOK, StoreOK
<1>3. HistoryOK'
  BY <1>1 DEF Put, TypeOK, HistoryOK
<1>4. AfterPut(t) \in Pc
  BY DEF AfterPut, BeforeSend, Pc
<1>5. (t.op = "auto" /\ t.q \in Snippet) \in BOOLEAN
  OBVIOUS
<1>6. PICK b \in BOOLEAN : b = (t.op = "auto" /\ t.q \in Snippet)
  BY <1>5
<1>7. Exit(p) \/ Become(p, [t EXCEPT !.pc = AfterPut(t), !.threaded = b])
  BY <1>6 DEF Put
<1>8. TasksOK'
  BY <1>1, <1>4, <1>7, Moves, BecomeType, ExitType DEF TypeOK
<1> QED
  BY <1>2, <1>3, <1>8 DEF Put, TypeOK, DaemonOK, BoundsOK, daemon, bounds

LEMMA SendThreadType ==
  ASSUME TypeOK, NEW p \in Proc, SendThreadDone(p) \/ SendThreadInbox(p)
  PROVE  TypeOK'
<1>1. task[p] \in Task /\ task[p].q \in Question
  BY Working DEF SendThreadDone, SendThreadInbox, At
<1>2. {"existing", "sendThreadInbox"} \subseteq Pc
      /\ HeldInDone(task[p].q) \in BOOLEAN
      /\ \A S : HeldIn(task[p].q, S) \in BOOLEAN
  BY DEF HeldIn, HeldInDone, Pc
<1>3. \E b \in BOOLEAN, c \in Pc : Become(p, [task[p] EXCEPT !.threaded = b, !.pc = c])
  <2>1. CASE SendThreadDone(p)
    <3>1. PICK b \in BOOLEAN : b = HeldInDone(task[p].q)
      BY <1>2
    <3> QED BY <1>2, <2>1, <3>1 DEF SendThreadDone
  <2>2. CASE SendThreadInbox(p)
    <3>1. PICK b \in BOOLEAN : b = HeldIn(task[p].q, InboxIds)
      BY <1>2
    <3> QED BY <1>2, <2>2, <3>1 DEF SendThreadInbox
  <2> QED BY <2>1, <2>2
<1>4. TasksOK'
  BY <1>1, <1>3, Moves, BecomeType DEF TypeOK
<1> QED BY <1>4, TaskStepType DEF SendThreadDone, SendThreadInbox

LEMMA ExistingType ==
  ASSUME TypeOK, NEW p \in Proc, Existing(p)
  PROVE  TypeOK'
<1>1. task[p] \in Task /\ task[p].q \in Question
  BY Working DEF Existing, At
<1>2. Exit(p) \/ \E e \in Envelope \union {NoEnvelope, Foreign}, c \in Pc :
                  Become(p, [task[p] EXCEPT !.env = e, !.pc = c])
  <2> DEFINE found == ExistingAnswers(task[p].q)
             pc == AfterExisting(task[p].op, found # {})
  <2>1. found \subseteq Envelope
    BY DEF ExistingAnswers, OutboxOf, TypeOK, StoreOK
  <2>2. pc \in Pc
    BY DEF AfterExisting, Pc
  <2>3. \/ Exit(p)
        \/ Become(p, [task[p] EXCEPT !.env = NoEnvelope, !.pc = pc])
        \/ \E e \in found : Become(p, [task[p] EXCEPT !.env = e, !.pc = pc])
    BY DEF Existing
  <2> HIDE DEF found, pc
  <2> QED BY <2>1, <2>2, <2>3
<1>3. TasksOK'
  BY <1>1, <1>2, Moves, BecomeType, ExitType DEF TypeOK
<1> QED BY <1>3, TaskStepType DEF Existing

LEMMA SignType ==
  ASSUME TypeOK, NEW p \in Proc, Sign(p)
  PROVE  TypeOK'
<1> DEFINE t == task[p]
           e == [id |-> signed + 1, q |-> t.q, text |-> t.rec.draft, mode |-> SendMode(p)]
<1>1. t \in Task /\ t.q \in Question /\ t.rec \in Record
  BY Working DEF Sign, At
<1>2. e \in Envelope
  BY <1>1 DEF Envelope, SendMode, Record, TypeOK, BoundsOK
<1>3. StoreOK'
  BY <1>2 DEF Sign, TypeOK, StoreOK
<1>4. TasksOK'
  <2>1. \E pc \in Pc : Become(p, [t EXCEPT !.env = e, !.pc = pc])
    BY DEF Sign, Pc
  <2> HIDE DEF e
  <2> QED BY <1>1, <1>2, <2>1, Moves, BecomeType DEF TypeOK
<1>5. BoundsOK'
  BY DEF Sign, TypeOK, BoundsOK
<1> QED
  BY <1>3, <1>4, <1>5 DEF Sign, TypeOK, DaemonOK, HistoryOK, daemon, history

LEMMA ShipType ==
  ASSUME TypeOK, NEW p \in Proc,
         CachePut(p) \/ CheckLog(p) \/ AppendLog(p)
  PROVE  TypeOK'
<1>1. /\ task[p] \in Task /\ task[p].q \in Question /\ task[p].rec \in Record
      /\ task[p].env \in Envelope \union {NoEnvelope, Foreign}
  BY Working DEF CachePut, CheckLog, AppendLog, At
<1>2. TasksOK'
  <2>1. \E pc \in Pc : Goto(p, pc)
    BY DEF CachePut, CheckLog, AppendLog, Pc
  <2> QED BY <1>1, <2>1, Moves, BecomeType DEF Goto, TypeOK
<1>3. StoreOK'
  <2>1. CASE CachePut(p)
    BY <1>1, <2>1, ResponderAssumption DEF CachePut, TypeOK, StoreOK
  <2>2. CASE CheckLog(p)
    BY <2>2 DEF CheckLog, TypeOK, StoreOK, store
  <2>3. CASE AppendLog(p)
    <3>1. [text |-> task[p].rec.draft, mode |-> SendMode(p)] \in Line
      BY <1>1 DEF Line, SendMode, Record
    <3>2. log' \in [Question -> Seq(Line)]
      BY <1>1, <2>3, <3>1 DEF AppendLog, TypeOK, StoreOK
    <3> QED BY <2>3, <3>2 DEF AppendLog, TypeOK, StoreOK
  <2> QED BY <2>1, <2>2, <2>3
<1> QED
  BY <1>2, <1>3
     DEF CachePut, CheckLog, AppendLog, TypeOK, DaemonOK, BoundsOK, HistoryOK,
         daemon, bounds, history

LEMMA FinishType ==
  ASSUME TypeOK, NEW p \in Proc, Finish(p)
  PROVE  TypeOK'
<1>1. /\ task[p] \in Task /\ task[p].q \in Question
      /\ task[p].env.id \in Nat
  BY Working DEF Finish, At, Envelope, NoEnvelope, Foreign
<1>2. StoreOK'
  <2>1. [state |-> FinalState(task[p].op), answer |-> task[p].env.id] \in Finished
    BY <1>1 DEF FinalState, Finished
  <2> QED BY <1>1, <2>1 DEF Finish, TypeOK, StoreOK
<1>3. TasksOK'
  BY <1>1, Moves, BecomeType DEF Finish, Goto, TypeOK, Pc
<1> QED
  BY <1>2, <1>3 DEF Finish, TypeOK, DaemonOK, BoundsOK, HistoryOK, daemon, bounds, history

LEMMA UnlinkType ==
  ASSUME TypeOK, NEW p \in Proc, Unlink(p)
  PROVE  TypeOK'
<1>1. task[p] \in Task /\ task[p].q \in Question
  BY Working DEF Unlink, At
<1>2. StoreOK'
  BY <1>1, RecordTypes DEF Unlink, PutInbox, TypeOK, StoreOK
<1>3. TasksOK'
  <2>1. Exit(p) \/ \E pc \in Pc : Goto(p, pc)
    BY DEF Unlink, Pc
  <2> QED BY <1>1, <2>1, Moves, BecomeType, ExitType DEF Goto, TypeOK
<1> QED
  BY <1>2, <1>3 DEF Unlink, TypeOK, DaemonOK, BoundsOK, HistoryOK, daemon, bounds, history

LEMMA StutterType == ASSUME TypeOK, UNCHANGED vars PROVE TypeOK'
<1>1. UNCHANGED <<store, daemon, bounds, history>> /\ task' = task
  BY DEF vars
<1>2. TasksOK'
  BY <1>1 DEF TypeOK, TasksOK
<1> QED BY <1>1, <1>2, TaskStepType

LEMMA SendStepType ==
  ASSUME TypeOK, NEW p \in Proc, SendStep(p)
  PROVE  TypeOK'
  BY DraftedType, PutType, SendThreadType, ExistingType, SignType, ShipType, FinishType,
     UnlinkType DEF SendStep

LEMMA NextType == ASSUME TypeOK, [Next]_vars PROVE TypeOK'
<1>1. ASSUME NEW h \in Handler,
             HandlerStep(h) \/ HandlerFails(h) \/ \E q \in Question : Post(h, q) \/ Poll(h, q)
      PROVE  TypeOK'
  BY <1>1, PostType, PostThreadType, CacheGetType, SpoolType, RememberType, PollType,
     PollOutboxType, PollDoneType, HandlerFailsType DEF HandlerStep
<1>2. ASSUME NEW w \in Worker, Claim(w) \/ WorkerStep(w) \/ IoFailure(w)
      PROVE  TypeOK'
  BY <1>2, ClaimType, WorkerMovesType, GiveUpType, IoFailureType, SendStepType, ProcFacts
     DEF WorkerStep, WorkerMoves
<1>3. ASSUME NEW c \in Cli, CliStep(c)
      PROVE  TypeOK'
  BY <1>3, CommandType, OwnerPolicyType, ListType, TakeNextType, CliExitType, SendStepType,
     ProcFacts DEF CliStep
<1> QED BY <1>1, <1>2, <1>3, DaemonStepType, StutterType DEF Next

(* Every reachable state is typed: no step writes a state, a reference or a     *)
(* process position that the code has no name for, for any number of requests,  *)
(* commands, handlers and faults.                                                *)
THEOREM TypeCorrect == Spec => []TypeOK
  BY InitType, NextType, PTL DEF Spec

-----------------------------------------------------------------------------
(***************************************************************************)
(* The safety theorems about Responder: one inductive invariant, Safe, and  *)
(* what follows from it.                                                    *)
(*                                                                         *)
(* A process works on a copy of a record, or on what it once saw in a        *)
(* directory.  Safe says what such a copy still guarantees when it is used:  *)
(* the facts it rests on only grow.  A request stays in accepted, consented, *)
(* done/ and the log once it is there, so what a process saw stays true.     *)
(***************************************************************************)

Logged == {q \in Question : log[q] # <<>>}

(* Where a process has a copy of a record it may write back. *)
Holding == {"existing", "sendThreadDone", "sendThreadInbox", "drafting", "put",
            "recoverExisting", "giveUp"}

(* What a process guarantees, when D are the requests in done/, L the logged, A *)
(* the accepted and C the consented ones.                                       *)
Positioned(t) ==
  /\ t.pc = "existing" => t.op \in {"draft", "edit", "send", "auto"}
  /\ t.pc = "drafting" => t.op \in {"draft", "edit", "auto"}
  /\ t.pc \in {"sign", "sendThreadDone", "sendThreadInbox"} => t.op \in {"send", "auto"}
Archived(t, D, L) ==
  /\ t.pc \in {"unlink", "taskOutbox", "taskDone"} => t.q \in D
  /\ t.pc = "finish" => t.op \in {"reject", "deny"} \/ t.q \in L
Released(t, A, C) ==
  /\ t.pc \in Holding =>
       /\ t.rec.state # "none" /\ t.q \in A
       /\ t.rec.state \in {"pending", "drafted"} => t.op = "allow" \/ t.q \in C
  /\ t.op \in {"draft", "send"} => t.q \in C
  /\ t.op = "auto" /\ t.pc # "read" => t.q \in C /\ Kind[t.q] = "question"
Sound(t, D, L, A, C) == Positioned(t) /\ Archived(t, D, L) /\ Released(t, A, C)

(* A worker runs auto-accept for its own request and nothing else. *)
OwnWork(w, t) == t.pc # "idle" => t.op = "auto" /\ t.q = w

TasksSound ==
  /\ \A p \in Proc : Sound(task[p], DoneIds, Logged, accepted, consented)
  /\ \A w \in Worker : OwnWork(w, task[w])

InboxSound ==
  \A q \in Question : /\ InInbox(q) => q \in accepted
                      /\ inbox[q].state \in {"pending", "drafted"} => q \in consented

StoreSafe ==
  /\ InboxSound /\ consented \subseteq accepted
  /\ QuestionKept /\ TaskNeverLost /\ AnsweredIsLogged /\ ConsentGate /\ HumanGate

Safe == TypeOK /\ TasksSound /\ StoreSafe

(* Nothing is forgotten. *)
Grows ==
  /\ DoneIds \subseteq DoneIds' /\ Logged \subseteq Logged'
  /\ accepted \subseteq accepted' /\ consented \subseteq consented'

-----------------------------------------------------------------------------

LEMMA SoundGrows ==
  ASSUME NEW t, NEW D, NEW L, NEW A, NEW C, NEW D2, NEW L2, NEW A2, NEW C2,
         Sound(t, D, L, A, C), D \subseteq D2, L \subseteq L2, A \subseteq A2, C \subseteq C2
  PROVE  Sound(t, D2, L2, A2, C2)
  BY DEF Sound, Positioned, Archived, Released

LEMMA IdleSound ==
  ASSUME NEW D, NEW L, NEW A, NEW C
  PROVE  Sound(Idle, D, L, A, C) /\ \A w \in Worker : OwnWork(w, Idle)
  BY DEF Idle, Sound, Positioned, Archived, Released, Holding, OwnWork

(* One process moves to a sound task, the others stay sound. *)
LEMMA SoundBecome ==
  ASSUME TypeOK, TasksSound, Grows, NEW p \in Proc, NEW t, Become(p, t),
         Sound(t, DoneIds', Logged', accepted', consented'),
         p \in Worker => OwnWork(p, t)
  PROVE  TasksSound'
<1>1. task'[p] = t /\ \A r \in Proc : r # p => task'[r] = task[r]
  BY DEF TypeOK, TasksOK, Become
<1>2. \A r \in Proc : Sound(task[r], DoneIds', Logged', accepted', consented')
  BY SoundGrows DEF TasksSound, Grows
<1>3. \A r \in Proc : Sound(task'[r], DoneIds', Logged', accepted', consented')
  BY <1>1, <1>2
<1>4. \A w \in Worker : OwnWork(w, task'[w])
  BY <1>1, ProcFacts DEF TasksSound
<1> QED BY <1>3, <1>4 DEF TasksSound, Sound, Positioned, Archived, Released, OwnWork

LEMMA SoundExit ==
  ASSUME TypeOK, TasksSound, Grows, NEW p \in Proc, Exit(p)
  PROVE  TasksSound'
  BY IdleSound, SoundBecome DEF Exit

LEMMA SoundSame ==
  ASSUME TasksSound, Grows, task' = task
  PROVE  TasksSound'
<1>1. \A r \in Proc : Sound(task[r], DoneIds', Logged', accepted', consented')
  BY SoundGrows DEF TasksSound, Grows
<1> QED BY <1>1 DEF TasksSound, Sound, Positioned, Archived, Released, OwnWork

-----------------------------------------------------------------------------
(* What stays safe when the store does not change. *)

Kept == <<inbox, outbox, archive, done, log, accepted, consented>>

LEMMA SameGrows == ASSUME UNCHANGED <<done, log, accepted, consented>> PROVE Grows
  BY DEF Grows, DoneIds, InDone, Logged

LEMMA SameStore ==
  ASSUME StoreSafe, UNCHANGED Kept, TaskNeverLost'
  PROVE  StoreSafe'
<1>1. InboxSound'
  BY DEF Kept, StoreSafe, InboxSound, InInbox
<1>2. QuestionKept'
  BY DEF Kept, StoreSafe, QuestionKept, InInbox, InDone
<1>3. AnsweredIsLogged' /\ ConsentGate' /\ HumanGate'
  BY DEF Kept, StoreSafe, AnsweredIsLogged, ConsentGate, HumanGate
<1> QED BY <1>1, <1>2, <1>3 DEF Kept, StoreSafe

LEMMA SameTold == ASSUME TaskNeverLost, UNCHANGED told PROVE TaskNeverLost'
  BY DEF TaskNeverLost

(* A step that moves a task to a sound one and leaves the store alone. *)
LEMMA SafeMove ==
  ASSUME Safe, UNCHANGED <<Kept, told>>, NEW p \in Proc, NEW t, Become(p, t),
         Sound(t, DoneIds, Logged, accepted, consented),
         p \in Worker => OwnWork(p, t)
  PROVE  TasksSound' /\ StoreSafe'
<1>1. Grows
  BY SameGrows DEF Kept
<1>2. TasksSound'
  BY <1>1, SoundGrows, SoundBecome DEF Safe, Grows
<1> QED BY <1>2, SameStore, SameTold DEF Safe, StoreSafe

LEMMA SafeExit ==
  ASSUME Safe, UNCHANGED <<Kept, told>>, NEW p \in Proc, Exit(p)
  PROVE  TasksSound' /\ StoreSafe'
  BY IdleSound, SafeMove DEF Exit

LEMMA SafeSame ==
  ASSUME Safe, UNCHANGED <<Kept, told>>, task' = task
  PROVE  TasksSound' /\ StoreSafe'
<1>1. Grows
  BY SameGrows DEF Kept
<1> QED BY <1>1, SoundSame, SameStore, SameTold DEF Safe, StoreSafe

(* What a process guarantees now. *)
LEMMA SafeTask ==
  ASSUME Safe, NEW p \in Proc
  PROVE  /\ Sound(task[p], DoneIds, Logged, accepted, consented)
         /\ p \in Worker => OwnWork(p, task[p])
         /\ task[p].pc \notin {"idle", "list", "next"} =>
              task[p] \in Task /\ task[p].q \in Question /\ task[p].rec \in Record
  BY Working DEF Safe, TasksSound

-----------------------------------------------------------------------------
(* The handlers. *)

LEMMA HandlerFacts == \A h \in Handler : h \in Proc /\ h \notin Worker
  BY ResponderAssumption DEF Proc

(* A process keeps its guarantees when it goes where no more is asked of it. *)
Guarded == Holding \union {"sign", "finish", "unlink", "taskOutbox", "taskDone"}

LEMMA Elsewhere ==
  ASSUME NEW t \in Task, NEW D, NEW L, NEW A, NEW C, Sound(t, D, L, A, C),
         t.pc # "read", NEW c, c \notin Guarded, NEW x
  PROVE  /\ Sound([t EXCEPT !.pc = c], D, L, A, C)
         /\ Sound([t EXCEPT !.threaded = x, !.pc = c], D, L, A, C)
         /\ Sound([t EXCEPT !.env = x, !.pc = c], D, L, A, C)
         /\ Sound([t EXCEPT !.rec = x, !.pc = c], D, L, A, C)
  BY DEF Task, Sound, Positioned, Archived, Released, Guarded, Holding

LEMMA PostSafe ==
  ASSUME Safe, NEW h \in Handler, NEW q \in Question, Post(h, q)
  PROVE  TasksSound' /\ StoreSafe'
<1> DEFINE Going(b, c) ==
             [Idle EXCEPT !.op = "post", !.q = q, !.mode = policy[From[q]], !.threaded = b, !.pc = c]
<1>1. \E b, c : c \in {"threadDone", "cacheGet", "spool"} /\ Become(h, Going(b, c))
  BY DEF Post, AfterAdmission
<1>2. PICK b, c : c \in {"threadDone", "cacheGet", "spool"} /\ Become(h, Going(b, c))
  BY <1>1
<1>3. Sound(Going(b, c), DoneIds, Logged, accepted, consented)
  BY <1>2 DEF Sound, Positioned, Archived, Released, Holding, Idle
<1>4. UNCHANGED <<Kept, told>>
  BY DEF Post, store, history, Kept
<1> QED BY <1>2, <1>3, <1>4, HandlerFacts, SafeMove

LEMMA ThreadLookupSafe ==
  ASSUME Safe, NEW h \in Handler, PostThreadDone(h) \/ PostThreadInbox(h)
  PROVE  TasksSound' /\ StoreSafe'
<1>1. task[h] \in Task /\ task[h].pc \in {"threadDone", "threadInbox"}
      /\ Sound(task[h], DoneIds, Logged, accepted, consented)
  BY SafeTask, HandlerFacts DEF PostThreadDone, PostThreadInbox, At
<1>2. \E b, c : /\ c \in {"threadInbox", "cacheGet", "spool"}
                /\ Become(h, [task[h] EXCEPT !.threaded = b, !.pc = c])
  BY DEF PostThreadDone, PostThreadInbox, AfterAdmission
<1>3. \A b, c : c \in {"threadInbox", "cacheGet", "spool"} =>
        Sound([task[h] EXCEPT !.threaded = b, !.pc = c], DoneIds, Logged, accepted, consented)
  BY <1>1, Elsewhere DEF Guarded, Holding
<1>4. UNCHANGED <<Kept, told>>
  BY DEF PostThreadDone, PostThreadInbox, store, history, Kept
<1> QED BY <1>2, <1>3, <1>4, HandlerFacts, SafeMove

LEMMA CacheGetSafe ==
  ASSUME Safe, NEW h \in Handler, CacheGet(h)
  PROVE  TasksSound' /\ StoreSafe'
<1>1. task[h] \in Task /\ task[h].pc = "cacheGet"
      /\ Sound(task[h], DoneIds, Logged, accepted, consented)
  BY SafeTask, HandlerFacts DEF CacheGet, At
<1>2. \/ Become(h, [task[h] EXCEPT !.pc = "spool"])
      \/ \E e : Become(h, [task[h] EXCEPT !.env = e, !.pc = "remember"])
  BY DEF CacheGet, Goto
<1>3. Sound([task[h] EXCEPT !.pc = "spool"], DoneIds, Logged, accepted, consented)
  BY <1>1, Elsewhere DEF Guarded, Holding
<1>4. \A e : Sound([task[h] EXCEPT !.env = e, !.pc = "remember"],
                   DoneIds, Logged, accepted, consented)
  BY <1>1, Elsewhere DEF Guarded, Holding
<1>5. UNCHANGED <<Kept, told>>
  BY DEF CacheGet, store, Kept
<1> QED BY <1>2, <1>3, <1>4, <1>5, HandlerFacts, SafeMove

LEMMA SpoolSafe ==
  ASSUME Safe, NEW h \in Handler, Spool(h)
  PROVE  TasksSound' /\ StoreSafe'
<1> DEFINE q == task[h].q
           mode == task[h].mode
           r == [NoRecord EXCEPT !.state = RecordState(q, mode)]
<1>1. task[h] \in Task /\ task[h].pc = "spool" /\ q \in Question
      /\ Sound(task[h], DoneIds, Logged, accepted, consented)
  BY SafeTask, HandlerFacts DEF Spool, At
<1>2. /\ inbox' = [inbox EXCEPT ![q] = r] /\ inbox \in [Question -> Record]
      /\ accepted' = accepted \union {q}
      /\ consented' = IF LetThrough(q, mode) THEN consented \union {q} ELSE consented
      /\ UNCHANGED <<outbox, archive, done, log, told>>
  BY DEF Spool, PutInbox, Safe, TypeOK, StoreOK
<1>3. r.state \in {"consent", "pending"} /\ (r.state = "pending" => LetThrough(q, mode))
  BY DEF RecordState, LetThrough, NoRecord
<1>4. inbox'[q] = r /\ \A x \in Question : x # q => inbox'[x] = inbox[x]
  BY <1>1, <1>2
<1> HIDE DEF r
<1>5. Grows
  BY <1>2 DEF Grows, DoneIds, InDone, Logged
<1>6. TasksSound'
  <2>1. Sound([task[h] EXCEPT !.pc = "remember"], DoneIds, Logged, accepted, consented)
    BY <1>1, Elsewhere DEF Guarded, Holding
  <2>2. Sound([task[h] EXCEPT !.pc = "remember"], DoneIds', Logged', accepted', consented')
    BY <1>5, <2>1, SoundGrows DEF Grows
  <2> QED BY <1>5, <2>2, HandlerFacts, SoundBecome DEF Spool, Goto, Safe
<1>7. StoreSafe'
  <2>1. InboxSound'
    BY <1>2, <1>3, <1>4 DEF Safe, StoreSafe, InboxSound, InInbox
  <2>2. QuestionKept'
    BY <1>2, <1>3, <1>4 DEF Safe, StoreSafe, QuestionKept, InInbox, InDone
  <2>3. (consented \subseteq accepted)'
    BY <1>2 DEF Safe, StoreSafe
  <2>4. TaskNeverLost' /\ AnsweredIsLogged' /\ ConsentGate' /\ HumanGate'
    BY <1>2 DEF Safe, StoreSafe, TaskNeverLost, AnsweredIsLogged, ConsentGate, HumanGate
  <2> QED BY <2>1, <2>2, <2>3, <2>4 DEF StoreSafe
<1> QED BY <1>6, <1>7

LEMMA RememberSafe ==
  ASSUME Safe, NEW h \in Handler, Remember(h) \/ HandlerFails(h)
  PROVE  TasksSound' /\ StoreSafe'
<1>1. UNCHANGED <<Kept, told>> /\ Exit(h)
  BY DEF Remember, HandlerFails, store, history, Kept
<1> QED BY <1>1, HandlerFacts, SafeExit

(* A poll that misses the record in inbox/ finds it in done/ two steps later.   *)
LEMMA PollSafe ==
  ASSUME Safe, NEW h \in Handler, NEW q \in Question, Poll(h, q)
  PROVE  TasksSound' /\ StoreSafe'
<1>1. UNCHANGED Kept
  BY DEF Poll, store, Kept
<1>2. Grows
  BY <1>1, SameGrows DEF Kept
<1>3. CASE InInbox(q)
  <2>1. inbox[q].state \in State
    BY <1>3 DEF InInbox, Safe, TypeOK, StoreOK, Record
  <2>2. A2aState(inbox[q].state) = "open"
    BY <2>1 DEF A2aState, State
  <2>3. told' = [told EXCEPT ![q] = "open"]
    BY <1>3, <2>2 DEF Poll, Answer
  <2>4. TaskNeverLost'
    BY <2>3 DEF Safe, StoreSafe, TaskNeverLost, TypeOK, HistoryOK
  <2> QED BY <1>1, <1>2, <1>3, <2>4, SoundSame, SameStore DEF Poll, Safe
<1>4. CASE ~InInbox(q)
  <2> DEFINE t == [Idle EXCEPT !.op = "poll", !.q = q, !.pc = "taskOutbox"]
  <2>1. q \in DoneIds
    BY <1>4 DEF Poll, Safe, StoreSafe, QuestionKept, DoneIds
  <2>2. Sound(t, DoneIds, Logged, accepted, consented)
    BY <2>1 DEF Sound, Positioned, Archived, Released, Holding, Idle
  <2>3. Become(h, t) /\ UNCHANGED told
    BY <1>4 DEF Poll
  <2> HIDE DEF t
  <2> QED BY <1>1, <2>2, <2>3, HandlerFacts, SafeMove
<1> QED BY <1>3, <1>4

LEMMA PollOutboxSafe ==
  ASSUME Safe, NEW h \in Handler, PollOutbox(h)
  PROVE  TasksSound' /\ StoreSafe'
<1>1. task[h] \in Task /\ task[h].pc = "taskOutbox"
      /\ Sound(task[h], DoneIds, Logged, accepted, consented)
  BY SafeTask, HandlerFacts DEF PollOutbox, At
<1>2. UNCHANGED Kept
  BY DEF PollOutbox, store, Kept
<1>3. Grows
  BY <1>2, SameGrows DEF Kept
<1>4. TasksSound'
  <2>1. Sound([task[h] EXCEPT !.pc = "taskDone"], DoneIds, Logged, accepted, consented)
    BY <1>1 DEF Task, Sound, Positioned, Archived, Released, Holding
  <2>2. Sound([task[h] EXCEPT !.pc = "taskDone"], DoneIds', Logged', accepted', consented')
    BY <1>3, <2>1, SoundGrows DEF Grows
  <2>3. Exit(h) \/ Become(h, [task[h] EXCEPT !.pc = "taskDone"])
    BY DEF PollOutbox, Goto
  <2> QED BY <1>3, <2>2, <2>3, HandlerFacts, SoundBecome, SoundExit DEF Safe
<1>5. TaskNeverLost'
  BY DEF PollOutbox, Answer, Safe, StoreSafe, TaskNeverLost, TypeOK, HistoryOK
<1> QED BY <1>2, <1>4, <1>5, SameStore DEF Safe

LEMMA PollDoneSafe ==
  ASSUME Safe, NEW h \in Handler, PollDone(h)
  PROVE  TasksSound' /\ StoreSafe'
<1> DEFINE q == task[h].q
<1>1. q \in Question /\ q \in DoneIds
  BY SafeTask, HandlerFacts DEF PollDone, At, Sound, Archived
<1>2. UNCHANGED Kept
  BY DEF PollDone, store, Kept
<1>3. TasksSound'
  BY <1>2, SameGrows, SoundExit, HandlerFacts DEF PollDone, Kept, Safe
<1>4. TaskNeverLost'
  <2>1. done[q].state \in {"answered", "rejected", "denied"}
    BY <1>1 DEF DoneIds, InDone, Safe, TypeOK, StoreOK, Finished
  <2>2. A2aState(done[q].state) # "missing"
    BY <2>1 DEF A2aState, State
  <2> QED BY <2>2 DEF PollDone, Answer, Safe, StoreSafe, TaskNeverLost, TypeOK, HistoryOK
<1> QED BY <1>2, <1>3, <1>4, SameStore DEF Safe

LEMMA HandlerSafe ==
  ASSUME Safe, NEW h \in Handler,
         HandlerStep(h) \/ HandlerFails(h) \/ \E q \in Question : Post(h, q) \/ Poll(h, q)
  PROVE  TasksSound' /\ StoreSafe'
  BY PostSafe, ThreadLookupSafe, CacheGetSafe, SpoolSafe, RememberSafe, PollSafe,
     PollOutboxSafe, PollDoneSafe DEF HandlerStep

-----------------------------------------------------------------------------
(* The daemon: acks, expiry, the scan, restarts, and the asker's cache.         *)

LEMMA DaemonSafe ==
  ASSUME Safe, Ack \/ Expire \/ Scan \/ Restart \/ \E hash \in Hash : StoreAnswer(hash)
  PROVE  TasksSound' /\ StoreSafe'
<1>1. CASE Ack \/ Expire
  <2>1. /\ outbox' \union archive' = outbox \union archive
        /\ UNCHANGED <<inbox, done, log, task, accepted, consented, told>>
    BY <1>1 DEF Ack, Expire, Archive, history
  <2>2. TasksSound'
    BY <2>1, SameGrows, SoundSame DEF Safe
  <2>3. InboxSound' /\ QuestionKept' /\ TaskNeverLost' /\ AnsweredIsLogged'
    BY <2>1 DEF Safe, StoreSafe, InboxSound, QuestionKept, TaskNeverLost, AnsweredIsLogged,
                InInbox, InDone
  <2>4. ConsentGate' /\ HumanGate'
    BY <2>1 DEF Safe, StoreSafe, ConsentGate, HumanGate
  <2> QED BY <2>1, <2>2, <2>3, <2>4 DEF Safe, StoreSafe
<1>2. CASE Scan \/ \E hash \in Hash : StoreAnswer(hash)
  <2>1. UNCHANGED <<Kept, told, task>>
    BY <1>2 DEF Scan, StoreAnswer, store, history, Kept
  <2> QED BY <2>1, SafeSame
<1>3. CASE Restart
  <2>1. UNCHANGED <<Kept, told>>
    BY <1>3 DEF Restart, store, history, Kept
  <2>2. TasksSound'
    <3>1. \A p \in Proc : task'[p] \in {task[p], Idle}
      BY <1>3 DEF Restart
    <3>2. \A p \in Proc : Sound(task'[p], DoneIds, Logged, accepted, consented)
      BY <3>1, IdleSound DEF Safe, TasksSound
    <3>3. \A w \in Worker : OwnWork(w, task'[w])
      BY <3>1, IdleSound, ProcFacts DEF Safe, TasksSound
    <3>4. Grows
      BY <2>1, SameGrows DEF Kept
    <3>5. \A p \in Proc : Sound(task'[p], DoneIds', Logged', accepted', consented')
      BY <3>2, <3>4, SoundGrows DEF Grows
    <3> QED BY <3>3, <3>5 DEF TasksSound, Sound, Positioned, Archived, Released, OwnWork
  <2> QED BY <2>1, <2>2, SameStore, SameTold DEF Safe, StoreSafe
<1> QED BY <1>1, <1>2, <1>3

-----------------------------------------------------------------------------
(* The auto-accept workers. *)

LEMMA ClaimSafe ==
  ASSUME Safe, NEW w \in Worker, Claim(w)
  PROVE  TasksSound' /\ StoreSafe'
<1> DEFINE t == [Idle EXCEPT !.op = "auto", !.q = w, !.pc = "read"]
<1>1. UNCHANGED <<Kept, told>>
  BY DEF Claim, store, history, Kept
<1>2. Sound(t, DoneIds, Logged, accepted, consented) /\ OwnWork(w, t)
  BY DEF Sound, Positioned, Archived, Released, Holding, Idle, OwnWork
<1>3. task' = task \/ Become(w, t)
  BY DEF Claim
<1> HIDE DEF t
<1> QED BY <1>1, <1>2, <1>3, ProcFacts, SafeMove, SafeSame

(* A candidate is a pending question, so it was let through. *)
LEMMA AutoReadSafe ==
  ASSUME Safe, NEW w \in Worker, AutoRead(w)
  PROVE  TasksSound' /\ StoreSafe'
<1> DEFINE t == [task[w] EXCEPT !.rec = inbox[w], !.pc = "drafting"]
<1>1. /\ task[w] \in Task /\ task[w].op = "auto" /\ task[w].q = w /\ w \in Question
      /\ Sound(task[w], DoneIds, Logged, accepted, consented)
  BY SafeTask, ProcFacts DEF AutoRead, At, OwnWork
<1>2. UNCHANGED <<Kept, told>>
  BY DEF AutoRead, store, history, Kept
<1>3. CASE Candidate(w, inbox[w])
  <2>1. inbox[w].state = "pending" /\ Kind[w] = "question"
    BY <1>3 DEF Candidate
  <2>2. w \in accepted /\ w \in consented
    BY <1>1, <2>1 DEF Safe, StoreSafe, InboxSound, InInbox
  <2>3. Sound(t, DoneIds, Logged, accepted, consented) /\ OwnWork(w, t)
    BY <1>1, <2>1, <2>2 DEF Task, Sound, Positioned, Archived, Released, Holding, OwnWork
  <2>4. Become(w, t)
    BY <1>3 DEF AutoRead
  <2> HIDE DEF t
  <2> QED BY <1>2, <2>3, <2>4, ProcFacts, SafeMove
<1>4. CASE ~Candidate(w, inbox[w])
  BY <1>2, <1>4, ProcFacts, SafeExit DEF AutoRead
<1> QED BY <1>3, <1>4

(* What a worker holds after it read a candidate may be written back. *)
LEMMA WorkerHolds ==
  ASSUME Safe, NEW w \in Worker, task[w].pc \notin {"idle", "read"},
         NEW r \in Record, r.state # "none",
         NEW c \in {"giveUp", "recoverExisting"}
  PROVE  LET t == [task[w] EXCEPT !.rec = r, !.pc = c]
         IN Sound(t, DoneIds, Logged, accepted, consented) /\ OwnWork(w, t)
<1>1. /\ task[w] \in Task /\ task[w].op = "auto" /\ task[w].q = w
      /\ Sound(task[w], DoneIds, Logged, accepted, consented)
  BY SafeTask, ProcFacts DEF OwnWork, Safe, TypeOK, TasksOK
<1>2. w \in consented /\ w \in accepted
  BY <1>1 DEF Sound, Released, Safe, StoreSafe
<1> QED
  BY <1>1, <1>2 DEF Task, Sound, Positioned, Archived, Released, Holding, OwnWork

LEMMA WorkerMovesSafe ==
  ASSUME Safe, NEW w \in Worker, DraftFail(w) \/ Recover(w) \/ RecoverExisting(w)
  PROVE  TasksSound' /\ StoreSafe'
<1>1. task[w] \in Task /\ task[w].rec \in Record /\ inbox[w] \in Record
  BY SafeTask, ProcFacts
     DEF DraftFail, Recover, RecoverExisting, At, Safe, TypeOK, StoreOK
<1>2. UNCHANGED <<Kept, told>>
  BY DEF DraftFail, Recover, RecoverExisting, store, history, Kept
<1>3. task[w].pc \in {"drafting", "recover", "recoverExisting"}
  BY DEF DraftFail, Recover, RecoverExisting, At
<1>4. task[w].pc = "recoverExisting" => task[w].rec.state # "none"
  BY SafeTask, ProcFacts DEF Sound, Released, Holding
<1>5. Undrafted(task[w].rec) \in Record /\ Undrafted(task[w].rec).state = "pending"
  BY <1>1 DEF Undrafted, Record, State
<1>6. \/ Exit(w)
      \/ \E r \in Record, c \in {"giveUp", "recoverExisting"} :
           r.state # "none" /\ Become(w, [task[w] EXCEPT !.rec = r, !.pc = c])
  <2>1. CASE DraftFail(w)
    BY <1>5, <2>1 DEF DraftFail
  <2>2. CASE Recover(w)
    BY <1>1, <2>2 DEF Recover, InInbox
  <2>3. CASE RecoverExisting(w)
    BY <1>1, <1>4, <1>5, <2>3 DEF RecoverExisting, At
  <2> QED BY <2>1, <2>2, <2>3
<1> QED BY <1>2, <1>3, <1>6, WorkerHolds, ProcFacts, SafeMove, SafeExit

LEMMA IoFailureSafe ==
  ASSUME Safe, NEW w \in Worker, IoFailure(w)
  PROVE  TasksSound' /\ StoreSafe'
<1> DEFINE t == [task[w] EXCEPT !.pc = "recover"]
<1>1. UNCHANGED <<Kept, told>>
  BY DEF IoFailure, store, history, Kept
<1>2. CASE task[w].pc \in SendPc
  <2>1. /\ task[w] \in Task /\ OwnWork(w, task[w]) /\ task[w].pc \notin {"idle", "read"}
        /\ Sound(task[w], DoneIds, Logged, accepted, consented)
    BY <1>2, SafeTask, ProcFacts DEF SendPc
  <2>2. Sound(t, DoneIds, Logged, accepted, consented)
    BY <2>1, Elsewhere DEF Guarded, Holding
  <2>3. OwnWork(w, t)
    BY <2>1 DEF OwnWork, Task
  <2> QED BY <1>1, <1>2, <2>2, <2>3, ProcFacts, SafeMove DEF IoFailure, Goto
<1>3. CASE task[w].pc \notin SendPc
  BY <1>1, <1>3, ProcFacts, SafeExit DEF IoFailure
<1> QED BY <1>2, <1>3

-----------------------------------------------------------------------------
(* Writes of a record that was held. *)

(* A record the owner let through, or that still waits for him, may be written. *)
LEMMA WriteSafe ==
  ASSUME Safe, NEW q \in Question, NEW r \in Record, r.state # "none",
         PutInbox(q, r), UNCHANGED <<outbox, archive, done, log, accepted, told>>,
         q \in accepted, r.state \in {"pending", "drafted"} => q \in consented',
         consented' \in {consented, consented \union {q}}
  PROVE  Grows /\ StoreSafe'
<1>1. inbox'[q] = r /\ \A x \in Question : x # q => inbox'[x] = inbox[x]
  BY DEF PutInbox, Safe, TypeOK, StoreOK
<1>2. Grows
  BY DEF Grows, DoneIds, InDone, Logged
<1>3. InboxSound' /\ (consented \subseteq accepted)'
  BY <1>1 DEF Safe, StoreSafe, InboxSound, InInbox
<1>4. QuestionKept'
  BY <1>1 DEF Safe, StoreSafe, QuestionKept, InInbox, InDone, TypeOK, HistoryOK
<1>5. TaskNeverLost' /\ AnsweredIsLogged' /\ ConsentGate' /\ HumanGate'
  BY DEF Safe, StoreSafe, TaskNeverLost, AnsweredIsLogged, ConsentGate, HumanGate
<1> QED BY <1>2, <1>3, <1>4, <1>5 DEF StoreSafe

LEMMA GiveUpSafe ==
  ASSUME Safe, NEW w \in Worker, GiveUp(w)
  PROVE  TasksSound' /\ StoreSafe'
<1> DEFINE r == [task[w].rec EXCEPT !.autoError = TRUE]
<1>1. /\ task[w].rec \in Record /\ w \in Question /\ task[w].pc = "giveUp"
      /\ Sound(task[w], DoneIds, Logged, accepted, consented) /\ OwnWork(w, task[w])
  BY SafeTask, ProcFacts DEF GiveUp, At
<1>2. w \in accepted /\ w \in consented /\ task[w].rec.state # "none"
  BY <1>1 DEF Sound, Released, OwnWork, Holding
<1>3. r \in Record /\ r.state # "none"
  BY <1>1, <1>2 DEF Record
<1>4. Grows /\ StoreSafe'
  BY <1>1, <1>2, <1>3, WriteSafe DEF GiveUp, history
<1> QED BY <1>4, ProcFacts, SoundExit DEF GiveUp, Safe

LEMMA PutSafe ==
  ASSUME Safe, NEW p \in Proc, Put(p)
  PROVE  TasksSound' /\ StoreSafe'
<1> DEFINE t == task[p]
<1>1. /\ t \in Task /\ t.q \in Question /\ t.rec \in Record /\ t.pc = "put"
      /\ Sound(t, DoneIds, Logged, accepted, consented) /\ (p \in Worker => OwnWork(p, t))
  BY SafeTask DEF Put, At
<1>2. /\ t.rec.state # "none" /\ t.q \in accepted
      /\ t.rec.state \in {"pending", "drafted"} => t.op = "allow" \/ t.q \in consented
  BY <1>1 DEF Sound, Released, Holding
<1>3. Grows /\ StoreSafe'
  <2>1. /\ consented' \in {consented, consented \union {t.q}}
        /\ t.rec.state \in {"pending", "drafted"} => t.q \in consented'
    BY <1>2 DEF Put
  <2>2. PutInbox(t.q, t.rec) /\ UNCHANGED <<outbox, archive, done, log, accepted, told>>
    BY DEF Put
  <2> QED BY <1>1, <1>2, <2>1, <2>2, WriteSafe
<1>4. TasksSound'
  <2>1. (t.op = "auto" /\ t.q \in Snippet) \in BOOLEAN
    OBVIOUS
  <2>2. PICK b \in BOOLEAN : b = (t.op = "auto" /\ t.q \in Snippet)
    BY <2>1
  <2> DEFINE u == [t EXCEPT !.pc = AfterPut(t), !.threaded = b]
  <2>3. Exit(p) \/ (t.op \in {"auto", "allow"} /\ Become(p, u))
    BY <2>2 DEF Put, AfterPut
  <2>4. CASE t.op \in {"auto", "allow"} /\ Become(p, u)
    <3>1. AfterPut(t) \in IF t.op = "auto" THEN {"sendThreadDone", "existing"} ELSE {"next"}
      BY <2>4 DEF AfterPut, BeforeSend
    <3>2. Sound(u, DoneIds, Logged, accepted, consented) /\ (p \in Worker => OwnWork(p, u))
      BY <1>1, <2>4, <3>1
         DEF Task, Sound, Positioned, Archived, Released, Holding, OwnWork
    <3>3. Become(p, u)
      BY <2>4
    <3> HIDE DEF u
    <3>4. Sound(u, DoneIds', Logged', accepted', consented')
      BY <1>3, <3>2, SoundGrows DEF Grows
    <3> QED BY <1>3, <3>2, <3>3, <3>4, SoundBecome DEF Safe
  <2> QED BY <1>3, <2>3, <2>4, SoundExit DEF Safe
<1> QED BY <1>3, <1>4

-----------------------------------------------------------------------------
(* The owner's commands. *)

LEMMA CliFacts == \A c \in Cli : c \in Proc /\ c \notin Worker
  BY ResponderAssumption DEF Proc

(* What a command may do next with the record it loaded. *)
LEMMA LoadSafe ==
  ASSUME Safe, NEW c \in Cli, NEW q \in Question, NEW op, NEW pc, Load(c, op, q, pc),
         \/ /\ op \in {"draft", "send"} /\ pc \in {"existing", "sendThreadDone"}
            /\ pc = "sendThreadDone" => op = "send"
            /\ inbox[q].state \in {"pending", "drafted"}
         \/ op = "edit" /\ pc = "existing"
         \/ op = "seen" /\ pc = "put"
         \/ op = "reject" /\ pc = "finish"
  PROVE  TasksSound' /\ StoreSafe'
<1>1. (op = "send" /\ q \in Snippet) \in BOOLEAN
  OBVIOUS
<1>2. PICK b \in BOOLEAN : b = (op = "send" /\ q \in Snippet)
  BY <1>1
<1> DEFINE t == [Idle EXCEPT !.op = op, !.q = q, !.rec = inbox[q], !.pc = pc, !.threaded = b]
<1>3. Become(c, t)
  BY <1>2 DEF Load
<1>4. /\ inbox[q].state # "none" /\ q \in accepted
      /\ inbox[q].state \in {"pending", "drafted"} => q \in consented
  BY DEF Load, InInbox, Safe, StoreSafe, InboxSound
<1>5. Sound(t, DoneIds, Logged, accepted, consented)
  BY <1>4 DEF Idle, Sound, Positioned, Archived, Released, Holding
<1>6. UNCHANGED <<Kept, told>>
  BY DEF Load, store, history, Kept
<1> HIDE DEF t
<1> QED BY <1>3, <1>5, <1>6, CliFacts, SafeMove

LEMMA CommandSafe ==
  ASSUME Safe, NEW c \in Cli, NEW q \in Question,
         Draft(c, q) \/ Edit(c, q) \/ Send(c, q) \/ Reject(c, q) \/ Seen(c, q)
  PROVE  TasksSound' /\ StoreSafe'
<1>1. CASE Draft(c, q)
  BY <1>1, LoadSafe DEF Draft, DraftGate
<1>2. CASE Send(c, q)
  BY <1>2, LoadSafe DEF Send, SendGate, BeforeSend
<1>3. CASE Edit(c, q) \/ Reject(c, q) \/ Seen(c, q)
  BY <1>3, LoadSafe DEF Edit, Reject, Seen
<1> QED BY <1>1, <1>2, <1>3

LEMMA OwnerPolicySafe ==
  ASSUME Safe, NEW c \in Cli, NEW peer \in Peer,
         Deny(c, peer) \/ \E mode \in Policies : Allow(c, peer, mode)
  PROVE  TasksSound' /\ StoreSafe'
<1> DEFINE t(op) == [Idle EXCEPT !.op = op, !.todo = OfPeer(peer), !.pc = "list"]
<1>1. UNCHANGED <<Kept, told>>
  BY DEF Deny, Allow, store, history, Kept
<1>2. PICK op \in {"deny", "allow"} : Become(c, t(op))
  BY DEF Deny, Allow
<1>3. Sound(t(op), DoneIds, Logged, accepted, consented)
  BY <1>2 DEF Idle, Sound, Positioned, Archived, Released, Holding
<1> HIDE DEF t
<1> QED BY <1>1, <1>2, <1>3, CliFacts, SafeMove

LEMMA ListSafe ==
  ASSUME Safe, NEW c \in Cli, List(c)
  PROVE  TasksSound' /\ StoreSafe'
<1> DEFINE t == [task[c] EXCEPT !.todo = {q \in @ : Held(q)}, !.pc = "next"]
<1>1. task[c] \in Task /\ task[c].pc = "list"
      /\ Sound(task[c], DoneIds, Logged, accepted, consented)
  BY SafeTask, CliFacts DEF List, At, Safe, TypeOK, TasksOK
<1>2. t.pc = "next" /\ t.op = task[c].op /\ t.q = task[c].q
  BY <1>1 DEF Task
<1>3. Become(c, t) /\ UNCHANGED <<Kept, told>>
  BY DEF List, store, history, Kept
<1> HIDE DEF t
<1>4. Sound(t, DoneIds, Logged, accepted, consented)
  BY <1>1, <1>2 DEF Sound, Positioned, Archived, Released, Holding
<1> QED BY <1>3, <1>4, CliFacts, SafeMove

(* `owl allow` takes up a record that is still there; `owl deny` needs none. *)
LEMMA TakeNextSafe ==
  ASSUME Safe, NEW c \in Cli, TakeNext(c)
  PROVE  TasksSound' /\ StoreSafe'
<1> DEFINE take(q) == [task[c] EXCEPT !.q = q, !.todo = @ \ {q}]
           denied(q) == [take(q) EXCEPT !.pc = "finish"]
           allowed(q) == [take(q) EXCEPT !.rec = [inbox[q] EXCEPT !.state = "pending"],
                            !.pc = "put"]
<1>1. task[c] \in Task /\ task[c].todo \subseteq Question
  BY CliFacts DEF Safe, TypeOK, TasksOK, Task
<1>2. UNCHANGED <<Kept, told>>
  BY DEF TakeNext, store, history, Kept
<1>3. \/ Exit(c)
      \/ \E q \in task[c].todo :
           \/ task[c].op = "deny" /\ Become(c, denied(q))
           \/ task[c].op = "allow" /\ InInbox(q) /\ Become(c, allowed(q))
  BY DEF TakeNext
<1>4. ASSUME NEW q \in task[c].todo, task[c].op = "deny", Become(c, denied(q))
      PROVE  TasksSound' /\ StoreSafe'
  <2>1. Sound(denied(q), DoneIds, Logged, accepted, consented)
    BY <1>1, <1>4 DEF Task, Sound, Positioned, Archived, Released, Holding
  <2> HIDE DEF denied
  <2> QED BY <1>2, <1>4, <2>1, CliFacts, SafeMove
<1>5. ASSUME NEW q \in task[c].todo, task[c].op = "allow", InInbox(q), Become(c, allowed(q))
      PROVE  TasksSound' /\ StoreSafe'
  <2>1. q \in accepted /\ inbox[q] \in Record
    BY <1>1, <1>5 DEF Safe, StoreSafe, InboxSound, TypeOK, StoreOK
  <2>2. Sound(allowed(q), DoneIds, Logged, accepted, consented)
    BY <1>1, <1>5, <2>1 DEF Task, Record, Sound, Positioned, Archived, Released, Holding
  <2> HIDE DEF allowed
  <2> QED BY <1>2, <1>5, <2>2, CliFacts, SafeMove
<1> QED BY <1>2, <1>3, <1>4, <1>5, CliFacts, SafeExit

LEMMA CliExitSafe ==
  ASSUME Safe, NEW c \in Cli, CliExit(c)
  PROVE  TasksSound' /\ StoreSafe'
<1>1. UNCHANGED <<Kept, told>> /\ Exit(c)
  BY DEF CliExit, store, history, Kept
<1> QED BY <1>1, CliFacts, SafeExit

-----------------------------------------------------------------------------
(* Drafting and sending. *)

LEMMA DraftedSafe ==
  ASSUME Safe, NEW p \in Proc, Drafted(p)
  PROVE  TasksSound' /\ StoreSafe'
<1> DEFINE t == task[p]
           r == IF t.op = "edit" THEN [t.rec EXCEPT !.draft = texts + 1]
                ELSE [state |-> "drafted", draft |-> texts + 1, autoError |-> FALSE]
           u == [t EXCEPT !.rec = r, !.pc = "put"]
<1>1. /\ t \in Task /\ t.rec \in Record /\ t.pc = "drafting"
      /\ Sound(t, DoneIds, Logged, accepted, consented) /\ (p \in Worker => OwnWork(p, t))
  BY SafeTask DEF Drafted, At
<1>2. /\ r.state # "none"
      /\ r.state \in {"pending", "drafted"} => t.q \in consented
  BY <1>1 DEF Sound, Positioned, Released, Holding, Record
<1>3. Become(p, u) /\ UNCHANGED <<Kept, told>>
  BY DEF Drafted, store, history, Kept
<1> HIDE DEF r
<1>4. Sound(u, DoneIds, Logged, accepted, consented) /\ (p \in Worker => OwnWork(p, u))
  BY <1>1, <1>2 DEF Task, Sound, Positioned, Archived, Released, Holding, OwnWork
<1> HIDE DEF u
<1> QED BY <1>3, <1>4, SafeMove

LEMMA SendThreadSafe ==
  ASSUME Safe, NEW p \in Proc, SendThreadDone(p) \/ SendThreadInbox(p)
  PROVE  TasksSound' /\ StoreSafe'
<1>1. /\ task[p] \in Task /\ task[p].pc \in {"sendThreadDone", "sendThreadInbox"}
      /\ Sound(task[p], DoneIds, Logged, accepted, consented)
      /\ (p \in Worker => OwnWork(p, task[p]))
  BY SafeTask DEF SendThreadDone, SendThreadInbox, At
<1>2. UNCHANGED <<Kept, told>>
  BY DEF SendThreadDone, SendThreadInbox, store, history, Kept
<1> DEFINE u(b, c) == [task[p] EXCEPT !.threaded = b, !.pc = c]
<1>3. HeldInDone(task[p].q) \in BOOLEAN /\ \A S : HeldIn(task[p].q, S) \in BOOLEAN
  BY DEF HeldIn, HeldInDone
<1>4. \E b \in BOOLEAN, c \in {"existing", "sendThreadInbox"} : Become(p, u(b, c))
  <2>1. CASE SendThreadDone(p)
    <3>1. PICK b \in BOOLEAN : b = HeldInDone(task[p].q)
      BY <1>3
    <3> QED BY <2>1, <3>1 DEF SendThreadDone
  <2>2. CASE SendThreadInbox(p)
    <3>1. PICK b \in BOOLEAN : b = HeldIn(task[p].q, InboxIds)
      BY <1>3
    <3> QED BY <2>2, <3>1 DEF SendThreadInbox
  <2> QED BY <2>1, <2>2
<1>5. PICK b \in BOOLEAN, c \in {"existing", "sendThreadInbox"} : Become(p, u(b, c))
  BY <1>4
<1>6. /\ Sound(u(b, c), DoneIds, Logged, accepted, consented)
      /\ (p \in Worker => OwnWork(p, u(b, c)))
  BY <1>1 DEF Task, Sound, Positioned, Archived, Released, Holding, OwnWork
<1> HIDE DEF u
<1> QED BY <1>2, <1>5, <1>6, SafeMove

LEMMA ExistingSafe ==
  ASSUME Safe, NEW p \in Proc, Existing(p)
  PROVE  TasksSound' /\ StoreSafe'
<1> DEFINE t == task[p]
           u(e, c) == [t EXCEPT !.env = e, !.pc = c]
<1>1. /\ t \in Task /\ t.pc = "existing"
      /\ Sound(t, DoneIds, Logged, accepted, consented) /\ (p \in Worker => OwnWork(p, t))
  BY SafeTask DEF Existing, At
<1>2. UNCHANGED <<Kept, told>>
  BY DEF Existing, store, history, Kept
<1>3. \/ Exit(p)
      \/ \E e, c : /\ c \in IF t.op \in {"draft", "edit"} THEN {"drafting"} ELSE {"log", "sign"}
                  /\ Become(p, u(e, c))
  BY DEF Existing, AfterExisting
<1>4. ASSUME NEW e, NEW c, Become(p, u(e, c)),
             c \in IF t.op \in {"draft", "edit"} THEN {"drafting"} ELSE {"log", "sign"}
      PROVE  TasksSound' /\ StoreSafe'
  <2>1. Sound(u(e, c), DoneIds, Logged, accepted, consented)
        /\ (p \in Worker => OwnWork(p, u(e, c)))
    BY <1>1, <1>4 DEF Task, Sound, Positioned, Archived, Released, Holding, OwnWork
  <2> HIDE DEF u
  <2> QED BY <1>2, <1>4, <2>1, SafeMove
<1> QED BY <1>2, <1>3, <1>4, SafeExit

(* An envelope is signed for a request that was let through, and by a worker     *)
(* only for a question.                                                          *)
LEMMA SignSafe ==
  ASSUME Safe, NEW p \in Proc, Sign(p)
  PROVE  TasksSound' /\ StoreSafe'
<1> DEFINE t == task[p]
           e == [id |-> signed + 1, q |-> t.q, text |-> t.rec.draft, mode |-> SendMode(p)]
           c == IF Cacheable(t) THEN "cachePut" ELSE "log"
           u == [t EXCEPT !.env = e, !.pc = c]
<1>1. /\ t \in Task /\ t.pc = "sign"
      /\ Sound(t, DoneIds, Logged, accepted, consented) /\ (p \in Worker => OwnWork(p, t))
  BY SafeTask DEF Sign, At
<1>2. t.q \in consented /\ (p \in Worker => Kind[t.q] = "question")
  BY <1>1 DEF Sound, Positioned, Released, OwnWork
<1>3. e.q = t.q /\ (e.mode # "manual" => p \in Worker)
  BY DEF SendMode
<1>4. /\ outbox' = outbox \union {e} /\ Become(p, u)
      /\ UNCHANGED <<inbox, archive, done, log, accepted, consented, told>>
  BY DEF Sign, history
<1>5. Grows
  BY <1>4, SameGrows
<1>6. TasksSound'
  <2>1. c \in {"cachePut", "log"}
    OBVIOUS
  <2> HIDE DEF e, c
  <2>2. Sound(u, DoneIds, Logged, accepted, consented)
    BY <1>1, <2>1, Elsewhere DEF Guarded, Holding
  <2>3. p \in Worker => OwnWork(p, u)
    BY <1>1 DEF Task, OwnWork
  <2> HIDE DEF u
  <2>4. Sound(u, DoneIds', Logged', accepted', consented')
    BY <1>5, <2>2, SoundGrows DEF Grows
  <2> QED BY <1>4, <1>5, <2>3, <2>4, SoundBecome DEF Safe
<1>7. StoreSafe'
  <2> HIDE DEF e
  <2>1. InboxSound' /\ QuestionKept' /\ TaskNeverLost' /\ AnsweredIsLogged'
    BY <1>4 DEF Safe, StoreSafe, InboxSound, QuestionKept, TaskNeverLost, AnsweredIsLogged,
                InInbox, InDone
  <2>2. ConsentGate' /\ HumanGate'
    BY <1>2, <1>3, <1>4 DEF Safe, StoreSafe, ConsentGate, HumanGate
  <2> QED BY <1>4, <2>1, <2>2 DEF Safe, StoreSafe
<1> QED BY <1>6, <1>7

LEMMA CachePutSafe ==
  ASSUME Safe, NEW p \in Proc, CachePut(p)
  PROVE  TasksSound' /\ StoreSafe'
<1> DEFINE u == [task[p] EXCEPT !.pc = "log"]
<1>1. /\ task[p] \in Task /\ task[p].pc = "cachePut"
      /\ Sound(task[p], DoneIds, Logged, accepted, consented)
      /\ (p \in Worker => OwnWork(p, task[p]))
  BY SafeTask DEF CachePut, At
<1>2. Become(p, u) /\ UNCHANGED <<Kept, told>>
  BY DEF CachePut, Goto, history, Kept
<1>3. Sound(u, DoneIds, Logged, accepted, consented)
  BY <1>1, Elsewhere DEF Guarded, Holding
<1>4. p \in Worker => OwnWork(p, u)
  BY <1>1 DEF Task, OwnWork
<1> HIDE DEF u
<1> QED BY <1>2, <1>3, <1>4, SafeMove

LEMMA CheckLogSafe ==
  ASSUME Safe, NEW p \in Proc, CheckLog(p)
  PROVE  TasksSound' /\ StoreSafe'
<1> DEFINE t == task[p]
           c == IF HasOutgoingLine(t.q) THEN "finish" ELSE "append"
           u == [t EXCEPT !.pc = c]
<1>1. /\ t \in Task /\ t.q \in Question /\ t.pc = "log"
      /\ Sound(t, DoneIds, Logged, accepted, consented) /\ (p \in Worker => OwnWork(p, t))
  BY SafeTask DEF CheckLog, At
<1>2. Become(p, u) /\ UNCHANGED <<Kept, told>>
  BY DEF CheckLog, Goto, store, history, Kept
<1>3. c \in {"finish", "append"} /\ (c = "finish" => t.q \in Logged)
  BY <1>1 DEF HasOutgoingLine, Logged
<1> HIDE DEF c
<1>4. Sound(u, DoneIds, Logged, accepted, consented) /\ (p \in Worker => OwnWork(p, u))
  BY <1>1, <1>3 DEF Task, Sound, Positioned, Archived, Released, Holding, OwnWork
<1> HIDE DEF u
<1> QED BY <1>2, <1>4, SafeMove

LEMMA AppendLogSafe ==
  ASSUME Safe, NEW p \in Proc, AppendLog(p)
  PROVE  TasksSound' /\ StoreSafe'
<1> DEFINE t == task[p]
           line == [text |-> t.rec.draft, mode |-> SendMode(p)]
           u == [t EXCEPT !.pc = "finish"]
<1>1. /\ t \in Task /\ t.q \in Question /\ t.rec \in Record /\ t.pc = "append"
      /\ Sound(t, DoneIds, Logged, accepted, consented) /\ (p \in Worker => OwnWork(p, t))
  BY SafeTask DEF AppendLog, At
<1>2. /\ log' = [log EXCEPT ![t.q] = Append(@, line)] /\ Become(p, u)
      /\ UNCHANGED <<inbox, outbox, archive, done, accepted, consented, told>>
  BY DEF AppendLog, Goto, history
<1>3. line \in Line
  BY <1>1 DEF Line, Record, SendMode
<1> HIDE DEF line
<1>4. /\ log'[t.q] # <<>>
      /\ \A q \in Question : q # t.q => log'[q] = log[q]
  BY <1>1, <1>2, <1>3 DEF Safe, TypeOK, StoreOK
<1>5. Grows /\ t.q \in Logged'
  BY <1>1, <1>2, <1>4 DEF Grows, DoneIds, InDone, Logged
<1>6. TasksSound'
  <2>1. Sound(t, DoneIds', Logged', accepted', consented')
    BY <1>1, <1>5, SoundGrows DEF Grows
  <2>2. \A D, L, A, C : Sound(t, D, L, A, C) /\ t.q \in L => Sound(u, D, L, A, C)
    BY <1>1 DEF Task, Sound, Positioned, Archived, Released, Holding
  <2>3. p \in Worker => OwnWork(p, u)
    BY <1>1 DEF Task, OwnWork
  <2> HIDE DEF u
  <2>4. Sound(u, DoneIds', Logged', accepted', consented')
    BY <1>5, <2>1, <2>2
  <2> QED BY <1>2, <1>5, <2>3, <2>4, SoundBecome DEF Safe
<1>7. StoreSafe'
  <2>1. InboxSound' /\ QuestionKept' /\ TaskNeverLost' /\ ConsentGate' /\ HumanGate'
    BY <1>2 DEF Safe, StoreSafe, InboxSound, QuestionKept, TaskNeverLost, ConsentGate,
                HumanGate, InInbox, InDone
  <2>2. AnsweredIsLogged'
    BY <1>2, <1>4 DEF Safe, StoreSafe, AnsweredIsLogged
  <2> QED BY <1>2, <2>1, <2>2 DEF Safe, StoreSafe
<1> QED BY <1>6, <1>7

LEMMA FinishSafe ==
  ASSUME Safe, NEW p \in Proc, Finish(p)
  PROVE  TasksSound' /\ StoreSafe'
<1> DEFINE t == task[p]
           f == [state |-> FinalState(t.op), answer |-> t.env.id]
           u == [t EXCEPT !.pc = "unlink"]
<1>1. /\ t \in Task /\ t.q \in Question /\ t.pc = "finish"
      /\ Sound(t, DoneIds, Logged, accepted, consented) /\ (p \in Worker => OwnWork(p, t))
  BY SafeTask DEF Finish, At
<1>2. f.state # "none" /\ (f.state = "answered" => t.q \in Logged)
  BY <1>1 DEF FinalState, Sound, Archived
<1>3. /\ done' = [done EXCEPT ![t.q] = f] /\ Become(p, u)
      /\ UNCHANGED <<inbox, outbox, archive, log, accepted, consented, told>>
  BY DEF Finish, Goto, history
<1> HIDE DEF f
<1>4. done'[t.q] = f /\ \A q \in Question : q # t.q => done'[q] = done[q]
  BY <1>1, <1>3 DEF Safe, TypeOK, StoreOK
<1>5. Grows /\ t.q \in DoneIds'
  BY <1>1, <1>2, <1>3, <1>4 DEF Grows, DoneIds, InDone, Logged
<1>6. TasksSound'
  <2>1. Sound(t, DoneIds', Logged', accepted', consented')
    BY <1>1, <1>5, SoundGrows DEF Grows
  <2>2. \A D, L, A, C : Sound(t, D, L, A, C) /\ t.q \in D => Sound(u, D, L, A, C)
    BY <1>1 DEF Task, Sound, Positioned, Archived, Released, Holding
  <2>3. p \in Worker => OwnWork(p, u)
    BY <1>1 DEF Task, OwnWork
  <2> HIDE DEF u
  <2>4. Sound(u, DoneIds', Logged', accepted', consented')
    BY <1>5, <2>1, <2>2
  <2> QED BY <1>3, <1>5, <2>3, <2>4, SoundBecome DEF Safe
<1>7. StoreSafe'
  <2>1. InboxSound' /\ TaskNeverLost' /\ ConsentGate' /\ HumanGate'
    BY <1>3 DEF Safe, StoreSafe, InboxSound, TaskNeverLost, ConsentGate, HumanGate, InInbox
  <2>2. QuestionKept'
    BY <1>2, <1>3, <1>4
       DEF Safe, StoreSafe, QuestionKept, InInbox, InDone, TypeOK, HistoryOK
  <2>3. AnsweredIsLogged'
    BY <1>2, <1>3, <1>4 DEF Safe, StoreSafe, AnsweredIsLogged, Logged
  <2> QED BY <1>3, <2>1, <2>2, <2>3 DEF Safe, StoreSafe
<1> QED BY <1>6, <1>7

(* The record may be removed: its request is in done/ by now. *)
LEMMA UnlinkSafe ==
  ASSUME Safe, NEW p \in Proc, Unlink(p)
  PROVE  TasksSound' /\ StoreSafe'
<1> DEFINE t == task[p]
           u(c) == [t EXCEPT !.pc = c]
<1>1. /\ t \in Task /\ t.q \in Question /\ t.pc = "unlink"
      /\ Sound(t, DoneIds, Logged, accepted, consented) /\ (p \in Worker => OwnWork(p, t))
  BY SafeTask DEF Unlink, At
<1>2. t.q \in DoneIds
  BY <1>1 DEF Sound, Archived
<1>3. /\ inbox' = [inbox EXCEPT ![t.q] = NoRecord]
      /\ UNCHANGED <<outbox, archive, done, log, accepted, consented, told>>
  BY DEF Unlink, PutInbox, history
<1>4. inbox'[t.q] = NoRecord /\ \A q \in Question : q # t.q => inbox'[q] = inbox[q]
  BY <1>1, <1>3 DEF Safe, TypeOK, StoreOK
<1>5. Grows
  BY <1>3, SameGrows
<1>6. TasksSound'
  <2>1. Exit(p) \/ \E c \in {"recover", "next"} : Become(p, u(c))
    BY DEF Unlink, Goto
  <2>2. ASSUME NEW c \in {"recover", "next"}, Become(p, u(c))
        PROVE  TasksSound'
    <3>1. Sound(u(c), DoneIds, Logged, accepted, consented)
      BY <1>1, Elsewhere DEF Guarded, Holding
    <3>2. p \in Worker => OwnWork(p, u(c))
      BY <1>1 DEF Task, OwnWork
    <3> HIDE DEF u
    <3>3. Sound(u(c), DoneIds', Logged', accepted', consented')
      BY <1>5, <3>1, SoundGrows DEF Grows
    <3> QED BY <1>5, <2>2, <3>2, <3>3, SoundBecome DEF Safe
  <2> QED BY <1>5, <2>1, <2>2, SoundExit DEF Safe
<1>7. StoreSafe'
  <2>1. InboxSound'
    BY <1>3, <1>4 DEF Safe, StoreSafe, InboxSound, InInbox, NoRecord
  <2>2. QuestionKept'
    BY <1>2, <1>3, <1>4
       DEF Safe, StoreSafe, QuestionKept, InInbox, InDone, DoneIds, TypeOK, HistoryOK
  <2>3. TaskNeverLost' /\ AnsweredIsLogged' /\ ConsentGate' /\ HumanGate'
    BY <1>3 DEF Safe, StoreSafe, TaskNeverLost, AnsweredIsLogged, ConsentGate, HumanGate
  <2> QED BY <1>3, <2>1, <2>2, <2>3 DEF Safe, StoreSafe
<1> QED BY <1>6, <1>7

LEMMA SendStepSafe ==
  ASSUME Safe, NEW p \in Proc, SendStep(p)
  PROVE  TasksSound' /\ StoreSafe'
  BY DraftedSafe, PutSafe, SendThreadSafe, ExistingSafe, SignSafe, CachePutSafe, CheckLogSafe,
     AppendLogSafe, FinishSafe, UnlinkSafe DEF SendStep

-----------------------------------------------------------------------------
(* The inductive invariant and what follows from it. *)

LEMMA InitSafe == Init => Safe
<1> SUFFICES ASSUME Init PROVE Safe
  OBVIOUS
<1>1. TasksSound
  BY IdleSound, ProcFacts DEF Init, TasksSound
<1>2. StoreSafe
  BY DEF Init, StoreSafe, InboxSound, InInbox, NoRecord, NotFinished, QuestionKept,
         TaskNeverLost, AnsweredIsLogged, ConsentGate, HumanGate
<1> QED BY <1>1, <1>2, InitType DEF Safe

LEMMA NextSafe == Safe /\ [Next]_vars => Safe'
<1> SUFFICES ASSUME Safe, [Next]_vars PROVE TasksSound' /\ StoreSafe'
  BY NextType DEF Safe
<1>1. ASSUME NEW w \in Worker, Claim(w) \/ WorkerStep(w) \/ IoFailure(w)
      PROVE  TasksSound' /\ StoreSafe'
  BY <1>1, ClaimSafe, AutoReadSafe, WorkerMovesSafe, GiveUpSafe, IoFailureSafe, SendStepSafe,
     ProcFacts DEF WorkerStep
<1>2. ASSUME NEW c \in Cli, CliStep(c)
      PROVE  TasksSound' /\ StoreSafe'
  BY <1>2, CommandSafe, OwnerPolicySafe, ListSafe, TakeNextSafe, CliExitSafe, SendStepSafe,
     ProcFacts DEF CliStep
<1>3. CASE UNCHANGED vars
  BY <1>3, SafeSame DEF vars, store, history, Kept
<1> QED BY <1>1, <1>2, <1>3, HandlerSafe, DaemonSafe DEF Next

LEMMA AlwaysSafe == Spec => []Safe
  BY InitSafe, NextSafe, PTL DEF Spec

(* Once the daemon spooled a request it is always in inbox/ or in done/, for any *)
(* number of requests, commands, handlers, deliveries, crashes and failures.     *)
THEOREM NothingLost == Spec => []QuestionKept
  BY AlwaysSafe, PTL DEF Safe, StoreSafe

(* A poll of an accepted request is never told there is no such task.           *)
THEOREM PollsFind == Spec => []TaskNeverLost
  BY AlwaysSafe, PTL DEF Safe, StoreSafe

(* A request finished as answered has its line in the outgoing log.              *)
THEOREM AnswersLogged == Spec => []AnsweredIsLogged
  BY AlwaysSafe, PTL DEF Safe, StoreSafe

(* An answer is only signed for a request the owner let through.                  *)
THEOREM ConsentHolds == Spec => []ConsentGate
  BY AlwaysSafe, PTL DEF Safe, StoreSafe

(* The reply to a content or tool-call request is signed by an `owl send`.       *)
THEOREM HumanHolds == Spec => []HumanGate
  BY AlwaysSafe, PTL DEF Safe, StoreSafe

-----------------------------------------------------------------------------
(***************************************************************************)
(* The responder implements Consent.  Three of its steps are steps of the   *)
(* abstract specification: the write of a new record (Arrive), the write of *)
(* `owl allow` (Release) and the signature of an answer (Answer).  All the   *)
(* others leave what it promises alone.                                      *)
(***************************************************************************)

Answered == {e.q : e \in outbox \union archive}
Promised == <<accepted, consented, Answered>>

LEMMA HandlerPromise ==
  ASSUME Safe, NEW h \in Handler,
         HandlerStep(h) \/ HandlerFails(h) \/ \E q \in Question : Post(h, q) \/ Poll(h, q)
  PROVE  UNCHANGED Promised \/ \E q \in Question : Promise!Arrive(q)
<1>1. CASE Spool(h)
  <2>1. task[h].q \in Question
    BY <1>1, SafeTask, HandlerFacts DEF Spool, At
  <2>2. Promise!Arrive(task[h].q)
    BY <1>1 DEF Spool, Promise!Arrive
  <2> QED BY <2>1, <2>2
<1>2. CASE ~Spool(h)
  <2>1. UNCHANGED <<outbox, archive, accepted, consented>>
    BY <1>2 DEF HandlerStep, PostThreadDone, PostThreadInbox, CacheGet, Remember, PollOutbox,
                PollDone, HandlerFails, Post, Poll, store, history
  <2> QED BY <2>1 DEF Promised, Answered
<1> QED BY <1>1, <1>2

LEMMA DaemonPromise ==
  ASSUME Ack \/ Expire \/ Scan \/ Restart \/ \E hash \in Hash : StoreAnswer(hash)
  PROVE  UNCHANGED Promised
<1>1. outbox' \union archive' = outbox \union archive /\ UNCHANGED <<accepted, consented>>
  BY DEF Ack, Expire, Archive, Scan, Restart, StoreAnswer, store, history
<1> QED BY <1>1 DEF Promised, Answered

LEMMA SendPromise ==
  ASSUME Safe, NEW p \in Proc, SendStep(p)
  PROVE  \/ UNCHANGED Promised
         \/ \E q \in Question : Promise!Release(q) \/ Promise!Answer(q)
<1> DEFINE t == task[p]
<1>1. CASE Put(p)
  <2>1. /\ t.q \in Question /\ t.pc = "put"
        /\ Sound(t, DoneIds, Logged, accepted, consented)
    BY <1>1, SafeTask DEF Put, At
  <2>2. t.q \in accepted
    BY <2>1 DEF Sound, Released, Holding
  <2>3. /\ UNCHANGED <<outbox, archive, accepted>>
        /\ consented' \in {consented, consented \union {t.q}}
    BY <1>1 DEF Put
  <2>4. UNCHANGED Promised \/ Promise!Release(t.q)
    BY <2>2, <2>3 DEF Promise!Release, Promised, Answered
  <2> QED BY <2>1, <2>4
<1>2. CASE Sign(p)
  <2>1. /\ t.q \in Question /\ t.pc = "sign"
        /\ Sound(t, DoneIds, Logged, accepted, consented)
    BY <1>2, SafeTask DEF Sign, At
  <2>2. t.q \in consented
    BY <2>1 DEF Sound, Positioned, Released
  <2>3. /\ UNCHANGED <<archive, accepted, consented>>
        /\ \E e : e.q = t.q /\ outbox' = outbox \union {e}
    BY <1>2 DEF Sign, history
  <2>4. PICK q \in Question : q = t.q
    BY <2>1
  <2>5. Promise!Answer(q)
    BY <2>2, <2>3, <2>4 DEF Promise!Answer
  <2> QED BY <2>5
<1>3. CASE ~Put(p) /\ ~Sign(p)
  <2>1. UNCHANGED <<outbox, archive, accepted, consented>>
    BY <1>3 DEF SendStep, Drafted, SendThreadDone, SendThreadInbox, Existing, CachePut,
                CheckLog, AppendLog, Finish, Unlink, store, history
  <2> QED BY <2>1 DEF Promised, Answered
<1> QED BY <1>1, <1>2, <1>3

LEMMA WorkerPromise ==
  ASSUME NEW w \in Worker,
         \/ Claim(w) \/ IoFailure(w)
         \/ AutoRead(w) \/ DraftFail(w) \/ Recover(w) \/ RecoverExisting(w) \/ GiveUp(w)
  PROVE  UNCHANGED Promised
<1>1. UNCHANGED <<outbox, archive, accepted, consented>>
  BY DEF Claim, IoFailure, AutoRead, DraftFail, Recover, RecoverExisting, GiveUp, store, history
<1> QED BY <1>1 DEF Promised, Answered

LEMMA CliPromise ==
  ASSUME NEW c \in Cli,
         \/ \E q \in Question : Draft(c, q) \/ Edit(c, q) \/ Send(c, q) \/ Reject(c, q) \/ Seen(c, q)
         \/ \E peer \in Peer : Deny(c, peer) \/ \E mode \in Policies : Allow(c, peer, mode)
         \/ List(c) \/ TakeNext(c) \/ CliExit(c)
  PROVE  UNCHANGED Promised
<1>1. UNCHANGED <<outbox, archive, accepted, consented>>
  BY DEF Draft, Edit, Send, Reject, Seen, Load, Deny, Allow, List, TakeNext, CliExit, store, history
<1> QED BY <1>1 DEF Promised, Answered

LEMMA InitPromise == Init => Promise!Init
  BY DEF Init, Promise!Init

LEMMA NextPromise == Safe /\ [Next]_vars => [Promise!Next]_(Promise!promise)
<1> SUFFICES ASSUME Safe, [Next]_vars PROVE UNCHANGED Promised \/ Promise!Next
  BY DEF Promised, Answered, Promise!promise
<1>1. ASSUME NEW w \in Worker, Claim(w) \/ WorkerStep(w) \/ IoFailure(w)
      PROVE  UNCHANGED Promised \/ Promise!Next
  BY <1>1, WorkerPromise, SendPromise, ProcFacts DEF WorkerStep, Promise!Next
<1>2. ASSUME NEW c \in Cli, CliStep(c)
      PROVE  UNCHANGED Promised \/ Promise!Next
  BY <1>2, CliPromise, SendPromise, ProcFacts DEF CliStep, Promise!Next
<1>3. CASE UNCHANGED vars
  BY <1>3 DEF vars, store, history, Promised, Answered
<1> QED BY <1>1, <1>2, <1>3, HandlerPromise, DaemonPromise DEF Next, Promise!Next

(* Every behaviour of the responder, seen through what it accepted, let through   *)
(* and signed, is a behaviour of Consent.                                        *)
THEOREM ResponderKeepsConsent == Spec => KeepsConsent
<1>1. Spec => Promise!Init /\ [][Promise!Next]_(Promise!promise)
  BY AlwaysSafe, InitPromise, NextPromise, PTL DEF Spec
<1> QED BY <1>1 DEF KeepsConsent, Promise!Spec

-----------------------------------------------------------------------------
(***************************************************************************)
(* What an answer served from the cache is, and what a retried `owl send`   *)
(* leaves behind.                                                           *)
(***************************************************************************)

-----------------------------------------------------------------------------
(* The cache.  What was sent stays sent, in outbox/ or in done/; so it is     *)
(* enough to follow the requests that may reach the cache: none of them       *)
(* carries a snippet, and the envelope a sender puts there is one it signed.   *)

Sent == outbox \union archive
OwnAnswer(e, S) == e \in S /\ e.q \notin Snippet

CacheSound ==
  \A h \in Hash : \/ cache[h] \in {NoEnvelope, Foreign}
                  \/ OwnAnswer(cache[h], Sent) /\ HashOf[cache[h].q] = h

LooksUp == {"threadDone", "threadInbox", "cacheGet", "sendThreadDone", "sendThreadInbox"}
Cacheing == LooksUp \union {"existing", "sign", "cachePut"}

Unsnipped(t, S) ==
  /\ t.pc \in LooksUp => t.q \notin Snippet
  /\ t.pc \in {"existing", "sign"} /\ t.op \in {"send", "auto"} => t.threaded \/ t.q \notin Snippet
  /\ t.pc = "cachePut" => OwnAnswer(t.env, S) /\ t.env.q = t.q
TasksUnsnipped == \A p \in Proc : Unsnipped(task[p], Sent)

CacheInv == CacheSound /\ TasksUnsnipped /\ HitWasSent

LEMMA QuietUnsnipped ==
  ASSUME NEW t, t.pc \notin Cacheing, NEW S
  PROVE  Unsnipped(t, S)
  BY DEF Cacheing, Unsnipped

(* One process moves, nothing sent is lost. *)
LEMMA UnsnippedBecome ==
  ASSUME TypeOK, TasksUnsnipped, Sent \subseteq Sent', NEW p \in Proc, NEW t, Become(p, t),
         Unsnipped(t, Sent')
  PROVE  TasksUnsnipped'
<1>1. task'[p] = t /\ \A r \in Proc : r # p => task'[r] = task[r]
  BY DEF TypeOK, TasksOK, Become
<1>2. \A r \in Proc : Unsnipped(task[r], Sent')
  BY DEF TasksUnsnipped, Unsnipped, OwnAnswer
<1>3. \A r \in Proc : Unsnipped(task'[r], Sent')
  BY <1>1, <1>2
<1> QED BY <1>3 DEF TasksUnsnipped, Unsnipped, OwnAnswer

LEMMA UnsnippedSame ==
  ASSUME TasksUnsnipped, Sent \subseteq Sent', task' = task
  PROVE  TasksUnsnipped'
  BY DEF TasksUnsnipped, Unsnipped, OwnAnswer

(* What a step may change of the envelopes, the cache and the hits. *)
Frame ==
  /\ Sent \subseteq Sent'
  /\ cache' = cache \/ (\E p \in Proc : CachePut(p)) \/ \E h \in Hash : StoreAnswer(h)
  /\ hits' = hits \/ \E h \in Handler : CacheGet(h)

LEMMA NextFrame == ASSUME [Next]_vars PROVE Frame
<1>1. ASSUME NEW p \in Proc, SendStep(p) PROVE Frame
  BY <1>1 DEF SendStep, Drafted, Put, SendThreadDone, SendThreadInbox, Existing, Sign, CachePut,
              CheckLog, AppendLog, Finish, Unlink, store, history, Sent, Frame
<1>2. ASSUME NEW h \in Handler,
             HandlerStep(h) \/ HandlerFails(h) \/ \E q \in Question : Post(h, q) \/ Poll(h, q)
      PROVE  Frame
  BY <1>2 DEF HandlerStep, PostThreadDone, PostThreadInbox, CacheGet, Spool, Remember, PollOutbox,
              PollDone, HandlerFails, Post, Poll, store, history, Sent, Frame
<1>3. ASSUME NEW w \in Worker, Claim(w) \/ WorkerStep(w) \/ IoFailure(w)
      PROVE  Frame
  BY <1>1, <1>3, ProcFacts DEF Claim, IoFailure, WorkerStep, AutoRead, DraftFail, Recover,
              RecoverExisting, GiveUp, store, history, Sent, Frame
<1>4. ASSUME NEW c \in Cli, CliStep(c) PROVE Frame
  BY <1>1, <1>4, ProcFacts DEF CliStep, Draft, Edit, Send, Reject, Seen, Load, Deny, Allow, List,
              TakeNext, CliExit, store, history, Sent, Frame
<1>5. ASSUME Ack \/ Expire \/ Scan \/ Restart \/ \E hash \in Hash : StoreAnswer(hash)
      PROVE  Frame
  BY <1>5 DEF Ack, Expire, Archive, Scan, Restart, StoreAnswer, store, history, Sent, Frame
<1>6. CASE UNCHANGED vars
  BY <1>6 DEF vars, store, history, Sent, Frame
<1> QED BY <1>2, <1>3, <1>4, <1>5, <1>6 DEF Next

-----------------------------------------------------------------------------
(* The cache and the hits. *)

LEMMA CacheSame ==
  ASSUME CacheSound, Sent \subseteq Sent', cache' = cache
  PROVE  CacheSound'
  BY DEF CacheSound, OwnAnswer

LEMMA CacheStep ==
  ASSUME Safe, CacheInv, [Next]_vars
  PROVE  CacheSound'
<1>1. Sent \subseteq Sent'
  BY NextFrame DEF Frame
<1>2. ASSUME NEW p \in Proc, CachePut(p) PROVE CacheSound'
  <2> DEFINE q == task[p].q
             e == task[p].env
  <2>1. q \in Question /\ task[p].pc = "cachePut"
    BY <1>2, SafeTask DEF CachePut, At
  <2>2. OwnAnswer(e, Sent) /\ e.q = q
    BY <2>1 DEF CacheInv, TasksUnsnipped, Unsnipped
  <2>3. cache' = [cache EXCEPT ![HashOf[q]] = e] /\ cache \in [Hash -> Envelope \union {NoEnvelope, Foreign}]
    BY <1>2 DEF CachePut, Safe, TypeOK, StoreOK
  <2>4. Sent' = Sent
    BY <1>2 DEF CachePut, Sent
  <2> HIDE DEF q, e
  <2>5. \A h \in Hash : cache'[h] = IF h = HashOf[q] THEN e ELSE cache[h]
    BY <2>3
  <2> QED BY <2>2, <2>4, <2>5 DEF CacheInv, CacheSound
<1>3. ASSUME NEW h \in Hash, StoreAnswer(h) PROVE CacheSound'
  <2>1. \A g \in Hash : cache'[g] = IF g = h THEN Foreign ELSE cache[g]
    BY <1>3 DEF StoreAnswer, Safe, TypeOK, StoreOK
  <2>2. Sent' = Sent
    BY <1>3 DEF StoreAnswer, Sent
  <2> QED BY <2>1, <2>2 DEF CacheInv, CacheSound
<1> QED BY <1>1, <1>2, <1>3, NextFrame, CacheSame DEF CacheInv, Frame

(* A hit is what the cache held, for a request that looked it up. *)
LEMMA HitStep ==
  ASSUME Safe, CacheInv, [Next]_vars
  PROVE  HitWasSent'
<1>1. Sent \subseteq Sent'
  BY NextFrame DEF Frame
<1>2. ASSUME hits' = hits PROVE HitWasSent'
  BY <1>1, <1>2 DEF CacheInv, HitWasSent, Sent
<1>3. ASSUME NEW h \in Handler, CacheGet(h) PROVE HitWasSent'
  <2> DEFINE q == task[h].q
             e == cache[HashOf[q]]
  <2>1. q \in Question /\ task[h].pc = "cacheGet"
    BY <1>3, SafeTask, HandlerFacts DEF CacheGet, At
  <2>2. q \notin Snippet
    BY <2>1, HandlerFacts DEF CacheInv, TasksUnsnipped, Unsnipped, LooksUp
  <2>3. HashOf[q] \in Hash
    BY <2>1, ResponderAssumption
  <2>4. hits' = hits \/ (e # NoEnvelope /\ hits' = hits \union {<<q, e>>})
    BY <1>3 DEF CacheGet
  <2>5. e \in {NoEnvelope, Foreign} \/ (OwnAnswer(e, Sent) /\ HashOf[e.q] = HashOf[q])
    BY <2>3 DEF CacheInv, CacheSound
  <2> HIDE DEF q, e
  <2>6. ASSUME e # NoEnvelope, hits' = hits \union {<<q, e>>} PROVE HitWasSent'
    <3>1. e # Foreign => e \in Sent' /\ HashOf[e.q] = HashOf[q] /\ {q, e.q} \intersect Snippet = {}
      BY <1>1, <2>2, <2>5, <2>6 DEF OwnAnswer
    <3>2. \A x \in hits : x[2] # Foreign => /\ x[2] \in Sent'
                                            /\ HashOf[x[2].q] = HashOf[x[1]]
                                            /\ {x[1], x[2].q} \intersect Snippet = {}
      BY <1>1 DEF CacheInv, HitWasSent, Sent
    <3> QED BY <2>6, <3>1, <3>2 DEF HitWasSent, Sent
  <2> QED BY <1>2, <2>4, <2>6
<1> QED BY <1>2, <1>3, NextFrame DEF Frame

-----------------------------------------------------------------------------
(* Which tasks reach a look-up or a signature. *)

LEMMA PostUnsnipped ==
  ASSUME Safe, CacheInv, Sent \subseteq Sent', NEW h \in Handler, NEW q \in Question, Post(h, q)
  PROVE  TasksUnsnipped'
<1> DEFINE m == policy[From[q]]
           looksUp == Kind[q] = "question" /\ q \notin Snippet /\ ThreadOf[q] # NoThread
           pc == IF looksUp THEN "threadDone" ELSE AfterAdmission(q, m, q \in Snippet)
           t == [Idle EXCEPT !.op = "post", !.q = q, !.mode = m, !.threaded = q \in Snippet,
                             !.pc = pc]
<1>1. Become(h, t)
  BY DEF Post
<1>2. pc \in {"threadDone", "cacheGet", "spool"} /\ (pc # "spool" => q \notin Snippet)
  BY DEF AfterAdmission
<1>3. t.pc = pc /\ t.q = q
  BY DEF Idle
<1> HIDE DEF t, pc
<1>4. Unsnipped(t, Sent')
  BY <1>2, <1>3 DEF Unsnipped, LooksUp
<1> QED BY <1>1, <1>4, HandlerFacts, UnsnippedBecome DEF Safe, CacheInv

LEMMA ThreadLookupUnsnipped ==
  ASSUME Safe, CacheInv, Sent \subseteq Sent', NEW h \in Handler,
         PostThreadDone(h) \/ PostThreadInbox(h)
  PROVE  TasksUnsnipped'
<1>1. task[h] \in Task /\ task[h].pc \in {"threadDone", "threadInbox"} /\ task[h].q \notin Snippet
  BY SafeTask, HandlerFacts DEF PostThreadDone, PostThreadInbox, At, CacheInv, TasksUnsnipped,
                                Unsnipped, LooksUp
<1>2. \E b, c : /\ c \in {"threadInbox", "cacheGet", "spool"}
                /\ Become(h, [task[h] EXCEPT !.threaded = b, !.pc = c])
  BY DEF PostThreadDone, PostThreadInbox, AfterAdmission
<1>3. \A b, c : c \in {"threadInbox", "cacheGet", "spool"} =>
        Unsnipped([task[h] EXCEPT !.threaded = b, !.pc = c], Sent')
  BY <1>1 DEF Task, Unsnipped
<1> QED BY <1>2, <1>3, HandlerFacts, UnsnippedBecome DEF Safe, CacheInv

LEMMA HandlerUnsnipped ==
  ASSUME Safe, CacheInv, Sent \subseteq Sent', NEW h \in Handler,
         HandlerStep(h) \/ HandlerFails(h) \/ \E q \in Question : Post(h, q) \/ Poll(h, q)
  PROVE  TasksUnsnipped'
<1>1. ASSUME NEW t, Become(h, t), t.pc \notin Cacheing PROVE TasksUnsnipped'
  BY <1>1, QuietUnsnipped, HandlerFacts, UnsnippedBecome DEF Safe, CacheInv
<1>2. Idle.pc \notin Cacheing
  BY DEF Idle, Cacheing, LooksUp
<1>3. CASE CacheGet(h) \/ Spool(h) \/ PollOutbox(h)
  <2>1. task[h] \in Task
    BY HandlerFacts DEF Safe, TypeOK, TasksOK
  <2>2. \/ Exit(h)
        \/ \E c \in {"spool", "remember", "taskDone"} : Become(h, [task[h] EXCEPT !.pc = c])
        \/ \E e : Become(h, [task[h] EXCEPT !.env = e, !.pc = "remember"])
    BY <1>3 DEF CacheGet, Spool, PollOutbox, Goto
  <2>3. /\ \A c \in {"spool", "remember", "taskDone"} : [task[h] EXCEPT !.pc = c].pc = c
        /\ \A e : [task[h] EXCEPT !.env = e, !.pc = "remember"].pc = "remember"
    BY <2>1 DEF Task
  <2> QED BY <1>1, <1>2, <2>2, <2>3 DEF Exit, Cacheing, LooksUp
<1>4. CASE Remember(h) \/ PollDone(h) \/ HandlerFails(h)
  BY <1>1, <1>2, <1>4 DEF Remember, PollDone, HandlerFails, Exit
<1>5. ASSUME NEW q \in Question, Poll(h, q) PROVE TasksUnsnipped'
  <2>1. task' = task \/ Become(h, [Idle EXCEPT !.op = "poll", !.q = q, !.pc = "taskOutbox"])
    BY <1>5 DEF Poll
  <2>2. [Idle EXCEPT !.op = "poll", !.q = q, !.pc = "taskOutbox"].pc \notin Cacheing
    BY DEF Idle, Cacheing, LooksUp
  <2> QED BY <1>1, <2>1, <2>2, UnsnippedSame DEF CacheInv
<1> QED BY <1>3, <1>4, <1>5, PostUnsnipped, ThreadLookupUnsnipped DEF HandlerStep

(* A process that goes to a place where it only reads, or starts over. *)
LEMMA Elsewhere2 ==
  ASSUME Safe, CacheInv, Sent \subseteq Sent', NEW p \in Proc,
         NEW c, c \notin Cacheing,
         \/ Exit(p) \/ Goto(p, c)
         \/ \E r : Become(p, [task[p] EXCEPT !.rec = r, !.pc = c])
  PROVE  TasksUnsnipped'
<1>1. ASSUME NEW t, Become(p, t), t.pc \notin Cacheing PROVE TasksUnsnipped'
  BY <1>1, QuietUnsnipped, UnsnippedBecome DEF Safe, CacheInv
<1>2. task[p] \in Task
  BY DEF Safe, TypeOK, TasksOK
<1>3. /\ Idle.pc \notin Cacheing /\ [task[p] EXCEPT !.pc = c].pc = c
      /\ \A r : [task[p] EXCEPT !.rec = r, !.pc = c].pc = c
  BY <1>2 DEF Task, Idle, Cacheing, LooksUp
<1> QED BY <1>1, <1>3 DEF Exit, Goto

LEMMA DaemonUnsnipped ==
  ASSUME Safe, CacheInv, Sent \subseteq Sent',
         Ack \/ Expire \/ Scan \/ Restart \/ \E hash \in Hash : StoreAnswer(hash)
  PROVE  TasksUnsnipped'
<1>1. CASE Restart
  <2>1. \A p \in Proc : task'[p] \in {task[p], Idle}
    BY <1>1 DEF Restart
  <2>2. \A p \in Proc : Unsnipped(task'[p], Sent')
    <3>1. Unsnipped(Idle, Sent')
      BY DEF Idle, Unsnipped, LooksUp
    <3> QED BY <2>1, <3>1 DEF CacheInv, TasksUnsnipped, Unsnipped, OwnAnswer
  <2> QED BY <2>2 DEF TasksUnsnipped, Unsnipped, OwnAnswer
<1>2. CASE ~Restart
  BY <1>2, UnsnippedSame DEF Ack, Expire, Scan, StoreAnswer, CacheInv
<1> QED BY <1>1, <1>2

LEMMA WorkerUnsnipped ==
  ASSUME Safe, CacheInv, Sent \subseteq Sent', NEW w \in Worker,
         \/ Claim(w) \/ IoFailure(w)
         \/ AutoRead(w) \/ DraftFail(w) \/ Recover(w) \/ RecoverExisting(w) \/ GiveUp(w)
  PROVE  TasksUnsnipped'
<1>1. CASE Claim(w)
  <2> DEFINE t == [Idle EXCEPT !.op = "auto", !.q = w, !.pc = "read"]
  <2>1. task' = task \/ Become(w, t)
    BY <1>1 DEF Claim
  <2>2. Unsnipped(t, Sent')
    BY DEF Idle, Unsnipped, LooksUp
  <2> HIDE DEF t
  <2> QED BY <2>1, <2>2, ProcFacts, UnsnippedBecome, UnsnippedSame DEF Safe, CacheInv
<1>2. CASE ~Claim(w)
  <2>1. \E c \in {"drafting", "recover", "recoverExisting", "giveUp"} :
          \/ Exit(w) \/ Goto(w, c)
          \/ \E r : Become(w, [task[w] EXCEPT !.rec = r, !.pc = c])
    <3>1. CASE IoFailure(w) \/ AutoRead(w) \/ GiveUp(w) \/ Recover(w)
      BY <3>1 DEF IoFailure, AutoRead, Recover, GiveUp
    <3>2. CASE DraftFail(w)
      <4>1. \E r : Become(w, [task[w] EXCEPT !.rec = r, !.pc = "giveUp"])
        BY <3>2 DEF DraftFail
      <4> QED BY <4>1
    <3>3. CASE RecoverExisting(w)
      <4>1. \E r : Become(w, [task[w] EXCEPT !.rec = r, !.pc = "giveUp"])
        BY <3>3 DEF RecoverExisting
      <4> QED BY <4>1
    <3> QED BY <1>2, <3>1, <3>2, <3>3
  <2>2. {"drafting", "recover", "recoverExisting", "giveUp"} \intersect Cacheing = {}
    BY DEF Cacheing, LooksUp
  <2> QED BY <2>1, <2>2, ProcFacts, Elsewhere2
<1> QED BY <1>1, <1>2

LEMMA CliUnsnipped ==
  ASSUME Safe, CacheInv, Sent \subseteq Sent', NEW c \in Cli,
         \/ \E q \in Question : Draft(c, q) \/ Edit(c, q) \/ Send(c, q) \/ Reject(c, q) \/ Seen(c, q)
         \/ \E peer \in Peer : Deny(c, peer) \/ \E mode \in Policies : Allow(c, peer, mode)
         \/ List(c) \/ TakeNext(c) \/ CliExit(c)
  PROVE  TasksUnsnipped'
<1>0. c \in Proc /\ task[c] \in Task
  BY ProcFacts DEF Safe, TypeOK, TasksOK
<1>1. ASSUME NEW t, Become(c, t), Unsnipped(t, Sent') PROVE TasksUnsnipped'
  BY <1>0, <1>1, UnsnippedBecome DEF Safe, CacheInv
<1>2. ASSUME NEW q \in Question,
             Draft(c, q) \/ Edit(c, q) \/ Send(c, q) \/ Reject(c, q) \/ Seen(c, q)
      PROVE  TasksUnsnipped'
  <2> DEFINE t(op, pc) == [Idle EXCEPT !.op = op, !.q = q, !.rec = inbox[q], !.pc = pc,
                             !.threaded = op = "send" /\ q \in Snippet]
  <2>1. \E op, pc : /\ Become(c, t(op, pc))
                    /\ \/ op \in {"draft", "edit"} /\ pc = "existing"
                       \/ op = "send" /\ pc = BeforeSend(q)
                       \/ pc \in {"finish", "put"}
    BY <1>2 DEF Draft, Edit, Send, Reject, Seen, Load
  <2>2. \A op, pc : /\ t(op, pc).pc = pc /\ t(op, pc).op = op /\ t(op, pc).q = q
                    /\ op = "send" /\ q \in Snippet => t(op, pc).threaded
    BY DEF Idle
  <2> HIDE DEF t
  <2>3. BeforeSend(q) \in {"sendThreadDone", "existing"}
        /\ (BeforeSend(q) = "sendThreadDone" => q \notin Snippet)
    BY DEF BeforeSend
  <2>4. PICK op, pc : /\ Become(c, t(op, pc))
                      /\ \/ op \in {"draft", "edit"} /\ pc = "existing"
                         \/ op = "send" /\ pc = BeforeSend(q)
                         \/ pc \in {"finish", "put"}
    BY <2>1
  <2>5. Unsnipped(t(op, pc), Sent')
    BY <2>2, <2>3, <2>4 DEF Unsnipped, LooksUp
  <2> QED BY <1>1, <2>4, <2>5
<1>3. CASE List(c)
  <2>1. \E S : Become(c, [task[c] EXCEPT !.todo = S, !.pc = "next"])
    BY <1>3 DEF List
  <2>2. \A S : Unsnipped([task[c] EXCEPT !.todo = S, !.pc = "next"], Sent')
    BY <1>0 DEF Task, Unsnipped, LooksUp
  <2> QED BY <1>1, <2>1, <2>2
<1>4. ASSUME NEW peer \in Peer, Deny(c, peer) \/ \E mode \in Policies : Allow(c, peer, mode)
      PROVE  TasksUnsnipped'
  <2>1. \E op : Become(c, [Idle EXCEPT !.op = op, !.todo = OfPeer(peer), !.pc = "list"])
    BY <1>4 DEF Deny, Allow
  <2>2. \A op : Unsnipped([Idle EXCEPT !.op = op, !.todo = OfPeer(peer), !.pc = "list"], Sent')
    BY DEF Idle, Unsnipped, LooksUp
  <2> QED BY <1>1, <2>1, <2>2
<1>5. CASE TakeNext(c)
  <2> DEFINE take(q) == [task[c] EXCEPT !.q = q, !.todo = @ \ {q}]
  <2>1. \/ Exit(c)
        \/ \E q \in Question : Become(c, [take(q) EXCEPT !.pc = "finish"])
        \/ \E q \in Question : \E r : Become(c, [take(q) EXCEPT !.rec = r, !.pc = "put"])
    BY <1>0, <1>5 DEF TakeNext, Task
  <2>2. /\ Unsnipped(Idle, Sent')
        /\ \A q, r : /\ Unsnipped([take(q) EXCEPT !.pc = "finish"], Sent')
                     /\ Unsnipped([take(q) EXCEPT !.rec = r, !.pc = "put"], Sent')
    BY <1>0 DEF Task, Idle, Unsnipped, LooksUp
  <2> QED BY <1>1, <2>1, <2>2 DEF Exit
<1>6. CASE CliExit(c)
  <2>1. Unsnipped(Idle, Sent')
    BY DEF Idle, Unsnipped, LooksUp
  <2> QED BY <1>1, <1>6, <2>1 DEF CliExit, Exit
<1> QED BY <1>2, <1>3, <1>4, <1>5, <1>6

LEMMA SendUnsnipped ==
  ASSUME Safe, CacheInv, Sent \subseteq Sent', NEW p \in Proc, SendStep(p)
  PROVE  TasksUnsnipped'
<1> DEFINE t == task[p]
<1>0. t \in Task /\ Sound(t, DoneIds, Logged, accepted, consented) /\ Unsnipped(t, Sent)
  BY SafeTask DEF Safe, TypeOK, TasksOK, CacheInv, TasksUnsnipped
<1>1. ASSUME NEW u, Become(p, u), Unsnipped(u, Sent') PROVE TasksUnsnipped'
  BY <1>1, UnsnippedBecome DEF Safe, CacheInv
<1>2. CASE Put(p)
  <2>1. \/ Exit(p)
        \/ Become(p, [t EXCEPT !.pc = AfterPut(t), !.threaded = t.op = "auto" /\ t.q \in Snippet])
    BY <1>2 DEF Put
  <2>2. \/ AfterPut(t) \in {"next", "idle"}
        \/ t.op = "auto" /\ AfterPut(t) = "existing"
        \/ t.op = "auto" /\ AfterPut(t) = "sendThreadDone" /\ t.q \notin Snippet
    BY DEF AfterPut, BeforeSend
  <2>3. Unsnipped([t EXCEPT !.pc = AfterPut(t), !.threaded = t.op = "auto" /\ t.q \in Snippet], Sent')
    <3>1. PICK c : c = AfterPut(t)
      OBVIOUS
    <3>2. PICK b \in BOOLEAN : b = (t.op = "auto" /\ t.q \in Snippet)
      OBVIOUS
    <3>3. /\ [t EXCEPT !.pc = c, !.threaded = b].pc = c
          /\ [t EXCEPT !.pc = c, !.threaded = b].threaded = b
          /\ [t EXCEPT !.pc = c, !.threaded = b].q = t.q
          /\ [t EXCEPT !.pc = c, !.threaded = b].op = t.op
      BY <1>0 DEF Task
    <3> HIDE DEF t
    <3> QED BY <2>2, <3>1, <3>2, <3>3 DEF Unsnipped, LooksUp
  <2>4. Unsnipped(Idle, Sent')
    BY DEF Idle, Unsnipped, LooksUp
  <2> QED BY <1>1, <2>1, <2>3, <2>4 DEF Exit
<1>3. CASE SendThreadDone(p) \/ SendThreadInbox(p)
  <2>1. t.pc \in {"sendThreadDone", "sendThreadInbox"} /\ t.q \notin Snippet
    BY <1>0, <1>3 DEF SendThreadDone, SendThreadInbox, At, Unsnipped, LooksUp
  <2>2. \E b, c : /\ c \in {"existing", "sendThreadInbox"}
                  /\ Become(p, [t EXCEPT !.threaded = b, !.pc = c])
    BY <1>3 DEF SendThreadDone, SendThreadInbox
  <2>3. \A b, c : c \in {"existing", "sendThreadInbox"} =>
          Unsnipped([t EXCEPT !.threaded = b, !.pc = c], Sent')
    BY <1>0, <2>1 DEF Task, Unsnipped
  <2> QED BY <1>1, <2>2, <2>3
<1>4. CASE Existing(p)
  <2>1. t.pc = "existing"
    BY <1>4 DEF Existing, At
  <2>2. \/ Exit(p)
        \/ \E e : Become(p, [t EXCEPT !.env = e, !.pc = "sign"]) /\ t.op \notin {"draft", "edit"}
        \/ \E e, c : c \in {"drafting", "log"} /\ Become(p, [t EXCEPT !.env = e, !.pc = c])
    BY <1>4 DEF Existing, AfterExisting
  <2>3. t.op \notin {"draft", "edit"} => t.threaded \/ t.q \notin Snippet
    BY <1>0, <2>1 DEF Sound, Positioned, Unsnipped
  <2>4. \A e : t.op \notin {"draft", "edit"} => Unsnipped([t EXCEPT !.env = e, !.pc = "sign"], Sent')
    BY <1>0, <2>3 DEF Task, Unsnipped, LooksUp
  <2>5. \A e, c : c \in {"drafting", "log"} => Unsnipped([t EXCEPT !.env = e, !.pc = c], Sent')
    BY <1>0 DEF Task, Unsnipped, LooksUp
  <2>6. Unsnipped(Idle, Sent')
    BY DEF Idle, Unsnipped, LooksUp
  <2> QED BY <1>1, <2>2, <2>4, <2>5, <2>6 DEF Exit
<1>5. CASE Sign(p)
  <2> DEFINE e == [id |-> signed + 1, q |-> t.q, text |-> t.rec.draft, mode |-> SendMode(p)]
  <2>1. /\ Become(p, [t EXCEPT !.env = e, !.pc = IF Cacheable(t) THEN "cachePut" ELSE "log"])
        /\ e \in Sent' /\ e.q = t.q /\ t.pc = "sign"
    BY <1>5 DEF Sign, Sent, At
  <2>2. Cacheable(t) => t.q \notin Snippet
    BY <1>0, <2>1 DEF Cacheable, Sound, Positioned, Unsnipped
  <2> HIDE DEF e
  <2>3. Unsnipped([t EXCEPT !.env = e, !.pc = IF Cacheable(t) THEN "cachePut" ELSE "log"], Sent')
    <3>1. PICK c \in {"cachePut", "log"} : c = IF Cacheable(t) THEN "cachePut" ELSE "log"
      OBVIOUS
    <3>2. [t EXCEPT !.env = e, !.pc = c].pc = c /\ [t EXCEPT !.env = e, !.pc = c].env = e
          /\ [t EXCEPT !.env = e, !.pc = c].q = t.q
      BY <1>0 DEF Task
    <3> QED BY <2>1, <2>2, <3>1, <3>2 DEF Unsnipped, OwnAnswer, LooksUp
  <2> QED BY <1>1, <2>1, <2>3
<1>6. CASE Drafted(p) \/ CachePut(p) \/ CheckLog(p) \/ AppendLog(p) \/ Finish(p) \/ Unlink(p)
  <2>1. \E c \in {"put", "log", "finish", "append", "unlink", "recover", "next"} :
          \/ Exit(p) \/ Goto(p, c)
          \/ \E r : Become(p, [t EXCEPT !.rec = r, !.pc = c])
    <3>1. CASE Drafted(p)
      <4>1. \E r : Become(p, [t EXCEPT !.rec = r, !.pc = "put"])
        BY <3>1 DEF Drafted
      <4> QED BY <4>1
    <3>2. CASE ~Drafted(p)
      BY <1>6, <3>2 DEF CachePut, CheckLog, AppendLog, Finish, Unlink
    <3> QED BY <3>1, <3>2
  <2>2. {"put", "log", "finish", "append", "unlink", "recover", "next"} \intersect Cacheing = {}
    BY DEF Cacheing, LooksUp
  <2> QED BY <2>1, <2>2, Elsewhere2
<1> QED BY <1>2, <1>3, <1>4, <1>5, <1>6 DEF SendStep

LEMMA InitCache == Init => CacheInv
<1> SUFFICES ASSUME Init PROVE CacheInv
  OBVIOUS
<1>1. CacheSound
  BY DEF Init, CacheSound
<1>2. TasksUnsnipped
  BY DEF Init, TasksUnsnipped, Unsnipped, Idle, LooksUp
<1> QED BY <1>1, <1>2 DEF Init, CacheInv, HitWasSent

LEMMA NextCache == Safe /\ CacheInv /\ [Next]_vars => CacheInv'
<1> SUFFICES ASSUME Safe, CacheInv, [Next]_vars PROVE TasksUnsnipped'
  BY CacheStep, HitStep DEF CacheInv
<1>0. Sent \subseteq Sent'
  BY NextFrame DEF Frame
<1>1. ASSUME NEW w \in Worker, Claim(w) \/ WorkerStep(w) \/ IoFailure(w)
      PROVE  TasksUnsnipped'
  BY <1>0, <1>1, WorkerUnsnipped, SendUnsnipped, ProcFacts DEF WorkerStep
<1>2. ASSUME NEW c \in Cli, CliStep(c)
      PROVE  TasksUnsnipped'
  BY <1>0, <1>2, CliUnsnipped, SendUnsnipped, ProcFacts DEF CliStep
<1>3. CASE UNCHANGED vars
  BY <1>0, <1>3, UnsnippedSame DEF vars, CacheInv
<1> QED BY <1>0, <1>1, <1>2, <1>3, HandlerUnsnipped, DaemonUnsnipped DEF Next

(* An answer served from the cache was received for a question of this machine's  *)
(* own, or was sent to a question with the same hash, with no snippet on either    *)
(* side: whatever threads, failed sends, acks and other processes there are.       *)
THEOREM HitsWereSent == Spec => []HitWasSent
<1>1. Spec => []CacheInv
  BY AlwaysSafe, InitCache, NextCache, PTL DEF Spec
<1> QED BY <1>1, PTL DEF CacheInv

-----------------------------------------------------------------------------
(* A retried `owl send`, with one command at a time and nobody answered        *)
(* unattended.  Only the command signs then, and what it works on agrees with   *)
(* the envelope that waits in outbox/, if there is one: an existing envelope    *)
(* stops a new text, and without one nothing of the request was logged that is   *)
(* not in done/.                                                                *)

OneCommand == \A c, d \in Cli : c = d
Attended ==
  /\ "auto" \notin Policies
  /\ \A q \in Question : Kind[q] = "question" => InitPolicy[From[q]] # "auto"

(* Nobody but the command gets beyond a look at the record. *)
WorkersIdle ==
  /\ \A q \in Question : Kind[q] = "question" => policy[From[q]] # "auto"
  /\ \A w \in Worker : task[w].pc \in {"idle", "read"}

Copying == {"existing", "sendThreadDone", "sendThreadInbox", "put"}
Unsent(t) == t.pc \in {"sign", "drafting"} \/ (t.pc = "put" /\ t.op \in {"draft", "edit"})

(* What the command knows, of the envelopes waiting in B, the sent ones in S, the *)
(* records I and the log L.                                                      *)
Retrying(t, B, S, I, L) ==
  /\ t.op # "auto"
  /\ t.pc \in Copying => \A e \in B : e.q = t.q => t.rec.draft \in {0, e.text}
  /\ t.op = "send" /\ t.pc \in Copying \union {"sign"} =>
       t.rec.draft # 0 /\ I[t.q].draft \in {0, t.rec.draft}
  /\ Unsent(t) => \A e \in B : e.q # t.q
  /\ t.pc \in {"cachePut", "log", "append"} => \E e \in S : e.q = t.q /\ e.text = t.rec.draft
  /\ t.pc = "append" => L[t.q] = <<>>
TasksRetry == \A c \in Cli : Retrying(task[c], outbox, Sent, inbox, log)

OutboxSingle == \A e, f \in outbox : e.q = f.q => e = f
DraftStands == \A e \in outbox : inbox[e.q].draft \in {0, e.text}
RetryStore == OutboxSingle /\ DraftStands /\ LoggedOnce /\ LogSaysWhatWasSent

RetryInv == WorkersIdle /\ TasksRetry /\ RetryStore

-----------------------------------------------------------------------------

(* The store when nobody signs, logs or writes a text. *)
Calm ==
  /\ outbox' \subseteq outbox /\ Sent \subseteq Sent' /\ log' = log
  /\ \A q \in Question : inbox'[q].draft \in {0, inbox[q].draft}

LEMMA CalmStore ==
  ASSUME TypeOK, RetryStore, Calm
  PROVE  RetryStore'
<1>1. OutboxSingle' /\ LoggedOnce'
  BY DEF RetryStore, Calm, OutboxSingle, LoggedOnce
<1>2. DraftStands'
  <2>1. \A e \in outbox : e.q \in Question
    BY DEF TypeOK, StoreOK, Envelope
  <2> QED BY <2>1 DEF RetryStore, Calm, DraftStands
<1>3. LogSaysWhatWasSent'
  BY DEF RetryStore, Calm, LogSaysWhatWasSent, EnvelopeOf, Sent
<1> QED BY <1>1, <1>2, <1>3 DEF RetryStore

LEMMA CalmRetrying ==
  ASSUME Calm, NEW t, t.q \in Question \/ t.pc \in {"idle", "list", "next"},
         Retrying(t, outbox, Sent, inbox, log)
  PROVE  Retrying(t, outbox', Sent', inbox', log')
  BY DEF Calm, Retrying, Copying, Unsent

(* A step of another process. *)
LEMMA OthersRetry ==
  ASSUME TypeOK, RetryInv, Calm, \A c \in Cli : task'[c] = task[c]
  PROVE  TasksRetry' /\ RetryStore'
<1>1. \A c \in Cli : task[c].q \in Question \/ task[c].pc \in {"idle", "list", "next"}
  BY ProcFacts DEF TypeOK, TasksOK, AtWork
<1>2. \A c \in Cli : Retrying(task[c], outbox', Sent', inbox', log')
  BY <1>1, CalmRetrying DEF RetryInv, TasksRetry
<1> QED BY <1>2, CalmStore DEF RetryInv, TasksRetry

(* The command moves, and it is the only one. *)
LEMMA RetryBecome ==
  ASSUME TypeOK, OneCommand, RetryInv, UNCHANGED policy, NEW c \in Cli, NEW t, Become(c, t),
         Retrying(t, outbox', Sent', inbox', log')
  PROVE  TasksRetry' /\ WorkersIdle'
<1>1. task'[c] = t /\ \A r \in Proc : r # c => task'[r] = task[r]
  BY ProcFacts DEF TypeOK, TasksOK, Become
<1>2. TasksRetry'
  BY <1>1 DEF OneCommand, TasksRetry
<1>3. WorkersIdle'
  BY <1>1, ResponderAssumption, ProcFacts DEF RetryInv, WorkersIdle
<1> QED BY <1>2, <1>3

LEMMA IdleRetrying ==
  ASSUME NEW B, NEW S, NEW I, NEW L
  PROVE  Retrying(Idle, B, S, I, L)
  BY DEF Idle, Retrying, Copying, Unsent

-----------------------------------------------------------------------------
(* The handlers, the workers and the daemon. *)

LEMMA WorkersStay ==
  ASSUME RetryInv, UNCHANGED policy, \A w \in Worker : task'[w] \in {task[w], Idle}
  PROVE  WorkersIdle'
  BY DEF RetryInv, WorkersIdle, Idle

LEMMA HandlerRetry ==
  ASSUME Safe, RetryInv, NEW h \in Handler,
         HandlerStep(h) \/ HandlerFails(h) \/ \E q \in Question : Post(h, q) \/ Poll(h, q)
  PROVE  RetryInv'
<1>1. task' = task \/ \E t : Become(h, t)
  BY DEF HandlerStep, PostThreadDone, PostThreadInbox, CacheGet, Spool, Remember, PollOutbox,
         PollDone, HandlerFails, Post, Poll, Goto, Exit
<1>2. \A r \in Proc : r # h => task'[r] = task[r]
  BY <1>1 DEF Become, Safe, TypeOK, TasksOK
<1>3. UNCHANGED policy
  BY DEF HandlerStep, PostThreadDone, PostThreadInbox, CacheGet, Spool, Remember, PollOutbox,
         PollDone, HandlerFails, Post, Poll, daemon
<1>4. WorkersIdle'
  BY <1>2, <1>3, HandlerFacts, ProcFacts, WorkersStay
<1>5. Calm
  <2>1. CASE Spool(h)
    <3> DEFINE q == task[h].q
               r == [NoRecord EXCEPT !.state = RecordState(q, task[h].mode)]
    <3>1. q \in Question /\ inbox' = [inbox EXCEPT ![q] = r] /\ r.draft = 0
      BY <2>1, SafeTask, HandlerFacts DEF Spool, At, PutInbox, NoRecord
    <3> HIDE DEF r, q
    <3>2. \A x \in Question : inbox'[x].draft \in {0, inbox[x].draft}
      BY <3>1 DEF Safe, TypeOK, StoreOK
    <3> QED BY <2>1, <3>2 DEF Spool, Calm, Sent
  <2>2. CASE ~Spool(h)
    <3>1. UNCHANGED <<inbox, outbox, archive, log>>
      BY <2>2 DEF HandlerStep, PostThreadDone, PostThreadInbox, CacheGet, Remember, PollOutbox,
                  PollDone, HandlerFails, Post, Poll, store
    <3> QED BY <3>1 DEF Calm, Sent
  <2> QED BY <2>1, <2>2
<1> QED BY <1>2, <1>4, <1>5, OthersRetry, ResponderAssumption, ProcFacts DEF Safe, RetryInv

(* The scheduler takes nobody on. *)
LEMMA WorkerRetry ==
  ASSUME Safe, RetryInv, NEW w \in Worker, Claim(w) \/ WorkerStep(w) \/ IoFailure(w)
  PROVE  RetryInv'
<1>1. task[w].pc \in {"idle", "read"} /\ w \in Question /\ w \in Proc
  BY ProcFacts DEF RetryInv, WorkersIdle
<1>2. Claim(w) \/ IoFailure(w) \/ AutoRead(w)
  BY <1>1 DEF WorkerStep, SendStep, DraftFail, Recover, RecoverExisting, GiveUp, Drafted, Put,
              SendThreadDone, SendThreadInbox, Existing, Sign, CachePut, CheckLog, AppendLog,
              Finish, Unlink, At
<1>3. UNCHANGED <<store, policy>>
  BY <1>2 DEF Claim, IoFailure, AutoRead, daemon
<1>4. ~Candidate(w, inbox[w])
  BY <1>1 DEF Candidate, RetryInv, WorkersIdle
<1>5. task' = task \/ Exit(w) \/ Become(w, [Idle EXCEPT !.op = "auto", !.q = w, !.pc = "read"])
  BY <1>1, <1>2, <1>4 DEF Claim, IoFailure, AutoRead, SendPc, At
<1>6. task'[w].pc \in {"idle", "read"} /\ \A r \in Proc : r # w => task'[r] = task[r]
  <2>1. [Idle EXCEPT !.op = "auto", !.q = w, !.pc = "read"].pc = "read" /\ Idle.pc = "idle"
    BY DEF Idle
  <2> QED BY <1>1, <1>5, <2>1 DEF Exit, Become, Safe, TypeOK, TasksOK
<1>7. WorkersIdle'
  BY <1>3, <1>6, ProcFacts DEF RetryInv, WorkersIdle
<1>8. Calm
  BY <1>3 DEF store, Calm, Sent
<1> QED BY <1>6, <1>7, <1>8, OthersRetry, ResponderAssumption, ProcFacts DEF Safe, RetryInv

LEMMA DaemonRetry ==
  ASSUME Safe, RetryInv, Ack \/ Expire \/ Scan \/ Restart \/ \E hash \in Hash : StoreAnswer(hash)
  PROVE  RetryInv'
<1>1. \A p \in Proc : task'[p] = task[p] \/ (p \notin Cli /\ task'[p] = Idle)
  BY DEF Ack, Expire, Scan, Restart, StoreAnswer
<1>2. UNCHANGED policy
  BY DEF Ack, Expire, Scan, Restart, StoreAnswer, daemon
<1>3. Calm
  <2>1. outbox' \subseteq outbox /\ Sent' = Sent /\ UNCHANGED <<inbox, log>>
    BY DEF Ack, Expire, Archive, Scan, Restart, StoreAnswer, store, Sent
  <2> QED BY <2>1 DEF Calm
<1>4. WorkersIdle'
  BY <1>1, <1>2, ProcFacts, WorkersStay
<1> QED BY <1>1, <1>3, <1>4, OthersRetry, ProcFacts DEF Safe, RetryInv

-----------------------------------------------------------------------------
(* The command. *)

(* A step of the command that leaves the store as it is. *)
LEMMA RetryMove ==
  ASSUME Safe, OneCommand, RetryInv, UNCHANGED <<inbox, outbox, archive, log, policy>>,
         NEW c \in Cli, NEW t, Become(c, t), Retrying(t, outbox, Sent, inbox, log)
  PROVE  RetryInv'
<1>1. Calm
  BY DEF Calm, Sent
<1>2. Retrying(t, outbox', Sent', inbox', log')
  BY DEF Sent
<1> QED BY <1>1, <1>2, CalmStore, RetryBecome DEF Safe, RetryInv

LEMMA LoadRetry ==
  ASSUME Safe, OneCommand, RetryInv, NEW c \in Cli, NEW q \in Question,
         Draft(c, q) \/ Edit(c, q) \/ Send(c, q) \/ Reject(c, q) \/ Seen(c, q)
  PROVE  RetryInv'
<1> DEFINE t(op, pc) == [Idle EXCEPT !.op = op, !.q = q, !.rec = inbox[q], !.pc = pc,
                           !.threaded = op = "send" /\ q \in Snippet]
<1>1. /\ UNCHANGED <<inbox, outbox, archive, log, policy>>
      /\ \E op, pc : /\ Become(c, t(op, pc))
                     /\ \/ op \in {"draft", "edit"} /\ pc = "existing"
                        \/ op = "send" /\ pc = BeforeSend(q) /\ SendGate(inbox[q])
                        \/ op = "reject" /\ pc = "finish"
                        \/ op = "seen" /\ pc = "put"
  BY DEF Draft, Edit, Send, Reject, Seen, Load, store, daemon
<1>2. PICK op, pc : /\ Become(c, t(op, pc))
                    /\ \/ op \in {"draft", "edit"} /\ pc = "existing"
                       \/ op = "send" /\ pc = BeforeSend(q) /\ SendGate(inbox[q])
                       \/ op = "reject" /\ pc = "finish"
                       \/ op = "seen" /\ pc = "put"
  BY <1>1
<1>3. t(op, pc).pc = pc /\ t(op, pc).op = op /\ t(op, pc).q = q /\ t(op, pc).rec = inbox[q]
  BY DEF Idle
<1> HIDE DEF t
<1>4. \A e \in outbox : e.q = q => inbox[q].draft \in {0, e.text}
  BY DEF RetryInv, RetryStore, DraftStands
<1>5. BeforeSend(q) \in {"sendThreadDone", "existing"} /\ (SendGate(inbox[q]) => inbox[q].draft # 0)
  BY DEF BeforeSend, SendGate
<1>6. Retrying(t(op, pc), outbox, Sent, inbox, log)
  BY <1>2, <1>3, <1>4, <1>5 DEF Retrying, Copying, Unsent
<1> QED BY <1>1, <1>2, <1>6, RetryMove

(* `owl allow` and `owl deny`: what they write back is a copy just read. *)
LEMMA OwnerPolicyRetry ==
  ASSUME Safe, OneCommand, Attended, RetryInv, NEW c \in Cli,
         \E peer \in Peer : Deny(c, peer) \/ \E mode \in Policies : Allow(c, peer, mode)
  PROVE  RetryInv'
<1> DEFINE t(op, peer) == [Idle EXCEPT !.op = op, !.todo = OfPeer(peer), !.pc = "list"]
<1>1. PICK peer \in Peer : Deny(c, peer) \/ \E mode \in Policies : Allow(c, peer, mode)
  OBVIOUS
<1>2. PICK op \in {"allow", "deny"} : Become(c, t(op, peer))
  BY <1>1 DEF Deny, Allow
<1>3. t(op, peer).pc = "list" /\ t(op, peer).op = op
  BY DEF Idle
<1> HIDE DEF t
<1>4. \A r \in Proc : r # c => task'[r] = task[r]
  BY <1>2 DEF Become, Safe, TypeOK, TasksOK
<1>5. \A q \in Question : Kind[q] = "question" => policy'[From[q]] # "auto"
  <2>1. policy' = policy \/ \E mode \in {"never"} \union Policies : policy' = [policy EXCEPT ![peer] = mode]
    BY <1>1 DEF Deny, Allow
  <2>2. \A q \in Question : From[q] \in Peer
    BY ResponderAssumption
  <2> QED BY <2>1, <2>2 DEF Attended, RetryInv, WorkersIdle, Safe, TypeOK, DaemonOK
<1>6. WorkersIdle'
  BY <1>4, <1>5, ResponderAssumption, ProcFacts DEF RetryInv, WorkersIdle
<1>7. UNCHANGED <<inbox, outbox, archive, log>>
  BY <1>1 DEF Deny, Allow, store
<1>8. TasksRetry'
  <2>1. task'[c] = t(op, peer)
    BY <1>2, ProcFacts DEF Become, Safe, TypeOK, TasksOK
  <2>2. Retrying(t(op, peer), outbox', Sent', inbox', log')
    BY <1>3 DEF Retrying, Copying, Unsent
  <2> QED BY <2>1, <2>2 DEF OneCommand, TasksRetry
<1>9. RetryStore'
  BY <1>7, CalmStore DEF Calm, Sent, Safe, RetryInv
<1> QED BY <1>6, <1>8, <1>9 DEF RetryInv

LEMMA BulkRetry ==
  ASSUME Safe, OneCommand, RetryInv, NEW c \in Cli, List(c) \/ TakeNext(c) \/ CliExit(c)
  PROVE  RetryInv'
<1> DEFINE take(q) == [task[c] EXCEPT !.q = q, !.todo = @ \ {q}]
           put(q) == [take(q) EXCEPT !.rec = [inbox[q] EXCEPT !.state = "pending"], !.pc = "put"]
<1>1. /\ task[c] \in Task /\ c \in Proc /\ task[c].op # "auto"
      /\ UNCHANGED <<inbox, outbox, archive, log, policy>>
  BY ProcFacts DEF Safe, TypeOK, TasksOK, RetryInv, TasksRetry, Retrying, List, TakeNext, CliExit,
                   store, daemon
<1>2. \/ Exit(c)
      \/ \E S : Become(c, [task[c] EXCEPT !.todo = S, !.pc = "next"])
      \/ \E q \in Question : Become(c, [take(q) EXCEPT !.pc = "finish"])
      \/ \E q \in Question : Become(c, put(q)) /\ task[c].op = "allow"
  BY <1>1 DEF List, TakeNext, CliExit, Task
<1>3. CASE Exit(c)
  BY <1>1, <1>3, IdleRetrying, RetryMove DEF Exit
<1>4. \A S : Retrying([task[c] EXCEPT !.todo = S, !.pc = "next"], outbox, Sent, inbox, log)
  BY <1>1 DEF Task, Retrying, Copying, Unsent
<1>5. \A q : Retrying([take(q) EXCEPT !.pc = "finish"], outbox, Sent, inbox, log)
  BY <1>1 DEF Task, Retrying, Copying, Unsent
<1>6. ASSUME NEW q \in Question, Become(c, put(q)), task[c].op = "allow"
      PROVE  RetryInv'
  <2>1. /\ put(q).pc = "put" /\ put(q).op = "allow" /\ put(q).q = q
        /\ put(q).rec = [inbox[q] EXCEPT !.state = "pending"]
    BY <1>1, <1>6 DEF Task
  <2>2. put(q).rec.draft = inbox[q].draft
    BY <2>1 DEF Safe, TypeOK, StoreOK, Record
  <2> HIDE DEF put
  <2>3. \A e \in outbox : e.q = q => inbox[q].draft \in {0, e.text}
    BY DEF RetryInv, RetryStore, DraftStands
  <2>4. Retrying(put(q), outbox, Sent, inbox, log)
    BY <2>1, <2>2, <2>3 DEF Retrying, Copying, Unsent
  <2> QED BY <1>1, <1>6, <2>4, RetryMove
<1> HIDE DEF take
<1> QED BY <1>1, <1>2, <1>3, <1>4, <1>5, <1>6, RetryMove

-----------------------------------------------------------------------------
(* The steps from a draft to the end. *)

LEMMA DraftRetry ==
  ASSUME Safe, OneCommand, RetryInv, NEW c \in Cli,
         Drafted(c) \/ SendThreadDone(c) \/ SendThreadInbox(c) \/ Existing(c)
  PROVE  RetryInv'
<1> DEFINE t == task[c]
<1>1. /\ t \in Task /\ c \in Proc /\ t.op # "auto" /\ Sound(t, DoneIds, Logged, accepted, consented)
      /\ UNCHANGED <<inbox, outbox, archive, log, policy>>
      /\ Retrying(t, outbox, Sent, inbox, log)
  BY ProcFacts, SafeTask DEF Safe, TypeOK, TasksOK, RetryInv, TasksRetry, Retrying, Drafted,
                   SendThreadDone, SendThreadInbox, Existing, store, daemon
<1>2. CASE Drafted(c)
  <2>1. t.pc = "drafting" /\ t.op \in {"draft", "edit"} /\ \A e \in outbox : e.q # t.q
    BY <1>1, <1>2 DEF Drafted, At, Sound, Positioned, Retrying, Unsent
  <2>2. \E r : Become(c, [t EXCEPT !.rec = r, !.pc = "put"])
    BY <1>2 DEF Drafted
  <2>3. \A r : Retrying([t EXCEPT !.rec = r, !.pc = "put"], outbox, Sent, inbox, log)
    BY <1>1, <2>1 DEF Task, Retrying, Copying, Unsent
  <2> QED BY <1>1, <2>2, <2>3, RetryMove
<1>3. CASE SendThreadDone(c) \/ SendThreadInbox(c)
  <2>1. t.pc \in {"sendThreadDone", "sendThreadInbox"} /\ t.op = "send"
    BY <1>1, <1>3 DEF SendThreadDone, SendThreadInbox, At, Sound, Positioned
  <2>2. \E b, pc : /\ pc \in {"existing", "sendThreadInbox"}
                   /\ Become(c, [t EXCEPT !.threaded = b, !.pc = pc])
    BY <1>3 DEF SendThreadDone, SendThreadInbox
  <2>3. \A b, pc : pc \in {"existing", "sendThreadInbox"} =>
          Retrying([t EXCEPT !.threaded = b, !.pc = pc], outbox, Sent, inbox, log)
    BY <1>1, <2>1 DEF Task, Retrying, Copying, Unsent
  <2> QED BY <1>1, <2>2, <2>3, RetryMove
<1>4. CASE Existing(c)
  <2>1. t.pc = "existing" /\ t.op \in {"draft", "edit", "send"}
    BY <1>1, <1>4 DEF Existing, At, Sound, Positioned
  <2>2. \/ Exit(c)
        \/ /\ OutboxOf(t.q) = {}
           /\ \E pc : /\ pc = (IF t.op \in {"draft", "edit"} THEN "drafting" ELSE "sign")
                      /\ Become(c, [t EXCEPT !.env = NoEnvelope, !.pc = pc])
        \/ \E e \in OutboxOf(t.q) : t.op = "send" /\ Become(c, [t EXCEPT !.env = e, !.pc = "log"])
    BY <1>4, <2>1 DEF Existing, ExistingAnswers, AfterExisting
  <2>3. CASE OutboxOf(t.q) = {}
    <3>1. \A e \in outbox : e.q # t.q
      BY <2>3 DEF OutboxOf
    <3>2. Retrying([t EXCEPT !.env = NoEnvelope,
                             !.pc = IF t.op \in {"draft", "edit"} THEN "drafting" ELSE "sign"],
                   outbox, Sent, inbox, log)
      BY <1>1, <2>1, <3>1 DEF Task, Retrying, Copying, Unsent
    <3> QED BY <1>1, <2>2, <2>3, <3>2, IdleRetrying, RetryMove DEF Exit
  <2>4. ASSUME NEW e \in OutboxOf(t.q), t.op = "send", Become(c, [t EXCEPT !.env = e, !.pc = "log"])
        PROVE  RetryInv'
    <3>1. e \in Sent /\ e.q = t.q /\ e.text = t.rec.draft
      BY <1>1, <2>1, <2>4 DEF OutboxOf, Sent, Retrying, Copying
    <3>2. Retrying([t EXCEPT !.env = e, !.pc = "log"], outbox, Sent, inbox, log)
      BY <1>1, <2>4, <3>1 DEF Task, Retrying, Copying, Unsent
    <3> QED BY <1>1, <2>4, <3>2, RetryMove
  <2>5. CASE Exit(c)
    BY <1>1, <2>5, IdleRetrying, RetryMove DEF Exit
  <2> QED BY <2>2, <2>3, <2>4, <2>5
<1> QED BY <1>2, <1>3, <1>4

LEMMA PutRetry ==
  ASSUME Safe, OneCommand, RetryInv, NEW c \in Cli, Put(c)
  PROVE  RetryInv'
<1> DEFINE t == task[c]
           q == t.q
           r == t.rec
<1>1. /\ t \in Task /\ q \in Question /\ t.pc = "put" /\ t.op # "auto"
      /\ Retrying(t, outbox, Sent, inbox, log)
  BY ProcFacts, SafeTask DEF RetryInv, TasksRetry, Retrying, Put, At
<1>2. /\ inbox' = [inbox EXCEPT ![q] = r] /\ inbox \in [Question -> Record]
      /\ UNCHANGED <<outbox, archive, log, policy>>
  BY DEF Put, PutInbox, Safe, TypeOK, StoreOK, daemon
<1>3. Exit(c) \/ \E b : Become(c, [t EXCEPT !.pc = "next", !.threaded = b])
  BY <1>1 DEF Put, AfterPut
<1>4. /\ Retrying(Idle, outbox', Sent', inbox', log')
      /\ \A b : Retrying([t EXCEPT !.pc = "next", !.threaded = b], outbox', Sent', inbox', log')
  BY <1>1, IdleRetrying DEF Task, Retrying, Copying, Unsent
<1>5. \A e \in outbox : e.q = q => r.draft \in {0, e.text}
  BY <1>1 DEF Retrying, Copying
<1>6. TasksRetry' /\ WorkersIdle'
  BY <1>2, <1>3, <1>4, RetryBecome DEF Safe, Exit
<1> HIDE DEF q, r
<1>7. DraftStands'
  <2>1. \A e \in outbox : e.q \in Question
    BY DEF Safe, TypeOK, StoreOK, Envelope
  <2> QED BY <1>1, <1>2, <1>5, <2>1 DEF RetryInv, RetryStore, DraftStands
<1>8. OutboxSingle' /\ LoggedOnce' /\ LogSaysWhatWasSent'
  BY <1>2 DEF RetryInv, RetryStore, OutboxSingle, LoggedOnce, LogSaysWhatWasSent, EnvelopeOf
<1> QED BY <1>6, <1>7, <1>8 DEF RetryInv, RetryStore

(* The signature: nothing of the request waits in outbox/. *)
LEMMA SignRetry ==
  ASSUME Safe, OneCommand, RetryInv, NEW c \in Cli, Sign(c)
  PROVE  RetryInv'
<1> DEFINE t == task[c]
           e == [id |-> signed + 1, q |-> t.q, text |-> t.rec.draft, mode |-> SendMode(c)]
<1>1. /\ t \in Task /\ t.q \in Question /\ t.pc = "sign" /\ t.op = "send"
      /\ Retrying(t, outbox, Sent, inbox, log)
  BY ProcFacts, SafeTask DEF RetryInv, TasksRetry, Retrying, Sign, At, Sound, Positioned
<1>2. /\ outbox' = outbox \union {e} /\ UNCHANGED <<inbox, archive, log, policy>>
      /\ Become(c, [t EXCEPT !.env = e, !.pc = IF Cacheable(t) THEN "cachePut" ELSE "log"])
      /\ e.q = t.q /\ e.text = t.rec.draft
  BY DEF Sign, daemon
<1>3. /\ \A f \in outbox : f.q # t.q
      /\ inbox[t.q].draft \in {0, t.rec.draft}
  BY <1>1 DEF Retrying, Unsent
<1> HIDE DEF e
<1>4. Retrying([t EXCEPT !.env = e, !.pc = IF Cacheable(t) THEN "cachePut" ELSE "log"],
               outbox', Sent', inbox', log')
  <2>1. e \in Sent'
    BY <1>2 DEF Sent
  <2> QED BY <1>1, <1>2, <2>1 DEF Task, Retrying, Copying, Unsent
<1>5. TasksRetry' /\ WorkersIdle'
  BY <1>2, <1>4, RetryBecome DEF Safe
<1>6. OutboxSingle' /\ DraftStands'
  BY <1>2, <1>3 DEF RetryInv, RetryStore, OutboxSingle, DraftStands
<1>7. LoggedOnce' /\ LogSaysWhatWasSent'
  BY <1>2 DEF RetryInv, RetryStore, LoggedOnce, LogSaysWhatWasSent, EnvelopeOf
<1> QED BY <1>5, <1>6, <1>7 DEF RetryInv, RetryStore

LEMMA AppendRetry ==
  ASSUME Safe, OneCommand, RetryInv, NEW c \in Cli, AppendLog(c)
  PROVE  RetryInv'
<1> DEFINE t == task[c]
           q == t.q
           line == [text |-> t.rec.draft, mode |-> SendMode(c)]
<1>1. /\ t \in Task /\ q \in Question /\ t.pc = "append"
      /\ Retrying(t, outbox, Sent, inbox, log)
  BY ProcFacts, SafeTask DEF RetryInv, TasksRetry, Retrying, AppendLog, At
<1>2. /\ log' = [log EXCEPT ![q] = Append(log[q], line)] /\ line.text = t.rec.draft
      /\ log \in [Question -> Seq(Line)] /\ UNCHANGED <<inbox, outbox, archive, policy>>
      /\ Become(c, [t EXCEPT !.pc = "finish"])
  BY DEF AppendLog, Safe, TypeOK, StoreOK, Goto, daemon
<1>3. log[q] = <<>> /\ \E e \in Sent : e.q = q /\ e.text = t.rec.draft
  BY <1>1 DEF Retrying
<1>4. Retrying([t EXCEPT !.pc = "finish"], outbox', Sent', inbox', log')
  BY <1>1 DEF Task, Retrying, Copying, Unsent
<1>5. TasksRetry' /\ WorkersIdle'
  BY <1>2, <1>4, RetryBecome DEF Safe
<1> HIDE DEF q, line
<1>6. log'[q] = <<line>> /\ \A x \in Question : x # q => log'[x] = log[x]
  BY <1>1, <1>2, <1>3
<1>7. LoggedOnce'
  <2>1. Len(<<line>>) = 1
    OBVIOUS
  <2>2. Len(log'[q]) <= 1
    BY <1>6, <2>1
  <2>3. \A x \in Question : Len(log[x]) <= 1
    BY DEF RetryInv, RetryStore, LoggedOnce
  <2>4. \A x \in Question : Len(log'[x]) <= 1
    BY <1>6, <2>2, <2>3
  <2> QED BY <2>4 DEF LoggedOnce
<1>8. LogSaysWhatWasSent'
  <2>1. \A x : EnvelopeOf(x)' = EnvelopeOf(x) /\ EnvelopeOf(x) = {e \in Sent : e.q = x}
    BY <1>2 DEF EnvelopeOf, Sent
  <2>2. \A i \in DOMAIN log'[q] : log'[q][i] = line
    BY <1>6
  <2>3. \A i \in DOMAIN log'[q] : \E e \in EnvelopeOf(q) : e.text = log'[q][i].text
    BY <1>2, <1>3, <2>1, <2>2
  <2> QED BY <1>6, <2>1, <2>3 DEF RetryInv, RetryStore, LogSaysWhatWasSent
<1>9. OutboxSingle' /\ DraftStands'
  BY <1>2 DEF RetryInv, RetryStore, OutboxSingle, DraftStands
<1> QED BY <1>5, <1>7, <1>8, <1>9 DEF RetryInv, RetryStore

LEMMA FinishRetry ==
  ASSUME Safe, OneCommand, RetryInv, NEW c \in Cli,
         CachePut(c) \/ CheckLog(c) \/ Finish(c) \/ Unlink(c)
  PROVE  RetryInv'
<1> DEFINE t == task[c]
<1>1. /\ t \in Task /\ t.q \in Question /\ t.op # "auto"
      /\ Retrying(t, outbox, Sent, inbox, log)
  BY ProcFacts, SafeTask DEF RetryInv, TasksRetry, Retrying, CachePut, CheckLog, Finish, Unlink, At
<1>2. CASE CachePut(c) \/ CheckLog(c)
  <2>1. /\ UNCHANGED <<inbox, outbox, archive, log, policy>>
        /\ t.pc \in {"cachePut", "log"}
        /\ \E pc \in {"log", "append", "finish"} :
             /\ pc = "append" => log[t.q] = <<>>
             /\ Become(c, [t EXCEPT !.pc = pc])
    BY <1>2 DEF CachePut, CheckLog, HasOutgoingLine, Goto, At, store, daemon
  <2>2. \A pc \in {"log", "append", "finish"} :
          (pc = "append" => log[t.q] = <<>>) =>
            Retrying([t EXCEPT !.pc = pc], outbox, Sent, inbox, log)
    BY <1>1, <2>1 DEF Task, Retrying, Copying, Unsent
  <2> QED BY <2>1, <2>2, RetryMove
<1>3. CASE Finish(c)
  <2>1. Retrying([t EXCEPT !.pc = "unlink"], outbox, Sent, inbox, log)
    BY <1>1 DEF Task, Retrying, Copying, Unsent
  <2> QED BY <1>3, <2>1, RetryMove DEF Finish, Goto, daemon
<1>4. CASE Unlink(c)
  <2>1. Exit(c) \/ Become(c, [t EXCEPT !.pc = "next"])
    BY <1>1, <1>4 DEF Unlink, Goto
  <2>2. /\ Retrying(Idle, outbox', Sent', inbox', log')
        /\ Retrying([t EXCEPT !.pc = "next"], outbox', Sent', inbox', log')
    BY <1>1, IdleRetrying DEF Task, Retrying, Copying, Unsent
  <2>3. UNCHANGED policy
    BY <1>4 DEF Unlink, daemon
  <2>4. TasksRetry' /\ WorkersIdle'
    BY <2>1, <2>2, <2>3, RetryBecome DEF Safe, Exit
  <2>5. Calm
    BY <1>1, <1>4 DEF Unlink, PutInbox, NoRecord, Safe, TypeOK, StoreOK, Calm, Sent
  <2> QED BY <2>4, <2>5, CalmStore DEF Safe, RetryInv
<1> QED BY <1>2, <1>3, <1>4

LEMMA CommandRetry ==
  ASSUME Safe, OneCommand, Attended, RetryInv, NEW c \in Cli, CliStep(c)
  PROVE  RetryInv'
  BY LoadRetry, OwnerPolicyRetry, BulkRetry, DraftRetry, PutRetry, SignRetry, AppendRetry,
     FinishRetry DEF CliStep, SendStep

LEMMA InitRetry == ASSUME Init, Attended PROVE RetryInv
<1>1. WorkersIdle
  BY ProcFacts DEF Init, WorkersIdle, Idle, Attended
<1>2. TasksRetry
  BY IdleRetrying, ProcFacts DEF Init, TasksRetry
<1>3. RetryStore
  BY DEF Init, RetryStore, OutboxSingle, DraftStands, LoggedOnce, LogSaysWhatWasSent
<1> QED BY <1>1, <1>2, <1>3 DEF RetryInv

LEMMA NextRetry ==
  ASSUME Safe, OneCommand, Attended, RetryInv, [Next]_vars
  PROVE  RetryInv'
<1>1. CASE UNCHANGED vars
  <2>1. Calm /\ UNCHANGED <<policy, task>>
    BY <1>1 DEF vars, store, daemon, Calm, Sent
  <2>2. WorkersIdle'
    BY <2>1 DEF RetryInv, WorkersIdle
  <2> QED BY <2>1, <2>2, OthersRetry DEF Safe, RetryInv
<1> QED BY <1>1, HandlerRetry, WorkerRetry, DaemonRetry, CommandRetry DEF Next

LEMMA OneOfEach == ASSUME OutboxSingle PROVE OneInOutbox
<1> SUFFICES ASSUME NEW q \in Question PROVE Cardinality(OutboxOf(q)) <= 1
  BY DEF OneInOutbox
<1>1. CASE OutboxOf(q) = {}
  BY <1>1, FS_EmptySet
<1>2. ASSUME NEW e \in OutboxOf(q) PROVE Cardinality(OutboxOf(q)) <= 1
  <2>1. OutboxOf(q) = {e}
    BY <1>2 DEF OutboxSingle, OutboxOf
  <2> QED BY <2>1, FS_Singleton
<1> QED BY <1>1, <1>2

LEMMA RetryKept ==
  ASSUME OneCommand, Attended
  PROVE  Spec => []RetryInv
<1>1. Init => RetryInv
  BY InitRetry
<1>2. Safe /\ RetryInv /\ [Next]_vars => RetryInv'
  BY NextRetry
<1> QED BY <1>1, <1>2, AlwaysSafe, PTL DEF Spec

(* With one command at a time and nobody answered unattended, a retried `owl     *)
(* send` leaves one answer of a request in outbox/, wherever the one before it     *)
(* failed or was interrupted, and whatever arrived or was acked meanwhile.         *)
THEOREM OneWaits == ASSUME OneCommand, Attended PROVE Spec => []OneInOutbox
<1>1. RetryInv => OneInOutbox
  BY OneOfEach DEF RetryInv, RetryStore
<1> QED BY <1>1, RetryKept, PTL

(* Under the same conditions a request has at most one line in the outgoing log.   *)
THEOREM OneLine == ASSUME OneCommand, Attended PROVE Spec => []LoggedOnce
<1>1. RetryInv => LoggedOnce
  BY DEF RetryInv, RetryStore
<1> QED BY <1>1, RetryKept, PTL

(* Under the same conditions the line has the text of an answer that was signed,   *)
(* although a draft can be redone between a failed `owl send` and its retry.       *)
THEOREM LineWasSigned == ASSUME OneCommand, Attended PROVE Spec => []LogSaysWhatWasSent
<1>1. RetryInv => LogSaysWhatWasSent
  BY DEF RetryInv, RetryStore
<1> QED BY <1>1, RetryKept, PTL
=============================================================================
