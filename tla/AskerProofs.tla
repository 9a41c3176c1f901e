---------------------------- MODULE AskerProofs -----------------------------
(***************************************************************************)
(* Theorems about Asker, for any set of questions, peers and commands and    *)
(* any bounds: types, what happens to an ask, and that Delivery is           *)
(* implemented.                                                             *)
(*                                                                         *)
(* A process acts on what it saw several steps ago: an answer it fetched,    *)
(* a Task it was shown.  Sound says which of these facts it still relies on, *)
(* and all of them last: a signed answer stays signed, a stored one stored,  *)
(* a declined question declined.                                            *)
(***************************************************************************)
EXTENDS Asker, TLAPS

StoredIds == {q \in Question : Stored(q)}
Refused == {q \in Question : held[q] = "rejected"}

(* What a task relies on, when S are the signed answers, T the stored ones, R the *)
(* declined questions and D the answers put away.                                *)
Sound(t, S, T, R, D) ==
  /\ t.items \subseteq S
  /\ t.pc \in {"cache", "close", "move", "set", "ack", "discard"} => t.q \in T
  /\ t.pc = "cache" => t.q \in Cached
  /\ t.pc \in {"closeMove", "closeSet"} => t.q \in R
  /\ t.pc \in {"noteGet", "notePut"} /\ t.rejected => t.q \in R
  /\ t.pc = "unlink" => t.q \in D

TasksSound == \A p \in Proc : Sound(task[p], signed, StoredIds, Refused, discarded)

(* What the asker knows of an answer or a question was true at the peer. *)
HeardTruly ==
  /\ outbox \subseteq signed /\ StoredIds \subseteq signed /\ acked \subseteq StoredIds
  /\ \A q \in Question : held[q] # "none" => q \in tried

StoreSafe ==
  /\ AskKept /\ ClosedForAReason /\ ClosedAsWhatHappened /\ CacheHoldsAnswers
  /\ HeardTruly

Safe == TypeOK /\ TasksSound /\ StoreSafe

(* Nothing is forgotten. *)
Grows ==
  /\ signed \subseteq signed' /\ StoredIds \subseteq StoredIds'
  /\ Refused \subseteq Refused' /\ discarded \subseteq discarded'

-----------------------------------------------------------------------------
(* Tasks. *)

LEMMA ProcFacts == Cli \subseteq Proc /\ Daemon \in Proc
  BY DEF Proc

LEMMA IdleFits ==
  /\ Idle \in Task /\ AtWork(Idle)
  /\ \A S, T, R, D : Sound(Idle, S, T, R, D)
  BY DEF Idle, Task, Pc, Op, AtWork, Sound

(* One process moves to a task that is typed and sound, the others stay so. *)
LEMMA BecomeFits ==
  ASSUME TasksOK, TasksSound, Grows, NEW p \in Proc, NEW t \in Task, AtWork(t),
         Sound(t, signed', StoredIds', Refused', discarded'), Become(p, t)
  PROVE  TasksOK' /\ TasksSound'
<1>1. task'[p] = t /\ \A r \in Proc : r # p => task'[r] = task[r]
  BY DEF TasksOK, Become
<1>2. TasksOK'
  BY <1>1 DEF TasksOK, Become
<1>3. \A r \in Proc : Sound(task[r], signed', StoredIds', Refused', discarded')
  BY DEF TasksSound, Grows, Sound
<1>4. TasksSound'
  BY <1>1, <1>3 DEF TasksSound, Sound
<1> QED BY <1>2, <1>4

LEMMA ExitFits ==
  ASSUME TasksOK, TasksSound, Grows, NEW p \in Proc, Exit(p)
  PROVE  TasksOK' /\ TasksSound'
  BY IdleFits, BecomeFits DEF Exit

LEMMA StayFits ==
  ASSUME TasksOK, TasksSound, Grows, task' = task
  PROVE  TasksOK' /\ TasksSound'
<1>1. \A r \in Proc : Sound(task[r], signed', StoredIds', Refused', discarded')
  BY DEF TasksSound, Grows, Sound
<1> QED BY <1>1 DEF TasksOK, TasksSound, Sound

LEMMA TaskOf ==
  ASSUME Safe, NEW p \in Proc
  PROVE  /\ task[p] \in Task /\ AtWork(task[p])
         /\ Sound(task[p], signed, StoredIds, Refused, discarded)
         /\ task[p].pc \notin {"idle", "fetch", "ingest", "tasks"} => task[p].q \in Question
  BY DEF Safe, TypeOK, TasksOK, TasksSound, AtWork

(* Where a process may go with the question it has. *)
LEMMA GotoFits ==
  ASSUME Safe, Grows, NEW p \in Proc, NEW pc \in Pc, Goto(p, pc), task[p].q \in Question,
         Sound([task[p] EXCEPT !.pc = pc], signed', StoredIds', Refused', discarded')
  PROVE  TasksOK' /\ TasksSound'
<1>1. [task[p] EXCEPT !.pc = pc] \in Task /\ AtWork([task[p] EXCEPT !.pc = pc])
  BY TaskOf DEF Task, AtWork
<1> QED BY <1>1, BecomeFits DEF Goto, Safe, TypeOK

(* A step that neither writes a file nor changes a peer. *)
LEMMA QuietGrows ==
  ASSUME UNCHANGED <<files, peers>>
  PROVE  Grows
  BY DEF files, peers, Grows, StoredIds, Stored, Refused

LEMMA QuietSafe ==
  ASSUME Safe, UNCHANGED <<files, peers, history, tried>>, TasksOK', TasksSound',
         faults' \in Nat, crashes' \in Nat
  PROVE  Safe'
<1>1. FilesOK' /\ PeersOK' /\ CountsOK'
  BY DEF Safe, TypeOK, FilesOK, PeersOK, CountsOK, files, peers, history
<1>2. AskKept' /\ ClosedForAReason' /\ ClosedAsWhatHappened'
  BY DEF Safe, StoreSafe, AskKept, ClosedForAReason, ClosedAsWhatHappened, InDone, Stored,
         files, peers, history
<1>3. CacheHoldsAnswers' /\ HeardTruly'
  BY DEF Safe, StoreSafe, CacheHoldsAnswers, HeardTruly, StoredIds, Stored, files, peers, history
<1> QED BY <1>1, <1>2, <1>3 DEF Safe, TypeOK, StoreSafe

LEMMA QuietMove ==
  ASSUME Safe, UNCHANGED <<files, peers, history, tried>>, faults' \in Nat, crashes' \in Nat,
         NEW p \in Proc, NEW t \in Task, AtWork(t),
         Sound(t, signed, StoredIds, Refused, discarded), Become(p, t)
  PROVE  Safe'
<1>1. Grows /\ Sound(t, signed', StoredIds', Refused', discarded')
  BY QuietGrows DEF files, peers, StoredIds, Stored, Refused
<1> QED BY <1>1, BecomeFits, QuietSafe DEF Safe, TypeOK

LEMMA FaultCounts == ASSUME Safe, Fault PROVE faults' \in Nat
  BY DEF Fault, Safe, TypeOK, CountsOK

LEMMA Counts == ASSUME Safe PROVE faults \in Nat /\ crashes \in Nat
  BY DEF Safe, TypeOK, CountsOK

-----------------------------------------------------------------------------
(* The steps that neither write a file nor change a peer. *)

LEMMA PullSafe == ASSUME Safe, Pull \/ NextPeer PROVE Safe'
<1>1. CASE Pull
  <2> DEFINE t == [Idle EXCEPT !.op = "pull", !.open = asks, !.visit = {To[q] : q \in asks},
                               !.pc = "tasks"]
  <2>1. asks \subseteq Question /\ {To[q] : q \in asks} \subseteq Peer
    BY AskerAssumption DEF Safe, TypeOK, FilesOK
  <2>2. t \in Task /\ AtWork(t) /\ Sound(t, signed, StoredIds, Refused, discarded)
    BY <2>1 DEF Idle, Task, Pc, Op, AtWork, Sound
  <2> QED BY <1>1, <2>2, QuietMove, ProcFacts, Counts DEF Pull, bounds
<1>2. CASE NextPeer
  <2> DEFINE t == task[Daemon]
  <2>1. t \in Task /\ t.items \subseteq signed
    BY TaskOf, ProcFacts DEF Sound
  <2>2. \A p \in t.visit :
          LET u == [t EXCEPT !.visit = @ \ {p}, !.peer = p, !.pc = "fetch"]
          IN u \in Task /\ AtWork(u) /\ Sound(u, signed, StoredIds, Refused, discarded)
    BY <2>1 DEF Task, Pc, AtWork, Sound
  <2>3. Exit(Daemon) \/ \E p \in t.visit :
          Become(Daemon, [t EXCEPT !.visit = @ \ {p}, !.peer = p, !.pc = "fetch"])
    BY <1>2 DEF NextPeer
  <2>4. UNCHANGED <<files, peers, history, tried, faults, crashes>>
    BY <1>2 DEF NextPeer, bounds
  <2> QED BY <2>2, <2>3, <2>4, QuietMove, IdleFits, ProcFacts, Counts DEF Exit
<1> QED BY <1>1, <1>2

(* What a poll brings is signed; what it is asked for is in its list. *)
LEMMA PollSafe ==
  ASSUME Safe, NEW p \in Proc, Fetch(p) \/ ToTasks(p) \/ AllAsked(p)
  PROVE  Safe'
<1> DEFINE t == task[p]
           u == [t EXCEPT !.items = outbox \intersect Mine(t), !.pc = "ingest"]
           v == [t EXCEPT !.todo = Mine(t), !.pc = "tasks"]
           w == [t EXCEPT !.pc = "fetch"]
<1>1. t \in Task /\ t.items \subseteq signed
  BY TaskOf DEF Sound
<1>2. Mine(t) \subseteq Question /\ outbox \subseteq signed /\ signed \subseteq Question
  BY <1>1 DEF Mine, Task, Safe, StoreSafe, HeardTruly, TypeOK, PeersOK
<1>3. u \in Task /\ AtWork(u) /\ Sound(u, signed, StoredIds, Refused, discarded)
  BY <1>1, <1>2 DEF Task, Pc, AtWork, Sound
<1>4. v \in Task /\ AtWork(v) /\ Sound(v, signed, StoredIds, Refused, discarded)
  BY <1>1, <1>2 DEF Task, Pc, AtWork, Sound
<1>5. w \in Task /\ AtWork(w) /\ Sound(w, signed, StoredIds, Refused, discarded)
  BY <1>1 DEF Task, Pc, AtWork, Sound
<1>6. Become(p, u) \/ Become(p, v) \/ Become(p, w) \/ Become(p, Idle)
  BY DEF Fetch, ToTasks, AllAsked, Goto, Exit
<1>7. UNCHANGED <<files, peers, history, tried, faults, crashes>>
  BY DEF Fetch, ToTasks, AllAsked, bounds
<1> HIDE DEF u, v, w
<1> QED BY <1>3, <1>4, <1>5, <1>6, <1>7, QuietMove, IdleFits, Counts

(* A Task seen REJECTED was declined: PeerTask makes none up. *)
LEMMA FetchTaskSafe ==
  ASSUME Safe, NEW p \in Proc, FetchTask(p)
  PROVE  Safe'
<1> DEFINE t == task[p]
           state(q) == PeerTask(q)
           u(q) == [t EXCEPT !.todo = @ \ {q}, !.q = q, !.rejected = state(q) = "rejected",
                      !.pc = TaskPc(t.op, state(q))]
<1>1. t \in Task /\ t.items \subseteq signed
  BY TaskOf DEF Sound
<1>2. PICK q \in t.todo : Become(p, u(q))
  BY DEF FetchTask
<1>3. q \in Question
  BY <1>1, <1>2 DEF Task
<1>4. state(q) = "rejected" => q \in Refused
  BY <1>3 DEF PeerTask, Refused
<1>5. /\ TaskPc(t.op, state(q)) \in {"tasks", "closeMove", "noteGet"}
      /\ TaskPc(t.op, state(q)) = "closeMove" => state(q) = "rejected"
  BY DEF TaskPc
<1> HIDE DEF state
<1>6. u(q) \in Task /\ AtWork(u(q)) /\ Sound(u(q), signed, StoredIds, Refused, discarded)
  <2>1. TaskPc(t.op, state(q)) \in Pc
    BY <1>5 DEF Pc
  <2>2. (state(q) = "rejected") \in BOOLEAN
    OBVIOUS
  <2> DEFINE pc == TaskPc(t.op, state(q))
             b == state(q) = "rejected"
  <2>3. pc \in {"tasks", "closeMove", "noteGet"} /\ pc \in Pc /\ b \in BOOLEAN
    BY <1>5, <2>1
  <2>4. (pc = "closeMove" => q \in Refused) /\ (b => q \in Refused)
    BY <1>4, <1>5
  <2> HIDE DEF pc, b
  <2>5. LET x == [t EXCEPT !.todo = @ \ {q}, !.q = q, !.rejected = b, !.pc = pc]
        IN x \in Task /\ AtWork(x) /\ Sound(x, signed, StoredIds, Refused, discarded)
    BY <1>1, <1>3, <2>3, <2>4 DEF Task, AtWork, Sound
  <2> USE DEF pc, b
  <2> QED BY <2>5
<1>7. UNCHANGED <<files, peers, history, tried, faults, crashes>>
  BY DEF FetchTask, bounds
<1> QED BY <1>2, <1>6, <1>7, QuietMove, Counts

LEMMA CommandSafe ==
  ASSUME Safe, NEW c \in Cli, Status(c) \/ \E q \in Question : PutAway(c, q)
  PROVE  Safe'
<1> DEFINE s(S) == [Idle EXCEPT !.op = "status", !.todo = S, !.pc = "tasks"]
           d(q) == [Idle EXCEPT !.op = "discard", !.q = q, !.pc = "discard"]
<1>1. \A S \in SUBSET Question :
        s(S) \in Task /\ AtWork(s(S)) /\ Sound(s(S), signed, StoredIds, Refused, discarded)
  BY DEF Idle, Task, Pc, Op, AtWork, Sound
<1>2. \A q \in StoredIds :
        d(q) \in Task /\ AtWork(d(q)) /\ Sound(d(q), signed, StoredIds, Refused, discarded)
  BY DEF Idle, Task, Pc, Op, AtWork, Sound, StoredIds
<1>3. (\E S \in SUBSET Question : Become(c, s(S))) \/ \E q \in StoredIds : Become(c, d(q))
  <2>1. {asks} \union {{q} : q \in asks} \subseteq SUBSET Question
    BY DEF Safe, TypeOK, FilesOK
  <2> QED BY <2>1 DEF Status, PutAway, StoredIds, Stored
<1>4. UNCHANGED <<files, peers, history, tried, faults, crashes>>
  BY DEF Status, PutAway, bounds
<1> HIDE DEF s, d
<1> QED BY <1>1, <1>2, <1>3, <1>4, QuietMove, ProcFacts, Counts

LEMMA NoteGetSafe ==
  ASSUME Safe, NEW p \in Proc, NoteGet(p)
  PROVE  Safe'
<1> DEFINE t == task[p]
<1>1. /\ t \in Task /\ t.q \in Question /\ t.items \subseteq signed
      /\ t.rejected => t.q \in Refused
  BY TaskOf DEF NoteGet, At, Sound
<1>2. PICK pc : Goto(p, pc) /\ pc \in {"notePut", AfterNote(t)}
  BY DEF NoteGet
<1>3. pc \in {"notePut", "closeMove", "tasks"} /\ (pc = "closeMove" => t.rejected)
  BY <1>2 DEF AfterNote
<1>4. LET u == [t EXCEPT !.pc = pc]
      IN u \in Task /\ AtWork(u) /\ Sound(u, signed, StoredIds, Refused, discarded)
  BY <1>1, <1>3 DEF Task, Pc, AtWork, Sound
<1>5. UNCHANGED <<files, peers, history, tried, faults, crashes>>
  BY DEF NoteGet, bounds
<1> QED BY <1>2, <1>4, <1>5, QuietMove, Counts DEF Goto

(* Failures. *)
LEMMA FailSafe ==
  ASSUME Safe,
         StoreFails \/ Restart \/ (\E p \in Proc : TaskFails(p) \/ StepFails(p))
                    \/ \E c \in Cli : CliExit(c)
  PROVE  Safe'
<1>1. faults' \in Nat /\ crashes' \in Nat
  BY Counts DEF StoreFails, Restart, TaskFails, StepFails, CliExit, Fault
<1>2. UNCHANGED <<files, peers, history, tried>>
  BY DEF StoreFails, Restart, TaskFails, StepFails, CliExit
<1>3. ASSUME NEW p \in Proc,
             \/ \E q : Become(p, [task[p] EXCEPT !.items = @ \ {q}]) /\ At(p, "ingest")
             \/ \E q : Become(p, [task[p] EXCEPT !.todo = @ \ {q}]) /\ At(p, "tasks")
      PROVE  Safe'
  <2>1. /\ task[p] \in Task /\ task[p].items \subseteq signed
        /\ task[p].pc \in {"ingest", "tasks"}
    BY <1>3, TaskOf DEF Sound, At
  <2>2. \A q : LET u == [task[p] EXCEPT !.items = @ \ {q}]
               IN u \in Task /\ AtWork(u) /\ Sound(u, signed, StoredIds, Refused, discarded)
    BY <2>1 DEF Task, AtWork, Sound
  <2>3. \A q : LET u == [task[p] EXCEPT !.todo = @ \ {q}]
               IN u \in Task /\ AtWork(u) /\ Sound(u, signed, StoredIds, Refused, discarded)
    BY <2>1 DEF Task, AtWork, Sound
  <2> QED BY <1>1, <1>2, <1>3, <2>2, <2>3, QuietMove
<1>4. ASSUME NEW p \in Proc, StepFails(p)
      PROVE  Safe'
  <2> DEFINE t == task[p]
             u == Resume(t)
  <2>1. t \in Task /\ t.items \subseteq signed
    BY TaskOf DEF Sound
  <2>2. /\ u \in Task /\ u.pc \in {"tasks", "ingest"} /\ u.items = t.items
    BY <2>1 DEF Resume, Task, Pc
  <2>3. AtWork(u) /\ Sound(u, signed, StoredIds, Refused, discarded)
    BY <2>1, <2>2 DEF AtWork, Sound
  <2>4. Become(p, u)
    BY <1>4 DEF StepFails
  <2> HIDE DEF u
  <2> QED BY <1>1, <1>2, <2>2, <2>3, <2>4, QuietMove
<1>5. ASSUME NEW p \in Proc, Exit(p) PROVE Safe'
  BY <1>1, <1>2, <1>5, QuietMove, IdleFits DEF Exit
<1> QED BY <1>3, <1>4, <1>5, ProcFacts DEF StoreFails, Restart, TaskFails, CliExit

-----------------------------------------------------------------------------
(* The peers, and the question that is sent to one. *)

LEMMA FilesSame ==
  ASSUME Safe, UNCHANGED <<files, history>>, Refused \subseteq Refused'
  PROVE  AskKept' /\ ClosedForAReason' /\ ClosedAsWhatHappened' /\ CacheHoldsAnswers' /\ FilesOK'
<1>1. \A q \in Question : held[q] = "rejected" => held'[q] = "rejected"
  BY DEF Refused
<1>2. AskKept' /\ ClosedForAReason' /\ ClosedAsWhatHappened'
  BY <1>1 DEF Safe, StoreSafe, TypeOK, CountsOK, AskKept, ClosedForAReason, ClosedAsWhatHappened,
              InDone, Stored, files, history
<1>3. CacheHoldsAnswers' /\ FilesOK'
  BY DEF Safe, StoreSafe, TypeOK, FilesOK, CacheHoldsAnswers, Stored, files, history
<1> QED BY <1>2, <1>3

LEMMA PeerSafe ==
  ASSUME Safe, NEW q \in Question, Sign(q) \/ FinishAnswered(q) \/ Decline(q) \/ Expire(q)
  PROVE  Safe'
<1>1. UNCHANGED <<files, history, bounds, task>>
  BY DEF Sign, FinishAnswered, Decline, Expire
<1>2. signed \subseteq signed' /\ outbox' \subseteq signed' /\ signed' \subseteq Question
  BY DEF Sign, FinishAnswered, Decline, Expire, Safe, StoreSafe, HeardTruly, TypeOK, PeersOK
<1>3. /\ held' \in [Question -> {"none", "open", "completed", "rejected"}]
      /\ \A r \in Question : /\ held'[r] = "none" <=> held[r] = "none"
                             /\ held[r] = "rejected" => held'[r] = "rejected"
  BY DEF Sign, FinishAnswered, Decline, Expire, Safe, TypeOK, PeersOK
<1>4. Grows
  BY <1>1, <1>2, <1>3 DEF Grows, StoredIds, Stored, Refused, files
<1>5. TasksOK' /\ TasksSound'
  BY <1>1, <1>4, StayFits DEF Safe, TypeOK
<1>6. PeersOK' /\ CountsOK'
  BY <1>1, <1>2, <1>3 DEF Safe, TypeOK, PeersOK, CountsOK, bounds, history
<1>7. HeardTruly'
  BY <1>1, <1>2, <1>3 DEF Safe, StoreSafe, HeardTruly, StoredIds, Stored, files, history, bounds
<1> QED BY <1>1, <1>4, <1>5, <1>6, <1>7, FilesSame DEF Safe, TypeOK, StoreSafe, Grows

LEMMA AskSafe ==
  ASSUME Safe, NEW c \in Cli, NEW q \in Question, NEW wait \in BOOLEAN, Ask(c, q, wait)
  PROVE  Safe'
<1> DEFINE sent == [Idle EXCEPT !.op = IF wait THEN "wait" ELSE "ask", !.q = q, !.pc = "putAsk"]
           hit == [Idle EXCEPT !.op = "hit", !.items = {q}, !.pc = "ingest"]
<1>1. held[q] = "none"
  BY DEF Ask, Safe, StoreSafe, HeardTruly
<1>2. /\ UNCHANGED <<files, history, outbox, crashes>> /\ tried' = tried \union {q}
      /\ faults' \in Nat
  BY Counts DEF Ask, Accepted, Fault
<1>3. signed' \in {signed, signed \union {q}} /\ held' \in {held, [held EXCEPT ![q] = "open"]}
  BY DEF Ask, Accepted, AnsweredAtOnce
<1>4. /\ held' \in [Question -> {"none", "open", "completed", "rejected"}]
      /\ \A r \in Question : /\ held'[r] # "none" => r \in tried'
                             /\ held[r] = "rejected" => held'[r] = "rejected"
  BY <1>1, <1>2, <1>3 DEF Safe, TypeOK, PeersOK, StoreSafe, HeardTruly
<1>5. Grows
  BY <1>2, <1>3, <1>4 DEF Grows, StoredIds, Stored, Refused, files
<1>6. sent \in Task /\ AtWork(sent) /\ \A S, T, R, D : Sound(sent, S, T, R, D)
  BY DEF Idle, Task, Pc, Op, AtWork, Sound
<1>7. hit \in Task /\ AtWork(hit) /\ \A S, T, R, D : q \in S => Sound(hit, S, T, R, D)
  BY DEF Idle, Task, Pc, Op, AtWork, Sound
<1>8. Become(c, sent) \/ (Become(c, hit) /\ q \in signed') \/ task' = task
  BY DEF Ask, Accepted, AnsweredAtOnce
<1> HIDE DEF sent, hit
<1>9. TasksOK' /\ TasksSound'
  BY <1>5, <1>6, <1>7, <1>8, BecomeFits, StayFits, ProcFacts DEF Safe, TypeOK
<1>10. PeersOK' /\ CountsOK'
  BY <1>2, <1>3, <1>4, Counts DEF Safe, TypeOK, PeersOK, CountsOK, history
<1>11. HeardTruly'
  BY <1>2, <1>3, <1>4 DEF Safe, StoreSafe, HeardTruly, StoredIds, Stored, files, history
<1> QED BY <1>2, <1>5, <1>9, <1>10, <1>11, FilesSame DEF Safe, TypeOK, StoreSafe, Grows

-----------------------------------------------------------------------------
(* The answer: stored, put into the cache, acked, put away. *)

(* A step that adds to what is stored and leaves the asks as they are. *)
LEMMA StoredMore ==
  ASSUME Safe, UNCHANGED <<asks, done, held, kept>>, StoredIds \subseteq StoredIds'
  PROVE  AskKept' /\ ClosedForAReason' /\ ClosedAsWhatHappened'
<1>1. \A q \in Question : Stored(q) => Stored(q)'
  BY DEF StoredIds
<1> QED
  BY <1>1 DEF Safe, StoreSafe, TypeOK, CountsOK, AskKept, ClosedForAReason, ClosedAsWhatHappened,
              InDone

LEMMA StoreStepSafe ==
  ASSUME Safe, NEW p \in Proc, Store(p)
  PROVE  Safe'
<1> DEFINE t == task[p]
<1>1. PICK q \in t.items :
        /\ mail' = mail \union {q}
        /\ Become(p, [t EXCEPT !.items = @ \ {q}, !.q = q, !.pc = AfterStore(t.op, q)])
  BY DEF Store
<1>2. t \in Task /\ t.items \subseteq signed /\ q \in Question
  BY <1>1, TaskOf DEF Task, Sound
<1>3. UNCHANGED <<asks, done, discarded, cache, held, outbox, signed, bounds, history>>
  BY DEF Store, peers
<1>4. StoredIds' = StoredIds \union {q} /\ Refused' = Refused
  BY <1>1, <1>2, <1>3 DEF StoredIds, Stored, Refused
<1>5. Grows
  BY <1>3, <1>4 DEF Grows
<1>6. /\ AfterStore(t.op, q) \in {"cache", "close", "move"}
      /\ AfterStore(t.op, q) = "cache" => q \in Cached
  BY DEF AfterStore
<1>7. LET u == [t EXCEPT !.items = @ \ {q}, !.q = q, !.pc = AfterStore(t.op, q)]
      IN /\ u \in Task /\ AtWork(u)
         /\ Sound(u, signed', StoredIds', Refused', discarded')
  <2> DEFINE pc == AfterStore(t.op, q)
  <2> HIDE DEF pc
  <2>1. LET u == [t EXCEPT !.items = @ \ {q}, !.q = q, !.pc = pc]
        IN u \in Task /\ AtWork(u) /\ Sound(u, signed', StoredIds', Refused', discarded')
    BY <1>2, <1>3, <1>4, <1>6 DEF pc, Task, Pc, AtWork, Sound
  <2> USE DEF pc
  <2> QED BY <2>1
<1>8. TasksOK' /\ TasksSound'
  BY <1>1, <1>5, <1>7, BecomeFits DEF Safe, TypeOK
<1>9. FilesOK' /\ PeersOK' /\ CountsOK'
  BY <1>1, <1>2, <1>3 DEF Safe, TypeOK, FilesOK, PeersOK, CountsOK, bounds, history
<1>10. CacheHoldsAnswers' /\ HeardTruly'
  BY <1>1, <1>2, <1>3, <1>4 DEF Safe, StoreSafe, CacheHoldsAnswers, HeardTruly, Stored, bounds, history
<1> QED
  BY <1>3, <1>5, <1>8, <1>9, <1>10, StoredMore DEF Safe, TypeOK, StoreSafe, Grows, history

LEMMA CachePutSafe ==
  ASSUME Safe, NEW p \in Proc, CachePut(p)
  PROVE  Safe'
<1> DEFINE t == task[p]
<1>1. t \in Task /\ t.q \in Question /\ t.items \subseteq signed /\ t.q \in StoredIds /\ t.q \in Cached
  BY TaskOf DEF CachePut, At, Sound
<1>2. UNCHANGED <<asks, done, mail, discarded, peers, bounds, history>>
  BY DEF CachePut
<1>3. Grows /\ UNCHANGED <<signed, StoredIds, Refused, discarded>>
  BY <1>2 DEF Grows, StoredIds, Stored, Refused, peers
<1>4. PICK pc \in {"close", "move"} : Goto(p, pc)
  BY DEF CachePut
<1>5. TasksOK' /\ TasksSound'
  <2>1. pc \in Pc /\ Sound([t EXCEPT !.pc = pc], signed', StoredIds', Refused', discarded')
    BY <1>1, <1>3 DEF Sound, Pc, Task
  <2> QED BY <1>1, <1>3, <1>4, <2>1, GotoFits
<1>6. FilesOK' /\ PeersOK' /\ CountsOK'
  BY <1>1, <1>2
     DEF CachePut, Safe, TypeOK, FilesOK, PeersOK, CountsOK, peers, bounds, history
<1>7. CacheHoldsAnswers'
  BY <1>1, <1>2, AskerAssumption
     DEF CachePut, Safe, StoreSafe, TypeOK, FilesOK, CacheHoldsAnswers, StoredIds, Stored
<1>8. HeardTruly'
  BY <1>2, <1>3 DEF Safe, StoreSafe, HeardTruly, peers, bounds, history
<1> QED
  BY <1>2, <1>3, <1>5, <1>6, <1>7, <1>8, StoredMore
     DEF Safe, TypeOK, StoreSafe, Grows, peers, history

LEMMA AckSafe ==
  ASSUME Safe, NEW p \in Proc, Ack(p)
  PROVE  Safe'
<1> DEFINE t == task[p]
           u == [t EXCEPT !.open = @ \ {t.q}, !.pc = "ingest"]
<1>1. t \in Task /\ t.q \in Question /\ t.items \subseteq signed /\ t.q \in StoredIds
  BY TaskOf DEF Ack, At, Sound
<1>2. /\ UNCHANGED <<files, held, signed, bounds, kept>>
      /\ outbox' = outbox \ {t.q} /\ acked' \subseteq acked \union {t.q}
  BY DEF Ack
<1>3. Grows /\ UNCHANGED <<signed, StoredIds, Refused, discarded>>
  BY <1>2 DEF Grows, StoredIds, Stored, Refused, files
<1>4. u \in Task /\ AtWork(u) /\ Sound(u, signed', StoredIds', Refused', discarded')
  BY <1>1, <1>3 DEF Task, Pc, AtWork, Sound
<1>5. TasksOK' /\ TasksSound'
  <2>1. Become(p, u) \/ Exit(p)
    BY DEF Ack, AfterAck
  <2> HIDE DEF u
  <2> QED BY <1>3, <1>4, <2>1, BecomeFits, ExitFits DEF Safe, TypeOK
<1>6. FilesOK' /\ PeersOK' /\ CountsOK'
  BY <1>1, <1>2 DEF Safe, TypeOK, FilesOK, PeersOK, CountsOK, files, bounds
<1>7. CacheHoldsAnswers' /\ HeardTruly'
  BY <1>1, <1>2, <1>3
     DEF Safe, StoreSafe, CacheHoldsAnswers, HeardTruly, Stored, files, bounds
<1> QED
  BY <1>2, <1>3, <1>5, <1>6, <1>7, StoredMore DEF Safe, TypeOK, StoreSafe, Grows, files

(* `owl reject` of an answer: it is in done/ before it leaves inbox/. *)
LEMMA PutAwaySafe ==
  ASSUME Safe, NEW c \in Cli, Discard(c) \/ Unlink(c)
  PROVE  Safe'
<1> DEFINE t == task[c]
<1>1. c \in Proc /\ t \in Task /\ t.q \in Question /\ t.items \subseteq signed
  BY TaskOf, ProcFacts DEF Discard, Unlink, At, Sound
<1>2. UNCHANGED <<asks, done, cache, peers, bounds, history>>
  BY DEF Discard, Unlink
<1>3. (Discard(c) => Stored(t.q)) /\ (Unlink(c) => t.q \in discarded)
  BY <1>1, TaskOf DEF Discard, Unlink, At, Sound, StoredIds
<1>4. /\ discarded \subseteq discarded' /\ discarded' \subseteq Question /\ mail' \subseteq Question
      /\ mail' \union discarded' = mail \union discarded
      /\ Discard(c) => t.q \in discarded'
  BY <1>1, <1>3 DEF Discard, Unlink, Stored, Safe, TypeOK, FilesOK
<1>5. Grows /\ UNCHANGED <<signed, StoredIds, Refused>>
  BY <1>2, <1>4 DEF Grows, StoredIds, Stored, Refused, peers
<1>6. TasksOK' /\ TasksSound'
  <2>1. CASE Discard(c)
    <3>1. Sound([t EXCEPT !.pc = "unlink"], signed', StoredIds', Refused', discarded')
      BY <1>1, <1>4, <1>5, <2>1 DEF Sound, Task
    <3> QED BY <1>1, <1>5, <2>1, <3>1, GotoFits DEF Discard, Pc
  <2>2. CASE Unlink(c)
    BY <1>1, <1>5, <2>2, ExitFits DEF Unlink, Safe, TypeOK
  <2> QED BY <2>1, <2>2
<1>7. FilesOK' /\ PeersOK' /\ CountsOK'
  BY <1>2, <1>4 DEF Safe, TypeOK, FilesOK, PeersOK, CountsOK, peers, bounds, history
<1>8. CacheHoldsAnswers' /\ HeardTruly'
  <2>1. \A q \in Question : Stored(q)' <=> Stored(q)
    BY <1>4 DEF Stored
  <2> QED
    BY <1>2, <1>5, <2>1
       DEF Safe, StoreSafe, TypeOK, FilesOK, CacheHoldsAnswers, HeardTruly, peers, bounds, history
<1> QED
  BY <1>2, <1>5, <1>6, <1>7, <1>8, StoredMore DEF Safe, TypeOK, StoreSafe, Grows, peers, history

-----------------------------------------------------------------------------
(* The ask: written, moved to done/, its state set. *)

(* A step on asks/ and done/ that keeps answers, peers and counts. *)
LEMMA AskStepSafe ==
  ASSUME Safe, UNCHANGED <<mail, discarded, cache, peers, bounds, acked>>,
         asks' \subseteq Question, kept' \subseteq Question,
         done' \in [Question -> {"none", "waiting", "answered", "declined"}],
         TasksOK', TasksSound', AskKept', ClosedForAReason', ClosedAsWhatHappened'
  PROVE  Safe'
<1>1. FilesOK' /\ PeersOK' /\ CountsOK'
  BY DEF Safe, TypeOK, FilesOK, PeersOK, CountsOK, peers, bounds
<1>2. CacheHoldsAnswers' /\ HeardTruly'
  BY DEF Safe, StoreSafe, CacheHoldsAnswers, HeardTruly, StoredIds, Stored, peers, bounds
<1> QED BY <1>1, <1>2 DEF Safe, TypeOK, StoreSafe

LEMMA AskStepGrows ==
  ASSUME UNCHANGED <<mail, discarded, peers>>
  PROVE  Grows /\ UNCHANGED <<signed, StoredIds, Refused, discarded>>
  BY DEF Grows, StoredIds, Stored, Refused, peers

LEMMA PutAskSafe ==
  ASSUME Safe, NEW c \in Cli, PutAsk(c)
  PROVE  Safe'
<1> DEFINE t == task[c]
           u == [t EXCEPT !.open = {t.q}, !.peer = To[t.q], !.pc = "fetch"]
<1>1. c \in Proc /\ t \in Task /\ t.q \in Question /\ t.items \subseteq signed
  BY TaskOf, ProcFacts DEF PutAsk, At, Sound
<1>2. /\ asks' = asks \union {t.q} /\ kept' = kept \union {t.q}
      /\ UNCHANGED <<done, mail, discarded, cache, peers, bounds, acked>>
      /\ Become(c, u) \/ Exit(c)
  BY DEF PutAsk
<1>3. u \in Task /\ AtWork(u) /\ Sound(u, signed, StoredIds, Refused, discarded)
  BY <1>1, AskerAssumption DEF Task, Pc, AtWork, Sound
<1> HIDE DEF u
<1>4. TasksOK' /\ TasksSound'
  BY <1>1, <1>2, <1>3, AskStepGrows, BecomeFits, ExitFits DEF Safe, TypeOK
<1>5. AskKept' /\ ClosedForAReason' /\ ClosedAsWhatHappened'
  BY <1>1, <1>2
     DEF Safe, StoreSafe, AskKept, ClosedForAReason, ClosedAsWhatHappened, InDone, Stored, peers
<1>6. asks' \subseteq Question /\ kept' \subseteq Question
  BY <1>1, <1>2 DEF Safe, TypeOK, FilesOK, CountsOK
<1>7. done' \in [Question -> {"none", "waiting", "answered", "declined"}]
  BY <1>2 DEF Safe, TypeOK, FilesOK
<1> QED BY <1>2, <1>4, <1>5, <1>6, <1>7, AskStepSafe

LEMMA NotePutSafe ==
  ASSUME Safe, NEW p \in Proc, NotePut(p)
  PROVE  Safe'
<1> DEFINE t == task[p]
<1>1. /\ t \in Task /\ t.q \in Question /\ t.items \subseteq signed
      /\ t.rejected => t.q \in Refused
  BY TaskOf DEF NotePut, At, Sound
<1>2. /\ asks' = asks \union {t.q} /\ Goto(p, AfterNote(t))
      /\ UNCHANGED <<done, mail, discarded, cache, peers, bounds, history>>
  BY DEF NotePut
<1>3. /\ AfterNote(t) \in {"closeMove", "tasks"} /\ AfterNote(t) \in Pc
      /\ AfterNote(t) = "closeMove" => t.rejected
  BY DEF AfterNote, Pc
<1>4. TasksOK' /\ TasksSound'
  <2> DEFINE pc == AfterNote(t)
  <2>1. Sound([t EXCEPT !.pc = pc], signed, StoredIds, Refused, discarded)
    <3> HIDE DEF pc
    <3> QED BY <1>1, <1>3 DEF pc, Sound, Task
  <2> QED BY <1>1, <1>2, <1>3, <2>1, AskStepGrows, GotoFits
<1>5. AskKept' /\ ClosedForAReason' /\ ClosedAsWhatHappened'
  BY <1>1, <1>2
     DEF Safe, StoreSafe, AskKept, ClosedForAReason, ClosedAsWhatHappened, InDone, Stored, peers,
         history
<1>6. asks' \subseteq Question /\ kept' \subseteq Question
  BY <1>1, <1>2 DEF Safe, TypeOK, FilesOK, CountsOK, history
<1>7. done' \in [Question -> {"none", "waiting", "answered", "declined"}]
  BY <1>2 DEF Safe, TypeOK, FilesOK
<1> QED BY <1>2, <1>4, <1>5, <1>6, <1>7, AskStepSafe DEF history

(* An ask moves to done/ with its answer stored or its question declined. *)
LEMMA MovedAsk ==
  ASSUME Safe, UNCHANGED <<mail, discarded, peers, kept>>, NEW q \in Question, MoveToDone(q),
         q \in StoredIds \/ q \in Refused
  PROVE  /\ AskKept' /\ ClosedForAReason' /\ ClosedAsWhatHappened'
         /\ asks' \subseteq Question
         /\ done' \in [Question -> {"none", "waiting", "answered", "declined"}]
<1>1. /\ asks' = asks \ {q} /\ done' = [done EXCEPT ![q] = "waiting"]
      /\ done' \in [Question -> {"none", "waiting", "answered", "declined"}]
      /\ asks' \subseteq Question
  BY DEF MoveToDone, Safe, TypeOK, FilesOK
<1>2. AskKept'
  BY <1>1 DEF Safe, StoreSafe, TypeOK, FilesOK, CountsOK, AskKept, InDone
<1>3. ClosedForAReason' /\ ClosedAsWhatHappened'
  BY <1>1 DEF Safe, StoreSafe, TypeOK, FilesOK, CountsOK, ClosedForAReason, ClosedAsWhatHappened,
              StoredIds, Refused, Stored, peers
<1> QED BY <1>1, <1>2, <1>3

LEMMA MoveSafe ==
  ASSUME Safe, NEW p \in Proc, Move(p) \/ CloseMove(p)
  PROVE  Safe'
<1> DEFINE t == task[p]
<1>1. /\ t \in Task /\ t.q \in Question /\ t.items \subseteq signed
      /\ Move(p) => t.q \in StoredIds
      /\ CloseMove(p) => t.q \in Refused
  BY TaskOf DEF Move, CloseMove, At, Sound
<1>2. UNCHANGED <<mail, discarded, cache, peers, bounds, history>>
  BY DEF Move, CloseMove
<1>3. \/ MoveToDone(t.q) /\ Goto(p, "set") /\ t.q \in StoredIds
      \/ MoveToDone(t.q) /\ Goto(p, "closeSet") /\ t.q \in Refused
      \/ UNCHANGED <<asks, done>> /\ (Exit(p) \/ \E pc \in {"ingest", "tasks"} : Goto(p, pc))
  BY <1>1 DEF Move, CloseMove, NotOpen
<1>4. TasksOK' /\ TasksSound'
  <2>1. \A pc \in {"ingest", "tasks"} :
          Sound([t EXCEPT !.pc = pc], signed, StoredIds, Refused, discarded)
    BY <1>1 DEF Sound, Task
  <2>2. t.q \in StoredIds => Sound([t EXCEPT !.pc = "set"], signed, StoredIds, Refused, discarded)
    BY <1>1 DEF Sound, Task
  <2>3. t.q \in Refused => Sound([t EXCEPT !.pc = "closeSet"], signed, StoredIds, Refused, discarded)
    BY <1>1 DEF Sound, Task
  <2>4. {"ingest", "tasks", "set", "closeSet"} \subseteq Pc
    BY DEF Pc
  <2> QED
    BY <1>1, <1>2, <1>3, <2>1, <2>2, <2>3, <2>4, AskStepGrows, GotoFits, ExitFits
       DEF Safe, TypeOK
<1>5. /\ AskKept' /\ ClosedForAReason' /\ ClosedAsWhatHappened'
      /\ asks' \subseteq Question
      /\ done' \in [Question -> {"none", "waiting", "answered", "declined"}]
  <2>1. CASE MoveToDone(t.q) /\ (t.q \in StoredIds \/ t.q \in Refused)
    BY <1>1, <1>2, <2>1, MovedAsk DEF history
  <2>2. CASE UNCHANGED <<asks, done>>
    BY <1>2, <2>2
       DEF Safe, StoreSafe, TypeOK, FilesOK, AskKept, ClosedForAReason, ClosedAsWhatHappened,
           InDone, Stored, peers, history
  <2> QED BY <1>3, <2>1, <2>2
<1> QED BY <1>2, <1>4, <1>5, AskStepSafe DEF Safe, TypeOK, CountsOK, history

LEMMA SetStateSafe ==
  ASSUME Safe, NEW p \in Proc, SetAnswered(p) \/ CloseSet(p) \/ CloseHit(p)
  PROVE  Safe'
<1> DEFINE t == task[p]
           u == [t EXCEPT !.open = @ \ {t.q}, !.pc = "tasks"]
<1>1. /\ t \in Task /\ t.q \in Question /\ t.items \subseteq signed
      /\ SetAnswered(p) \/ CloseHit(p) => t.q \in StoredIds
      /\ CloseSet(p) => t.q \in Refused
  BY TaskOf DEF SetAnswered, CloseSet, CloseHit, At, Sound
<1>2. UNCHANGED <<asks, mail, discarded, cache, peers, bounds, history>>
  BY DEF SetAnswered, CloseSet, CloseHit
<1>3. PICK state \in {"answered", "declined"} :
        /\ done' = [done EXCEPT ![t.q] = state]
        /\ state = "answered" => t.q \in StoredIds
        /\ state = "declined" => t.q \in Refused
  BY <1>1 DEF SetAnswered, CloseSet, CloseHit, SetState
<1>4. TasksOK' /\ TasksSound'
  <2>1. CASE SetAnswered(p)
    <3>1. Sound([t EXCEPT !.pc = "ack"], signed, StoredIds, Refused, discarded)
      BY <1>1, <2>1 DEF Sound, Task
    <3> QED BY <1>1, <1>2, <2>1, <3>1, AskStepGrows, GotoFits DEF SetAnswered, Pc
  <2>2. CASE CloseSet(p) \/ CloseHit(p)
    <3>1. Exit(p) \/ Become(p, u)
      BY <2>2 DEF CloseSet, CloseHit
    <3>2. u \in Task /\ AtWork(u) /\ Sound(u, signed, StoredIds, Refused, discarded)
      BY <1>1 DEF Task, Pc, AtWork, Sound
    <3> HIDE DEF u
    <3> QED BY <1>2, <3>1, <3>2, AskStepGrows, BecomeFits, ExitFits DEF Safe, TypeOK
  <2> QED BY <2>1, <2>2
<1>5. done' \in [Question -> {"none", "waiting", "answered", "declined"}]
  BY <1>1, <1>3 DEF Safe, TypeOK, FilesOK
<1>6. AskKept' /\ ClosedForAReason' /\ ClosedAsWhatHappened'
  BY <1>1, <1>2, <1>3
     DEF Safe, StoreSafe, TypeOK, FilesOK, CountsOK, AskKept, ClosedForAReason,
         ClosedAsWhatHappened, InDone, StoredIds, Refused, Stored, peers, history
<1> QED
  BY <1>2, <1>4, <1>5, <1>6, AskStepSafe DEF Safe, TypeOK, FilesOK, CountsOK, history

-----------------------------------------------------------------------------
(* The inductive invariant and what follows from it. *)

LEMMA InitSafe == Init => Safe
<1> SUFFICES ASSUME Init PROVE Safe
  OBVIOUS
<1>1. TypeOK
  BY IdleFits DEF Init, TypeOK, FilesOK, PeersOK, TasksOK, CountsOK
<1>2. TasksSound
  BY IdleFits DEF Init, TasksSound
<1>3. StoreSafe
  BY AskerAssumption
     DEF Init, StoreSafe, AskKept, ClosedForAReason, ClosedAsWhatHappened, CacheHoldsAnswers,
         HeardTruly, StoredIds, Stored
<1> QED BY <1>1, <1>2, <1>3 DEF Safe

LEMMA StutterSafe == ASSUME Safe, UNCHANGED vars PROVE Safe'
<1>1. UNCHANGED <<files, peers, history, tried, faults, crashes, task>>
  BY DEF vars, bounds
<1> QED BY <1>1, QuietGrows, StayFits, QuietSafe, Counts DEF Safe, TypeOK

LEMMA ProcStepSafe ==
  ASSUME Safe, NEW p \in Proc, IngestStep(p) \/ TaskStep(p)
  PROVE  Safe'
<1>1. CASE IngestStep(p)
  BY <1>1, PollSafe, StoreStepSafe, CachePutSafe, MoveSafe, SetStateSafe, AckSafe DEF IngestStep
<1>2. CASE TaskStep(p)
  BY <1>2, PollSafe, FetchTaskSafe, NoteGetSafe, NotePutSafe, MoveSafe, SetStateSafe, FailSafe
     DEF TaskStep
<1> QED BY <1>1, <1>2

LEMMA NextSafe == Safe /\ [Next]_vars => Safe'
<1> SUFFICES ASSUME Safe, [Next]_vars PROVE Safe'
  OBVIOUS
<1>1. CASE PullStep
  BY <1>1, PullSafe, FailSafe, ProcStepSafe, ProcFacts DEF PullStep
<1>2. ASSUME NEW c \in Cli, CliStep(c) PROVE Safe'
  BY <1>2, CommandSafe, AskSafe, PutAskSafe, SetStateSafe, PollSafe, PutAwaySafe, ProcStepSafe,
     FailSafe, ProcFacts DEF CliStep
<1>3. CASE PeerStep
  BY <1>3, PeerSafe DEF PeerStep
<1> QED BY <1>1, <1>2, <1>3, FailSafe, StutterSafe DEF Next

LEMMA AlwaysSafe == Spec => []Safe
  BY InitSafe, NextSafe, PTL DEF Spec

(* Every reachable state is typed, and a process at work on a question has one. *)
THEOREM AskerTypes == Spec => []TypeOK
  BY AlwaysSafe, PTL DEF Safe

(* An ask written to asks/ is in asks/ or done/ ever after, for any number of     *)
(* commands at work on it, restarts and failures.                                *)
THEOREM AsksStay == Spec => []AskKept
  BY AlwaysSafe, PTL DEF Safe, StoreSafe

(* An ask leaves asks/ only with its answer stored or its question declined.       *)
THEOREM AsksCloseForAReason == Spec => []ClosedForAReason
  BY AlwaysSafe, PTL DEF Safe, StoreSafe

(* An ask is closed as declined, or as answered, only when it was.                 *)
THEOREM AsksCloseAsWhatHappened == Spec => []ClosedAsWhatHappened
  BY AlwaysSafe, PTL DEF Safe, StoreSafe

(* What cache/ serves under a hash arrived here, for a question of that hash.      *)
THEOREM CacheHolds == Spec => []CacheHoldsAnswers
  BY AlwaysSafe, PTL DEF Safe, StoreSafe

-----------------------------------------------------------------------------
(* The asker implements Delivery: it sends with Sign or a reply from the cache,   *)
(* receives with Store, acknowledges with Ack.                                   *)

Delivered == <<signed, StoredIds, acked>>

LEMMA QuietDelivery ==
  ASSUME UNCHANGED <<signed, acked, mail, discarded>>
  PROVE  UNCHANGED Delivered
  BY DEF Delivered, StoredIds, Stored

LEMMA SentDelivery ==
  ASSUME UNCHANGED <<files, acked>>, NEW q \in Question, signed' \in {signed, signed \union {q}}
  PROVE  UNCHANGED Delivered \/ Promise!Send(q)
<1>1. StoredIds' = StoredIds
  BY DEF StoredIds, Stored, files
<1> QED BY <1>1 DEF Delivered, Promise!Send, StoredIds

LEMMA StoreDelivery ==
  ASSUME Safe, NEW p \in Proc, Store(p)
  PROVE  UNCHANGED Delivered \/ \E q \in Question : Promise!Receive(q)
<1>1. PICK q \in task[p].items : mail' = mail \union {q}
  BY DEF Store
<1>2. q \in Question /\ q \in signed
  BY <1>1, TaskOf DEF Task, Sound
<1>3. UNCHANGED <<discarded, signed, acked>>
  BY DEF Store, peers, history
<1>4. StoredIds' = StoredIds \union {q}
  BY <1>1, <1>2, <1>3 DEF StoredIds, Stored
<1> QED BY <1>2, <1>3, <1>4 DEF Delivered, Promise!Receive, StoredIds

LEMMA AckDelivery ==
  ASSUME Safe, NEW p \in Proc, Ack(p)
  PROVE  UNCHANGED Delivered \/ \E q \in Question : Promise!Acknowledge(q)
<1> DEFINE q == task[p].q
<1>1. q \in Question /\ q \in StoredIds
  BY TaskOf DEF Ack, At, Sound
<1>2. UNCHANGED <<signed, mail, discarded>> /\ acked' \in {acked, acked \union {q}}
  BY DEF Ack, files
<1>3. StoredIds' = StoredIds
  BY <1>2 DEF StoredIds, Stored
<1> HIDE DEF q
<1> QED BY <1>1, <1>2, <1>3 DEF Delivered, Promise!Acknowledge, StoredIds

(* What the owner puts away stays received. *)
LEMMA PutAwayDelivery ==
  ASSUME Safe, NEW c \in Cli, Discard(c) \/ Unlink(c)
  PROVE  UNCHANGED Delivered
<1>1. /\ Discard(c) => task[c].q \in StoredIds
      /\ Unlink(c) => task[c].q \in discarded
  BY TaskOf, ProcFacts DEF Discard, Unlink, At, Sound
<1>2. mail' \union discarded' = mail \union discarded /\ UNCHANGED <<signed, acked>>
  BY <1>1 DEF Discard, Unlink, StoredIds, Stored, peers, history
<1>3. StoredIds' = StoredIds
  BY <1>2 DEF StoredIds, Stored
<1> QED BY <1>2, <1>3 DEF Delivered

LEMMA ProcDelivery ==
  ASSUME Safe, NEW p \in Proc, IngestStep(p) \/ TaskStep(p)
  PROVE  UNCHANGED Delivered \/ Promise!Next
<1>1. CASE Store(p)
  BY <1>1, StoreDelivery DEF Promise!Next
<1>2. CASE Ack(p)
  BY <1>2, AckDelivery DEF Promise!Next
<1>3. CASE ~Store(p) /\ ~Ack(p)
  <2>1. UNCHANGED <<signed, acked, mail, discarded>>
    BY <1>3 DEF IngestStep, TaskStep, Fetch, CachePut, Move, SetAnswered, ToTasks, FetchTask,
                NoteGet, NotePut, CloseMove, CloseSet, TaskFails, StepFails, files, peers, history
  <2> QED BY <2>1, QuietDelivery
<1> QED BY <1>1, <1>2, <1>3

LEMMA CliDelivery ==
  ASSUME Safe, NEW c \in Cli, CliStep(c)
  PROVE  UNCHANGED Delivered \/ Promise!Next
<1>1. ASSUME NEW q \in Question, NEW wait \in BOOLEAN, Ask(c, q, wait)
      PROVE  UNCHANGED Delivered \/ Promise!Next
  <2>1. UNCHANGED <<files, acked>> /\ signed' \in {signed, signed \union {q}}
    BY <1>1 DEF Ask, AnsweredAtOnce, history
  <2> QED BY <2>1, SentDelivery DEF Promise!Next
<1>2. CASE \/ PutAsk(c) \/ CloseHit(c) \/ Status(c) \/ AllAsked(c) \/ CliExit(c)
           \/ \E q \in Question : PutAway(c, q)
  <2>1. UNCHANGED <<signed, acked, mail, discarded>>
    BY <1>2 DEF PutAsk, CloseHit, Status, AllAsked, CliExit, PutAway, files, peers, history
  <2> QED BY <2>1, QuietDelivery
<1> QED BY <1>1, <1>2, PutAwayDelivery, ProcDelivery, ProcFacts DEF CliStep

LEMMA PeerDelivery ==
  ASSUME Safe, PeerStep
  PROVE  UNCHANGED Delivered \/ Promise!Next
<1>1. PICK q \in Question : Sign(q) \/ FinishAnswered(q) \/ Decline(q) \/ Expire(q)
  BY DEF PeerStep
<1>2. UNCHANGED <<files, acked>> /\ signed' \in {signed, signed \union {q}}
  BY <1>1 DEF Sign, FinishAnswered, Decline, Expire, history
<1> QED BY <1>2, SentDelivery DEF Promise!Next

LEMMA InitDelivery == Init => Promise!Init
  BY DEF Init, Promise!Init, Stored

LEMMA NextDelivery == Safe /\ [Next]_vars => [Promise!Next]_(Promise!vars)
<1> SUFFICES ASSUME Safe, [Next]_vars PROVE UNCHANGED Delivered \/ Promise!Next
  BY DEF Delivered, StoredIds, Promise!vars
<1>1. CASE PullStep
  <2>1. CASE Pull \/ NextPeer \/ StoreFails
    BY <2>1, QuietDelivery DEF Pull, NextPeer, StoreFails, files, peers, history
  <2> QED BY <1>1, <2>1, ProcDelivery, ProcFacts DEF PullStep
<1>2. CASE Restart \/ UNCHANGED vars
  BY <1>2, QuietDelivery DEF Restart, vars, files, peers, history
<1> QED BY <1>1, <1>2, CliDelivery, PeerDelivery DEF Next

(* Every behaviour of the asker, seen through what was signed, stored and acked,   *)
(* is a behaviour of Delivery: an ack never overtakes the answer it gives up.      *)
THEOREM AskerKeepsDelivery == Spec => KeepsDelivery
<1>1. Spec => Promise!Init /\ [][Promise!Next]_(Promise!vars)
  BY AlwaysSafe, InitDelivery, NextDelivery, PTL DEF Spec
<1> QED BY <1>1 DEF KeepsDelivery, Promise!Spec
=============================================================================
