------------------------------- MODULE Asker --------------------------------
(***************************************************************************)
(* The asking side of owlpost: asks/, the received answers in inbox/, the  *)
(* finished asks in done/ and the asker's cache/, shared without a lock by *)
(* `owl ask` (with or without --wait), `owl request`, `owl call`, `owl     *)
(* status`, the commands that read or discard an answer, and the daemon's  *)
(* pull loop (pull.rs).                                                    *)
(*                                                                         *)
(* The peers are what the client sees of them: the Task of a question and  *)
(* the answers in their outbox (server.rs, answer.rs).  A file operation   *)
(* or one exchange over the network is one step; a process can be          *)
(* interrupted between any two.                                            *)
(***************************************************************************)
EXTENDS Naturals, FiniteSets

CONSTANTS
  Question,     \* ids of the questions asked; also names the answer to it
  Peer,         \* the contacts asked
  Hash,         \* question hashes
  To,           \* the peer a question is addressed to
  HashOf,       \* the hash of a question's text
  Cached,       \* questions outside a thread and without a snippet: they use the cache
  Cli,          \* `owl` processes the owner may have running at once
  Daemon,       \* the pull loop
  NoQuestion, NoPeer,
  MaxCrashes,   \* bound: daemon restarts
  MaxFaults     \* bound: interrupted commands, failed exchanges and file operations

Proc == Cli \union {Daemon}

ASSUME AskerAssumption ==
  /\ To \in [Question -> Peer] /\ HashOf \in [Question -> Hash] /\ Cached \subseteq Question
  /\ Daemon \notin Cli /\ NoQuestion \notin Question /\ NoPeer \notin Peer
  /\ MaxCrashes \in Nat /\ MaxFaults \in Nat

VARIABLES
  asks,       \* asks/<id>.json
  done,       \* done/<id>.json of asks, by state
  mail,       \* inbox/<answer id>.json
  discarded,  \* done/<answer id>.json: answers the owner has put away
  cache,      \* cache/<hash>.json
  held,       \* the peers: the Task of each question
  outbox,     \* the peers: signed answers not yet acked or expired
  signed,     \* the peers: answers ever signed, those served from their cache included
  task,       \* what each process is doing
  faults, crashes,
  tried,      \* questions sent so far
  kept,       \* history: questions whose asks/ record was written
  acked       \* history: answers acked

files == <<asks, done, mail, discarded, cache>>
peers == <<held, outbox, signed>>
bounds == <<faults, crashes, tried>>
history == <<kept, acked>>
vars == <<files, peers, task, bounds, history>>

-----------------------------------------------------------------------------
(* A process: where it is, what it runs, the question and peer it works on,   *)
(* the open asks it listed, the answers it fetched, the Tasks it has still to  *)
(* ask for, the peers it has still to visit, and whether the Task was REJECTED. *)
Pc == {"idle", "putAsk", "fetch", "ingest", "cache", "close", "move", "set", "ack", "tasks",
       "noteGet", "notePut", "closeMove", "closeSet",
       "discard", "unlink"}
Op == {"none", "ask", "wait", "hit", "pull", "status", "discard"}
Task == [pc : Pc, op : Op, q : Question \union {NoQuestion}, peer : Peer \union {NoPeer},
         open : SUBSET Question, items : SUBSET Question, todo : SUBSET Question,
         visit : SUBSET Peer, rejected : BOOLEAN]
Idle == [pc |-> "idle", op |-> "none", q |-> NoQuestion, peer |-> NoPeer, open |-> {},
         items |-> {}, todo |-> {}, visit |-> {}, rejected |-> FALSE]

At(p, pc) == task[p].pc = pc
Become(p, t) == task' = [task EXCEPT ![p] = t]
Goto(p, pc) == Become(p, [task[p] EXCEPT !.pc = pc])
Exit(p) == Become(p, Idle)

InDone(q) == done[q] # "none"
Stored(q) == q \in mail \union discarded

Init ==
  /\ asks = {} /\ done = [q \in Question |-> "none"]
  /\ mail = {} /\ discarded = {}
  /\ cache = [h \in Hash |-> NoQuestion]
  /\ held = [q \in Question |-> "none"] /\ outbox = {} /\ signed = {}
  /\ task = [p \in Proc |-> Idle]
  /\ faults = 0 /\ crashes = 0 /\ tried = {}
  /\ kept = {} /\ acked = {}

Fault == faults < MaxFaults /\ faults' = faults + 1

-----------------------------------------------------------------------------
(* The peers. An answer is put into the outbox and the question finished       *)
(* after it; the owner may also reject, even what a failed send left answered. *)

Sign(q) ==
  /\ held[q] = "open" /\ q \notin signed
  /\ outbox' = outbox \union {q} /\ signed' = signed \union {q}
  /\ UNCHANGED <<files, held, task, bounds, history>>

FinishAnswered(q) ==
  /\ held[q] = "open" /\ q \in signed
  /\ held' = [held EXCEPT ![q] = "completed"]
  /\ UNCHANGED <<files, outbox, signed, task, bounds, history>>

Decline(q) ==
  /\ held[q] = "open"
  /\ held' = [held EXCEPT ![q] = "rejected"]
  /\ UNCHANGED <<files, outbox, signed, task, bounds, history>>

Expire(q) ==
  /\ q \in outbox
  /\ outbox' = outbox \ {q}
  /\ UNCHANGED <<files, held, signed, task, bounds, history>>

(* find_task: inbox/, then outbox/, then done/.                               *)
PeerTask(q) == IF held[q] # "open" /\ q \in outbox THEN "completed" ELSE held[q]

-----------------------------------------------------------------------------
(* `owl ask`, `owl request`, `owl call`. The question is sent and the reply     *)
(* read in one step; a death of the command before it writes its record is a   *)
(* step of its own. A lost reply makes the client post again over the next     *)
(* transport, which the peer refuses as a replay. A peer that has the answer in *)
(* its cache replies with it; an offline, refusing or busy one, and a hit in    *)
(* the own cache, leave nothing behind.                                        *)

Accepted(c, q, wait) ==
  \/ held' = [held EXCEPT ![q] = "open"]
     /\ Become(c, [Idle EXCEPT !.op = IF wait THEN "wait" ELSE "ask", !.q = q, !.pc = "putAsk"])
     /\ UNCHANGED faults
  \/ held' = [held EXCEPT ![q] = "open"] /\ Fault /\ UNCHANGED task
AnsweredAtOnce(c, q) ==
  /\ signed' = signed \union {q}
  /\ Become(c, [Idle EXCEPT !.op = "hit", !.items = {q}, !.pc = "ingest"])

Ask(c, q, wait) ==
  /\ At(c, "idle") /\ q \notin tried
  /\ tried' = tried \union {q}
  /\ \/ Accepted(c, q, wait) /\ UNCHANGED signed
     \/ q \in Cached /\ AnsweredAtOnce(c, q) /\ UNCHANGED <<held, faults>>
     \/ UNCHANGED <<held, signed, task, faults>>
  /\ UNCHANGED <<files, outbox, crashes, history>>

(* With --wait the command goes on as a pull loop over this one ask.           *)
PutAsk(c) ==
  /\ At(c, "putAsk")
  /\ LET t == task[c]
     IN /\ asks' = asks \union {t.q}
        /\ kept' = kept \union {t.q}
        /\ IF t.op = "wait"
           THEN Become(c, [t EXCEPT !.open = {t.q}, !.peer = To[t.q], !.pc = "fetch"])
           ELSE Exit(c)
  /\ UNCHANGED <<done, mail, discarded, cache, peers, bounds, acked>>

(* The answer came with the reply: it is stored, and the ask is born closed.   *)
CloseHit(c) ==
  /\ At(c, "close")
  /\ done' = [done EXCEPT ![task[c].q] = "answered"]
  /\ Exit(c)
  /\ UNCHANGED <<asks, mail, discarded, cache, peers, bounds, history>>

-----------------------------------------------------------------------------
(* The pull loop lists asks/ once per tick and visits each peer of that list;  *)
(* its liveness cache never skips a peer for longer than the time to the next  *)
(* tick, so no tick of this model is skipped.                                  *)

Pull ==
  /\ At(Daemon, "idle")
  /\ Become(Daemon, [Idle EXCEPT !.op = "pull", !.open = asks, !.visit = {To[q] : q \in asks},
                       !.pc = "tasks"])
  /\ UNCHANGED <<files, peers, bounds, history>>

NextPeer ==
  /\ At(Daemon, "tasks") /\ task[Daemon].todo = {}
  /\ LET t == task[Daemon]
     IN \/ t.visit = {} /\ Exit(Daemon)
        \/ \E p \in t.visit :
             Become(Daemon, [t EXCEPT !.visit = @ \ {p}, !.peer = p, !.pc = "fetch"])
  /\ UNCHANGED <<files, peers, bounds, history>>

Mine(t) == {q \in t.open : To[q] = t.peer}

(* An envelope that replies to no listed ask of this peer, or whose signature   *)
(* does not verify, is dropped: only the others are kept here.                  *)
FetchAcking(p) ==
  /\ At(p, "fetch")
  /\ Become(p, [task[p] EXCEPT !.items = outbox \intersect Mine(task[p]), !.pc = "ingest"])
  /\ outbox' = outbox \ Mine(task[p])
  /\ acked' = acked \union (outbox \intersect Mine(task[p]))
  /\ UNCHANGED <<files, held, signed, bounds, kept>>
FetchNothing(p) ==
  /\ At(p, "fetch")
  /\ Become(p, [task[p] EXCEPT !.items = {}, !.pc = "ingest"])
  /\ UNCHANGED <<files, peers, bounds, history>>
Fetch(p) ==
  /\ At(p, "fetch")
  /\ Become(p, [task[p] EXCEPT !.items = outbox \intersect Mine(task[p]), !.pc = "ingest"])
  /\ UNCHANGED <<files, peers, bounds, history>>

(* ingest_envelope. The answer goes to inbox/ (and the cache) before the ask    *)
(* leaves asks/, the ack comes last. An error ends `owl ask --wait`; the pull   *)
(* loop goes on with the next answer.                                          *)
AfterStore(op, q) ==
  IF q \in Cached THEN "cache" ELSE IF op = "hit" THEN "close" ELSE "move"

StoreUnchecked(p) ==
  /\ At(p, "ingest")
  /\ \E q \in task[p].items :
       /\ mail' \in {mail, mail \union {q}}
       /\ Become(p, [task[p] EXCEPT !.items = @ \ {q}, !.q = q, !.pc = AfterStore(task[p].op, q)])
  /\ UNCHANGED <<asks, done, discarded, cache, peers, bounds, history>>
Store(p) ==
  /\ At(p, "ingest")
  /\ \E q \in task[p].items :
       /\ mail' = mail \union {q}
       /\ Become(p, [task[p] EXCEPT !.items = @ \ {q}, !.q = q, !.pc = AfterStore(task[p].op, q)])
  /\ UNCHANGED <<asks, done, discarded, cache, peers, bounds, history>>

CachePut(p) ==
  /\ At(p, "cache")
  /\ LET t == task[p]
     IN /\ cache' = [cache EXCEPT ![HashOf[t.q]] = t.q]
        /\ Goto(p, IF t.op = "hit" THEN "close" ELSE "move")
  /\ UNCHANGED <<asks, done, mail, discarded, peers, bounds, history>>

(* move_to is one rename; the record keeps its state until the next step. It    *)
(* fails when another process has closed the ask.                               *)
MoveLater(q) == asks' = asks \ {q} /\ UNCHANGED done
MoveToDone(q) == asks' = asks \ {q} /\ done' = [done EXCEPT ![q] = "waiting"]
NotOpen(p, pc) ==
  /\ task[p].q \notin asks
  /\ IF p = Daemon THEN Goto(p, pc) ELSE Exit(p)
  /\ UNCHANGED <<asks, done>>

Move(p) ==
  /\ At(p, "move")
  /\ \/ task[p].q \in asks /\ MoveToDone(task[p].q) /\ Goto(p, "set")
     \/ NotOpen(p, "ingest")
  /\ UNCHANGED <<mail, discarded, cache, peers, bounds, history>>

SetStateAnswered(p, state) == done' = [done EXCEPT ![task[p].q] = "answered"]
SetState(p, state) == done' = [done EXCEPT ![task[p].q] = state]

SetAnswered(p) ==
  /\ At(p, "set")
  /\ SetState(p, "answered")
  /\ Goto(p, "ack")
  /\ UNCHANGED <<asks, mail, discarded, cache, peers, bounds, history>>

(* The ack of an answer the peer no longer holds fails, and changes nothing.    *)
AfterAck(p) ==
  IF p = Daemon THEN Become(p, [task[p] EXCEPT !.open = @ \ {task[p].q}, !.pc = "ingest"])
  ELSE Exit(p)

Ack(p) ==
  /\ At(p, "ack")
  /\ outbox' = outbox \ {task[p].q}
  /\ acked' = acked \union ({task[p].q} \intersect outbox)
  /\ AfterAck(p)
  /\ UNCHANGED <<files, held, signed, bounds, kept>>

-----------------------------------------------------------------------------
(* The Tasks of the asks still open to this peer, by the pull loop and --wait;  *)
(* of every ask in asks/, by `owl status`. The pull loop closes a REJECTED one  *)
(* and notes the others; the commands note it in any case, then close it.       *)

ToTasks(p) ==
  /\ At(p, "ingest") /\ task[p].items = {} /\ task[p].op # "hit"
  /\ Become(p, [task[p] EXCEPT !.todo = Mine(task[p]), !.pc = "tasks"])
  /\ UNCHANGED <<files, peers, bounds, history>>

Status(c) ==
  /\ At(c, "idle") /\ asks # {}
  /\ \E S \in {asks} \union {{q} : q \in asks} :
       Become(c, [Idle EXCEPT !.op = "status", !.todo = S, !.pc = "tasks"])
  /\ UNCHANGED <<files, peers, bounds, history>>

TaskPcSkipping(op, state) == IF state \in {"none", "rejected"} THEN "tasks" ELSE "noteGet"
TaskPc(op, state) ==
  CASE state = "none" -> "tasks"
    [] state = "rejected" /\ op = "pull" -> "closeMove"
    [] OTHER -> "noteGet"

FetchTask(p) ==
  /\ At(p, "tasks")
  /\ \E q \in task[p].todo :
       Become(p, [task[p] EXCEPT !.todo = @ \ {q}, !.q = q, !.rejected = PeerTask(q) = "rejected",
                    !.pc = TaskPc(task[p].op, PeerTask(q))])
  /\ UNCHANGED <<files, peers, bounds, history>>

(* All asked: --wait polls again or gives up at its deadline, status ends; the    *)
(* pull loop turns to the next peer.                                             *)
AllAsked(c) ==
  /\ At(c, "tasks") /\ task[c].todo = {}
  /\ Exit(c) \/ (task[c].op = "wait" /\ Goto(c, "fetch"))
  /\ UNCHANGED <<files, peers, bounds, history>>

(* note_task_state reads the record from asks/ and writes it back, and ignores    *)
(* every error.                                                                  *)
AfterNote(t) == IF t.rejected THEN "closeMove" ELSE "tasks"

NoteGet(p) ==
  /\ At(p, "noteGet")
  /\ Goto(p, IF task[p].q \in asks THEN "notePut" ELSE AfterNote(task[p]))
  /\ UNCHANGED <<files, peers, bounds, history>>

NotePut(p) ==
  /\ At(p, "notePut")
  /\ asks' = asks \union {task[p].q}
  /\ Goto(p, AfterNote(task[p]))
  /\ UNCHANGED <<done, mail, discarded, cache, peers, bounds, history>>

(* close_declined.                                                               *)
CloseMove(p) ==
  /\ At(p, "closeMove")
  /\ \/ task[p].q \in asks /\ MoveToDone(task[p].q) /\ Goto(p, "closeSet")
     \/ NotOpen(p, "tasks")
  /\ UNCHANGED <<mail, discarded, cache, peers, bounds, history>>

CloseSet(p) ==
  /\ At(p, "closeSet")
  /\ SetState(p, "declined")
  /\ LET t == task[p]
     IN IF t.op = "wait" THEN Exit(p)
        ELSE Become(p, [t EXCEPT !.open = @ \ {t.q}, !.pc = "tasks"])
  /\ UNCHANGED <<asks, mail, discarded, cache, peers, bounds, history>>

-----------------------------------------------------------------------------
(* The owner puts an answer away with `owl reject` (answer::finish: done/, then    *)
(* inbox/). Reading one changes its seen flag only.                               *)

PutAway(c, q) ==
  /\ At(c, "idle") /\ q \in mail
  /\ Become(c, [Idle EXCEPT !.op = "discard", !.q = q, !.pc = "discard"])
  /\ UNCHANGED <<files, peers, bounds, history>>

Discard(c) ==
  /\ At(c, "discard")
  /\ discarded' = discarded \union {task[c].q}
  /\ Goto(c, "unlink")
  /\ UNCHANGED <<asks, done, mail, cache, peers, bounds, history>>

Unlink(c) ==
  /\ At(c, "unlink")
  /\ mail' = mail \ {task[c].q}
  /\ Exit(c)
  /\ UNCHANGED <<asks, done, discarded, cache, peers, bounds, history>>

-----------------------------------------------------------------------------
(* Faults. An exchange or a file operation of the pull loop that fails is logged  *)
(* and the loop goes on; --wait and status survive a failed exchange; any other   *)
(* error, and the owner, end a command.                                           *)

Resume(t) ==
  CASE t.pc = "fetch" -> [t EXCEPT !.todo = IF t.op = "wait" THEN t.open ELSE {}, !.pc = "tasks"]
    [] t.pc \in {"cache", "move", "set"} -> [t EXCEPT !.pc = "ingest"]
    [] t.pc = "ack" -> [t EXCEPT !.open = @ \ {t.q}, !.pc = "ingest"]
    [] OTHER -> [t EXCEPT !.pc = "tasks"]

StoreFails ==
  /\ At(Daemon, "ingest") /\ Fault
  /\ \E q \in task[Daemon].items : Become(Daemon, [task[Daemon] EXCEPT !.items = @ \ {q}])
  /\ UNCHANGED <<files, peers, crashes, tried, history>>

TaskFails(p) ==
  /\ At(p, "tasks") /\ Fault
  /\ \E q \in task[p].todo : Become(p, [task[p] EXCEPT !.todo = @ \ {q}])
  /\ UNCHANGED <<files, peers, crashes, tried, history>>

StepFails(p) ==
  /\ \/ At(p, "fetch")
     \/ p = Daemon /\ task[p].pc \in {"cache", "move", "set", "ack", "noteGet", "notePut",
                                      "closeMove", "closeSet"}
  /\ Fault
  /\ Become(p, Resume(task[p]))
  /\ UNCHANGED <<files, peers, crashes, tried, history>>

CliExit(c) ==
  /\ ~At(c, "idle") /\ Fault
  /\ Exit(c)
  /\ UNCHANGED <<files, peers, crashes, tried, history>>

Restart ==
  /\ crashes < MaxCrashes /\ crashes' = crashes + 1
  /\ Exit(Daemon)
  /\ UNCHANGED <<files, peers, faults, tried, history>>

IngestStep(p) ==
  \/ Fetch(p) \/ Store(p) \/ CachePut(p) \/ Move(p) \/ SetAnswered(p) \/ Ack(p)
TaskStep(p) ==
  \/ ToTasks(p) \/ FetchTask(p) \/ NoteGet(p) \/ NotePut(p)
  \/ CloseMove(p) \/ CloseSet(p) \/ TaskFails(p) \/ StepFails(p)
PullStep == Pull \/ NextPeer \/ StoreFails \/ IngestStep(Daemon) \/ TaskStep(Daemon)

CliStep(c) ==
  \/ \E q \in Question : PutAway(c, q) \/ \E wait \in BOOLEAN : Ask(c, q, wait)
  \/ PutAsk(c) \/ CloseHit(c) \/ Status(c) \/ AllAsked(c) \/ Discard(c) \/ Unlink(c)
  \/ IngestStep(c) \/ TaskStep(c) \/ CliExit(c)

PeerStep == \E q \in Question : Sign(q) \/ FinishAnswered(q) \/ Decline(q) \/ Expire(q)

Next == PullStep \/ Restart \/ PeerStep \/ \E c \in Cli : CliStep(c)

Spec == Init /\ [][Next]_vars

(* run_loop ticks until the daemon is stopped and every exchange has a timeout;    *)
(* nobody owes a command, and a peer owes nothing.                                 *)
FairSpec == Spec /\ WF_vars(PullStep)

-----------------------------------------------------------------------------
FilesOK ==
  /\ asks \subseteq Question /\ mail \subseteq Question /\ discarded \subseteq Question
  /\ done \in [Question -> {"none", "waiting", "answered", "declined"}]
  /\ cache \in [Hash -> Question \union {NoQuestion}]
PeersOK ==
  /\ held \in [Question -> {"none", "open", "completed", "rejected"}]
  /\ outbox \subseteq Question /\ signed \subseteq Question
AtWork(t) == t.pc \in {"idle", "fetch", "ingest", "tasks"} \/ t.q \in Question
TasksOK == task \in [Proc -> Task] /\ \A p \in Proc : AtWork(task[p])
CountsOK ==
  /\ faults \in Nat /\ crashes \in Nat
  /\ tried \subseteq Question /\ kept \subseteq Question /\ acked \subseteq Question

(* Every variable stays in its type, and a process at work on a question has one. *)
TypeOK == FilesOK /\ PeersOK /\ TasksOK /\ CountsOK

(* An ask that was written to asks/ is in asks/ or done/ ever after, whatever     *)
(* the pull loop, --wait and status do to it at the same time.                    *)
AskKept == \A q \in kept : q \in asks \/ InDone(q)

(* An ask leaves asks/ for one of two reasons: its answer is on this machine, or   *)
(* its peer's owner declined; a crash, a lost exchange or a Task without an answer *)
(* never closes it.                                                               *)
ClosedForAReason == \A q \in kept \ asks : Stored(q) \/ held[q] = "rejected"

(* An ask is closed as declined only when its peer declined it, and as answered    *)
(* only when the answer is here, although commands and the pull loop can each be   *)
(* half-way through closing it.                                                    *)
ClosedAsWhatHappened ==
  \A q \in Question : /\ done[q] = "declined" => held[q] = "rejected"
                      /\ done[q] = "answered" => Stored(q)

(* The asker implements Delivery: no answer is received that was not signed, none  *)
(* is acked, and so given up by its peer, before it is stored, and none is lost    *)
(* after that.                                                                     *)
Promise == INSTANCE Delivery WITH sent <- signed, received <- {q \in Question : Stored(q)}
KeepsDelivery == Promise!Spec

(* What cache/ holds under a hash is an answer that arrived here, to a question of *)
(* that hash asked outside any thread: `owl ask` may show it instead of asking.    *)
CacheHoldsAnswers ==
  \A h \in Hash : cache[h] # NoQuestion =>
    Stored(cache[h]) /\ cache[h] \in Cached /\ HashOf[cache[h]] = h

(* An answer that waits at the peer of an open ask is pulled, or expires there,    *)
(* across daemon restarts, failed exchanges and commands at work on the same ask.  *)
AnswerArrives ==
  \A q \in Question : (q \in asks /\ q \in outbox) ~> (Stored(q) \/ q \notin outbox)

(* architecture.md:224: "a declined question never waits forever".                 *)
DeclinedCloses ==
  \A q \in Question : (q \in asks /\ PeerTask(q) = "rejected") ~> q \notin asks

-----------------------------------------------------------------------------
(* What the documentation says and the code does not do: TLC refutes it as an      *)
(* invariant of the instance of Asking.                                             *)

(* architecture.md:63: asks/ holds "questions we sent, awaiting an answer": an ask   *)
(* closed as answered is not in asks/.                                              *)
AsksAwait == \A q \in asks : done[q] # "answered"
=============================================================================
