------------------------------ MODULE Responder ------------------------------
(***************************************************************************)
(* The answering side of owlpost: the spool of one machine (inbox/,        *)
(* outbox/, done/, cache/, log/outgoing.jsonl) and the processes that      *)
(* share it: the daemon's request handlers (server.rs), its auto-accept    *)
(* workers (auto.rs, answer.rs) and the owner's one-shot `owl` commands    *)
(* (cli/draft, edit, send, reject, allow, deny, inbox, show).              *)
(*                                                                         *)
(* The spool has no lock.  A file is read, written (temp file and rename), *)
(* renamed or removed in one step; whatever a process does between two     *)
(* file operations can be interleaved with every other process, and a      *)
(* process can die between any two of them.                                *)
(*                                                                         *)
(* An operator right before a definition, with the same parameters, is a   *)
(* faulty variant of it that the properties are tried against.             *)
(***************************************************************************)
EXTENDS Naturals, Sequences, FiniteSets

CONSTANTS
  Question,      \* ids of the requests peers send; an id also names its auto-accept worker
  Peer,          \* the contacts
  Hash,          \* question hashes (project + path + normalised text)
  Thread,        \* thread ids (context_id)
  Cli,           \* `owl` processes the owner may have running at once
  Handler,       \* requests the daemon serves at once
  From,          \* the peer that sent a request
  Kind,          \* "question", "content" or "tool-call"
  HashOf,        \* the hash of a request's text
  ThreadOf,      \* the thread a request names, or NoThread
  Snippet,       \* the requests that carry a context snippet
  Polled,        \* the requests whose asker polls their Task
  AskedHere,     \* hashes of the questions this machine's owner asks other peers
  NoThread, NoQuestion,
  Policies,      \* what `owl allow` / `owl deny` may write in this model
  InitPolicy,    \* the contact book at start
  MaxPosts,      \* bound: deliveries of one request (client retries over the next transport)
  MaxTexts,      \* bound: drafts written
  MaxSigned,     \* bound: envelopes signed
  MaxCrashes,    \* bound: daemon restarts
  MaxFaults      \* bound: commands interrupted and file operations that fail

Mode == {"unset", "manual", "auto", "never"}
Worker == Question
Proc == Cli \union Handler \union Worker

ASSUME ResponderAssumption ==
  /\ NoQuestion \notin Question /\ NoThread \notin Thread
  /\ Cli \intersect Handler = {} /\ Cli \intersect Worker = {} /\ Handler \intersect Worker = {}
  /\ From \in [Question -> Peer]
  /\ Kind \in [Question -> {"question", "content", "tool-call"}]
  /\ HashOf \in [Question -> Hash]
  /\ ThreadOf \in [Question -> Thread \union {NoThread}]
  /\ Snippet \subseteq Question /\ Polled \subseteq Question /\ AskedHere \subseteq Hash
  /\ Policies \subseteq {"once", "manual", "auto", "never"}
  /\ InitPolicy \in [Peer -> Mode]
  /\ {MaxPosts, MaxTexts, MaxSigned, MaxCrashes, MaxFaults} \subseteq Nat

VARIABLES
  inbox,     \* inbox/<id>.json
  outbox,    \* outbox/: signed answers not yet acked or expired
  archive,   \* the answers in done/
  done,      \* done/<id>.json of requests
  cache,     \* cache/<hash>.json
  log,       \* log/outgoing.jsonl, the lines of each request
  policy,    \* the policy overlay in contacts/
  seen,      \* the replay window in the daemon's memory
  unsaved,   \* the ids of it that are not in seen-ids.txt
  offered,   \* ids the event channel or a scan handed to the scheduler
  task,      \* what each process is doing
  texts,     \* drafts written so far
  signed,    \* envelopes signed so far
  posts,     \* deliveries of each request
  crashes,   \* daemon restarts so far
  faults,    \* interruptions and I/O failures so far
  accepted,  \* history: requests spooled into inbox/
  consented, \* history: requests the owner's policy or `owl allow` let through
  hits,      \* history: <<request, envelope>> answered from the cache
  told       \* history: what the asker's last poll of a request was answered

store == <<inbox, outbox, archive, done, cache, log>>
daemon == <<policy, seen, unsaved, offered>>
bounds == <<texts, signed, posts, crashes, faults>>
history == <<accepted, consented, hits, told>>
vars == <<store, daemon, task, bounds, history>>

-----------------------------------------------------------------------------
(* Records. A draft is a number, 0 for none; every stored text is a new one. *)

State == {"consent", "pending", "drafted"}
Record == [state : State \union {"none"}, draft : Nat, autoError : BOOLEAN]
NoRecord == [state |-> "none", draft |-> 0, autoError |-> FALSE]

Envelope == [id : Nat \ {0}, q : Question, text : Nat, mode : {"manual", "auto"}]
NoEnvelope == [id |-> 0, q |-> NoQuestion, text |-> 0, mode |-> "manual"]

(* An answer this machine received: signed elsewhere, replying to its own ask. *)
Foreign == [NoEnvelope EXCEPT !.text = 1]

Finished == [state : {"none", "answered", "rejected", "denied"}, answer : Nat]
NotFinished == [state |-> "none", answer |-> 0]

Line == [text : Nat, mode : {"manual", "auto"}]

(* A process: where it is, what it runs, the request it works on, the record  *)
(* it holds in memory, the envelope it ships, the requests left to a bulk     *)
(* command, the policy a handler read at admission, and whether the request   *)
(* was found to continue a thread held here.                                  *)
Pc == {"idle", "threadDone", "threadInbox", "cacheGet", "spool", "remember",
       "taskOutbox", "taskDone", "read", "drafting", "put", "existing",
       "sendThreadDone", "sendThreadInbox", "sign", "cachePut", "log", "append",
       "finish", "unlink", "recover", "recoverExisting", "giveUp", "list", "next"}
Op == {"none", "post", "poll", "auto", "draft", "edit", "send", "reject", "seen",
       "allow", "deny"}
Task == [pc : Pc, op : Op, q : Question \union {NoQuestion}, rec : Record,
         env : Envelope \union {NoEnvelope, Foreign}, todo : SUBSET Question,
         mode : Mode, threaded : BOOLEAN]
AtWork(t) == t.pc \in {"idle", "list", "next"} \/ t.q \in Question
Idle == [pc |-> "idle", op |-> "none", q |-> NoQuestion, rec |-> NoRecord,
         env |-> NoEnvelope, todo |-> {}, mode |-> "unset", threaded |-> FALSE]

At(p, pc) == task[p].pc = pc
Become(p, t) == task' = [task EXCEPT ![p] = t]
Goto(p, pc) == Become(p, [task[p] EXCEPT !.pc = pc])
Exit(p) == Become(p, Idle)
PutInbox(q, r) == inbox' = [inbox EXCEPT ![q] = r]

InInbox(q) == inbox[q].state # "none"
InDone(q) == done[q].state # "none"
SameThread(q, r) == r # q /\ ThreadOf[q] # NoThread /\ ThreadOf[r] = ThreadOf[q]
HeldIn(q, S) == \E r \in S : SameThread(q, r)
InboxIds == {q \in Question : InInbox(q)}
DoneIds == {q \in Question : InDone(q)}

(* A signed answer carries the thread of its question; done/ keeps both.       *)
HeldInDone(q) ==
  \/ HeldIn(q, DoneIds)
  \/ ThreadOf[q] # NoThread /\ \E e \in archive : ThreadOf[e.q] = ThreadOf[q]
OutboxOf(q) == {e \in outbox : e.q = q}
EnvelopeOf(q) == {e \in outbox \union archive : e.q = q}

Init ==
  /\ inbox = [q \in Question |-> NoRecord]
  /\ outbox = {} /\ archive = {}
  /\ done = [q \in Question |-> NotFinished]
  /\ cache = [h \in Hash |-> NoEnvelope]
  /\ log = [q \in Question |-> <<>>]
  /\ policy = InitPolicy
  /\ seen = {} /\ unsaved = {} /\ offered = {}
  /\ task = [p \in Proc |-> Idle]
  /\ texts = 0 /\ signed = 0 /\ crashes = 0 /\ faults = 0
  /\ posts = [q \in Question |-> 0]
  /\ accepted = {} /\ consented = {} /\ hits = {}
  /\ told = [q \in Question |-> "nothing"]

-----------------------------------------------------------------------------
(* POST /v1/questions. The duplicate check, the write to inbox/ and the entry *)
(* in the replay window are three separate steps. The contact book is read    *)
(* once, with the duplicate check: reading it a moment earlier only makes the *)
(* check more permissive. Signature, schema, freshness and rate checks refuse *)
(* a request and change nothing here.                                         *)

RecordState(q, mode) ==
  IF Kind[q] # "question" \/ mode = "unset" THEN "consent" ELSE "pending"
LetThrough(q, mode) == Kind[q] = "question" /\ mode # "unset"
Offer(q, mode) == Kind[q] = "question" /\ mode = "auto"
MayReadCache(mode) == mode \in {"manual", "auto"}
Fresh(q) == q \notin seen

AfterAdmission(q, mode, threaded) ==
  IF Kind[q] = "question" /\ MayReadCache(mode) /\ ~threaded THEN "cacheGet" ELSE "spool"

Post(h, q) ==
  /\ At(h, "idle") /\ posts[q] < MaxPosts
  /\ Fresh(q)
  /\ policy[From[q]] # "never"
  /\ LET m == policy[From[q]]
         looksUp == Kind[q] = "question" /\ q \notin Snippet /\ ThreadOf[q] # NoThread
     IN Become(h, [Idle EXCEPT !.op = "post", !.q = q, !.mode = m, !.threaded = q \in Snippet,
                     !.pc = IF looksUp THEN "threadDone"
                            ELSE AfterAdmission(q, m, q \in Snippet)])
  /\ posts' = [posts EXCEPT ![q] = @ + 1]
  /\ UNCHANGED <<store, daemon, texts, signed, crashes, faults, history>>

PostThreadDone(h) ==
  /\ At(h, "threadDone")
  /\ LET t == task[h]
         known == HeldInDone(t.q)
     IN Become(h, [t EXCEPT !.threaded = known,
                     !.pc = IF known THEN AfterAdmission(t.q, t.mode, TRUE) ELSE "threadInbox"])
  /\ UNCHANGED <<store, daemon, bounds, history>>

PostThreadInbox(h) ==
  /\ At(h, "threadInbox")
  /\ LET t == task[h]
         known == HeldIn(t.q, InboxIds)
     IN Become(h, [t EXCEPT !.threaded = known, !.pc = AfterAdmission(t.q, t.mode, known)])
  /\ UNCHANGED <<store, daemon, bounds, history>>

CacheGet(h) ==
  /\ At(h, "cacheGet")
  /\ LET t == task[h]
         e == cache[HashOf[t.q]]
     IN \/ /\ e = NoEnvelope
           /\ Goto(h, "spool")
           /\ UNCHANGED hits
        \/ /\ e # NoEnvelope
           /\ Become(h, [t EXCEPT !.env = e, !.pc = "remember"])
           /\ hits' = hits \union {<<t.q, e>>}
  /\ UNCHANGED <<store, daemon, bounds, accepted, consented, told>>

Spool(h) ==
  /\ At(h, "spool")
  /\ LET q == task[h].q
         mode == task[h].mode
     IN /\ PutInbox(q, [NoRecord EXCEPT !.state = RecordState(q, mode)])
        /\ consented' = IF LetThrough(q, mode) THEN consented \union {q} ELSE consented
        /\ accepted' = accepted \union {q}
  /\ Goto(h, "remember")
  /\ UNCHANGED <<outbox, archive, done, cache, log, daemon, bounds, hits, told>>

Remember(h) ==
  /\ At(h, "remember")
  /\ LET t == task[h]
         isNew == t.env = NoEnvelope
     IN /\ seen' = seen \union {t.q}
        /\ unsaved' = {}
        /\ offered' = IF isNew /\ Offer(t.q, t.mode) THEN offered \union {t.q} ELSE offered
  /\ Exit(h)
  /\ UNCHANGED <<store, policy, bounds, history>>

(* The pull loop and `owl ask` keep the answers received from peers in the     *)
(* same cache/ directory, under the same hash (pull.rs, store_answer).         *)
StoreAnswer(hash) ==
  /\ hash \in AskedHere
  /\ cache' = [cache EXCEPT ![hash] = Foreign]
  /\ UNCHANGED <<inbox, outbox, archive, done, log, daemon, task, bounds, history>>

-----------------------------------------------------------------------------
(* GET /v1/questions/{id}: the Task of a request its asker was told is         *)
(* accepted, looked up in inbox/, then outbox/, then done/.                    *)

A2aState(s) ==
  CASE s \in State -> "open"
    [] s = "answered" -> "completed"
    [] s \in {"rejected", "denied"} -> "declined"
    [] OTHER -> "missing"

Answer(q, a) == told' = [told EXCEPT ![q] = a]

Poll(h, q) ==
  /\ At(h, "idle") /\ q \in accepted \intersect Polled
  /\ IF InInbox(q)
     THEN Answer(q, A2aState(inbox[q].state)) /\ UNCHANGED task
     ELSE Become(h, [Idle EXCEPT !.op = "poll", !.q = q, !.pc = "taskOutbox"]) /\ UNCHANGED told
  /\ UNCHANGED <<store, daemon, bounds, accepted, consented, hits>>

PollOutbox(h) ==
  /\ At(h, "taskOutbox")
  /\ IF OutboxOf(task[h].q) # {}
     THEN Answer(task[h].q, "completed") /\ Exit(h)
     ELSE Goto(h, "taskDone") /\ UNCHANGED told
  /\ UNCHANGED <<store, daemon, bounds, accepted, consented, hits>>

PollDone(h) ==
  /\ At(h, "taskDone")
  /\ Answer(task[h].q, A2aState(done[task[h].q].state))
  /\ Exit(h)
  /\ UNCHANGED <<store, daemon, bounds, accepted, consented, hits>>

(* POST /v1/outbox/{id}/ack by the asker that fetched the answer, and the       *)
(* expiry of an old one: a rename into done/, then a state no reader uses.      *)
Archive(e) == outbox' = outbox \ {e} /\ archive' = archive \union {e}

Ack ==
  /\ \E e \in outbox : Archive(e)
  /\ UNCHANGED <<inbox, done, cache, log, daemon, task, bounds, history>>

Expire ==
  /\ \E e \in outbox : Archive(e)
  /\ UNCHANGED <<inbox, done, cache, log, daemon, task, bounds, history>>

-----------------------------------------------------------------------------
(* Auto-accept. A scan and the event of a new question both hand ids to the     *)
(* scheduler; in_flight admits one worker per id. The worker reads the record   *)
(* and the contact book once, before the harness runs.                          *)

CandidateAnyKind(q, r) == r.state = "pending" /\ policy[From[q]] = "auto"
Candidate(q, r) ==
  /\ r.state = "pending"
  /\ Kind[q] = "question"
  /\ policy[From[q]] = "auto"
ScanTakes(q) == Candidate(q, inbox[q]) /\ ~inbox[q].autoError

ScanNever == UNCHANGED vars
Scan ==
  /\ offered' = offered \union {q \in Question : ScanTakes(q)}
  /\ UNCHANGED <<store, policy, seen, unsaved, task, bounds, history>>

Claim(w) ==
  /\ w \in offered
  /\ offered' = offered \ {w}
  /\ IF At(w, "idle")
     THEN Become(w, [Idle EXCEPT !.op = "auto", !.q = w, !.pc = "read"])
     ELSE UNCHANGED task
  /\ UNCHANGED <<store, policy, seen, unsaved, bounds, history>>

AutoRead(w) ==
  /\ At(w, "read")
  /\ IF Candidate(w, inbox[w])
     THEN Become(w, [task[w] EXCEPT !.rec = inbox[w], !.pc = "drafting"])
     ELSE Exit(w)
  /\ UNCHANGED <<store, daemon, bounds, history>>

Undrafted(r) == [r EXCEPT !.state = "pending", !.draft = 0]

(* The harness fails, or its status is not ok: the record goes back pending.    *)
DraftFail(w) ==
  /\ At(w, "drafting")
  /\ Become(w, [task[w] EXCEPT !.rec = Undrafted(@), !.pc = "giveUp"])
  /\ UNCHANGED <<store, daemon, bounds, history>>

(* Any error of `send` in a worker: what is left in inbox/ decides. An answer   *)
(* already in outbox/ keeps the record drafted; otherwise the draft is dropped. *)
(* Any other file error ends the attempt.                                       *)
SendPc == {"existing", "sign", "cachePut", "log", "append", "finish", "unlink"}

IoFailure(w) ==
  /\ ~At(w, "idle") /\ faults < MaxFaults
  /\ faults' = faults + 1
  /\ IF task[w].pc \in SendPc THEN Goto(w, "recover") ELSE Exit(w)
  /\ UNCHANGED <<store, daemon, texts, signed, posts, crashes, history>>

Recover(w) ==
  /\ At(w, "recover")
  /\ IF InInbox(w)
     THEN Become(w, [task[w] EXCEPT !.rec = inbox[w], !.pc = "recoverExisting"])
     ELSE Exit(w)
  /\ UNCHANGED <<store, daemon, bounds, history>>

RecoverExisting(w) ==
  /\ At(w, "recoverExisting")
  /\ LET r == task[w].rec
     IN Become(w, [task[w] EXCEPT !.rec = IF OutboxOf(w) = {} THEN Undrafted(r) ELSE r,
                     !.pc = "giveUp"])
  /\ UNCHANGED <<store, daemon, bounds, history>>

GiveUp(w) ==
  /\ At(w, "giveUp")
  /\ PutInbox(w, [task[w].rec EXCEPT !.autoError = TRUE])
  /\ Exit(w)
  /\ UNCHANGED <<outbox, archive, done, cache, log, daemon, bounds, history>>

-----------------------------------------------------------------------------
(* The owner's commands. Each reads inbox/<id> once and works on that copy.    *)

DraftGateAnyState(r) == r.state # "none"
DraftGate(r) == r.state \in {"pending", "drafted"}
EditGate(q, r) == Kind[q] = "question" /\ r.draft # 0
SendGate(r) == r.state = "drafted" /\ r.draft # 0

Load(c, op, q, pc) ==
  /\ At(c, "idle") /\ InInbox(q)
  /\ Become(c, [Idle EXCEPT !.op = op, !.q = q, !.rec = inbox[q], !.pc = pc,
                  !.threaded = op = "send" /\ q \in Snippet])
  /\ UNCHANGED <<store, daemon, bounds, history>>

Draft(c, q) == DraftGate(inbox[q]) /\ Load(c, "draft", q, "existing")
Edit(c, q) == EditGate(q, inbox[q]) /\ Load(c, "edit", q, "existing")
BeforeSend(q) ==
  IF Kind[q] = "question" /\ q \notin Snippet /\ ThreadOf[q] # NoThread
  THEN "sendThreadDone" ELSE "existing"
Send(c, q) == SendGate(inbox[q]) /\ Load(c, "send", q, BeforeSend(q))
Reject(c, q) == Load(c, "reject", q, "finish")
Seen(c, q) == Load(c, "seen", q, "put")

(* The harness, the file, the tool or the owner's editor gave a new text.      *)
Drafted(p) ==
  /\ At(p, "drafting") /\ texts < MaxTexts
  /\ texts' = texts + 1
  /\ LET t == task[p]
         r == IF t.op = "edit" THEN [t.rec EXCEPT !.draft = texts + 1]
              ELSE [state |-> "drafted", draft |-> texts + 1, autoError |-> FALSE]
     IN Become(p, [t EXCEPT !.rec = r, !.pc = "put"])
  /\ UNCHANGED <<store, daemon, signed, posts, crashes, faults, history>>

(* The record in memory replaces the file, whatever the file holds by now. A   *)
(* worker goes on to `send` what it wrote; `owl allow` goes on to the next.    *)
AfterPut(t) == CASE t.op = "auto" -> BeforeSend(t.q) [] t.op = "allow" -> "next" [] OTHER -> "idle"

Put(p) ==
  /\ At(p, "put")
  /\ LET t == task[p]
     IN /\ PutInbox(t.q, t.rec)
        /\ consented' = IF t.op = "allow" THEN consented \union {t.q} ELSE consented
        /\ IF AfterPut(t) = "idle" THEN Exit(p)
           ELSE Become(p, [t EXCEPT !.pc = AfterPut(t),
                             !.threaded = t.op = "auto" /\ t.q \in Snippet])
  /\ UNCHANGED <<outbox, archive, done, cache, log, daemon, bounds, accepted, hits, told>>

-----------------------------------------------------------------------------
(* answer::send, by an `owl send` or a worker.                                  *)

SendThreadDone(p) ==
  /\ At(p, "sendThreadDone")
  /\ LET t == task[p]
         known == HeldInDone(t.q)
     IN Become(p, [t EXCEPT !.threaded = known,
                     !.pc = IF known THEN "existing" ELSE "sendThreadInbox"])
  /\ UNCHANGED <<store, daemon, bounds, history>>

SendThreadInbox(p) ==
  /\ At(p, "sendThreadInbox")
  /\ LET t == task[p]
         known == HeldIn(t.q, InboxIds)
     IN Become(p, [t EXCEPT !.threaded = known, !.pc = "existing"])
  /\ UNCHANGED <<store, daemon, bounds, history>>

(* existing_answer, asked by `owl draft`, `owl edit` and `send`: an envelope of   *)
(* the request in outbox/ (the first by id; any of them here). The first two      *)
(* commands refuse to go on when there is one.                                    *)
ExistingNever(q) == {}
ExistingAnswers(q) == OutboxOf(q)

EditAnyway(op, found) ==
  IF op \in {"draft", "edit"} THEN IF found /\ op = "draft" THEN "idle" ELSE "drafting"
  ELSE IF found THEN "log" ELSE "sign"
AfterExisting(op, found) ==
  IF op \in {"draft", "edit"} THEN IF found THEN "idle" ELSE "drafting"
  ELSE IF found THEN "log" ELSE "sign"

Existing(p) ==
  /\ At(p, "existing")
  /\ LET t == task[p]
         found == ExistingAnswers(t.q)
         pc == AfterExisting(t.op, found # {})
     IN \/ pc = "idle" /\ Exit(p)
        \/ pc # "idle" /\ found = {} /\ Become(p, [t EXCEPT !.env = NoEnvelope, !.pc = pc])
        \/ pc # "idle" /\ \E e \in found : Become(p, [t EXCEPT !.env = e, !.pc = pc])
  /\ UNCHANGED <<store, daemon, bounds, history>>

SendMode(p) == IF p \in Worker THEN "auto" ELSE "manual"
CacheableAlways(t) == Kind[t.q] = "question"
Cacheable(t) == Kind[t.q] = "question" /\ ~t.threaded

Sign(p) ==
  /\ At(p, "sign") /\ signed < MaxSigned
  /\ signed' = signed + 1
  /\ LET t == task[p]
         e == [id |-> signed + 1, q |-> t.q, text |-> t.rec.draft, mode |-> SendMode(p)]
     IN /\ outbox' = outbox \union {e}
        /\ Become(p, [t EXCEPT !.env = e, !.pc = IF Cacheable(t) THEN "cachePut" ELSE "log"])
  /\ UNCHANGED <<inbox, archive, done, cache, log, daemon, texts, posts, crashes, faults, history>>

CachePut(p) ==
  /\ At(p, "cachePut")
  /\ cache' = [cache EXCEPT ![HashOf[task[p].q]] = task[p].env]
  /\ Goto(p, "log")
  /\ UNCHANGED <<inbox, outbox, archive, done, log, daemon, bounds, history>>

HasOutgoingLineNever(q) == FALSE
LoggedIfSpooled(q) == OutboxOf(q) # {}
HasOutgoingLine(q) == log[q] # <<>>

CheckLog(p) ==
  /\ At(p, "log")
  /\ Goto(p, IF HasOutgoingLine(task[p].q) THEN "finish" ELSE "append")
  /\ UNCHANGED <<store, daemon, bounds, history>>

AppendLog(p) ==
  /\ At(p, "append")
  /\ LET t == task[p]
     IN log' = [log EXCEPT ![t.q] = Append(@, [text |-> t.rec.draft, mode |-> SendMode(p)])]
  /\ Goto(p, "finish")
  /\ UNCHANGED <<inbox, outbox, archive, done, cache, daemon, bounds, history>>

(* answer::finish, for send, reject and deny: done/ first, then inbox/.         *)
FinalState(op) ==
  CASE op = "reject" -> "rejected" [] op = "deny" -> "denied" [] OTHER -> "answered"

FinishUnchecked(p) ==
  /\ At(p, "finish")
  /\ LET t == task[p]
     IN done' \in {done, [done EXCEPT ![t.q] = [state |-> FinalState(t.op), answer |-> t.env.id]]}
  /\ Goto(p, "unlink")
  /\ UNCHANGED <<inbox, outbox, archive, cache, log, daemon, bounds, history>>

Finish(p) ==
  /\ At(p, "finish")
  /\ LET t == task[p]
     IN done' = [done EXCEPT ![t.q] = [state |-> FinalState(t.op), answer |-> t.env.id]]
  /\ Goto(p, "unlink")
  /\ UNCHANGED <<inbox, outbox, archive, cache, log, daemon, bounds, history>>

(* A file that is already gone is an error: a command ends, a worker recovers.  *)
Unlink(p) ==
  /\ At(p, "unlink")
  /\ LET t == task[p]
     IN /\ PutInbox(t.q, NoRecord)
        /\ CASE t.op = "auto" /\ ~InInbox(t.q) -> Goto(p, "recover")
             [] t.op = "deny" /\ InInbox(t.q) -> Goto(p, "next")
             [] OTHER -> Exit(p)
  /\ UNCHANGED <<outbox, archive, done, cache, log, daemon, bounds, history>>

-----------------------------------------------------------------------------
(* `owl allow` and `owl deny`: the contact book, then one listing of inbox/,     *)
(* then the held records one by one. Allow reads each again, deny does not.      *)

OfPeer(peer) == {q \in Question : From[q] = peer}

Allow(c, peer, mode) ==
  /\ At(c, "idle") /\ mode \in Policies \ {"never"}
  /\ policy' = IF mode = "once" THEN policy ELSE [policy EXCEPT ![peer] = mode]
  /\ Become(c, [Idle EXCEPT !.op = "allow", !.todo = OfPeer(peer), !.pc = "list"])
  /\ UNCHANGED <<store, seen, unsaved, offered, bounds, history>>

Deny(c, peer) ==
  /\ At(c, "idle") /\ "never" \in Policies
  /\ policy' = [policy EXCEPT ![peer] = "never"]
  /\ Become(c, [Idle EXCEPT !.op = "deny", !.todo = OfPeer(peer), !.pc = "list"])
  /\ UNCHANGED <<store, seen, unsaved, offered, bounds, history>>

Held(q) == inbox[q].state = "consent"

List(c) ==
  /\ At(c, "list")
  /\ Become(c, [task[c] EXCEPT !.todo = {q \in @ : Held(q)}, !.pc = "next"])
  /\ UNCHANGED <<store, daemon, bounds, history>>

TakeNext(c) ==
  /\ At(c, "next")
  /\ LET t == task[c]
         take(q) == [t EXCEPT !.q = q, !.todo = @ \ {q}]
     IN \/ t.todo = {} /\ Exit(c)
        \/ \E q \in t.todo :
             CASE t.op = "deny" -> Become(c, [take(q) EXCEPT !.pc = "finish"])
               [] t.op = "allow" /\ InInbox(q) ->
                    Become(c, [take(q) EXCEPT !.rec = [inbox[q] EXCEPT !.state = "pending"],
                                 !.pc = "put"])
               [] OTHER -> Exit(c)
  /\ UNCHANGED <<store, daemon, bounds, history>>

-----------------------------------------------------------------------------
(* Faults. A command can be interrupted or fail at any step; the daemon can die  *)
(* and is restarted by the OS with what is on disk.                              *)

CliExit(c) ==
  /\ ~At(c, "idle") /\ faults < MaxFaults
  /\ faults' = faults + 1
  /\ Exit(c)
  /\ UNCHANGED <<store, daemon, texts, signed, posts, crashes, history>>

(* A request that fails half-way is answered 500. The id of one that fails in    *)
(* `remember` is in memory by then, and reaches the file with the next save.      *)
HandlerFails(h) ==
  /\ ~At(h, "idle") /\ faults < MaxFaults
  /\ faults' = faults + 1
  /\ LET added == IF At(h, "remember") THEN {task[h].q} \ seen ELSE {}
     IN seen' = seen \union added /\ unsaved' = unsaved \union added
  /\ Exit(h)
  /\ UNCHANGED <<store, policy, offered, texts, signed, posts, crashes, history>>

Restart ==
  /\ crashes < MaxCrashes
  /\ crashes' = crashes + 1
  /\ task' = [p \in Proc |-> IF p \in Cli THEN task[p] ELSE Idle]
  /\ offered' = {}
  /\ seen' = seen \ unsaved /\ unsaved' = {}
  /\ UNCHANGED <<store, policy, texts, signed, posts, faults, history>>

HandlerStep(h) ==
  \/ PostThreadDone(h) \/ PostThreadInbox(h) \/ CacheGet(h) \/ Spool(h) \/ Remember(h)
  \/ PollOutbox(h) \/ PollDone(h)

SendStep(p) ==
  \/ Drafted(p) \/ Put(p)
  \/ SendThreadDone(p) \/ SendThreadInbox(p) \/ Existing(p) \/ Sign(p) \/ CachePut(p)
  \/ CheckLog(p) \/ AppendLog(p) \/ Finish(p) \/ Unlink(p)

WorkerStep(w) ==
  \/ AutoRead(w) \/ DraftFail(w) \/ Recover(w) \/ RecoverExisting(w) \/ GiveUp(w)
  \/ SendStep(w)

CliStep(c) ==
  \/ \E q \in Question : Draft(c, q) \/ Edit(c, q) \/ Send(c, q) \/ Reject(c, q) \/ Seen(c, q)
  \/ \E peer \in Peer : Deny(c, peer) \/ \E mode \in Policies : Allow(c, peer, mode)
  \/ List(c) \/ TakeNext(c) \/ SendStep(c) \/ CliExit(c)

Next ==
  \/ \E h \in Handler : HandlerStep(h) \/ HandlerFails(h) \/ \E q \in Question : Post(h, q) \/ Poll(h, q)
  \/ \E w \in Worker : Claim(w) \/ WorkerStep(w) \/ IoFailure(w)
  \/ \E c \in Cli : CliStep(c)
  \/ Ack \/ Expire \/ Scan \/ Restart
  \/ \E hash \in Hash : StoreAnswer(hash)

Spec == Init /\ [][Next]_vars

(* The daemon's own threads keep running; nobody owes a command, a poll or an    *)
(* ack. A harness run ends, by its timeout if need be.                            *)
FairSpec ==
  /\ Spec
  /\ WF_vars(Scan)
  /\ \A w \in Worker : WF_vars(Claim(w)) /\ WF_vars(WorkerStep(w))
  /\ \A h \in Handler : WF_vars(HandlerStep(h))

-----------------------------------------------------------------------------
StoreOK ==
  /\ inbox \in [Question -> Record] /\ done \in [Question -> Finished]
  /\ outbox \subseteq Envelope /\ archive \subseteq Envelope
  /\ cache \in [Hash -> Envelope \union {NoEnvelope, Foreign}]
  /\ log \in [Question -> Seq(Line)]
DaemonOK ==
  /\ policy \in [Peer -> Mode]
  /\ seen \subseteq Question /\ unsaved \subseteq seen /\ offered \subseteq Question
TasksOK == task \in [Proc -> Task] /\ \A p \in Proc : AtWork(task[p])
BoundsOK ==
  /\ texts \in Nat /\ signed \in Nat /\ crashes \in Nat /\ faults \in Nat
  /\ posts \in [Question -> Nat]
HistoryOK ==
  /\ accepted \subseteq Question /\ consented \subseteq Question
  /\ hits \subseteq Question \X (Envelope \union {NoEnvelope, Foreign})
  /\ told \in [Question -> {"nothing", "open", "completed", "declined", "missing"}]

(* Every variable stays in its type, and a process at work on a request has one. *)
TypeOK == StoreOK /\ DaemonOK /\ TasksOK /\ BoundsOK /\ HistoryOK

(* Once the daemon has spooled a request it is always in inbox/ or in done/,    *)
(* whatever processes overlap, die or fail: `finish` writes done/ before it     *)
(* removes the inbox file, and no read-modify-write brings an empty record.     *)
QuestionKept == \A q \in accepted : InInbox(q) \/ InDone(q)

(* A poll of an accepted request never finds it nowhere, although find_task     *)
(* reads inbox/, outbox/ and done/ one after the other while the record moves.  *)
TaskNeverLost == \A q \in Question : told[q] # "missing"

(* The reply to a content or tool-call request is always signed by an `owl      *)
(* send`, whatever policy was written before, between or after its arrival and  *)
(* its release.                                                                 *)
HumanGate == \A e \in outbox \union archive : Kind[e.q] # "question" => e.mode = "manual"

(* No answer is signed for a request the owner never let through, by a policy   *)
(* in force at its admission or by `owl allow` of the held record.              *)
ConsentGate == \A e \in outbox \union archive : e.q \in consented

(* The responder implements Consent: the requests spooled, the ones let         *)
(* through, and the ones an envelope was signed for.                            *)
Promise == INSTANCE Consent WITH asked <- accepted, released <- consented,
                                 answered <- {e.q : e \in outbox \union archive}
KeepsConsent == Promise!Spec

(* A request finished as answered has its line in log/outgoing.jsonl: a         *)
(* finished request cannot be retried, so a missing line would stay missing.    *)
AnsweredIsLogged ==
  \A q \in Question : done[q].state = "answered" => log[q] # <<>>

(* An answer served from the cache is one this machine received for a question   *)
(* of its own, or one it sent: to a question with the same hash, which no thread  *)
(* or snippet tied to one exchange.                                               *)
HitWasSent ==
  \A h \in hits :
    h[2] # Foreign => /\ h[2] \in outbox \union archive
                      /\ HashOf[h[2].q] = HashOf[h[1]]
                      /\ {h[1], h[2].q} \intersect Snippet = {}

(* With one command at a time and no auto-accept: never two answers to one      *)
(* request wait in outbox/, however often `owl send` failed and was retried.    *)
OneInOutbox == \A q \in Question : Cardinality(OutboxOf(q)) <= 1

(* With one command at a time and no auto-accept: a request is logged once,     *)
(* however often `owl send` failed and was retried.                             *)
LoggedOnce == \A q \in Question : Len(log[q]) <= 1

(* With one command at a time and no auto-accept: the text in the log is the    *)
(* text of an answer that was signed, although a draft can be redone or edited  *)
(* between a failed `owl send` and its retry.                                   *)
LogSaysWhatWasSent ==
  \A q \in Question : \A i \in DOMAIN log[q] :
    \E e \in EnvelopeOf(q) : e.text = log[q][i].text

(* A pending question of an auto peer is always taken up again, across daemon   *)
(* restarts that lose the event and the worker: it gets drafted, answered, or   *)
(* marked for the human.                                                        *)
AutoTaken == \A q \in Question : ScanTakes(q) ~> ~ScanTakes(q)

-----------------------------------------------------------------------------
(* What the repository says and the code does not do: the first two are refuted *)
(* by a run each, the last by adding it to an instance with a fair daemon and a *)
(* restart.                                                                     *)

(* answer.rs:464: "an existing envelope for this question is reused rather than *)
(* signed and spooled twice": one request, one signed answer.                   *)
SignedOnce == \A q \in Question : Cardinality(EnvelopeOf(q)) <= 1

(* README, `owl reject`: "discard it, the peer gets no answer": a request the    *)
(* owner rejected stays rejected.                                               *)
RejectStands ==
  [][\A q \in Question : done[q].state = "rejected" => done'[q].state = "rejected"]_done

(* auto.rs:7: the scan takes up what a daemon restart stranded: an accepted     *)
(* question of an auto peer ends up answered or marked for the human.           *)
AutoSettles ==
  \A q \in Question : (InInbox(q) /\ policy[From[q]] = "auto") ~> (InDone(q) \/ inbox[q].autoError)
=============================================================================
